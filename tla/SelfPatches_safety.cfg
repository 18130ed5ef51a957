CONSTANTS
  Loader = {l1, l2}
  Reader = {r1}
  Caller = {c1, c2}
  Nobody = nobody
  Cpus = 2
SPECIFICATION LiveSpec
INVARIANTS DelayUnpatched PatchedAgain
PROPERTY LoadEnds
CHECK_DEADLOCK FALSE

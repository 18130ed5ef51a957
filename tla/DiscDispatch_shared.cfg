CONSTANTS
  t1 = t1
  t2 = t2
  t3 = t3
  h1 = h1
  Thread = {t1, t2}
  VshThread = {t1, t2}
  Storage = storage
  Dispatcher = dispatcher
  Nobody = nobody
  Handle = {h1}
  HandleOf <- SharedHandle
  Disc = {d1}
  Off = off
  MaxSectors = 2
  MaxCalls = 1
SPECIFICATION FairSpec
PROPERTIES Answered MutexReleasedUnlessCycle ServiceSpec
CHECK_DEADLOCK FALSE

--------------------------- MODULE MCDiscDispatch ---------------------------
EXTENDS DiscDispatchProps, TLC

CONSTANTS t1, t2, t3, h1

\* One handle used by all threads.
SharedHandle == [t \in Thread |-> h1]

Symmetry ==
  Permutations(VshThread) \cup Permutations(Thread \ VshThread) \cup Permutations(Disc)
=============================================================================

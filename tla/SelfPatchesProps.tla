-------------------------- MODULE SelfPatchesProps --------------------------
(* What the loading of a SELF relies on.                                   *)
EXTENDS SelfPatches

PatchedIn == patched /\ syscallHook /\ \A h \in Hook : at[h] = "jump"
PatchedOut == ~patched /\ ~syscallHook /\ \A h \in Hook : at[h] = "original"

\* While a game's SELF is let through, nothing of the payload is left in the
\* kernel, unless two threads got into each other's results.
DelayUnpatched ==
  \A l \in Loader : pc[l] = "delay" /\ ~crossed => PatchedOut

\* No function is hooked twice: that would lose its first instruction.
HookedOnce == ~crossed => \A h \in Hook : saved[h] = "original"

\* A read that returns has been done.
ReadIsServed == \A r \in Reader : pc[r] = "read" /\ ~crossed => r \in served

\* Once the last load is over, the payload is back and nobody is held.
PatchedAgain == Loader \cap Using = {} /\ ~crossed => PatchedIn /\ sleep_done = 1

\* The hardware threads are all kept by system calls that wait for a load
\* which cannot go on: the console stands still.
Frozen == Cardinality(Spinning) >= Cpus /\ sleep_done = 0

\* A load comes to its end, unless threads got into each other's results or all
\* hardware threads are lost to system calls.
LoadEnds ==
  [](~crossed /\ ~Frozen) => \A l \in Loader : pc[l] # "idle" ~> pc[l] = "idle"
=============================================================================

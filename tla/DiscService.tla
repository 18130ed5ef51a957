---------------------------- MODULE DiscService ----------------------------
(***************************************************************************)
(* What the disc emulation of the payload (storage_ext.c) promises to the  *)
(* threads that read the BDVD drive: requests are served one at a time,    *)
(* each from the disc that is mounted when it is answered, and the disc is *)
(* not exchanged while a request is outstanding.                           *)
(***************************************************************************)
CONSTANTS
  Thread,   \* kernel threads that may use the drive
  Disc,     \* disc images that may be mounted
  Off       \* EMU_OFF: no image is mounted

VARIABLES
  mounted,  \* the image being emulated, or Off
  phase,    \* phase[t]: progress of t's request
  disc      \* disc[t]: the image t's answer was read from

vars == <<mounted, phase, disc>>

TypeOK ==
  /\ mounted \in Disc \cup {Off}
  /\ phase \in [Thread -> {"none", "asked", "answered"}]
  /\ disc \in [Thread -> Disc \cup {Off}]

Init ==
  /\ mounted = Off
  /\ phase = [t \in Thread |-> "none"]
  /\ disc = [t \in Thread |-> Off]

Quiet(Others) == \A u \in Others : phase[u] = "none"

Ask(t) ==
  /\ phase[t] \in {"none", "answered"}
  /\ Quiet(Thread \ {t})
  /\ phase' = [phase EXCEPT ![t] = "asked"]
  /\ disc' = [disc EXCEPT ![t] = Off]
  /\ UNCHANGED mounted

Answer(t) ==
  /\ phase[t] = "asked"
  /\ phase' = [phase EXCEPT ![t] = "answered"]
  /\ disc' = [disc EXCEPT ![t] = mounted]
  /\ UNCHANGED mounted

Done(t) ==
  /\ phase[t] = "answered"
  /\ phase' = [phase EXCEPT ![t] = "none"]
  /\ disc' = [disc EXCEPT ![t] = Off]
  /\ UNCHANGED mounted

Mount(d) ==
  /\ mounted = Off
  /\ Quiet(Thread)
  /\ mounted' = d
  /\ UNCHANGED <<phase, disc>>

Unmount ==
  /\ Quiet(Thread)
  /\ mounted' = Off
  /\ UNCHANGED <<phase, disc>>

Next ==
  \/ \E t \in Thread : Ask(t) \/ Answer(t) \/ Done(t)
  \/ \E d \in Disc : Mount(d)
  \/ Unmount

Safety == Init /\ [][Next]_vars

\* A request that was made is answered.
Spec == Safety /\ \A t \in Thread : WF_vars(Answer(t))
=============================================================================

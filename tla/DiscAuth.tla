------------------------------ MODULE DiscAuth ------------------------------
(* Authentication of discs, and discs found without an event: the hook of  *)
(* system call 864 (emu_disc_auth), get_disc_type, fake_reinsert and       *)
(* init_mount_hdd0, against the device events and commands of other        *)
(* threads.                                                                *)
(*                                                                         *)
(* Two things call hooks from inside: emu_disc_auth calls itself, told     *)
(* apart by a flag that all threads share, and get_disc_type sends its     *)
(* command through the hook of the drive, which locks the mutex again that *)
(* its caller holds.  The mutex refuses that; the unlock then succeeds.    *)
EXTENDS Naturals

CONSTANTS
  AuthThread,  \* threads of VSH that authenticate discs
  MountThread, \* the thread that runs init_mount_hdd0
  EventThread, \* the thread that delivers events of the drive
  PresentDisc, \* discs that can be put into the drive
  MaxSwaps,    \* bound: changes of the disc
  MaxAuths     \* bound: authentications

NoOwner == "free"
NoDisc == "none"
DiscThread == AuthThread \cup {MountThread, EventThread}

ASSUME AuthAssumption ==
  /\ MountThread # EventThread
  /\ {MountThread, EventThread} \cap AuthThread = {}
  /\ NoOwner \notin DiscThread /\ NoDisc \notin PresentDisc
  /\ MaxSwaps \in Nat /\ MaxAuths \in Nat

VARIABLES
  holder,   \* owner of the mutex
  inloop,   \* the static of emu_disc_auth
  apc,      \* where each thread is
  nested,   \* how many calls of emu_disc_auth wait for an inner one
  found,    \* disc type get_disc_type has found, or that an event carries
  drive,    \* the disc in the drive, an event that was not delivered yet
  known,    \* real_disctype
  unreadable, \* could_not_read_disc
  passed,   \* history: the last answer of each thread's authentication
  used      \* changes of the disc and authentications so far

authVars == <<holder, inloop, apc, nested, found, drive, known, unreadable, passed, used>>

AuthInit ==
  /\ holder = NoOwner /\ inloop = FALSE
  /\ apc = [t \in DiscThread |-> "idle"]
  /\ nested = [t \in DiscThread |-> 0]
  /\ found = [t \in DiscThread |-> NoDisc]
  /\ drive = [disc |-> NoDisc, event |-> FALSE]
  /\ known = NoDisc
  /\ unreadable = FALSE
  /\ passed = [t \in DiscThread |-> TRUE]
  /\ used = [swaps |-> 0, auths |-> 0, mounts |-> 0]

Go(t, place) == apc' = [apc EXCEPT ![t] = place]
At(t, place) == apc[t] = place

-----------------------------------------------------------------------------
(* System call 864 with 0x5007: the answer is faked, with the result of the *)
(* drive thrown away.                                                       *)

CallAuth(t) ==
  /\ At(t, "idle") /\ used.auths < MaxAuths
  /\ Go(t, "test")
  /\ used' = [used EXCEPT !.auths = @ + 1]
  /\ UNCHANGED <<holder, inloop, nested, found, drive, known, unreadable, passed>>

TestLoop(t) ==
  /\ At(t, "test")
  /\ Go(t, IF inloop THEN "clear" ELSE "set")
  /\ UNCHANGED <<holder, inloop, nested, found, drive, known, unreadable, passed, used>>

\* The outer call sets the flag and calls the hook again.
SetLoop(t) ==
  /\ At(t, "set")
  /\ inloop' = TRUE
  /\ nested' = [nested EXCEPT ![t] = @ + 1]
  /\ Go(t, "test")
  /\ UNCHANGED <<holder, found, drive, known, unreadable, passed, used>>

\* Mutant: the inner call leaves the flag to the outer one.
ClearLoopNot(t) ==
  /\ At(t, "clear")
  /\ Go(t, "auth")
  /\ UNCHANGED <<holder, inloop, nested, found, drive, known, unreadable, passed, used>>

\* The inner call clears it and lets the drive authenticate.
ClearLoop(t) ==
  /\ At(t, "clear")
  /\ inloop' = FALSE
  /\ Go(t, "auth")
  /\ UNCHANGED <<holder, nested, found, drive, known, unreadable, passed, used>>

\* The drive authenticates; an outer call returns 0 whatever it says.
EndAuth(t) ==
  /\ At(t, "auth")
  /\ \E ok \in BOOLEAN : passed' = [passed EXCEPT ![t] = ok \/ nested[t] > 0]
  /\ nested' = [nested EXCEPT ![t] = 0]
  /\ Go(t, "idle")
  /\ UNCHANGED <<holder, inloop, found, drive, known, unreadable, used>>

-----------------------------------------------------------------------------
(* Discs.                                                                  *)

ChangeDisc ==
  /\ used.swaps < MaxSwaps /\ ~drive.event
  /\ \E d \in (PresentDisc \cup {NoDisc}) \ {drive.disc} : drive' = [disc |-> d, event |-> TRUE]
  /\ used' = [used EXCEPT !.swaps = @ + 1]
  /\ UNCHANGED <<holder, inloop, apc, nested, found, known, unreadable, passed>>

\* device_event: the event is on its way, the lock is awaited, the types are set.
BeginEvent ==
  /\ At(EventThread, "idle") /\ drive.event
  /\ drive' = [drive EXCEPT !.event = FALSE]
  /\ found' = [found EXCEPT ![EventThread] = drive.disc]
  /\ Go(EventThread, "lock")
  /\ UNCHANGED <<holder, inloop, nested, known, unreadable, passed, used>>

Lock(t) ==
  /\ At(t, "lock") /\ holder = NoOwner
  /\ holder' = t
  /\ Go(t, IF t = EventThread THEN "insert" ELSE IF t = MountThread THEN "look" ELSE "reauth")
  /\ UNCHANGED <<inloop, nested, found, drive, known, unreadable, passed, used>>

\* process_disc_insert, or the removal.  is_psx may fail to read the disc.
Insert(t) ==
  /\ At(t, "insert")
  /\ known' = found[t]
  /\ unreadable' \in IF found[t] = NoDisc THEN {unreadable} ELSE BOOLEAN
  /\ Go(t, "unlock")
  /\ UNCHANGED <<holder, inloop, nested, found, drive, passed, used>>

\* mutex_unlock changes nothing when another thread, or none, holds the mutex.
Unlock(t) ==
  /\ At(t, "unlock")
  /\ holder' = IF holder = t THEN NoOwner ELSE holder
  /\ Go(t, "idle")
  /\ UNCHANGED <<inloop, nested, found, drive, known, unreadable, passed, used>>

-----------------------------------------------------------------------------
(* A disc is looked for: init_mount_hdd0 when it knows of none, and system *)
(* call 864 with 0x29 after a disc that could not be read.                 *)

BeginMountHdd0 ==
  /\ At(MountThread, "idle") /\ used.mounts = 0
  /\ used' = [used EXCEPT !.mounts = 1]
  /\ Go(MountThread, "lock")
  /\ UNCHANGED <<holder, inloop, nested, found, drive, known, unreadable, passed>>

LookForDisc ==
  /\ At(MountThread, "look")
  /\ Go(MountThread, IF known = NoDisc THEN "command" ELSE "unlock")
  /\ UNCHANGED <<holder, inloop, nested, found, drive, known, unreadable, passed, used>>

BeginReauth(t) ==
  /\ t \in AuthThread /\ At(t, "idle") /\ unreadable
  /\ unreadable' = FALSE
  /\ Go(t, "lock")
  /\ UNCHANGED <<holder, inloop, nested, found, drive, known, passed, used>>

Reauth(t) ==
  /\ At(t, "reauth")
  /\ \E ok \in BOOLEAN : Go(t, IF ok THEN "command" ELSE "unlock")
  /\ UNCHANGED <<holder, inloop, nested, found, drive, known, unreadable, passed, used>>

\* get_disc_type: the command goes through the hook, whose lock fails, as its
\* own thread holds the mutex; the drive is asked, and the hook unlocks.
SendCommand(t) ==
  /\ At(t, "command")
  /\ found' = [found EXCEPT ![t] = drive.disc]
  /\ holder' = NoOwner
  /\ Go(t, IF drive.disc = NoDisc /\ t = MountThread THEN "unlock" ELSE "insert")
  /\ UNCHANGED <<inloop, nested, drive, known, unreadable, passed, used>>

AuthNext ==
  \/ ChangeDisc \/ BeginEvent \/ BeginMountHdd0 \/ LookForDisc
  \/ \E t \in AuthThread :
       CallAuth(t) \/ TestLoop(t) \/ SetLoop(t) \/ ClearLoop(t) \/ EndAuth(t)
         \/ BeginReauth(t) \/ Reauth(t)
  \/ \E t \in DiscThread : Lock(t) \/ Insert(t) \/ Unlock(t) \/ SendCommand(t)

AuthSpec == AuthInit /\ [][AuthNext]_authVars

-----------------------------------------------------------------------------
\* However authentications overlap, when no thread is in a hook the flag is clear
\* and the mutex free: the next disc is authenticated like the first.
NothingHeldAtRest ==
  (\A t \in DiscThread : At(t, "idle")) => ~inloop /\ holder = NoOwner

\* Every authentication is faked.  Not so: one that comes between the two calls
\* of another is taken for the inner one and gets the answer of the drive.
AuthAlwaysPasses == \A t \in AuthThread : passed[t]

\* When all events are delivered, the type that is known is that of the disc in
\* the drive.  Not so: the lock of get_disc_type is gone when its answer is used.
KnowsPresentDisc ==
  (~drive.event /\ \A t \in DiscThread : At(t, "idle")) /\ used.mounts = 1 => known = drive.disc
=============================================================================

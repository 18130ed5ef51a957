---------------------------- MODULE DiscDispatch ----------------------------
(***************************************************************************)
(* Threads, locks and queues of the disc emulation (storage_ext.c).        *)
(*                                                                         *)
(* Threads that read the BDVD drive or send it commands enter the hooked   *)
(* kernel functions, take the global mutex (some of them the mutex of      *)
(* their storage handle too) and, when an image is mounted, pass the work  *)
(* to one dispatcher thread through a queue of one element and wait for    *)
(* the answer in a second queue of one element.  The storage manager's     *)
(* thread reports insertions and ejections through device_event, which     *)
(* takes the mutex unless `loop` says that the event is a faked one.       *)
(*                                                                         *)
(* The mutex is not recursive: a lock by its owner fails, an unlock by     *)
(* anybody else too, and no caller looks at either.  emu_disc_auth loses   *)
(* it that way, inside get_disc_type, and fakes its events without it.     *)
(* init_mount_hdd0, which runs once before VSH can mount anything and      *)
(* loses the mutex in the same way, is in DiscAuth.                        *)
(*                                                                         *)
(* Sector data is abstracted to the image it was read from; the state of a *)
(* mounted image is in DiscMount, the caches in CdCache.                   *)
(***************************************************************************)
EXTENDS Naturals, Sequences

CONSTANTS
  Thread,      \* threads that enter the hooked functions
  VshThread,   \* those of VSH, the process whose authentications reinsert a disc
  Storage,     \* the storage manager's thread that delivers device events
  Dispatcher,  \* the thread of dispatch_thread_entry
  Nobody,      \* owner of a free mutex
  Handle,      \* storage handles, each with a mutex of its own
  HandleOf,    \* HandleOf[t]: the handle t passes to the async calls
  Disc,        \* images that may be mounted
  Off,         \* EMU_OFF
  MaxSectors,  \* bound on the sectors of one READ CD command
  MaxCalls     \* bound on the nested calls of emu_disc_auth

Actor == Thread \cup {Storage, Dispatcher}

ASSUME ConstantAssumption ==
  /\ Storage \notin Thread
  /\ VshThread \subseteq Thread
  /\ Dispatcher \notin Thread \cup {Storage}
  /\ Nobody \notin Actor
  /\ HandleOf \in [Thread -> Handle]
  /\ Off \notin Disc
  /\ MaxSectors \in Nat \ {0}
  /\ MaxCalls \in Nat \ {0}

VARIABLES
  pc,         \* pc[t]: where t is in the hooked function or syscall
  op,         \* op[t]: the function t is in
  cmd,        \* cmd[t]: the command t sends to the dispatcher
  todo,       \* todo[t]: sectors still to read, or events still to fake
  seen,       \* seen[t]: disc_emulation as t found it under the mutex
  calls,      \* calls[t]: calls of emu_disc_auth for 0x29 that t is in
  mutex,      \* owner of the global mutex
  smutex,     \* smutex[h]: owner of the mutex of handle h
  commandQ,   \* command_queue, one element
  resultQ,    \* result_queue, one element
  dpc,        \* where the dispatcher is
  dcmd,       \* the command the dispatcher works on
  serving,    \* the image it found mounted when it took the command
  emu,        \* disc_emulation: the mounted image, or Off
  skip,       \* skip_emu_check
  loop,       \* loop: 1 while an event is being faked
  unread,     \* could_not_read_disc
  evAt,       \* evAt[a]: where actor a is in device_event
  evKind,     \* evKind[a]: the event it reports
  evLock,     \* evLock[a]: its local variable `lock`
  crossed     \* history: a reinsertion cleared `loop` before the event that the
              \* dispatcher fakes had looked at it

threadVars == <<pc, op, cmd, todo, seen, calls>>
lockVars == <<mutex, smutex>>
queueVars == <<commandQ, resultQ>>
dispatchVars == <<dpc, dcmd, serving, skip>>
eventVars == <<loop, evAt, evKind, evLock, crossed>>
vars == <<threadVars, lockVars, queueVars, dispatchVars, emu, unread, eventVars>>

Op == {"none", "read", "storage_read", "async_read", "command", "async_command",
       "fake_event", "disc_auth", "mount", "remount", "umount"}

Cmd == {"read", "video", "event"}
Event == {"insert", "eject", "other"}
Command == [kind : Cmd, from : Thread]
NoCommand == [kind |-> "read", from |-> Nobody]
Result == [from : Thread, disc : Disc \cup {Off}]
QueueOf(S) == {<<>>} \cup {<<x>> : x \in S}

At(t, from, to) == pc[t] = from /\ pc' = [pc EXCEPT ![t] = to]

\* Leaving the hooked function; locals are dead from here on.
Return(t, from) == At(t, from, "idle") /\ op' = [op EXCEPT ![t] = "none"]

-----------------------------------------------------------------------------
(* Entering a hooked function, up to the global mutex.                     *)

\* Every entry point; emu_disc_auth goes on only when the last insertion
\* could not read the disc, and forgets that before it takes the mutex.
Begin(t) ==
  \E o \in Op \ {"none"} :
    /\ At(t, "idle", CASE o = "storage_read" -> "check_skip"
                       [] o = "async_command" -> "lock_handle"
                       [] OTHER -> "lock")
    /\ o = "disc_auth" => unread /\ t \in VshThread
    /\ unread' = (unread /\ o # "disc_auth")
    /\ op' = [op EXCEPT ![t] = o]
    /\ calls' = [calls EXCEPT ![t] = IF o = "disc_auth" THEN 1 ELSE 0]
    /\ UNCHANGED <<cmd, todo, seen, lockVars, queueVars, dispatchVars, emu, eventVars>>

\* emu_storage_read returns the real drive's answer while skip_emu_check, and
\* is a read like the others otherwise.
CheckSkip(t) ==
  /\ \/ ~skip /\ At(t, "check_skip", "lock") /\ op' = [op EXCEPT ![t] = "read"]
     \/ skip /\ Return(t, "check_skip")
  /\ UNCHANGED <<cmd, todo, seen, calls, lockVars, queueVars, dispatchVars, emu, unread,
                 eventVars>>

\* The handle's mutex: before the global one in the asynchronous command,
\* after it in the asynchronous read.
LockHandle(t) ==
  /\ \/ At(t, "lock_handle", "lock")
     \/ At(t, "lock_handle_inner", "send")
  /\ smutex[HandleOf[t]] = Nobody
  /\ smutex' = [smutex EXCEPT ![HandleOf[t]] = t]
  /\ UNCHANGED <<op, cmd, todo, seen, calls, mutex, queueVars, dispatchVars, emu, unread,
                 eventVars>>

LockMutex(t) ==
  /\ At(t, "lock", "locked")
  /\ mutex = Nobody
  /\ mutex' = t
  /\ UNCHANGED <<op, cmd, todo, seen, calls, smutex, queueVars, dispatchVars, emu, unread,
                 eventVars>>

-----------------------------------------------------------------------------
(* Under the mutex.                                                        *)

\* Hand a command of kind k, repeated n times, to the dispatcher next.
Prepare(t, k, n, next) ==
  /\ At(t, "locked", next)
  /\ cmd' = [cmd EXCEPT ![t] = k]
  /\ todo' = [todo EXCEPT ![t] = n]
  /\ seen' = [seen EXCEPT ![t] = emu]
  /\ UNCHANGED <<op, calls, lockVars, queueVars, dispatchVars, emu, unread, eventVars>>

\* Mutant: the EBUSY return of a mount forgets to unlock.
NotDispatchedLeak(t) ==
  /\ \/ /\ At(t, "locked", "unlock")
        /\ op[t] \in {"read", "async_read"} /\ emu = Off
        /\ UNCHANGED op
     \/ op[t] \in {"command", "async_command"} /\ At(t, "locked", "unlock") /\ UNCHANGED op
     \/ op[t] = "mount" /\ emu # Off /\ Return(t, "locked")
  /\ UNCHANGED <<cmd, todo, seen, calls, lockVars, queueVars, dispatchVars, emu, unread, eventVars>>

\* No emulation, or nothing the dispatcher is needed for: the result of the
\* original function, or one made up on the spot, is returned.
NotDispatched(t) ==
  /\ At(t, "locked", "unlock")
  /\ \/ op[t] \in {"read", "async_read"} /\ emu = Off
     \/ op[t] \in {"command", "async_command"}
     \/ op[t] = "mount" /\ emu # Off   \* EBUSY
  /\ UNCHANGED <<op, cmd, todo, seen, calls, lockVars, queueVars, dispatchVars, emu, unread,
                 eventVars>>

\* do_read_iso of the read hooks.
StartRead(t) ==
  /\ op[t] \in {"read", "async_read"}
  /\ emu # Off
  /\ Prepare(t, "read", 1, IF op[t] = "async_read" THEN "lock_handle_inner" ELSE "send")

\* process_cmd: READ CD asks for one sector after the other; the device size
\* makes do_video_mode_patch ask for the video mode of a PSX disc.
StartCommand(t) ==
  /\ op[t] \in {"command", "async_command"}
  /\ \/ emu # Off /\ \E n \in 1..MaxSectors : Prepare(t, "read", n, "send")
     \/ Prepare(t, "video", 1, "send")

StartFakeEvent(t) == op[t] = "fake_event" /\ Prepare(t, "event", 1, "send")

Mount(t) ==
  /\ op[t] = "mount"
  /\ emu = Off
  /\ At(t, "locked", "unlock")
  /\ emu' \in Disc \cup {Off}        \* Off when a file is missing or invalid
  /\ UNCHANGED <<op, cmd, todo, seen, calls, lockVars, queueVars, dispatchVars, unread, eventVars>>

\* Mutant: unmounting without the mutex.
UmountUnlocked(t) ==
  /\ op[t] = "umount"
  /\ Return(t, "lock")
  /\ emu' = Off
  /\ UNCHANGED <<cmd, todo, seen, calls, lockVars, queueVars, dispatchVars, unread, eventVars>>

Umount(t) ==
  /\ op[t] \in {"umount", "remount"}
  /\ At(t, "locked", "unlock")
  /\ emu' = Off
  /\ UNCHANGED <<op, cmd, todo, seen, calls, lockVars, queueVars, dispatchVars, unread, eventVars>>

\* Mutant: a faked event is sent without waiting for its result.
SendAndForget(t) ==
  /\ commandQ' = IF commandQ = <<>> THEN <<[kind |-> cmd[t], from |-> t]>> ELSE commandQ
  /\ At(t, "send", IF op[t] = "fake_event" THEN "unlock" ELSE "receive")
  /\ UNCHANGED <<op, cmd, todo, seen, calls, lockVars, resultQ, dispatchVars, emu, unread, eventVars>>

\* event_port_send to the command queue.  When the queue is full the send
\* fails: only sys_storage_ext_fake_storage_event looks at that.
Send(t) ==
  /\ \/ /\ commandQ = <<>>
        /\ commandQ' = <<[kind |-> cmd[t], from |-> t]>>
        /\ At(t, "send", "receive")
     \/ /\ commandQ # <<>>
        /\ At(t, "send", IF op[t] = "fake_event" THEN "unlock" ELSE "receive")
        /\ UNCHANGED commandQ
  /\ UNCHANGED <<op, cmd, todo, seen, calls, lockVars, resultQ, dispatchVars, emu, unread,
                 eventVars>>

\* Mutant: the wait for the result may time out.
ReceiveTimeout(t) ==
  /\ \/ resultQ # <<>> /\ resultQ' = <<>>
     \/ UNCHANGED resultQ
  /\ At(t, "receive", IF op[t] = "async_read" THEN "unlock_handle_inner" ELSE "unlock")
  /\ todo' = [todo EXCEPT ![t] = @ - 1]
  /\ UNCHANGED <<op, cmd, seen, calls, lockVars, commandQ, dispatchVars, emu, unread, eventVars>>

\* event_queue_receive from the result queue, without a timeout.
Receive(t) ==
  /\ resultQ # <<>>
  /\ resultQ' = <<>>
  /\ todo' = [todo EXCEPT ![t] = @ - 1]
  /\ \/ At(t, "receive", IF op[t] = "async_read" THEN "unlock_handle_inner" ELSE "unlock")
     \/ todo[t] > 1 /\ At(t, "receive", "send")
  /\ UNCHANGED <<op, cmd, seen, calls, lockVars, commandQ, dispatchVars, emu, unread, eventVars>>

UnlockHandle(t) ==
  /\ \/ At(t, "unlock_handle_inner", "unlock") /\ UNCHANGED op
     \/ Return(t, "unlock_handle")
  /\ smutex' = [smutex EXCEPT ![HandleOf[t]] = Nobody]
  /\ UNCHANGED <<cmd, todo, seen, calls, mutex, queueVars, dispatchVars, emu, unread,
                 eventVars>>

\* mutex_unlock by the thread t (or the event of actor t).
Released(t) == IF mutex = t THEN Nobody ELSE mutex

\* The mount syscalls unmount first, in a critical section of its own.  When
\* an inner call of emu_disc_auth returns, the outer one goes on.
UnlockMutex(t) ==
  /\ \/ op[t] = "async_command" /\ At(t, "unlock", "unlock_handle") /\ UNCHANGED op
     \/ op[t] = "remount" /\ At(t, "unlock", "lock") /\ op' = [op EXCEPT ![t] = "mount"]
     \/ calls[t] > 1 /\ At(t, "unlock", "get_disc_type") /\ UNCHANGED op
     \/ op[t] \notin {"async_command", "remount"} /\ calls[t] <= 1 /\ Return(t, "unlock")
  /\ cmd' = [cmd EXCEPT ![t] = "read"]
  /\ todo' = [todo EXCEPT ![t] = 0]
  /\ seen' = [seen EXCEPT ![t] = Off]
  /\ calls' = [calls EXCEPT ![t] = IF @ = 0 THEN 0 ELSE @ - 1]
  /\ mutex' = Released(t)
  /\ UNCHANGED <<smutex, queueVars, dispatchVars, emu, unread, eventVars>>

-----------------------------------------------------------------------------
(* emu_disc_auth, in the critical section: the hook is called again, the    *)
(* drive asked for the type of its disc, and the disc reinserted.           *)

\* The inner call finds that a disc could not be read meanwhile, and does what
\* the outer one does; its lock fails, as its own thread holds the mutex.
CallAgain(t) ==
  /\ op[t] = "disc_auth" /\ pc[t] = "locked"
  /\ unread /\ calls[t] < MaxCalls
  /\ unread' = FALSE
  /\ calls' = [calls EXCEPT ![t] = @ + 1]
  /\ UNCHANGED <<pc, op, cmd, todo, seen, lockVars, queueVars, dispatchVars, emu, eventVars>>

\* The inner call goes to the original function.  When that fails, all calls
\* under way only unlock and return.
Authenticate(t) ==
  /\ op[t] = "disc_auth"
  /\ ~unread \/ calls[t] = MaxCalls
  /\ \/ At(t, "locked", "get_disc_type") /\ UNCHANGED calls
     \/ At(t, "locked", "unlock") /\ calls' = [calls EXCEPT ![t] = 1]
  /\ UNCHANGED <<op, cmd, todo, seen, lockVars, queueVars, dispatchVars, emu, unread, eventVars>>

\* get_disc_type sends its command through the hook of the drive.  That locks
\* the mutex, in vain when t holds it, and releases it.  The hook is not
\* reached when the drive cannot be opened.
GetDiscType(t) ==
  /\ At(t, "get_disc_type", "reinsert")
  /\ \/ mutex \in {Nobody, t} /\ mutex' = Nobody
     \/ UNCHANGED mutex
  /\ todo' = [todo EXCEPT ![t] = 4]
  /\ UNCHANGED <<op, cmd, seen, calls, smutex, queueVars, dispatchVars, emu, unread, eventVars>>

-----------------------------------------------------------------------------
(* The dispatcher.                                                         *)

\* skip_emu_check is set around the reads of the real drive that
\* read_psx_sector makes when no image is mounted.
Take ==
  /\ dpc = "wait"
  /\ commandQ # <<>>
  /\ commandQ' = <<>>
  /\ dcmd' = Head(commandQ)
  /\ serving' = emu
  /\ skip' = (Head(commandQ).kind = "video" /\ emu = Off)
  /\ dpc' = IF Head(commandQ).kind = "event" THEN "event" ELSE "serve"
  /\ UNCHANGED <<threadVars, lockVars, resultQ, emu, unread, eventVars>>

Serve ==
  /\ dpc = "serve"
  /\ dpc' = "reply"
  /\ skip' = FALSE
  /\ UNCHANGED <<threadVars, lockVars, queueVars, dcmd, serving, emu, unread, eventVars>>

\* event_port_send to the result queue; when it is full the result is lost.
Reply ==
  /\ dpc = "reply"
  /\ dpc' = "wait"
  /\ resultQ' = IF resultQ = <<>> THEN <<[from |-> dcmd.from, disc |-> serving]>> ELSE resultQ
  /\ dcmd' = NoCommand
  /\ serving' = Off
  /\ UNCHANGED <<threadVars, lockVars, commandQ, skip, emu, unread, eventVars>>

-----------------------------------------------------------------------------
(* Device events.                                                          *)

\* A real event of the drive.
StorageEvent ==
  /\ evAt[Storage] = "none"
  /\ evAt' = [evAt EXCEPT ![Storage] = "sample"]
  /\ \E k \in Event : evKind' = [evKind EXCEPT ![Storage] = k]
  /\ UNCHANGED <<threadVars, lockVars, queueVars, dispatchVars, emu, unread, loop, evLock, crossed>>

\* Mutant: an event is faked without setting loop.
FakeEventWithoutLoop(a) ==
  /\ evAt[a] = "none"
  /\ (a = Dispatcher /\ dpc = "event") \/ (a \in Thread /\ pc[a] = "reinsert")
  /\ \E k \in Event : evKind' = [evKind EXCEPT ![a] = k]
  /\ evAt' = [evAt EXCEPT ![a] = "sample"]
  /\ UNCHANGED <<threadVars, lockVars, queueVars, dispatchVars, emu, unread, loop, evLock, crossed>>

\* process_fake_storage_event_cmd, up to the call of device_event: in the
\* dispatcher any event, in fake_reinsert 4 (eject), 8, 7 and 3 (insert).
FakeEvent(a) ==
  /\ evAt[a] = "none"
  /\ \E k \in Event :
       /\ \/ a = Dispatcher /\ dpc = "event"
          \/ /\ a \in Thread
             /\ pc[a] = "reinsert"
             /\ k = CASE todo[a] = 4 -> "eject" [] todo[a] = 1 -> "insert" [] OTHER -> "other"
       /\ evKind' = [evKind EXCEPT ![a] = k]
  /\ loop' = 1
  /\ evAt' = [evAt EXCEPT ![a] = "sample"]
  /\ UNCHANGED <<threadVars, lockVars, queueVars, dispatchVars, emu, unread, evLock, crossed>>

\* int lock = !loop, which only an insertion and an ejection look at.
SampleLoop(a) ==
  /\ evAt[a] = "sample"
  /\ evLock' = [evLock EXCEPT ![a] = (loop = 0 /\ evKind[a] # "other")]
  /\ evAt' = [evAt EXCEPT ![a] = IF evKind[a] = "other" THEN "done"
                                 ELSE IF loop = 0 THEN "lock" ELSE "update"]
  /\ UNCHANGED <<threadVars, lockVars, queueVars, dispatchVars, emu, unread, loop, evKind, crossed>>

\* Mutant: the event goes on although it could not lock.
EventLockIgnored(a) ==
  /\ evAt[a] = "lock"
  /\ evAt' = [evAt EXCEPT ![a] = "update"]
  /\ UNCHANGED <<threadVars, lockVars, queueVars, dispatchVars, emu, unread, loop, evKind, evLock, crossed>>

\* The event waits for the mutex, unless its own thread holds it.
EventLock(a) ==
  /\ evAt[a] = "lock"
  /\ mutex \in {Nobody, a}
  /\ mutex' = a
  /\ evAt' = [evAt EXCEPT ![a] = "update"]
  /\ UNCHANGED <<threadVars, smutex, queueVars, dispatchVars, emu, unread, loop, evKind, evLock, crossed>>

\* The disc types change here, and the locals are dead from here on;
\* process_disc_insert may fail to read the real disc, which it does when no
\* image is mounted.
EventUpdate(a) ==
  /\ evAt[a] = "update"
  /\ unread' \in CASE evKind[a] # "insert" -> {unread}
                   [] evKind[a] = "insert" /\ emu = Off -> BOOLEAN
                   [] OTHER -> {FALSE}
  /\ mutex' = IF evLock[a] THEN Released(a) ELSE mutex
  /\ evAt' = [evAt EXCEPT ![a] = "done"]
  /\ evKind' = [evKind EXCEPT ![a] = "other"]
  /\ evLock' = [evLock EXCEPT ![a] = FALSE]
  /\ UNCHANGED <<threadVars, smutex, queueVars, dispatchVars, emu, loop, crossed>>

\* The event is sent on: back from device_event.
EndEvent(a) ==
  /\ evAt[a] = "done"
  /\ evAt' = [evAt EXCEPT ![a] = "none"]
  /\ UNCHANGED <<evKind, evLock>>

StorageEventDone ==
  /\ EndEvent(Storage)
  /\ UNCHANGED <<threadVars, lockVars, queueVars, dispatchVars, emu, unread, loop, crossed>>

DispatchedEventDone ==
  /\ EndEvent(Dispatcher)
  /\ loop' = 0
  /\ crossed' = FALSE
  /\ dpc' = "reply"
  /\ UNCHANGED <<threadVars, lockVars, queueVars, dcmd, serving, skip, emu, unread>>

ReinsertedEventDone(t) ==
  /\ EndEvent(t)
  /\ loop' = 0
  /\ crossed' = (crossed \/ evAt[Dispatcher] = "sample")
  /\ todo' = [todo EXCEPT ![t] = @ - 1]
  /\ At(t, "reinsert", IF todo[t] = 1 THEN "unlock" ELSE "reinsert")
  /\ UNCHANGED <<op, cmd, seen, calls, lockVars, queueVars, dispatchVars, emu, unread>>

-----------------------------------------------------------------------------
Init ==
  /\ pc = [t \in Thread |-> "idle"]
  /\ op = [t \in Thread |-> "none"]
  /\ cmd = [t \in Thread |-> "read"]
  /\ todo = [t \in Thread |-> 0]
  /\ seen = [t \in Thread |-> Off]
  /\ calls = [t \in Thread |-> 0]
  /\ mutex = Nobody
  /\ smutex = [h \in Handle |-> Nobody]
  /\ commandQ = <<>>
  /\ resultQ = <<>>
  /\ dpc = "wait"
  /\ dcmd = NoCommand
  /\ serving = Off
  /\ emu = Off
  /\ skip = FALSE
  /\ loop = 0
  /\ unread = FALSE
  /\ evAt = [a \in Actor |-> "none"]
  /\ evKind = [a \in Actor |-> "other"]
  /\ evLock = [a \in Actor |-> FALSE]
  /\ crossed = FALSE

\* What a thread does once it has entered a hooked function.
Continue(t) ==
  \/ CheckSkip(t) \/ LockHandle(t) \/ LockMutex(t)
  \/ NotDispatched(t) \/ StartRead(t) \/ StartCommand(t) \/ StartFakeEvent(t)
  \/ CallAgain(t) \/ Authenticate(t) \/ GetDiscType(t)
  \/ Mount(t) \/ Umount(t)
  \/ Send(t) \/ Receive(t) \/ ReinsertedEventDone(t)
  \/ UnlockHandle(t) \/ UnlockMutex(t)

Dispatch == Take \/ Serve \/ Reply \/ DispatchedEventDone

DeviceEvent(a) == FakeEvent(a) \/ SampleLoop(a) \/ EventLock(a) \/ EventUpdate(a)

Next ==
  \/ \E t \in Thread : Begin(t) \/ Continue(t)
  \/ Dispatch
  \/ \E a \in Actor : DeviceEvent(a)
  \/ StorageEvent
  \/ StorageEventDone

Spec == Init /\ [][Next]_vars

(***************************************************************************)
(* Threads and the dispatcher are scheduled: a step that stays enabled is  *)
(* taken.  The mutexes are created with SYNC_PRIORITY, so a thread waiting *)
(* for one may be overtaken for ever: no strong fairness is assumed.       *)
(***************************************************************************)
Fairness ==
  /\ \A t \in Thread : WF_vars(Continue(t) \/ DeviceEvent(t))
  /\ WF_vars(Dispatch \/ DeviceEvent(Dispatcher))
  /\ WF_vars(StorageEventDone \/ DeviceEvent(Storage))

FairSpec == Spec /\ Fairness
=============================================================================

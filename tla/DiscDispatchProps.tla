------------------------- MODULE DiscDispatchProps -------------------------
(***************************************************************************)
(* Properties of DiscDispatch.                                             *)
(***************************************************************************)
EXTENDS DiscDispatch

\* Types of all the variables.
TypeOK ==
  /\ pc \in [Thread -> {"idle", "check_skip", "lock_handle", "lock", "locked",
                        "lock_handle_inner", "send", "receive", "get_disc_type",
                        "reinsert", "unlock_handle_inner", "unlock", "unlock_handle"}]
  /\ op \in [Thread -> Op]
  /\ cmd \in [Thread -> Cmd]
  /\ todo \in [Thread -> Nat]
  /\ seen \in [Thread -> Disc \cup {Off}]
  /\ calls \in [Thread -> Nat]
  /\ mutex \in Actor \cup {Nobody}
  /\ smutex \in [Handle -> Thread \cup {Nobody}]
  /\ commandQ \in QueueOf(Command)
  /\ resultQ \in QueueOf(Result)
  /\ dpc \in {"wait", "serve", "event", "reply"}
  /\ dcmd \in [kind : Cmd, from : Thread \cup {Nobody}]
  /\ serving \in Disc \cup {Off}
  /\ emu \in Disc \cup {Off}
  /\ skip \in BOOLEAN
  /\ loop \in {0, 1}
  /\ unread \in BOOLEAN
  /\ evAt \in [Actor -> {"none", "sample", "lock", "update", "done"}]
  /\ evKind \in [Actor -> Event]
  /\ evLock \in [Actor -> BOOLEAN]
  /\ crossed \in BOOLEAN

-----------------------------------------------------------------------------
(* Safety.                                                                 *)

\* A result that waits in result_queue while thread t waits for one is the
\* answer to t's own command, read from the image t found mounted: no result
\* is mixed up although event_queue_receive does not say whose it is.
OwnAnswer ==
  \A t \in Thread :
    pc[t] = "receive" /\ resultQ # <<>> => Head(resultQ) = [from |-> t, disc |-> seen[t]]

\* The queues hold one element and do_read_iso ignores a failing
\* event_port_send: it cannot fail, neither for a command nor for a result.
NoEventLost ==
  /\ \A t \in Thread : pc[t] = "send" => commandQ = <<>>
  /\ dpc = "reply" => resultQ = <<>>

\* The image that the dispatcher reads from is not unmounted (its DiscFile
\* freed, its descriptor closed) before the read is over.
ServedImageStaysMounted == dpc \in {"serve", "reply"} => emu = serving

\* The event that the dispatcher fakes waits for the mutex, which the thread
\* it fakes it for holds, only when another thread that reinserts a disc has
\* cleared `loop` in between.
FakedEventWaits == evAt[Dispatcher] = "lock" => crossed

\* Without the exception this is what `int lock = !loop` is for.  Not so: the
\* two then wait for each other for ever.
FakedEventTakesNoLock == evAt[Dispatcher] # "lock"

\* While skip_emu_check lets emu_storage_read through to the real drive, no
\* image is mounted that the reader should have been given instead.
SkipOnlyWhenOff == skip => emu = Off

Writing(a) == evAt[a] = "update"

\* Two actors change the disc types (process_disc_insert, device_event) at
\* the same time only when one of them is a real event that sampled `loop`
\* while an event was being faked, and so did not lock, or a thread that
\* reinserts a disc and has lost the mutex in get_disc_type.
OnlyUnlockedEventRaces ==
  \A a, b \in Actor :
    a # b /\ Writing(a) /\ Writing(b) =>
      \E c \in {a, b} : (c = Storage /\ ~evLock[c]) \/ (c \in Thread /\ mutex # c)

\* The mutex that emu_disc_auth takes guards its reinsertion.  Not so.
ReinsertsAlone == \A t \in Thread : pc[t] = "reinsert" => mutex = t

-----------------------------------------------------------------------------
(* The inductive invariant from which the safety properties follow.        *)

\* The program points at which a thread holds the global mutex: emu_disc_auth
\* may have lost it after the first.
Critical(t) ==
  \/ pc[t] \in {"locked", "lock_handle_inner", "send", "receive", "unlock_handle_inner"}
  \/ pc[t] = "unlock" /\ op[t] # "disc_auth"

\* Points at which emu_disc_auth may hold it.
Reinserting(t) == pc[t] \in {"get_disc_type", "reinsert", "unlock"} /\ op[t] = "disc_auth"

\* Who owns the mutex: a thread in a critical section, or in a reinsertion that
\* has not lost it, or an actor in the update of an event it locked for.
LockInv ==
  /\ \A t \in Thread : Critical(t) => mutex = t
  /\ \A t \in Thread : mutex = t => Critical(t) \/ Reinserting(t)
  /\ \A t \in Thread : pc[t] \in {"get_disc_type", "reinsert"} => op[t] = "disc_auth"
  /\ \A t \in Thread :
       op[t] = "disc_auth" => pc[t] \in {"lock", "locked", "get_disc_type", "reinsert", "unlock"}
  /\ \A a \in Actor : evAt[a] = "update" /\ evLock[a] => mutex = a
  /\ mutex = Storage => evAt[Storage] = "update" /\ evLock[Storage]
  /\ \A a \in Actor : evAt[a] = "lock" => evLock[a]
  /\ mutex # Dispatcher

\* The thread whose command or result is under way.
Waits(t) == t \in Thread /\ pc[t] = "receive"

\* At most one command is under way, in one of three places, and its sender
\* waits in the critical section in which it saw the mounted image.
QueueInv ==
  /\ \A t \in Thread : pc[t] \in {"lock_handle_inner", "send", "receive"} => seen[t] = emu
  /\ \A t \in Thread :
       pc[t] \in {"lock_handle_inner", "send", "receive", "reinsert"} => todo[t] > 0
  /\ \A t \in Thread : calls[t] > 1 => op[t] = "disc_auth"
  /\ commandQ # <<>> => /\ dpc = "wait" /\ resultQ = <<>>
                        /\ Waits(Head(commandQ).from)
                        /\ Head(commandQ).kind = cmd[Head(commandQ).from]
  /\ dpc # "wait" => /\ commandQ = <<>> /\ resultQ = <<>>
                     /\ Waits(dcmd.from)
                     /\ dcmd.kind = cmd[dcmd.from]
                     /\ serving = emu
  /\ resultQ # <<>> => /\ Waits(Head(resultQ).from)
                       /\ Head(resultQ).disc = emu
  /\ skip => dpc = "serve" /\ serving = Off

\* An event is faked by a thread that reinserts a disc, or by the dispatcher
\* for a thread that holds the mutex; `loop` is set until it looks, unless a
\* reinsertion has ended an event of its own meanwhile.
FakeInv ==
  /\ \A a \in Actor \ {Storage} :
       evAt[a] # "none" => /\ a = Dispatcher => dpc = "event"
                           /\ a # Dispatcher => pc[a] = "reinsert"
  /\ evAt[Dispatcher] = "sample" => loop = 1 \/ crossed
  /\ evAt[Dispatcher] = "update" => ~evLock[Dispatcher]
  /\ evAt[Dispatcher] = "lock" => crossed
  /\ \A a \in Actor : evAt[a] \in {"none", "done"} => ~evLock[a]

IInv == TypeOK /\ LockInv /\ QueueInv /\ FakeInv

-----------------------------------------------------------------------------
(* Liveness.                                                               *)

\* The dispatcher waits for the mutex that the thread holds for which it fakes
\* an event: a reinsertion has cleared `loop` at the wrong moment.
DispatcherBlocked == evAt[Dispatcher] = "lock" /\ crossed

\* A thread that waits for the dispatcher's result gets one; a faked event may
\* block the dispatcher, but a read or the video mode never does.
Answered ==
  \A t \in Thread :
    pc[t] = "receive" ~> pc[t] # "receive" \/ (cmd[t] = "event" /\ DispatcherBlocked)

\* Without the exception.  Not so.
AlwaysAnswered == \A t \in Thread : pc[t] = "receive" ~> pc[t] # "receive"

\* The asynchronous read takes the global mutex and then the handle's, the
\* asynchronous command the other way round.
LockCycle ==
  \E t, u \in Thread :
    /\ pc[t] = "lock_handle_inner" /\ mutex = t /\ smutex[HandleOf[t]] = u
    /\ pc[u] = "lock" /\ op[u] = "async_command"

\* The global mutex is always released again, unless the two asynchronous
\* calls lock each other out or a reinsertion has blocked the dispatcher.
MutexReleasedUnlessCycle == []<>(mutex = Nobody \/ LockCycle \/ DispatcherBlocked)

-----------------------------------------------------------------------------
(* Refinement.                                                             *)

Replied(t) == pc[t] = "receive" /\ resultQ # <<>> /\ Head(resultQ).from = t

Phase(t) ==
  IF cmd[t] = "event" \/ pc[t] \notin {"send", "receive"} THEN "none"
  ELSE IF Replied(t) THEN "answered" ELSE "asked"

phaseBar == [t \in Thread |-> Phase(t)]

discBar == [t \in Thread |-> IF Phase(t) = "answered" THEN Head(resultQ).disc ELSE Off]

Service == INSTANCE DiscService WITH mounted <- emu, phase <- phaseBar, disc <- discBar

\* The locks and queues implement the service that answers one request at a
\* time from the mounted image and answers every request.
ServiceSpec == Service!Spec
ServiceSafety == Service!Safety
=============================================================================

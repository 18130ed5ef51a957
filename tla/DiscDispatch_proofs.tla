------------------------ MODULE DiscDispatch_proofs -------------------------
(***************************************************************************)
(* Proofs about DiscDispatch, for any set of threads, handles and images.  *)
(* IInv (DiscDispatchProps) is inductive; the safety properties follow.  At *)
(* the end: DiscDispatch implements the safety part of DiscService.        *)
(***************************************************************************)
EXTENDS DiscDispatchProps, TLAPS

\* A queue of one element is empty or holds one element.
LEMMA QueueElement ==
  ASSUME NEW S, NEW q \in QueueOf(S), q # <<>>
  PROVE  Head(q) \in S /\ q = <<Head(q)>>
BY DEF QueueOf

\* A queue into which one element was put holds that element.
LEMMA SingletonQueue ==
  ASSUME NEW x
  PROVE  <<x>> # <<>> /\ Head(<<x>>) = x
OBVIOUS

\* The inductive invariant holds when storage_ext_init has run.
LEMMA InitIInv == Init => IInv
<1> SUFFICES ASSUME Init PROVE IInv
  OBVIOUS
<1> USE ConstantAssumption DEF Init
<1>1. TypeOK
  BY DEF TypeOK, Actor, Op, Cmd, Event, QueueOf, NoCommand
<1>2. LockInv
  BY DEF LockInv, Critical, Actor
<1>3. QueueInv
  BY DEF QueueInv
<1>4. FakeInv
  BY DEF FakeInv, Actor
<1> QED BY <1>1, <1>2, <1>3, <1>4 DEF IInv


\* A step of thread t that leaves the mutex and the events alone keeps LockInv
\* when t enters no critical section by it and leaves none it owns the mutex for.
LEMMA ThreadStepLock ==
  ASSUME TypeOK, LockInv, NEW t \in Thread,
         \A u \in Thread \ {t} : pc'[u] = pc[u] /\ op'[u] = op[u],
         UNCHANGED <<mutex, evAt, evLock>>,
         Critical(t)' => Critical(t),
         Critical(t) \/ Reinserting(t) => Critical(t)' \/ Reinserting(t)',
         pc'[t] \in {"get_disc_type", "reinsert"} => op'[t] = "disc_auth",
         op'[t] = "disc_auth" => pc'[t] \in {"lock", "locked", "get_disc_type", "reinsert", "unlock"}
  PROVE  LockInv'
<1>1. \A u \in Thread \ {t} : (Critical(u)' <=> Critical(u)) /\ (Reinserting(u)' <=> Reinserting(u))
  BY DEF Critical, Reinserting
<1> QED BY <1>1 DEF LockInv

\* Entering a hooked function touches no lock and no queue.
LEMMA BeginIInv ==
  ASSUME IInv, NEW t \in Thread, Begin(t)
  PROVE  IInv'
<1> USE ConstantAssumption DEF IInv, Begin, threadVars, lockVars, queueVars, dispatchVars, eventVars, At, Op
<1>1. TypeOK'
  BY DEF TypeOK, Actor
<1>2. LockInv'
  <2>1. /\ \A u \in Thread \ {t} : pc'[u] = pc[u] /\ op'[u] = op[u]
        /\ UNCHANGED <<mutex, evAt, evLock>>
    BY DEF TypeOK
  <2>2. /\ Critical(t)' => Critical(t)
        /\ Critical(t) \/ Reinserting(t) => Critical(t)' \/ Reinserting(t)'
        /\ pc'[t] \in {"get_disc_type", "reinsert"} => op'[t] = "disc_auth"
        /\ op'[t] = "disc_auth" => pc'[t] \in {"lock", "locked", "get_disc_type", "reinsert", "unlock"}
    BY DEF TypeOK, LockInv, Critical, Reinserting
  <2> QED BY <2>1, <2>2, ThreadStepLock
<1>3. QueueInv'
  BY QueueElement, SingletonQueue DEF TypeOK, LockInv, QueueInv, FakeInv, Critical, Reinserting, Waits, Actor
<1>4. FakeInv'
  BY QueueElement DEF TypeOK, LockInv, QueueInv, FakeInv, Critical, Reinserting, Waits, Actor
<1> QED BY <1>1, <1>2, <1>3, <1>4

\* The test of skip_emu_check is made outside every critical section.
LEMMA CheckSkipIInv ==
  ASSUME IInv, NEW t \in Thread, CheckSkip(t)
  PROVE  IInv'
<1> USE ConstantAssumption DEF IInv, CheckSkip, threadVars, lockVars, queueVars, dispatchVars, eventVars, At, Return, Op
<1>1. TypeOK'
  BY DEF TypeOK, Actor
<1>2. LockInv'
  <2>1. /\ \A u \in Thread \ {t} : pc'[u] = pc[u] /\ op'[u] = op[u]
        /\ UNCHANGED <<mutex, evAt, evLock>>
    BY DEF TypeOK
  <2>2. /\ Critical(t)' => Critical(t)
        /\ Critical(t) \/ Reinserting(t) => Critical(t)' \/ Reinserting(t)'
        /\ pc'[t] \in {"get_disc_type", "reinsert"} => op'[t] = "disc_auth"
        /\ op'[t] = "disc_auth" => pc'[t] \in {"lock", "locked", "get_disc_type", "reinsert", "unlock"}
    BY DEF TypeOK, LockInv, Critical, Reinserting
  <2> QED BY <2>1, <2>2, ThreadStepLock
<1>3. QueueInv'
  <2>1. op[t] # "disc_auth"
    BY DEF TypeOK, LockInv
  <2>2. \A u \in Thread : calls'[u] > 1 => op'[u] = "disc_auth"
    <3>1. \A u \in Thread \ {t} : op'[u] = op[u]
      BY DEF TypeOK
    <3> QED BY <2>1, <3>1 DEF QueueInv
  <2> QED BY <2>2, QueueElement, SingletonQueue DEF TypeOK, QueueInv, Waits, Actor
<1>4. FakeInv'
  BY QueueElement DEF TypeOK, LockInv, QueueInv, FakeInv, Critical, Reinserting, Waits, Actor
<1> QED BY <1>1, <1>2, <1>3, <1>4

\* The mutex of a handle guards none of the state of the invariant.
LEMMA LockHandleIInv ==
  ASSUME IInv, NEW t \in Thread, LockHandle(t)
  PROVE  IInv'
<1> USE ConstantAssumption DEF IInv, LockHandle, threadVars, lockVars, queueVars, dispatchVars, eventVars, At
<1>1. TypeOK'
  BY DEF TypeOK, Actor
<1>2. LockInv'
  <2>1. /\ \A u \in Thread \ {t} : pc'[u] = pc[u] /\ op'[u] = op[u]
        /\ UNCHANGED <<mutex, evAt, evLock>>
    BY DEF TypeOK
  <2>2. /\ Critical(t)' => Critical(t)
        /\ Critical(t) \/ Reinserting(t) => Critical(t)' \/ Reinserting(t)'
        /\ pc'[t] \in {"get_disc_type", "reinsert"} => op'[t] = "disc_auth"
        /\ op'[t] = "disc_auth" => pc'[t] \in {"lock", "locked", "get_disc_type", "reinsert", "unlock"}
    BY DEF TypeOK, LockInv, Critical, Reinserting
  <2> QED BY <2>1, <2>2, ThreadStepLock
<1>3. QueueInv'
  BY QueueElement, SingletonQueue DEF TypeOK, LockInv, QueueInv, FakeInv, Critical, Reinserting, Waits, Actor
<1>4. FakeInv'
  BY QueueElement DEF TypeOK, LockInv, QueueInv, FakeInv, Critical, Reinserting, Waits, Actor
<1> QED BY <1>1, <1>2, <1>3, <1>4

\* The mutex was free, so the new owner is alone in the critical section.
LEMMA LockMutexIInv ==
  ASSUME IInv, NEW t \in Thread, LockMutex(t)
  PROVE  IInv'
<1> USE ConstantAssumption DEF IInv, LockMutex, threadVars, lockVars, queueVars, dispatchVars, eventVars, At
<1>1. TypeOK'
  BY DEF TypeOK, Actor
<1>2. LockInv'
  BY DEF TypeOK, LockInv, QueueInv, FakeInv, Critical, Reinserting, Waits, Actor
<1>3. QueueInv'
  BY QueueElement, SingletonQueue DEF TypeOK, LockInv, QueueInv, FakeInv, Critical, Reinserting, Waits, Actor
<1>4. FakeInv'
  BY QueueElement DEF TypeOK, LockInv, QueueInv, FakeInv, Critical, Reinserting, Waits, Actor
<1> QED BY <1>1, <1>2, <1>3, <1>4

\* Without a command the thread only goes on to release the mutex.
LEMMA NotDispatchedIInv ==
  ASSUME IInv, NEW t \in Thread, NotDispatched(t)
  PROVE  IInv'
<1> USE ConstantAssumption DEF IInv, NotDispatched, threadVars, lockVars, queueVars, dispatchVars, eventVars, At
<1>1. TypeOK'
  BY DEF TypeOK, Actor
<1>2. LockInv'
  <2>1. /\ \A u \in Thread \ {t} : pc'[u] = pc[u] /\ op'[u] = op[u]
        /\ UNCHANGED <<mutex, evAt, evLock>>
    BY DEF TypeOK
  <2>2. /\ Critical(t)' => Critical(t)
        /\ Critical(t) \/ Reinserting(t) => Critical(t)' \/ Reinserting(t)'
        /\ pc'[t] \in {"get_disc_type", "reinsert"} => op'[t] = "disc_auth"
        /\ op'[t] = "disc_auth" => pc'[t] \in {"lock", "locked", "get_disc_type", "reinsert", "unlock"}
    BY DEF TypeOK, LockInv, Critical, Reinserting
  <2> QED BY <2>1, <2>2, ThreadStepLock
<1>3. QueueInv'
  BY QueueElement, SingletonQueue DEF TypeOK, LockInv, QueueInv, FakeInv, Critical, Reinserting, Waits, Actor
<1>4. FakeInv'
  BY QueueElement DEF TypeOK, LockInv, QueueInv, FakeInv, Critical, Reinserting, Waits, Actor
<1> QED BY <1>1, <1>2, <1>3, <1>4

\* A read is prepared by the owner of the mutex, who saw what is mounted.
LEMMA StartReadIInv ==
  ASSUME IInv, NEW t \in Thread, StartRead(t)
  PROVE  IInv'
<1> USE ConstantAssumption DEF IInv, StartRead, threadVars, lockVars, queueVars, dispatchVars, eventVars, At, Prepare, Cmd
<1>1. TypeOK'
  BY DEF TypeOK, Actor
<1>2. LockInv'
  <2>1. /\ \A u \in Thread \ {t} : pc'[u] = pc[u] /\ op'[u] = op[u]
        /\ UNCHANGED <<mutex, evAt, evLock>>
    BY DEF TypeOK
  <2>2. /\ Critical(t)' => Critical(t)
        /\ Critical(t) \/ Reinserting(t) => Critical(t)' \/ Reinserting(t)'
        /\ pc'[t] \in {"get_disc_type", "reinsert"} => op'[t] = "disc_auth"
        /\ op'[t] = "disc_auth" => pc'[t] \in {"lock", "locked", "get_disc_type", "reinsert", "unlock"}
    BY DEF TypeOK, LockInv, Critical, Reinserting
  <2> QED BY <2>1, <2>2, ThreadStepLock
<1>3. QueueInv'
  BY QueueElement, SingletonQueue DEF TypeOK, LockInv, QueueInv, FakeInv, Critical, Reinserting, Waits, Actor
<1>4. FakeInv'
  BY QueueElement DEF TypeOK, LockInv, QueueInv, FakeInv, Critical, Reinserting, Waits, Actor
<1> QED BY <1>1, <1>2, <1>3, <1>4

\* So is a device command; the bound on its sectors is positive.
LEMMA StartCommandIInv ==
  ASSUME IInv, NEW t \in Thread, StartCommand(t)
  PROVE  IInv'
<1> USE ConstantAssumption DEF IInv, StartCommand, threadVars, lockVars, queueVars, dispatchVars, eventVars, At, Prepare, Cmd
<1>1. TypeOK'
  BY DEF TypeOK, Actor
<1>2. LockInv'
  <2>1. /\ \A u \in Thread \ {t} : pc'[u] = pc[u] /\ op'[u] = op[u]
        /\ UNCHANGED <<mutex, evAt, evLock>>
    BY DEF TypeOK
  <2>2. /\ Critical(t)' => Critical(t)
        /\ Critical(t) \/ Reinserting(t) => Critical(t)' \/ Reinserting(t)'
        /\ pc'[t] \in {"get_disc_type", "reinsert"} => op'[t] = "disc_auth"
        /\ op'[t] = "disc_auth" => pc'[t] \in {"lock", "locked", "get_disc_type", "reinsert", "unlock"}
    BY DEF TypeOK, LockInv, Critical, Reinserting
  <2> QED BY <2>1, <2>2, ThreadStepLock
<1>3. QueueInv'
  <2>1. /\ pc[t] = "locked" /\ pc' = [pc EXCEPT ![t] = "send"]
        /\ cmd' \in {[cmd EXCEPT ![t] = k] : k \in Cmd}
        /\ \E n \in Nat \ {0} : todo' = [todo EXCEPT ![t] = n]
        /\ seen' = [seen EXCEPT ![t] = emu]
        /\ emu' = emu
    OBVIOUS
  <2>2. \A u \in Thread : Waits(u) => u # t /\ Waits(u)' /\ cmd'[u] = cmd[u]
    BY <2>1 DEF TypeOK, Waits
  <2>3. PICK n \in Nat \ {0} : todo' = [todo EXCEPT ![t] = n]
    BY <2>1
  <2>4. /\ \A u \in Thread :
             pc'[u] \in {"lock_handle_inner", "send", "receive"} => seen'[u] = emu'
        /\ \A u \in Thread :
             pc'[u] \in {"lock_handle_inner", "send", "receive", "reinsert"} => todo'[u] > 0
    <3>1. ASSUME NEW u \in Thread
          PROVE  /\ pc'[u] \in {"lock_handle_inner", "send", "receive"} => seen'[u] = emu'
                 /\ pc'[u] \in {"lock_handle_inner", "send", "receive", "reinsert"} => todo'[u] > 0
      <4> HIDE DEF StartCommand, Prepare, At
      <4>1. CASE u = t
        BY <2>1, <2>3, <4>1 DEF TypeOK
      <4>2. CASE u # t
        BY <2>1, <2>3, <4>2 DEF TypeOK, QueueInv
      <4> QED BY <4>1, <4>2
    <3> QED BY <3>1
  <2> QED BY <2>2, <2>4 DEF QueueInv, Waits
<1>4. FakeInv'
  BY QueueElement DEF TypeOK, LockInv, QueueInv, FakeInv, Critical, Reinserting, Waits, Actor
<1> QED BY <1>1, <1>2, <1>3, <1>4

\* So is a faked event.
LEMMA StartFakeEventIInv ==
  ASSUME IInv, NEW t \in Thread, StartFakeEvent(t)
  PROVE  IInv'
<1> USE ConstantAssumption DEF IInv, StartFakeEvent, threadVars, lockVars, queueVars, dispatchVars, eventVars, At, Prepare, Cmd
<1>1. TypeOK'
  BY DEF TypeOK, Actor
<1>2. LockInv'
  <2>1. /\ \A u \in Thread \ {t} : pc'[u] = pc[u] /\ op'[u] = op[u]
        /\ UNCHANGED <<mutex, evAt, evLock>>
    BY DEF TypeOK
  <2>2. /\ Critical(t)' => Critical(t)
        /\ Critical(t) \/ Reinserting(t) => Critical(t)' \/ Reinserting(t)'
        /\ pc'[t] \in {"get_disc_type", "reinsert"} => op'[t] = "disc_auth"
        /\ op'[t] = "disc_auth" => pc'[t] \in {"lock", "locked", "get_disc_type", "reinsert", "unlock"}
    BY DEF TypeOK, LockInv, Critical, Reinserting
  <2> QED BY <2>1, <2>2, ThreadStepLock
<1>3. QueueInv'
  BY QueueElement, SingletonQueue DEF TypeOK, LockInv, QueueInv, FakeInv, Critical, Reinserting, Waits, Actor
<1>4. FakeInv'
  BY QueueElement DEF TypeOK, LockInv, QueueInv, FakeInv, Critical, Reinserting, Waits, Actor
<1> QED BY <1>1, <1>2, <1>3, <1>4

\* A step of a thread that neither waits for a result nor is about to send leaves
\* the command under way where it is.
LEMMA QueueLeftAlone ==
  ASSUME QueueInv, NEW t \in Thread,
         \A u \in Thread \ {t} : /\ pc'[u] = pc[u] /\ op'[u] = op[u]
                                 /\ todo'[u] = todo[u] /\ calls'[u] = calls[u],
         pc[t] # "receive",
         pc'[t] \notin {"lock_handle_inner", "send", "receive"},
         pc'[t] = "reinsert" => todo'[t] > 0,
         calls'[t] > 1 => op'[t] = "disc_auth",
         UNCHANGED <<cmd, seen, queueVars, dispatchVars, emu>>
  PROVE  QueueInv'
<1> USE DEF queueVars, dispatchVars
<1>1. \A x : Waits(x) => Waits(x)'
  BY DEF Waits
<1>2. ASSUME NEW u \in Thread
      PROVE  /\ pc'[u] \in {"lock_handle_inner", "send", "receive"} => seen'[u] = emu'
             /\ pc'[u] \in {"lock_handle_inner", "send", "receive", "reinsert"} => todo'[u] > 0
             /\ calls'[u] > 1 => op'[u] = "disc_auth"
  <2>1. CASE u = t
    BY <2>1
  <2>2. CASE u # t
    BY <2>2 DEF QueueInv
  <2> QED BY <2>1, <2>2
<1>3. /\ commandQ' # <<>> => /\ dpc' = "wait" /\ resultQ' = <<>>
                             /\ Waits(Head(commandQ).from)'
                             /\ Head(commandQ').kind = cmd'[Head(commandQ').from]
      /\ dpc' # "wait" => /\ commandQ' = <<>> /\ resultQ' = <<>>
                          /\ Waits(dcmd.from)'
                          /\ dcmd'.kind = cmd'[dcmd'.from]
                          /\ serving' = emu'
      /\ resultQ' # <<>> => /\ Waits(Head(resultQ).from)'
                            /\ Head(resultQ').disc = emu'
      /\ skip' => dpc' = "serve" /\ serving' = Off
  BY <1>1 DEF QueueInv, Waits
<1> QED BY <1>2, <1>3 DEF QueueInv

\* The inner call of emu_disc_auth changes neither locks nor queues.
LEMMA CallAgainIInv ==
  ASSUME IInv, NEW t \in Thread, CallAgain(t)
  PROVE  IInv'
<1> USE ConstantAssumption DEF IInv, CallAgain, threadVars, lockVars, queueVars, dispatchVars, eventVars, At
<1>1. TypeOK'
  <2>1. calls' \in [Thread -> Nat]
    BY DEF TypeOK
  <2> QED BY <2>1 DEF TypeOK, Actor
<1>2. LockInv'
  <2>1. /\ \A u \in Thread \ {t} : pc'[u] = pc[u] /\ op'[u] = op[u]
        /\ UNCHANGED <<mutex, evAt, evLock>>
    BY DEF TypeOK
  <2>2. /\ Critical(t)' => Critical(t)
        /\ Critical(t) \/ Reinserting(t) => Critical(t)' \/ Reinserting(t)'
        /\ pc'[t] \in {"get_disc_type", "reinsert"} => op'[t] = "disc_auth"
        /\ op'[t] = "disc_auth" => pc'[t] \in {"lock", "locked", "get_disc_type", "reinsert", "unlock"}
    BY DEF TypeOK, LockInv, Critical, Reinserting
  <2> QED BY <2>1, <2>2, ThreadStepLock
<1>3. QueueInv'
  <2>1. \A u \in Thread \ {t} : /\ pc'[u] = pc[u] /\ op'[u] = op[u]
                                /\ todo'[u] = todo[u] /\ calls'[u] = calls[u]
    BY DEF TypeOK
  <2>2. /\ pc[t] # "receive"
        /\ pc'[t] \notin {"lock_handle_inner", "send", "receive"}
        /\ pc'[t] = "reinsert" => todo'[t] > 0
        /\ calls'[t] > 1 => op'[t] = "disc_auth"
    BY DEF TypeOK, LockInv
  <2> QED BY <2>1, <2>2, QueueLeftAlone
<1>4. FakeInv'
  BY QueueElement DEF TypeOK, LockInv, QueueInv, FakeInv, Critical, Reinserting, Waits, Actor
<1> QED BY <1>1, <1>2, <1>3, <1>4

\* The original call only decides how the critical section goes on.
LEMMA AuthenticateIInv ==
  ASSUME IInv, NEW t \in Thread, Authenticate(t)
  PROVE  IInv'
<1> USE ConstantAssumption DEF IInv, Authenticate, threadVars, lockVars, queueVars, dispatchVars, eventVars, At
<1>1. TypeOK'
  BY DEF TypeOK, Actor
<1>2. LockInv'
  <2>1. /\ \A u \in Thread \ {t} : pc'[u] = pc[u] /\ op'[u] = op[u]
        /\ UNCHANGED <<mutex, evAt, evLock>>
    BY DEF TypeOK
  <2>2. /\ Critical(t)' => Critical(t)
        /\ Critical(t) \/ Reinserting(t) => Critical(t)' \/ Reinserting(t)'
        /\ pc'[t] \in {"get_disc_type", "reinsert"} => op'[t] = "disc_auth"
        /\ op'[t] = "disc_auth" => pc'[t] \in {"lock", "locked", "get_disc_type", "reinsert", "unlock"}
    BY DEF TypeOK, LockInv, Critical, Reinserting
  <2> QED BY <2>1, <2>2, ThreadStepLock
<1>3. QueueInv'
  <2>1. \A u \in Thread \ {t} : /\ pc'[u] = pc[u] /\ op'[u] = op[u]
                                /\ todo'[u] = todo[u] /\ calls'[u] = calls[u]
    BY DEF TypeOK
  <2>2. /\ pc[t] # "receive"
        /\ pc'[t] \notin {"lock_handle_inner", "send", "receive"}
        /\ pc'[t] = "reinsert" => todo'[t] > 0
        /\ calls'[t] > 1 => op'[t] = "disc_auth"
    BY DEF TypeOK, LockInv
  <2> QED BY <2>1, <2>2, QueueLeftAlone
<1>4. FakeInv'
  BY QueueElement DEF TypeOK, LockInv, QueueInv, FakeInv, Critical, Reinserting, Waits, Actor
<1> QED BY <1>1, <1>2, <1>3, <1>4

\* The hook that get_disc_type calls may release the mutex, which guards nothing then.
LEMMA GetDiscTypeIInv ==
  ASSUME IInv, NEW t \in Thread, GetDiscType(t)
  PROVE  IInv'
<1> USE ConstantAssumption DEF IInv, GetDiscType, threadVars, lockVars, queueVars, dispatchVars, eventVars, At
<1>1. TypeOK'
  BY DEF TypeOK, Actor
<1>2. LockInv'
  BY DEF TypeOK, LockInv, QueueInv, FakeInv, Critical, Reinserting, Waits, Actor
<1>3. QueueInv'
  <2>1. \A u \in Thread \ {t} : /\ pc'[u] = pc[u] /\ op'[u] = op[u]
                                /\ todo'[u] = todo[u] /\ calls'[u] = calls[u]
    BY DEF TypeOK
  <2>2. /\ pc[t] # "receive"
        /\ pc'[t] \notin {"lock_handle_inner", "send", "receive"}
        /\ pc'[t] = "reinsert" => todo'[t] > 0
        /\ calls'[t] > 1 => op'[t] = "disc_auth"
    BY DEF TypeOK, LockInv
  <2> QED BY <2>1, <2>2, QueueLeftAlone
<1>4. FakeInv'
  BY QueueElement DEF TypeOK, LockInv, QueueInv, FakeInv, Critical, Reinserting, Waits, Actor
<1> QED BY <1>1, <1>2, <1>3, <1>4

\* Nothing is under way when the owner of the mutex, who does not wait, mounts.
LEMMA MountIInv ==
  ASSUME IInv, NEW t \in Thread, Mount(t)
  PROVE  IInv'
<1> USE ConstantAssumption DEF IInv, Mount, threadVars, lockVars, queueVars, dispatchVars, eventVars, At
<1>1. TypeOK'
  BY DEF TypeOK, Actor
<1>2. LockInv'
  <2>1. /\ \A u \in Thread \ {t} : pc'[u] = pc[u] /\ op'[u] = op[u]
        /\ UNCHANGED <<mutex, evAt, evLock>>
    BY DEF TypeOK
  <2>2. /\ Critical(t)' => Critical(t)
        /\ Critical(t) \/ Reinserting(t) => Critical(t)' \/ Reinserting(t)'
        /\ pc'[t] \in {"get_disc_type", "reinsert"} => op'[t] = "disc_auth"
        /\ op'[t] = "disc_auth" => pc'[t] \in {"lock", "locked", "get_disc_type", "reinsert", "unlock"}
    BY DEF TypeOK, LockInv, Critical, Reinserting
  <2> QED BY <2>1, <2>2, ThreadStepLock
<1>3. QueueInv'
  BY QueueElement, SingletonQueue DEF TypeOK, LockInv, QueueInv, FakeInv, Critical, Reinserting, Waits, Actor
<1>4. FakeInv'
  BY QueueElement DEF TypeOK, LockInv, QueueInv, FakeInv, Critical, Reinserting, Waits, Actor
<1> QED BY <1>1, <1>2, <1>3, <1>4

\* Nothing is under way when the owner of the mutex, who does not wait, unmounts.
LEMMA UmountIInv ==
  ASSUME IInv, NEW t \in Thread, Umount(t)
  PROVE  IInv'
<1> USE ConstantAssumption DEF IInv, Umount, threadVars, lockVars, queueVars, dispatchVars, eventVars, At
<1>1. TypeOK'
  BY DEF TypeOK, Actor
<1>2. LockInv'
  <2>1. /\ \A u \in Thread \ {t} : pc'[u] = pc[u] /\ op'[u] = op[u]
        /\ UNCHANGED <<mutex, evAt, evLock>>
    BY DEF TypeOK
  <2>2. /\ Critical(t)' => Critical(t)
        /\ Critical(t) \/ Reinserting(t) => Critical(t)' \/ Reinserting(t)'
        /\ pc'[t] \in {"get_disc_type", "reinsert"} => op'[t] = "disc_auth"
        /\ op'[t] = "disc_auth" => pc'[t] \in {"lock", "locked", "get_disc_type", "reinsert", "unlock"}
    BY DEF TypeOK, LockInv, Critical, Reinserting
  <2> QED BY <2>1, <2>2, ThreadStepLock
<1>3. QueueInv'
  BY QueueElement, SingletonQueue DEF TypeOK, LockInv, QueueInv, FakeInv, Critical, Reinserting, Waits, Actor
<1>4. FakeInv'
  BY QueueElement DEF TypeOK, LockInv, QueueInv, FakeInv, Critical, Reinserting, Waits, Actor
<1> QED BY <1>1, <1>2, <1>3, <1>4

\* The sender owns the mutex, so both queues are empty and the dispatcher waits.
LEMMA SendIInv ==
  ASSUME IInv, NEW t \in Thread, Send(t)
  PROVE  IInv'
<1> USE ConstantAssumption DEF IInv, Send, threadVars, lockVars, queueVars, dispatchVars, eventVars, At
<1>1. TypeOK'
  <2>1. [kind |-> cmd[t], from |-> t] \in Command
    BY DEF TypeOK, Command
  <2>2. commandQ' \in QueueOf(Command)
    BY <2>1 DEF TypeOK, QueueOf
  <2>3. pc' \in {[pc EXCEPT ![t] = p] : p \in {"receive", "unlock"}}
    OBVIOUS
  <2>4. UNCHANGED <<op, cmd, todo, seen, calls, mutex, smutex, resultQ, dpc, dcmd, serving, skip, emu,
                    unread, loop, evAt, evKind, evLock, crossed>>
    OBVIOUS
  <2> HIDE DEF Send, At
  <2> QED BY <2>2, <2>3, <2>4 DEF TypeOK, Actor
<1>2. LockInv'
  <2>1. /\ \A u \in Thread \ {t} : pc'[u] = pc[u] /\ op'[u] = op[u]
        /\ UNCHANGED <<mutex, evAt, evLock>>
    BY DEF TypeOK
  <2>2. /\ Critical(t)' => Critical(t)
        /\ Critical(t) \/ Reinserting(t) => Critical(t)' \/ Reinserting(t)'
        /\ pc'[t] \in {"get_disc_type", "reinsert"} => op'[t] = "disc_auth"
        /\ op'[t] = "disc_auth" => pc'[t] \in {"lock", "locked", "get_disc_type", "reinsert", "unlock"}
    BY DEF TypeOK, LockInv, Critical, Reinserting
  <2> QED BY <2>1, <2>2, ThreadStepLock
<1>3. QueueInv'
  BY QueueElement, SingletonQueue DEF TypeOK, LockInv, QueueInv, FakeInv, Critical, Reinserting, Waits, Actor
<1>4. FakeInv'
  BY QueueElement DEF TypeOK, LockInv, QueueInv, FakeInv, Critical, Reinserting, Waits, Actor
<1> QED BY <1>1, <1>2, <1>3, <1>4

\* The one result under way is taken; nothing else is left to answer.
LEMMA ReceiveIInv ==
  ASSUME IInv, NEW t \in Thread, Receive(t)
  PROVE  IInv'
<1> USE ConstantAssumption DEF IInv, Receive, threadVars, lockVars, queueVars, dispatchVars, eventVars, At
<1>1. TypeOK'
  <2>1. todo[t] > 0 /\ todo[t] - 1 \in Nat
    BY DEF TypeOK, QueueInv
  <2>2. resultQ' \in QueueOf(Result)
    BY DEF QueueOf
  <2>3. /\ pc' \in {[pc EXCEPT ![t] = p] : p \in {"unlock_handle_inner", "unlock", "send"}}
        /\ todo' = [todo EXCEPT ![t] = @ - 1]
    OBVIOUS
  <2>4. UNCHANGED <<op, cmd, seen, calls, mutex, smutex, commandQ, dpc, dcmd, serving, skip, emu,
                    unread, loop, evAt, evKind, evLock, crossed>>
    OBVIOUS
  <2> HIDE DEF Receive, At
  <2> QED BY <2>1, <2>2, <2>3, <2>4 DEF TypeOK, Actor
<1>2. LockInv'
  <2>1. /\ \A u \in Thread \ {t} : pc'[u] = pc[u] /\ op'[u] = op[u]
        /\ UNCHANGED <<mutex, evAt, evLock>>
    BY DEF TypeOK
  <2>2. /\ Critical(t)' => Critical(t)
        /\ Critical(t) \/ Reinserting(t) => Critical(t)' \/ Reinserting(t)'
        /\ pc'[t] \in {"get_disc_type", "reinsert"} => op'[t] = "disc_auth"
        /\ op'[t] = "disc_auth" => pc'[t] \in {"lock", "locked", "get_disc_type", "reinsert", "unlock"}
    BY DEF TypeOK, LockInv, Critical, Reinserting
  <2> QED BY <2>1, <2>2, ThreadStepLock
<1>3. QueueInv'
  BY QueueElement, SingletonQueue DEF TypeOK, LockInv, QueueInv, FakeInv, Critical, Reinserting, Waits, Actor
<1>4. FakeInv'
  BY QueueElement DEF TypeOK, LockInv, QueueInv, FakeInv, Critical, Reinserting, Waits, Actor
<1> QED BY <1>1, <1>2, <1>3, <1>4

\* The thread that faked an event ends it and clears loop, whoever else relies on it.
LEMMA ReinsertedEventDoneIInv ==
  ASSUME IInv, NEW t \in Thread, ReinsertedEventDone(t)
  PROVE  IInv'
<1> USE ConstantAssumption DEF IInv, ReinsertedEventDone, threadVars, lockVars, queueVars, dispatchVars, eventVars, At, EndEvent, Event
<1>1. TypeOK'
  <2>1. todo[t] > 0 /\ todo[t] - 1 \in Nat
    BY DEF TypeOK, QueueInv
  <2> QED BY <2>1 DEF TypeOK, Actor
<1>2. LockInv'
  BY DEF TypeOK, LockInv, QueueInv, FakeInv, Critical, Reinserting, Waits, Actor
<1>3. QueueInv'
  BY QueueElement, SingletonQueue DEF TypeOK, LockInv, QueueInv, FakeInv, Critical, Reinserting, Waits, Actor
<1>4. FakeInv'
  <2>1. /\ t \in Actor \ {Storage, Dispatcher}
        /\ evAt[t] = "done" /\ evAt' = [evAt EXCEPT ![t] = "none"]
        /\ UNCHANGED <<dpc, evLock>>
        /\ \A u \in Thread \ {t} : pc'[u] = pc[u]
        /\ crossed' = (crossed \/ evAt[Dispatcher] = "sample")
    BY DEF TypeOK, Actor
  <2>2. ~evLock[t]
    BY <2>1 DEF FakeInv
  <2> HIDE DEF ReinsertedEventDone, At, EndEvent
  <2> QED BY <2>1, <2>2 DEF FakeInv, TypeOK, Actor
<1> QED BY <1>1, <1>2, <1>3, <1>4

\* The mutex of a handle is released without touching the rest.
LEMMA UnlockHandleIInv ==
  ASSUME IInv, NEW t \in Thread, UnlockHandle(t)
  PROVE  IInv'
<1> USE ConstantAssumption DEF IInv, UnlockHandle, threadVars, lockVars, queueVars, dispatchVars, eventVars, At, Return, Op
<1>1. TypeOK'
  BY DEF TypeOK, Actor
<1>2. LockInv'
  <2>1. /\ \A u \in Thread \ {t} : pc'[u] = pc[u] /\ op'[u] = op[u]
        /\ UNCHANGED <<mutex, evAt, evLock>>
    BY DEF TypeOK
  <2>2. /\ Critical(t)' => Critical(t)
        /\ Critical(t) \/ Reinserting(t) => Critical(t)' \/ Reinserting(t)'
        /\ pc'[t] \in {"get_disc_type", "reinsert"} => op'[t] = "disc_auth"
        /\ op'[t] = "disc_auth" => pc'[t] \in {"lock", "locked", "get_disc_type", "reinsert", "unlock"}
    BY DEF TypeOK, LockInv, Critical, Reinserting
  <2> QED BY <2>1, <2>2, ThreadStepLock
<1>3. QueueInv'
  <2>1. op[t] # "disc_auth"
    BY DEF TypeOK, LockInv
  <2>2. \A u \in Thread : calls'[u] > 1 => op'[u] = "disc_auth"
    <3>1. \A u \in Thread \ {t} : op'[u] = op[u]
      BY DEF TypeOK
    <3> QED BY <2>1, <3>1 DEF QueueInv
  <2> QED BY <2>2, QueueElement, SingletonQueue DEF TypeOK, QueueInv, Waits, Actor
<1>4. FakeInv'
  BY QueueElement DEF TypeOK, LockInv, QueueInv, FakeInv, Critical, Reinserting, Waits, Actor
<1> QED BY <1>1, <1>2, <1>3, <1>4

\* A thread that releases the mutex waits for nothing.
LEMMA UnlockMutexIInv ==
  ASSUME IInv, NEW t \in Thread, UnlockMutex(t)
  PROVE  IInv'
<1> USE ConstantAssumption DEF IInv, UnlockMutex, threadVars, lockVars, queueVars, dispatchVars, eventVars, At, Return, Op, Cmd
<1>0. /\ pc[t] = "unlock"
      /\ pc' \in {[pc EXCEPT ![t] = p] : p \in {"unlock_handle", "lock", "get_disc_type", "idle"}}
      /\ op' \in {op, [op EXCEPT ![t] = "mount"], [op EXCEPT ![t] = "none"]}
      /\ pc'[t] = "get_disc_type" => op'[t] = "disc_auth"
      /\ op'[t] = "disc_auth" => pc'[t] = "get_disc_type"
      /\ calls' \in [Thread -> Nat]
  <2>1. calls' \in [Thread -> Nat]
    BY DEF TypeOK
  <2>2. calls[t] > 1 => op[t] = "disc_auth"
    BY DEF QueueInv
  <2> QED BY <2>1, <2>2 DEF TypeOK
<1>1. TypeOK'
  BY <1>0 DEF TypeOK, Actor, Released
<1>2. LockInv'
  <2>1. /\ \A u \in Thread \ {t} : pc'[u] = pc[u] /\ op'[u] = op[u]
        /\ mutex' = IF mutex = t THEN Nobody ELSE mutex
        /\ UNCHANGED <<evAt, evLock>>
    BY <1>0 DEF TypeOK, Released
  <2>2. ~Critical(t)'
    BY <1>0 DEF TypeOK, Critical
  <2>3. \A u \in Thread \ {t} : (Critical(u)' <=> Critical(u)) /\ (Reinserting(u)' <=> Reinserting(u))
    BY <2>1 DEF Critical, Reinserting
  <2>4. t \in Actor /\ evAt[t] # "update" /\ t # Storage
    BY <1>0 DEF FakeInv, Actor
  <2>5. \A u \in Thread :
          /\ pc'[u] \in {"get_disc_type", "reinsert"} => op'[u] = "disc_auth"
          /\ op'[u] = "disc_auth" =>
               pc'[u] \in {"lock", "locked", "get_disc_type", "reinsert", "unlock"}
    <3>1. ASSUME NEW u \in Thread
          PROVE  /\ pc'[u] \in {"get_disc_type", "reinsert"} => op'[u] = "disc_auth"
                 /\ op'[u] = "disc_auth" =>
                      pc'[u] \in {"lock", "locked", "get_disc_type", "reinsert", "unlock"}
      <4>1. CASE u = t
        BY <1>0, <4>1 DEF TypeOK
      <4>2. CASE u # t
        BY <2>1, <4>2 DEF LockInv
      <4> QED BY <4>1, <4>2
    <3> QED BY <3>1
  <2>6. \A u \in Thread : mutex' = u => Critical(u)' \/ Reinserting(u)'
    BY <2>1, <2>3, ConstantAssumption DEF LockInv, Actor
  <2>7. \A u \in Thread : Critical(u)' => mutex' = u
    BY <2>1, <2>2, <2>3 DEF LockInv
  <2>8. \A a \in Actor : evAt'[a] = "update" /\ evLock'[a] => mutex' = a
    BY <2>1, <2>4 DEF LockInv
  <2> HIDE DEF UnlockMutex
  <2> QED BY <2>1, <2>4, <2>5, <2>6, <2>7, <2>8 DEF LockInv, Actor
<1>3. QueueInv'
  BY QueueElement, SingletonQueue DEF TypeOK, LockInv, QueueInv, FakeInv, Critical, Reinserting, Waits, Actor
<1>4. FakeInv'
  BY QueueElement DEF TypeOK, LockInv, QueueInv, FakeInv, Critical, Reinserting, Waits, Actor
<1> QED BY <1>1, <1>2, <1>3, <1>4

\* The command moves from its queue to the dispatcher, which finds the image its sender saw.
LEMMA TakeIInv ==
  ASSUME IInv, Take
  PROVE  IInv'
<1> USE ConstantAssumption DEF IInv, Take, threadVars, lockVars, queueVars, dispatchVars, eventVars, QueueOf, Command
<1>1. TypeOK'
  BY DEF TypeOK, Actor
<1>2. LockInv'
  BY DEF TypeOK, LockInv, QueueInv, FakeInv, Critical, Reinserting, Waits, Actor
<1>3. QueueInv'
  BY QueueElement, SingletonQueue DEF TypeOK, LockInv, QueueInv, FakeInv, Critical, Reinserting, Waits, Actor
<1>4. FakeInv'
  BY QueueElement DEF TypeOK, LockInv, QueueInv, FakeInv, Critical, Reinserting, Waits, Actor
<1> QED BY <1>1, <1>2, <1>3, <1>4

\* Serving a command changes neither locks nor queues.
LEMMA ServeIInv ==
  ASSUME IInv, Serve
  PROVE  IInv'
<1> USE ConstantAssumption DEF IInv, Serve, threadVars, lockVars, queueVars, dispatchVars, eventVars
<1>1. TypeOK'
  BY DEF TypeOK, Actor
<1>2. LockInv'
  BY DEF TypeOK, LockInv, QueueInv, FakeInv, Critical, Reinserting, Waits, Actor
<1>3. QueueInv'
  BY QueueElement, SingletonQueue DEF TypeOK, LockInv, QueueInv, FakeInv, Critical, Reinserting, Waits, Actor
<1>4. FakeInv'
  BY QueueElement DEF TypeOK, LockInv, QueueInv, FakeInv, Critical, Reinserting, Waits, Actor
<1> QED BY <1>1, <1>2, <1>3, <1>4

\* The result is put into an empty queue, for the sender of the command.
LEMMA ReplyIInv ==
  ASSUME IInv, Reply
  PROVE  IInv'
<1> USE ConstantAssumption DEF IInv, Reply, threadVars, lockVars, queueVars, dispatchVars, eventVars, QueueOf, Result, NoCommand, Cmd
<1>1. TypeOK'
  <2>1. [from |-> dcmd.from, disc |-> serving] \in Result
    BY DEF TypeOK, QueueInv, Waits
  <2>2. resultQ' \in QueueOf(Result)
    BY <2>1 DEF TypeOK
  <2> QED BY <2>2 DEF TypeOK, Actor
<1>2. LockInv'
  BY DEF TypeOK, LockInv, QueueInv, FakeInv, Critical, Reinserting, Waits, Actor
<1>3. QueueInv'
  BY QueueElement, SingletonQueue DEF TypeOK, LockInv, QueueInv, FakeInv, Critical, Reinserting, Waits, Actor
<1>4. FakeInv'
  BY QueueElement DEF TypeOK, LockInv, QueueInv, FakeInv, Critical, Reinserting, Waits, Actor
<1> QED BY <1>1, <1>2, <1>3, <1>4

\* The dispatcher ends the event it faked and goes on to answer.
LEMMA DispatchedEventDoneIInv ==
  ASSUME IInv, DispatchedEventDone
  PROVE  IInv'
<1> USE ConstantAssumption DEF IInv, DispatchedEventDone, threadVars, lockVars, queueVars, dispatchVars, eventVars, EndEvent, Event
<1>1. TypeOK'
  BY DEF TypeOK, Actor
<1>2. LockInv'
  BY DEF TypeOK, LockInv, QueueInv, FakeInv, Critical, Reinserting, Waits, Actor
<1>3. QueueInv'
  BY QueueElement, SingletonQueue DEF TypeOK, LockInv, QueueInv, FakeInv, Critical, Reinserting, Waits, Actor
<1>4. FakeInv'
  <2>1. /\ evAt[Dispatcher] = "done" /\ evAt' = [evAt EXCEPT ![Dispatcher] = "none"]
        /\ ~evLock[Dispatcher]
        /\ UNCHANGED <<pc, evLock>>
    BY DEF TypeOK, FakeInv, Actor
  <2> HIDE DEF DispatchedEventDone, EndEvent
  <2> QED BY <2>1 DEF FakeInv, TypeOK, Actor
<1> QED BY <1>1, <1>2, <1>3, <1>4

\* An event is faked by the dispatcher at work or by a reinsertion, and sets loop.
LEMMA FakeEventIInv ==
  ASSUME IInv, NEW a \in Actor, FakeEvent(a)
  PROVE  IInv'
<1> USE ConstantAssumption DEF IInv, FakeEvent, threadVars, lockVars, queueVars, dispatchVars, eventVars, Event
<1>1. TypeOK'
  BY DEF TypeOK, Actor
<1>2. LockInv'
  BY DEF TypeOK, LockInv, QueueInv, FakeInv, Critical, Reinserting, Waits, Actor
<1>3. QueueInv'
  BY QueueElement, SingletonQueue DEF TypeOK, LockInv, QueueInv, FakeInv, Critical, Reinserting, Waits, Actor
<1>4. FakeInv'
  <2>1. /\ a # Storage /\ evAt' = [evAt EXCEPT ![a] = "sample"]
        /\ a = Dispatcher => dpc = "event"
        /\ a # Dispatcher => a \in Thread /\ pc[a] = "reinsert"
        /\ loop' = 1
        /\ UNCHANGED <<pc, dpc, evLock, crossed>>
    BY DEF Actor
  <2> HIDE DEF FakeEvent
  <2> QED BY <2>1 DEF TypeOK, FakeInv, Actor
<1> QED BY <1>1, <1>2, <1>3, <1>4

\* The dispatcher finds loop set, or a reinsertion has crossed its event.
LEMMA SampleLoopIInv ==
  ASSUME IInv, NEW a \in Actor, SampleLoop(a)
  PROVE  IInv'
<1> USE ConstantAssumption DEF IInv, SampleLoop, threadVars, lockVars, queueVars, dispatchVars, eventVars
<1>1. TypeOK'
  BY DEF TypeOK, Actor
<1>2. LockInv'
  BY DEF TypeOK, LockInv, QueueInv, FakeInv, Critical, Reinserting, Waits, Actor
<1>3. QueueInv'
  BY QueueElement, SingletonQueue DEF TypeOK, LockInv, QueueInv, FakeInv, Critical, Reinserting, Waits, Actor
<1>4. FakeInv'
  BY QueueElement DEF TypeOK, LockInv, QueueInv, FakeInv, Critical, Reinserting, Waits, Actor
<1> QED BY <1>1, <1>2, <1>3, <1>4

\* An event locks a free mutex, or in vain one that its own thread holds.
LEMMA EventLockIInv ==
  ASSUME IInv, NEW a \in Actor, EventLock(a)
  PROVE  IInv'
<1> USE ConstantAssumption DEF IInv, EventLock, threadVars, lockVars, queueVars, dispatchVars, eventVars
<1>1. TypeOK'
  BY DEF TypeOK, Actor
<1>2. LockInv'
  BY DEF TypeOK, LockInv, QueueInv, FakeInv, Critical, Reinserting, Waits, Actor
<1>3. QueueInv'
  BY QueueElement, SingletonQueue DEF TypeOK, LockInv, QueueInv, FakeInv, Critical, Reinserting, Waits, Actor
<1>4. FakeInv'
  BY QueueElement DEF TypeOK, LockInv, QueueInv, FakeInv, Critical, Reinserting, Waits, Actor
<1> QED BY <1>1, <1>2, <1>3, <1>4

\* The mutex is released by the event that took it.
LEMMA EventUpdateIInv ==
  ASSUME IInv, NEW a \in Actor, EventUpdate(a)
  PROVE  IInv'
<1> USE ConstantAssumption DEF IInv, EventUpdate, threadVars, lockVars, queueVars, dispatchVars, eventVars
<1>1. TypeOK'
  <2>1. evKind' \in [Actor -> Event] /\ evLock' \in [Actor -> BOOLEAN]
    BY DEF TypeOK, Event
  <2>2. /\ unread' \in BOOLEAN /\ mutex' \in Actor \cup {Nobody}
        /\ evAt' \in [Actor -> {"none", "sample", "lock", "update", "done"}]
    BY DEF TypeOK, Released
  <2> QED BY <2>1, <2>2 DEF TypeOK
<1>2. LockInv'
  <2>1. /\ evAt[a] = "update"
        /\ \A b \in Actor \ {a} : evAt'[b] = evAt[b] /\ evLock'[b] = evLock[b]
        /\ evAt'[a] = "done" /\ ~evLock'[a]
        /\ UNCHANGED <<pc, op>>
    BY DEF TypeOK
  <2>2. mutex' = IF mutex = a /\ evLock[a] THEN Nobody ELSE mutex
    BY DEF Released
  <2> HIDE DEF EventUpdate
  <2>3. \A t \in Thread : (Critical(t)' <=> Critical(t)) /\ (Reinserting(t)' <=> Reinserting(t))
    BY <2>1 DEF Critical, Reinserting
  <2>4. ASSUME NEW t \in Thread, Critical(t)
        PROVE  mutex' = t
    <3>1. mutex = t /\ t \in Actor
      BY <2>4 DEF LockInv, Actor
    <3>2. a # t
      <4> SUFFICES ASSUME a = t PROVE FALSE
        OBVIOUS
      <4>1. pc[t] = "reinsert"
        BY <2>1, <3>1 DEF FakeInv
      <4> QED BY <2>4, <4>1 DEF Critical
    <3> QED BY <2>2, <3>1, <3>2
  <2>5. \A b \in Actor : evAt'[b] = "update" /\ evLock'[b] => mutex' = b
    BY <2>1, <2>2 DEF LockInv
  <2>6. mutex' = Storage => evAt'[Storage] = "update" /\ evLock'[Storage]
    BY <2>1, <2>2 DEF LockInv, Actor
  <2> QED BY <2>1, <2>2, <2>3, <2>4, <2>5, <2>6 DEF LockInv, Actor
<1>3. QueueInv'
  BY QueueElement, SingletonQueue DEF TypeOK, LockInv, QueueInv, FakeInv, Critical, Reinserting, Waits, Actor
<1>4. FakeInv'
  BY QueueElement DEF TypeOK, LockInv, QueueInv, FakeInv, Critical, Reinserting, Waits, Actor
<1> QED BY <1>1, <1>2, <1>3, <1>4

\* A real event begins without a lock.
LEMMA StorageEventIInv ==
  ASSUME IInv, StorageEvent
  PROVE  IInv'
<1> USE ConstantAssumption DEF IInv, StorageEvent, threadVars, lockVars, queueVars, dispatchVars, eventVars, Event
<1>1. TypeOK'
  BY DEF TypeOK, Actor
<1>2. LockInv'
  BY DEF TypeOK, LockInv, QueueInv, FakeInv, Critical, Reinserting, Waits, Actor
<1>3. QueueInv'
  BY QueueElement, SingletonQueue DEF TypeOK, LockInv, QueueInv, FakeInv, Critical, Reinserting, Waits, Actor
<1>4. FakeInv'
  BY QueueElement DEF TypeOK, LockInv, QueueInv, FakeInv, Critical, Reinserting, Waits, Actor
<1> QED BY <1>1, <1>2, <1>3, <1>4

\* A real event ends without a lock.
LEMMA StorageEventDoneIInv ==
  ASSUME IInv, StorageEventDone
  PROVE  IInv'
<1> USE ConstantAssumption DEF IInv, StorageEventDone, threadVars, lockVars, queueVars, dispatchVars, eventVars, EndEvent, Event
<1>1. TypeOK'
  BY DEF TypeOK, Actor
<1>2. LockInv'
  BY DEF TypeOK, LockInv, QueueInv, FakeInv, Critical, Reinserting, Waits, Actor
<1>3. QueueInv'
  BY QueueElement, SingletonQueue DEF TypeOK, LockInv, QueueInv, FakeInv, Critical, Reinserting, Waits, Actor
<1>4. FakeInv'
  <2>1. /\ evAt[Storage] = "done" /\ evAt' = [evAt EXCEPT ![Storage] = "none"]
        /\ ~evLock[Storage]
        /\ UNCHANGED <<pc, dpc, loop, evLock, crossed>>
    BY DEF TypeOK, FakeInv, Actor
  <2> HIDE DEF StorageEventDone, EndEvent
  <2> QED BY <2>1 DEF FakeInv, TypeOK, Actor
<1> QED BY <1>1, <1>2, <1>3, <1>4

\* Every step preserves the inductive invariant.
LEMMA NextIInv ==
  ASSUME IInv, [Next]_vars
  PROVE  IInv'
<1>1. CASE UNCHANGED vars
  BY <1>1 DEF IInv, TypeOK, LockInv, Critical, Reinserting, QueueInv, FakeInv, Waits, vars, threadVars, lockVars, queueVars,
     dispatchVars, eventVars
<1>2. ASSUME NEW t \in Thread, Begin(t) \/ Continue(t)
      PROVE  IInv'
  BY <1>2, BeginIInv, CheckSkipIInv, LockHandleIInv, LockMutexIInv, NotDispatchedIInv, StartReadIInv, StartCommandIInv, StartFakeEventIInv, CallAgainIInv, AuthenticateIInv, GetDiscTypeIInv, MountIInv, UmountIInv, SendIInv, ReceiveIInv, ReinsertedEventDoneIInv, UnlockHandleIInv, UnlockMutexIInv DEF Continue
<1>3. CASE Dispatch
  BY <1>3, TakeIInv, ServeIInv, ReplyIInv, DispatchedEventDoneIInv DEF Dispatch
<1>4. ASSUME NEW a \in Actor, DeviceEvent(a)
      PROVE  IInv'
  BY <1>4, FakeEventIInv, SampleLoopIInv, EventLockIInv, EventUpdateIInv DEF DeviceEvent
<1>5. CASE StorageEvent \/ StorageEventDone
  BY <1>5, StorageEventIInv, StorageEventDoneIInv
<1> QED BY <1>1, <1>2, <1>3, <1>4, <1>5 DEF Next

\* The inductive invariant holds in every reachable state.
THEOREM Invariance == Spec => []IInv
<1>1. Init => IInv
  BY InitIInv
<1>2. IInv /\ [Next]_vars => IInv'
  BY NextIInv
<1> QED BY <1>1, <1>2, PTL DEF Spec

\* The variables of the dispatch protocol keep their types.
THEOREM TypeCorrect == Spec => []TypeOK
<1>1. IInv => TypeOK
  BY DEF IInv
<1> QED BY <1>1, Invariance, PTL

-----------------------------------------------------------------------------
(* What the threads rely on.                                               *)

\* At most one thread is in the critical section.
LEMMA OneCritical ==
  ASSUME IInv, NEW t \in Thread, NEW u \in Thread, Critical(t), Critical(u)
  PROVE  t = u
BY DEF IInv, LockInv

\* A result in the queue is for the thread that receives it (do_read_iso).
THEOREM AnswersAreOwn == Spec => []OwnAnswer
<1>1. IInv => OwnAnswer
  <2> SUFFICES ASSUME IInv, NEW t \in Thread, pc[t] = "receive", resultQ # <<>>
               PROVE  Head(resultQ) = [from |-> t, disc |-> seen[t]]
    BY DEF OwnAnswer
  <2>1. Head(resultQ) \in Result
    BY QueueElement DEF IInv, TypeOK
  <2>2. Head(resultQ).from = t
    BY OneCritical DEF IInv, QueueInv, Waits, Critical
  <2>3. Head(resultQ).disc = seen[t]
    BY DEF IInv, QueueInv
  <2> QED BY <2>1, <2>2, <2>3 DEF Result
<1> QED BY <1>1, Invariance, PTL

\* No event_port_send of the protocol meets a full queue.
THEOREM QueuesNeverFull == Spec => []NoEventLost
<1>1. IInv => NoEventLost
  <2>1. ASSUME IInv, NEW t \in Thread, pc[t] = "send"
        PROVE  commandQ = <<>>
    BY <2>1, OneCritical DEF IInv, QueueInv, Waits, Critical
  <2> QED BY <2>1 DEF NoEventLost, IInv, QueueInv
<1> QED BY <1>1, Invariance, PTL

\* The dispatcher never reads from an image that has been unmounted.
THEOREM NoReadAfterUmount == Spec => []ServedImageStaysMounted
<1>1. IInv => ServedImageStaysMounted
  BY DEF IInv, QueueInv, ServedImageStaysMounted
<1> QED BY <1>1, Invariance, PTL

\* The dispatcher waits for the mutex that its own requester holds only when a
\* reinsertion without the mutex has cleared loop meanwhile.
THEOREM FakedEventBlocksOnlyCrossed == Spec => []FakedEventWaits
<1>1. IInv => FakedEventWaits
  BY DEF IInv, FakeInv, FakedEventWaits
<1> QED BY <1>1, Invariance, PTL

\* skip_emu_check is set only while no image is mounted.
THEOREM SkipIsSafe == Spec => []SkipOnlyWhenOff
<1>1. IInv => SkipOnlyWhenOff
  BY DEF IInv, QueueInv, SkipOnlyWhenOff
<1> QED BY <1>1, Invariance, PTL

\* The disc types are written by one actor at a time, but for a real event
\* that found `loop` set and a reinsertion that has lost the mutex.
THEOREM DiscTypeRaces == Spec => []OnlyUnlockedEventRaces
<1>1. IInv => OnlyUnlockedEventRaces
  <2> DEFINE Unlocked(c) == (c = Storage /\ ~evLock[c]) \/ (c \in Thread /\ mutex # c)
  <2> SUFFICES ASSUME IInv, NEW a \in Actor, NEW b \in Actor, a # b, Writing(a), Writing(b),
                      ~Unlocked(a), ~Unlocked(b)
               PROVE  FALSE
    BY DEF OnlyUnlockedEventRaces
  \* A writer without the mutex is the dispatcher, for a thread that holds it.
  <2>1. ASSUME NEW c \in Actor, Writing(c), ~Unlocked(c)
        PROVE  \/ mutex = c
               \/ c = Dispatcher /\ \E t \in Thread : mutex = t /\ pc[t] = "receive"
    <3>1. CASE c = Dispatcher
      BY <2>1, <3>1 DEF IInv, FakeInv, QueueInv, LockInv, Waits, Critical, Writing
    <3>2. CASE c = Storage
      BY <2>1, <3>2 DEF IInv, LockInv, Writing
    <3>3. CASE c \in Thread
      BY <2>1, <3>3
    <3> QED BY <3>1, <3>2, <3>3 DEF Actor
  <2>2. ASSUME NEW c \in Actor, Writing(c), mutex = c
        PROVE  \A t \in Thread : mutex = t => pc[t] # "receive"
    <3> SUFFICES ASSUME c \in Thread PROVE pc[c] # "receive"
      BY <2>2
    <3> QED BY <2>2, ConstantAssumption DEF IInv, FakeInv, Writing
  <2> QED BY <2>1, <2>2
<1> QED BY <1>1, Invariance, PTL

-----------------------------------------------------------------------------
(* DiscDispatch implements DiscService.                                      *)

\* A step that changes neither the image nor anybody's phase or answer is a
\* stuttering step of the service.
LEMMA Stutter ==
  ASSUME emu' = emu,
         \A u \in Thread : Phase(u)' = Phase(u),
         \A u \in Thread : Phase(u) = "answered" => Head(resultQ') = Head(resultQ)
  PROVE  UNCHANGED Service!vars
<1>1. phaseBar' = phaseBar
  BY DEF phaseBar
<1>2. discBar' = discBar
  BY DEF discBar
<1> QED BY <1>1, <1>2 DEF Service!vars

\* A step in which t's phase changes and the others are quiet changes the two
\* functions at t only.
LEMMA OnlyPhaseOf ==
  ASSUME NEW t \in Thread,
         \A u \in Thread \ {t} : Phase(u) = "none" /\ Phase(u)' = "none"
  PROVE  /\ phaseBar' = [phaseBar EXCEPT ![t] = Phase(t)']
         /\ discBar' = [discBar EXCEPT ![t] = IF Phase(t)' = "answered" THEN Head(resultQ').disc
                                              ELSE Off]
         /\ Service!Quiet(Thread \ {t})
         /\ phaseBar[t] = Phase(t)
BY DEF phaseBar, discBar, Service!Quiet

\* Whoever is in the critical section is the only one with a request.
LEMMA OthersQuiet ==
  ASSUME IInv, NEW t \in Thread, Critical(t)
  PROVE  \A u \in Thread \ {t} : Phase(u) = "none"
BY OneCritical DEF Phase, Critical

\* A step of thread t, in the critical section, leaves the others quiet.
LEMMA OthersStayQuiet ==
  ASSUME IInv, NEW t \in Thread, Critical(t),
         \A u \in Thread \ {t} : pc'[u] = pc[u] /\ cmd'[u] = cmd[u]
  PROVE  \A u \in Thread \ {t} : Phase(u) = "none" /\ Phase(u)' = "none"
<1>1. \A u \in Thread \ {t} : ~Critical(u)
  BY OneCritical
<1>2. \A u \in Thread \ {t} : Phase(u)' = "none"
  BY <1>1 DEF Phase, Critical
<1> QED BY <1>2, OthersQuiet

\* The initial states are initial states of the service.
LEMMA InitRefines == Init => Service!Init
BY DEF Init, Service!Init, phaseBar, discBar, Phase

\* A thread in the critical section that has no request before or after the
\* step takes a stuttering step, when it leaves the image alone.
LEMMA QuietStep ==
  ASSUME IInv, NEW t \in Thread, Critical(t),
         \A u \in Thread \ {t} : pc'[u] = pc[u] /\ cmd'[u] = cmd[u],
         Phase(t) = "none", Phase(t)' = "none", emu' = emu
  PROVE  UNCHANGED Service!vars
BY OthersStayQuiet, Stutter

\* A thread in the critical section that has a new request asks for service.
LEMMA AskStep ==
  ASSUME IInv, NEW t \in Thread, Critical(t),
         \A u \in Thread \ {t} : pc'[u] = pc[u] /\ cmd'[u] = cmd[u],
         Phase(t) \in {"none", "answered"}, Phase(t)' = "asked", emu' = emu
  PROVE  Service!Next
<1>1. Service!Ask(t)
  BY OthersStayQuiet, OnlyPhaseOf DEF Service!Ask
<1> QED BY <1>1 DEF Service!Next

\* Steps outside the critical section, and steps inside it that do not touch
\* the requests.
LEMMA LocalStep ==
  ASSUME IInv, NEW t \in Thread,
         \/ Begin(t) \/ CheckSkip(t) \/ LockMutex(t) \/ NotDispatched(t) \/ StartFakeEvent(t)
         \/ CallAgain(t) \/ Authenticate(t) \/ GetDiscType(t) \/ ReinsertedEventDone(t) \/ UnlockHandle(t) \/ UnlockMutex(t)
  PROVE  UNCHANGED Service!vars
<1> USE DEF IInv, TypeOK, At, Prepare, Return, threadVars, lockVars, queueVars, dispatchVars,
            eventVars
<1>1. /\ emu' = emu /\ resultQ' = resultQ
      /\ \A u \in Thread \ {t} : pc'[u] = pc[u] /\ cmd'[u] = cmd[u]
  BY DEF Begin, CheckSkip, LockMutex, NotDispatched, StartFakeEvent, CallAgain, Authenticate, GetDiscType,
     ReinsertedEventDone, UnlockHandle, UnlockMutex
<1>2. Phase(t) = "none" /\ (cmd'[t] = "event" \/ pc'[t] \notin {"send", "receive"})
  BY DEF Begin, CheckSkip, LockMutex, NotDispatched, StartFakeEvent, CallAgain, Authenticate, GetDiscType,
     ReinsertedEventDone, UnlockHandle, UnlockMutex, Phase
<1>3. Phase(t)' = "none"
  BY <1>2 DEF Phase
<1>4. \A u \in Thread \ {t} : Phase(u)' = Phase(u)
  BY <1>1 DEF Phase, Replied
<1> QED BY <1>1, <1>2, <1>3, <1>4, Stutter

\* A request with nothing in the result queue has not been answered.
LEMMA NotReplied ==
  ASSUME IInv, NEW t \in Thread, Critical(t), pc[t] # "receive"
  PROVE  resultQ = <<>> /\ commandQ = <<>> /\ dpc = "wait"
BY OneCritical DEF IInv, QueueInv, Waits, Critical

\* Preparing a request asks the service, unless the mutex of the handle comes first.
LEMMA StartStep ==
  ASSUME IInv, NEW t \in Thread, StartRead(t) \/ StartCommand(t) \/ LockHandle(t)
  PROVE  Service!Next \/ UNCHANGED Service!vars
<1> USE DEF IInv, TypeOK, At, Prepare, threadVars, lockVars, queueVars, dispatchVars, eventVars
<1>1. /\ emu' = emu /\ resultQ' = resultQ
      /\ \A u \in Thread \ {t} : pc'[u] = pc[u] /\ cmd'[u] = cmd[u]
      /\ pc'[t] # "receive"
  BY DEF StartRead, StartCommand, LockHandle
<1>2. pc[t] \in {"locked", "lock_handle_inner", "lock_handle"}
  BY DEF StartRead, StartCommand, LockHandle
<1>3. Phase(t) = "none" /\ Phase(t)' \in {"none", "asked"}
  BY <1>1, <1>2 DEF Phase, Replied
<1>4. CASE Phase(t)' = "none"
  BY <1>1, <1>3, <1>4, Stutter DEF Phase, Replied
<1>5. CASE Phase(t)' = "asked"
  <2>1. Critical(t)
    BY <1>2, <1>5 DEF Critical, LockHandle, Phase, StartRead, StartCommand
  <2> QED BY <1>1, <1>3, <1>5, <2>1, AskStep
<1> QED BY <1>3, <1>4, <1>5

\* Mount and Umount are the mount and unmount of the service.
LEMMA MountStep ==
  ASSUME IInv, NEW t \in Thread, Mount(t) \/ Umount(t)
  PROVE  Service!Next \/ UNCHANGED Service!vars
<1> USE DEF IInv, TypeOK, At, threadVars, lockVars, queueVars, dispatchVars, eventVars
<1>1. /\ pc[t] = "locked" /\ pc' = [pc EXCEPT ![t] = "unlock"]
      /\ cmd' = cmd /\ resultQ' = resultQ
  BY DEF Mount, Umount
<1>2. Phase(t) = "none" /\ Phase(t)' = "none"
  BY <1>1 DEF Phase
<1>3. \A u \in Thread : Phase(u) = "none" /\ Phase(u)' = "none"
  BY <1>1, <1>2, OthersStayQuiet DEF Critical
<1>4. Service!Quiet(Thread) /\ UNCHANGED <<phaseBar, discBar>>
  BY <1>3 DEF Service!Quiet, phaseBar, discBar
<1>5. CASE emu' = Off
  BY <1>4, <1>5 DEF Service!Unmount, Service!Next
<1>6. CASE emu' # Off
  <2>1. emu = Off /\ emu' \in Disc
    BY <1>6 DEF Mount, Umount
  <2>2. Service!Mount(emu')
    BY <1>4, <2>1 DEF Service!Mount
  <2> QED BY <2>1, <2>2 DEF Service!Next
<1> QED BY <1>5, <1>6

\* Putting the command into the queue is invisible to the service.
LEMMA SendStep ==
  ASSUME IInv, NEW t \in Thread, Send(t)
  PROVE  UNCHANGED Service!vars
<1> USE DEF IInv, TypeOK, At, threadVars, lockVars, queueVars, dispatchVars, eventVars
<1>1. pc[t] = "send" /\ resultQ = <<>> /\ commandQ = <<>>
  BY NotReplied DEF Send, Critical
<1>2. pc' = [pc EXCEPT ![t] = "receive"] /\ UNCHANGED <<emu, resultQ, cmd>>
  BY <1>1 DEF Send
<1>3. \A u \in Thread : Phase(u)' = Phase(u)
  BY <1>1, <1>2 DEF Phase, Replied
<1> QED BY <1>2, <1>3, Stutter

\* Taking the result ends the request, or asks for the next sector.
LEMMA ReceiveStep ==
  ASSUME IInv, NEW t \in Thread, Receive(t)
  PROVE  Service!Next \/ UNCHANGED Service!vars
<1> USE DEF IInv, TypeOK, At, threadVars, lockVars, queueVars, dispatchVars, eventVars
<1>1. /\ pc[t] = "receive" /\ resultQ # <<>> /\ resultQ' = <<>>
      /\ pc' \in {[pc EXCEPT ![t] = p] : p \in {"unlock_handle_inner", "unlock", "send"}}
      /\ UNCHANGED <<emu, cmd>>
  BY DEF Receive
<1>2. Critical(t) /\ \A u \in Thread \ {t} : pc'[u] = pc[u] /\ cmd'[u] = cmd[u]
  BY <1>1 DEF Critical
<1>3. Head(resultQ).from = t
  BY <1>1, <1>2, OneCritical DEF QueueInv, Waits, Critical
<1>4. CASE cmd[t] = "event"
  <2>1. Phase(t) = "none" /\ Phase(t)' = "none"
    BY <1>1, <1>4 DEF Phase
  <2> QED BY <1>1, <1>2, <2>1, QuietStep
<1>5. CASE cmd[t] # "event"
  <2>1. Phase(t) = "answered"
    BY <1>1, <1>3, <1>5 DEF Phase, Replied
  <2>2. CASE pc'[t] = "send"
    <3>1. Phase(t)' = "asked"
      BY <1>1, <1>5, <2>2 DEF Phase, Replied
    <3> QED BY <1>1, <1>2, <2>1, <3>1, AskStep
  <2>3. CASE pc'[t] # "send"
    <3>1. Phase(t)' = "none"
      BY <1>1, <2>3 DEF Phase
    <3>2. Service!Done(t)
      BY <1>1, <1>2, <2>1, <3>1, OthersStayQuiet, OnlyPhaseOf DEF Service!Done
    <3> QED BY <3>2 DEF Service!Next
  <2> QED BY <2>2, <2>3
<1> QED BY <1>4, <1>5

\* Putting the result into the queue answers the request.
LEMMA ReplyStep ==
  ASSUME IInv, Reply
  PROVE  Service!Next \/ UNCHANGED Service!vars
<1> USE DEF IInv, TypeOK, threadVars, lockVars, queueVars, dispatchVars, eventVars
<1>1. PICK t \in Thread :
         /\ t = dcmd.from /\ pc[t] = "receive" /\ resultQ = <<>> /\ serving = emu
         /\ UNCHANGED <<pc, cmd, emu>>
  BY DEF Reply, QueueInv, Waits
<1>2. resultQ' # <<>> /\ Head(resultQ') = [from |-> t, disc |-> emu]
  BY <1>1, SingletonQueue DEF Reply
<1>3. Critical(t) /\ \A u \in Thread \ {t} : pc'[u] = pc[u] /\ cmd'[u] = cmd[u]
  BY <1>1 DEF Critical
<1>4. CASE cmd[t] = "event"
  <2>1. Phase(t) = "none" /\ Phase(t)' = "none"
    BY <1>1, <1>4 DEF Phase
  <2> QED BY <1>1, <1>3, <2>1, QuietStep
<1>5. CASE cmd[t] # "event"
  <2>1. Phase(t) = "asked" /\ Phase(t)' = "answered"
    BY <1>1, <1>2, <1>5 DEF Phase, Replied
  <2>2. \A u \in Thread \ {t} : Phase(u) = "none" /\ Phase(u)' = "none"
    BY <1>3, OthersStayQuiet
  <2>3. /\ phaseBar' = [phaseBar EXCEPT ![t] = "answered"]
        /\ discBar' = [discBar EXCEPT ![t] = emu]
        /\ phaseBar[t] = "asked"
    <3>1. Head(resultQ').disc = emu
      BY <1>2
    <3>2. /\ phaseBar' = [phaseBar EXCEPT ![t] = Phase(t)']
          /\ discBar' = [discBar EXCEPT ![t] = IF Phase(t)' = "answered" THEN Head(resultQ').disc
                                               ELSE Off]
          /\ phaseBar[t] = Phase(t)
      BY <2>2, OnlyPhaseOf
    <3> QED BY <2>1, <3>1, <3>2
  <2>4. Service!Answer(t)
    BY <1>1, <2>3 DEF Service!Answer
  <2> QED BY <1>1, <2>4 DEF Service!Next
<1> QED BY <1>4, <1>5

\* The other steps of the dispatcher and of device_event.
LEMMA UnseenStep ==
  ASSUME UNCHANGED <<pc, cmd, resultQ, emu>>
  PROVE  UNCHANGED Service!vars
BY Stutter DEF Phase, Replied

\* Every step of the threads and the dispatcher is a step of the service or a
\* stuttering step.
LEMMA StepRefines ==
  ASSUME IInv, [Next]_vars
  PROVE  [Service!Next]_(Service!vars)
<1> USE DEF threadVars, lockVars, queueVars, dispatchVars, eventVars
<1>1. CASE UNCHANGED vars
  BY <1>1, UnseenStep DEF vars
<1>2. ASSUME NEW t \in Thread, Begin(t) \/ Continue(t)
      PROVE  [Service!Next]_(Service!vars)
  BY <1>2, LocalStep, StartStep, MountStep, SendStep, ReceiveStep DEF Continue
<1>3. CASE Reply
  BY <1>3, ReplyStep
<1>4. CASE Take \/ Serve \/ DispatchedEventDone
  BY <1>4, UnseenStep DEF Take, Serve, DispatchedEventDone
<1>5. ASSUME NEW a \in Actor, DeviceEvent(a)
      PROVE  [Service!Next]_(Service!vars)
  BY <1>5, UnseenStep DEF DeviceEvent, FakeEvent, SampleLoop, EventLock, EventUpdate
<1>6. CASE StorageEvent \/ StorageEventDone
  BY <1>6, UnseenStep DEF StorageEvent, StorageEventDone
<1> QED BY <1>1, <1>2, <1>3, <1>4, <1>5, <1>6 DEF Next, Dispatch

\* The locks and queues implement the service: one request at a time, answered
\* from the image that is mounted, which does not change meanwhile.
THEOREM ImplementsService == Spec => ServiceSafety
<1>1. Init => Service!Init
  BY InitRefines
<1>2. IInv /\ [Next]_vars => [Service!Next]_(Service!vars)
  BY StepRefines
<1> QED BY <1>1, <1>2, Invariance, PTL DEF Spec, ServiceSafety, Service!Safety
=============================================================================

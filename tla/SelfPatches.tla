---------------------------- MODULE SelfPatches ----------------------------
(***************************************************************************)
(* The patches of the payload are taken out of the kernel while a game's   *)
(* SELF is loaded, and put back after a delay (modulespatch.c).            *)
(*                                                                         *)
(* The thread that loads has the dispatch thread of storage_ext.c do both, *)
(* through the queues that the reads of an emulated disc use, but without  *)
(* their mutex.  In between, system calls and the decryption of modules    *)
(* wait for sleep_done; the system calls wait with interrupts suspended,   *)
(* and so keep their hardware thread.                                      *)
(***************************************************************************)
EXTENDS Integers, Sequences, FiniteSets

CONSTANTS
  Loader,   \* threads that load modules
  Reader,   \* threads that read an emulated disc
  Caller,   \* threads that make system calls
  Nobody,
  Cpus      \* hardware threads

Thread == Loader \cup Reader \cup Caller

ASSUME PatchesAssumption ==
  /\ Loader \cap Reader = {} /\ Loader \cap Caller = {} /\ Reader \cap Caller = {}
  /\ Nobody \notin Thread
  /\ Cpus \in Nat \ {0}

\* Hooks that replace the first instruction of a function: those of
\* modulespatch.c, and those of region.c, mappath.c and storage_ext.c.
Hook == {"modules", "devices"}
Instruction == {"original", "jump"}
Kind == {"read", "disable", "enable"}

VARIABLES
  patched,      \* the instructions do_patch changes are changed
  at,           \* at[h]: the first instruction of the functions of h
  saved,        \* saved[h]: the instruction the hook has put aside
  syscallHook,  \* every system call goes through syscall_handler
  sleep_done,
  commandQ,     \* command_queue, of size 1
  resultQ,      \* result_queue, of size 1
  mutex,        \* of the reads of an emulated disc
  dpc,          \* where the dispatch thread is
  dcmd,         \* the command it serves
  pc,           \* where each thread is
  served,       \* readers whose last read is done
  crossed       \* history: a load that takes the patches out has met another, or a read

hookVars == <<patched, at, saved, syscallHook>>
queueVars == <<commandQ, resultQ>>
dispatchVars == <<dpc, dcmd>>
vars == <<hookVars, sleep_done, queueVars, mutex, dispatchVars, pc, served, crossed>>

Step(t, from, to) == pc[t] = from /\ pc' = [pc EXCEPT ![t] = to]

\* Threads that have a hardware thread for themselves, interrupts suspended.
Spinning == {c \in Caller : pc[c] = "spin"}
Occupying == Spinning \cup {l \in Loader : pc[l] = "delay"}
\* The others need one that is left.
Runs == Cardinality(Occupying) < Cpus

\* A load whose patches are being taken out or put back, and a read between its
\* lock and its result.
Using == {l \in Loader : pc[l] \notin {"idle", "game", "module", "astray"}}
         \cup {r \in Reader : pc[r] \in {"sending", "waiting"}}
Use(t) == crossed' = (crossed \/ Using \ {t} # {})

\* event_port_send fails when the queue is full, which nobody looks at.
Sent(q, e) == IF q = <<>> THEN <<e>> ELSE q

-----------------------------------------------------------------------------
(* The thread that loads: post_lv1_call_99_wrapper, modules_patching.      *)

\* The hook calls what it has put aside: a jump, taken from elsewhere, leads astray.
Wrap(l) ==
  /\ Runs /\ pc[l] = "idle" /\ at["modules"] = "jump"
  /\ IF saved["modules"] = "jump"
       THEN pc' = [pc EXCEPT ![l] = "astray"] /\ UNCHANGED sleep_done
       ELSE /\ sleep_done' = 1
            /\ \E next \in {"game", "module"} : pc' = [pc EXCEPT ![l] = next]
  /\ UNCHANGED <<hookVars, queueVars, mutex, dispatchVars, served, crossed>>

Hold(l) ==
  /\ Runs /\ Step(l, "game", "drain")
  /\ sleep_done' = 0
  /\ Use(l)
  /\ UNCHANGED <<hookVars, queueVars, mutex, dispatchVars, served>>

Drain(l) ==
  /\ Runs
  /\ Step(l, "drain", "send") \/ Step(l, "drained", "delay") \/ Step(l, "redrain", "module")
  /\ resultQ' = <<>>
  /\ UNCHANGED <<hookVars, sleep_done, commandQ, mutex, dispatchVars, served, crossed>>

SendToggle(l) ==
  /\ Runs
  /\ \/ Step(l, "send", "receive")
        /\ commandQ' = Sent(commandQ, [kind |-> "disable", from |-> l])
     \/ Step(l, "resend", "rereceive")
        /\ commandQ' = Sent(commandQ, [kind |-> "enable", from |-> l])
  /\ Use(l)
  /\ UNCHANGED <<hookVars, sleep_done, resultQ, mutex, dispatchVars, served>>

\* Mutant: the result is not waited for.
ReceiveToggleNot(l) ==
  /\ Runs
  /\ Step(l, "receive", "drained") \/ Step(l, "rereceive", "redrain")
  /\ UNCHANGED <<hookVars, sleep_done, queueVars, mutex, dispatchVars, served, crossed>>

\* Whatever result is there is taken for the one that is waited for.
ReceiveToggle(l) ==
  /\ Runs /\ resultQ # <<>>
  /\ Step(l, "receive", "drained") \/ Step(l, "rereceive", "redrain")
  /\ resultQ' = Tail(resultQ)
  /\ UNCHANGED <<hookVars, sleep_done, commandQ, mutex, dispatchVars, served, crossed>>

\* Mutant: the threads that were held are not let go.
DelayOverStill(l) ==
  /\ Step(l, "delay", "resend")
  /\ UNCHANGED <<hookVars, sleep_done, queueVars, mutex, dispatchVars, served, crossed>>

\* Mutant: the patches stay out.
DelayOverForGood(l) ==
  /\ Step(l, "delay", "module")
  /\ sleep_done' = 1
  /\ UNCHANGED <<hookVars, queueVars, mutex, dispatchVars, served, crossed>>

\* The delay is over; the thread has kept its hardware thread.
DelayOver(l) ==
  /\ Step(l, "delay", "resend")
  /\ sleep_done' = 1
  /\ UNCHANGED <<hookVars, queueVars, mutex, dispatchVars, served, crossed>>

Decrypt(l) ==
  /\ Runs /\ Step(l, "module", "idle")
  /\ at["modules"] = "jump" => sleep_done = 1
  /\ UNCHANGED <<hookVars, sleep_done, queueVars, mutex, dispatchVars, served, crossed>>

-----------------------------------------------------------------------------
(* A read of the emulated disc, and a system call.                         *)

LockRead(r) ==
  /\ Runs /\ Step(r, "idle", "sending")
  /\ at["devices"] = "jump" /\ mutex = Nobody
  /\ mutex' = r
  /\ served' = served \ {r}
  /\ Use(r)
  /\ UNCHANGED <<hookVars, sleep_done, queueVars, dispatchVars>>

SendRead(r) ==
  /\ Runs /\ Step(r, "sending", "waiting")
  /\ commandQ' = Sent(commandQ, [kind |-> "read", from |-> r])
  /\ Use(r)
  /\ UNCHANGED <<hookVars, sleep_done, resultQ, mutex, dispatchVars, served>>

ReceiveRead(r) ==
  /\ Runs /\ Step(r, "waiting", "read")
  /\ resultQ # <<>>
  /\ resultQ' = Tail(resultQ)
  /\ UNCHANGED <<hookVars, sleep_done, commandQ, mutex, dispatchVars, served, crossed>>

UnlockRead(r) ==
  /\ Runs /\ Step(r, "read", "idle")
  /\ mutex' = Nobody
  /\ UNCHANGED <<hookVars, sleep_done, queueVars, dispatchVars, served, crossed>>

\* syscall_handler.
Spin(c) ==
  /\ Runs /\ Step(c, "idle", "spin")
  /\ syscallHook /\ sleep_done = 0
  /\ UNCHANGED <<hookVars, sleep_done, queueVars, mutex, dispatchVars, served, crossed>>

Unspin(c) ==
  /\ Step(c, "spin", "idle")
  /\ sleep_done = 1
  /\ UNCHANGED <<hookVars, sleep_done, queueVars, mutex, dispatchVars, served, crossed>>

-----------------------------------------------------------------------------
(* The dispatch thread.                                                    *)

Dispatch(from, to) ==
  /\ Runs /\ dpc = from /\ dpc' = to
  /\ UNCHANGED <<sleep_done, mutex, pc, crossed>>

Take ==
  /\ Dispatch("wait", "serve")
  /\ commandQ # <<>>
  /\ dcmd' = Head(commandQ)
  /\ commandQ' = Tail(commandQ)
  /\ UNCHANGED <<hookVars, resultQ, served>>

ServeRead ==
  /\ Dispatch("serve", "reply") /\ dcmd.kind = "read"
  /\ served' = served \cup {dcmd.from}
  /\ UNCHANGED <<hookVars, queueVars, dcmd>>

\* hook_function_with_*: the instruction that is there is put aside.
Hooked(h) ==
  /\ saved' = [saved EXCEPT ![h] = at[h]]
  /\ at' = [at EXCEPT ![h] = "jump"]

\* unhook_function_with_*.
Unhooked(h) == at' = [at EXCEPT ![h] = saved[h]] /\ UNCHANGED saved

\* enable_patches.
EnablePatches ==
  /\ Dispatch("serve", "hook_modules") /\ dcmd.kind = "enable"
  /\ patched' = TRUE
  /\ syscallHook' = TRUE
  /\ UNCHANGED <<at, saved, queueVars, dcmd, served>>

HookModules ==
  /\ Dispatch("hook_modules", "hook_devices")
  /\ Hooked("modules")
  /\ UNCHANGED <<patched, syscallHook, queueVars, dcmd, served>>

HookDevices ==
  /\ Dispatch("hook_devices", "reply")
  /\ Hooked("devices")
  /\ UNCHANGED <<patched, syscallHook, queueVars, dcmd, served>>

\* disable_patches.
DisablePatches ==
  /\ Dispatch("serve", "unhook_devices") /\ dcmd.kind = "disable"
  /\ patched' = FALSE
  /\ Unhooked("modules")
  /\ UNCHANGED <<syscallHook, queueVars, dcmd, served>>

UnhookDevices ==
  /\ Dispatch("unhook_devices", "remove_handler")
  /\ Unhooked("devices")
  /\ UNCHANGED <<patched, syscallHook, queueVars, dcmd, served>>

RemoveSyscallHandler ==
  /\ Dispatch("remove_handler", "reply")
  /\ syscallHook' = FALSE
  /\ UNCHANGED <<patched, at, saved, queueVars, dcmd, served>>

Reply ==
  /\ Dispatch("reply", "wait")
  /\ resultQ' = Sent(resultQ, dcmd)
  /\ UNCHANGED <<hookVars, commandQ, dcmd, served>>

-----------------------------------------------------------------------------
\* The end of main, when the patches are in.
Init ==
  /\ patched = TRUE
  /\ at = [h \in Hook |-> "jump"]
  /\ saved = [h \in Hook |-> "original"]
  /\ syscallHook = TRUE
  /\ sleep_done = 1
  /\ commandQ = <<>> /\ resultQ = <<>>
  /\ mutex = Nobody
  /\ dpc = "wait"
  /\ dcmd = [kind |-> "read", from |-> Nobody]
  /\ pc = [t \in Thread |-> "idle"]
  /\ served = {}
  /\ crossed = FALSE

Loading(l) ==
  Hold(l) \/ Drain(l) \/ SendToggle(l) \/ ReceiveToggle(l) \/ DelayOver(l) \/ Decrypt(l)
Reading(r) == SendRead(r) \/ ReceiveRead(r) \/ UnlockRead(r)
Dispatching ==
  \/ Take \/ ServeRead \/ EnablePatches \/ HookModules \/ HookDevices
  \/ DisablePatches \/ UnhookDevices \/ RemoveSyscallHandler \/ Reply

Next ==
  \/ \E l \in Loader : Wrap(l) \/ Loading(l)
  \/ \E r \in Reader : LockRead(r) \/ Reading(r)
  \/ \E c \in Caller : Spin(c) \/ Unspin(c)
  \/ Dispatching

Spec == Init /\ [][Next]_vars

\* Threads that may run get to run; a thread in the middle of a load waits
\* behind others for a hardware thread, but not for ever.
Fairness ==
  /\ \A l \in Loader : SF_vars(Loading(l))
  /\ \A r \in Reader : SF_vars(Reading(r))
  /\ \A c \in Caller : WF_vars(Unspin(c))
  /\ SF_vars(Dispatching)

LiveSpec == Spec /\ Fairness
=============================================================================

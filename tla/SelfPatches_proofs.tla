------------------------- MODULE SelfPatches_proofs -------------------------
(***************************************************************************)
(* Proofs about SelfPatches, for any threads and number of hardware        *)
(* threads.  As long as a load meets no other load and no read, one thread *)
(* at a time uses the queues, and where it is tells which of the patches   *)
(* are in.                                                                 *)
(***************************************************************************)
EXTENDS SelfPatchesProps, TLAPS

\* Where threads are, and the types of the hooks.
LoadStep == {"idle", "game", "drain", "send", "receive", "drained", "delay", "resend",
             "rereceive", "redrain", "module", "astray"}
ReadStep == {"idle", "sending", "waiting", "read"}

Types ==
  /\ DOMAIN pc = Thread
  /\ \A l \in Loader : pc[l] \in LoadStep
  /\ \A r \in Reader : pc[r] \in ReadStep
  /\ \A c \in Caller : pc[c] \in {"idle", "spin"}
  /\ at \in [Hook -> Instruction]
  /\ saved \in [Hook -> Instruction]

-----------------------------------------------------------------------------
\* No command is under way.
Quiet == commandQ = <<>> /\ resultQ = <<>> /\ dpc = "wait"

\* The command of kind k of thread t is in one of the queues or served.
UnderWay(k, t) ==
  LET c == [kind |-> k, from |-> t] IN
  \/ commandQ = <<c>> /\ resultQ = <<>> /\ dpc = "wait"
  \/ commandQ = <<>> /\ resultQ = <<>> /\ dcmd = c /\ dpc # "wait"
  \/ commandQ = <<>> /\ resultQ = <<c>> /\ dpc = "wait"

Before == commandQ # <<>> \/ dpc = "serve"
After == resultQ # <<>> \/ dpc = "reply"

\* How far the dispatch thread is with a command.
ReadGoesOn(t) ==
  /\ PatchedIn
  /\ UnderWay("read", t)
  /\ dpc \in {"wait", "serve", "reply"}
  /\ After => t \in served

TakingOut(t) ==
  /\ UnderWay("disable", t)
  /\ dpc \in {"wait", "serve", "unhook_devices", "remove_handler", "reply"}
  /\ Before => PatchedIn
  /\ dpc = "unhook_devices" =>
       ~patched /\ syscallHook /\ at["modules"] = "original" /\ at["devices"] = "jump"
  /\ dpc = "remove_handler" => ~patched /\ \A h \in Hook : at[h] = "original"
  /\ After => PatchedOut

PuttingBack(t) ==
  /\ UnderWay("enable", t)
  /\ dpc \in {"wait", "serve", "hook_modules", "hook_devices", "reply"}
  /\ Before => PatchedOut
  /\ dpc = "hook_modules" => patched /\ syscallHook /\ \A h \in Hook : at[h] = "original"
  /\ dpc = "hook_devices" =>
       patched /\ syscallHook /\ at["modules"] = "jump" /\ at["devices"] = "original"
  /\ After => PatchedIn

\* What the place of a thread tells about the rest.
Phase(t) ==
  /\ pc[t] \in {"drain", "send", "redrain", "sending"} => Quiet /\ PatchedIn
  /\ pc[t] \in {"drained", "delay", "resend"} => Quiet /\ PatchedOut
  /\ pc[t] = "receive" => TakingOut(t)
  /\ pc[t] = "rereceive" => PuttingBack(t)
  /\ pc[t] = "waiting" => ReadGoesOn(t)
  /\ pc[t] = "read" => t \in served

OneUser == \A s, t \in Using : s = t
Unused == Using = {} => Quiet /\ PatchedIn
Awake ==
  /\ Loader \cap Using = {} => sleep_done = 1
  /\ \A l \in Loader : pc[l] \in {"resend", "rereceive", "redrain"} => sleep_done = 1

Saved == \A h \in Hook : saved[h] = "original"

Ordered ==
  /\ OneUser /\ Unused /\ Awake /\ Saved
  /\ \A t \in Loader \cup Reader : Phase(t)

PatchesInv == Types /\ (~crossed => Ordered)

-----------------------------------------------------------------------------
(* The dispatch thread.                                                    *)

\* A command under way is that of the one thread that uses the queues.
LEMMA CommandOfUser ==
  ASSUME Types, Ordered, ~Quiet
  PROVE  \E t \in Loader \cup Reader :
           /\ Using = {t}
           /\ \/ pc[t] = "receive" /\ TakingOut(t)
              \/ pc[t] = "rereceive" /\ PuttingBack(t)
              \/ pc[t] = "waiting" /\ ReadGoesOn(t)
<1>1. PICK t \in Using : TRUE
  BY DEF Ordered, Unused
<1>2. Using = {t}
  BY <1>1 DEF Ordered, OneUser
<1>3. t \in Loader \cup Reader /\ Phase(t)
  BY <1>1 DEF Using, Ordered
<1>4. CASE t \in Loader
  BY <1>1, <1>2, <1>3, <1>4, PatchesAssumption DEF Using, Types, LoadStep, Phase
<1>5. CASE t \in Reader
  BY <1>1, <1>2, <1>3, <1>5, PatchesAssumption DEF Using, Types, ReadStep, Phase
<1> QED BY <1>3, <1>4, <1>5

\* A step of the dispatch thread that the user of the queues agrees with is in
\* order for everybody.
LEMMA DispatchInOrder ==
  ASSUME Types, Ordered, NEW t \in Loader \cup Reader, Using = {t},
         UNCHANGED <<pc, sleep_done>>, served \subseteq served',
         Saved',
         Phase(t)'
  PROVE  Ordered'
<1>1. Using' = {t}
  BY DEF Using
<1>2. ASSUME NEW s \in Loader \cup Reader, s # t PROVE Phase(s)'
  <2>1. s \notin Using /\ Phase(s)
    BY <1>2 DEF Ordered
  <2>2. pc[s] \in {"idle", "game", "module", "astray", "read"}
    BY <2>1, PatchesAssumption DEF Using, Types, LoadStep, ReadStep
  <2>3. pc'[s] = pc[s] /\ (pc[s] = "read" => s \in served')
    BY <2>1 DEF Phase
  <2> QED BY <2>2, <2>3 DEF Phase
<1>3. (OneUser /\ Unused)'
  BY <1>1 DEF OneUser, Unused
<1>4. Awake'
  BY <1>1 DEF Ordered, Awake
<1> QED BY <1>2, <1>3, <1>4 DEF Ordered

\* A command goes on its way, whatever its kind.
LEMMA TakeGoesOn ==
  ASSUME NEW k, NEW t, UnderWay(k, t), Take
  PROVE  /\ UnderWay(k, t)'
         /\ dpc = "wait" /\ dpc' = "serve"
         /\ commandQ # <<>> /\ commandQ' = <<>> /\ resultQ' = <<>>
BY DEF UnderWay, Take, Dispatch

\* A command under way stays so while the dispatcher works on.
LEMMA ServeGoesOn ==
  ASSUME NEW k, NEW t, UnderWay(k, t), dpc # "wait", dpc' # "wait", UNCHANGED <<queueVars, dcmd>>
  PROVE  /\ UnderWay(k, t)'
         /\ dcmd.kind = k /\ dcmd.from = t
         /\ commandQ = <<>> /\ resultQ = <<>> /\ commandQ' = <<>> /\ resultQ' = <<>>
BY DEF UnderWay, queueVars

\* It stays so as the dispatcher replies.
LEMMA ReplyGoesOn ==
  ASSUME NEW k, NEW t, UnderWay(k, t), Reply
  PROVE  /\ UnderWay(k, t)'
         /\ dpc = "reply" /\ dpc' = "wait"
         /\ commandQ' = <<>> /\ resultQ' # <<>>
BY DEF UnderWay, Reply, Dispatch, Sent

\* Every step of the dispatch thread keeps the order.
LEMMA DispatchKeeps == Types /\ Ordered /\ Dispatching => Types' /\ Ordered'
<1> SUFFICES ASSUME Types, Ordered, Dispatching PROVE Types' /\ Ordered'
  OBVIOUS
<1>1. Types'
  BY DEF Types, Dispatching, Dispatch, Take, ServeRead, EnablePatches, HookModules, HookDevices,
         DisablePatches, UnhookDevices, RemoveSyscallHandler, Reply, Hooked, Unhooked, hookVars,
         Hook, Instruction
<1>2. ~Quiet
  BY DEF Quiet, Dispatching, Dispatch, Take, ServeRead, EnablePatches, HookModules, HookDevices,
         DisablePatches, UnhookDevices, RemoveSyscallHandler, Reply
<1>3. PICK t \in Loader \cup Reader :
        /\ Using = {t}
        /\ \/ pc[t] = "receive" /\ TakingOut(t)
           \/ pc[t] = "rereceive" /\ PuttingBack(t)
           \/ pc[t] = "waiting" /\ ReadGoesOn(t)
  BY <1>2, CommandOfUser
<1>4. UNCHANGED <<pc, sleep_done>> /\ served \subseteq served' /\ Saved /\ at \in [Hook -> Instruction]
      /\ saved \in [Hook -> Instruction]
  BY DEF Dispatching, Dispatch, Take, ServeRead, EnablePatches, HookModules, HookDevices,
         DisablePatches, UnhookDevices, RemoveSyscallHandler, Reply, Ordered, Types
<1>5. SUFFICES Saved' /\ Phase(t)'
  BY <1>1, <1>3, <1>4, DispatchInOrder
<1>6. SUFFICES /\ Saved'
               /\ pc[t] = "receive" /\ TakingOut(t) => TakingOut(t)'
               /\ pc[t] = "rereceive" /\ PuttingBack(t) => PuttingBack(t)'
               /\ pc[t] = "waiting" /\ ReadGoesOn(t) => ReadGoesOn(t)'
  BY <1>3, <1>4 DEF Phase
<1>7. CASE Take
  <2>1. Saved'
    BY <1>4, <1>7 DEF Take, hookVars, Saved, Hook
  <2>2. ASSUME pc[t] = "receive", TakingOut(t) PROVE TakingOut(t)'
    <3>1. UnderWay("disable", t)
      BY <2>2 DEF TakingOut
    <3> QED BY <1>4, <1>7, <2>2, <3>1, TakeGoesOn DEF Take, Dispatch, hookVars, TakingOut, Before, After, Saved, PatchedIn, PatchedOut, Hook
  <2>3. ASSUME pc[t] = "rereceive", PuttingBack(t) PROVE PuttingBack(t)'
    <3>1. UnderWay("enable", t)
      BY <2>3 DEF PuttingBack
    <3> QED BY <1>4, <1>7, <2>3, <3>1, TakeGoesOn DEF Take, Dispatch, hookVars, PuttingBack, Before, After, Saved, PatchedIn, PatchedOut, Hook
  <2>4. ASSUME pc[t] = "waiting", ReadGoesOn(t) PROVE ReadGoesOn(t)'
    <3>1. UnderWay("read", t)
      BY <2>4 DEF ReadGoesOn
    <3> QED BY <1>4, <1>7, <2>4, <3>1, TakeGoesOn DEF Take, Dispatch, hookVars, ReadGoesOn, Before, After, Saved, PatchedIn, PatchedOut, Hook
  <2> QED BY <2>1, <2>2, <2>3, <2>4
<1>8. CASE ServeRead
  <2>1. Saved'
    BY <1>4, <1>8 DEF ServeRead, hookVars, Saved, Hook
  <2>2. ASSUME pc[t] = "receive", TakingOut(t) PROVE TakingOut(t)'
    <3>1. UnderWay("disable", t)
      BY <2>2 DEF TakingOut
    <3> QED BY <1>4, <1>8, <2>2, <3>1, ServeGoesOn DEF ServeRead, Dispatch, hookVars, TakingOut, Before, After, Saved, PatchedIn, PatchedOut, Hook
  <2>3. ASSUME pc[t] = "rereceive", PuttingBack(t) PROVE PuttingBack(t)'
    <3>1. UnderWay("enable", t)
      BY <2>3 DEF PuttingBack
    <3> QED BY <1>4, <1>8, <2>3, <3>1, ServeGoesOn DEF ServeRead, Dispatch, hookVars, PuttingBack, Before, After, Saved, PatchedIn, PatchedOut, Hook
  <2>4. ASSUME pc[t] = "waiting", ReadGoesOn(t) PROVE ReadGoesOn(t)'
    <3>1. UnderWay("read", t)
      BY <2>4 DEF ReadGoesOn
    <3> QED BY <1>4, <1>8, <2>4, <3>1, ServeGoesOn DEF ServeRead, Dispatch, hookVars, ReadGoesOn, Before, After, Saved, PatchedIn, PatchedOut, Hook
  <2> QED BY <2>1, <2>2, <2>3, <2>4
<1>9. CASE EnablePatches
  <2>1. Saved'
    BY <1>4, <1>9 DEF EnablePatches, Saved, Hook
  <2>2. ASSUME pc[t] = "receive", TakingOut(t) PROVE TakingOut(t)'
    <3>1. UnderWay("disable", t)
      BY <2>2 DEF TakingOut
    <3> QED BY <1>4, <1>9, <2>2, <3>1, ServeGoesOn DEF EnablePatches, Dispatch, TakingOut, Before, After, Saved, PatchedIn, PatchedOut, Hook
  <2>3. ASSUME pc[t] = "rereceive", PuttingBack(t) PROVE PuttingBack(t)'
    <3>1. UnderWay("enable", t)
      BY <2>3 DEF PuttingBack
    <3> QED BY <1>4, <1>9, <2>3, <3>1, ServeGoesOn DEF EnablePatches, Dispatch, PuttingBack, Before, After, Saved, PatchedIn, PatchedOut, Hook
  <2>4. ASSUME pc[t] = "waiting", ReadGoesOn(t) PROVE ReadGoesOn(t)'
    <3>1. UnderWay("read", t)
      BY <2>4 DEF ReadGoesOn
    <3> QED BY <1>4, <1>9, <2>4, <3>1, ServeGoesOn DEF EnablePatches, Dispatch, ReadGoesOn, Before, After, Saved, PatchedIn, PatchedOut, Hook
  <2> QED BY <2>1, <2>2, <2>3, <2>4
<1>10. CASE HookModules
  <2>1. Saved'
    <3>1. at["modules"] = "original"
      BY <1>3, <1>10 DEF HookModules, Dispatch, TakingOut, PuttingBack, ReadGoesOn, Hook
    <3> QED BY <1>4, <1>10, <3>1 DEF HookModules, Hooked, Saved, Hook
  <2>2. ASSUME pc[t] = "receive", TakingOut(t) PROVE TakingOut(t)'
    <3>1. UnderWay("disable", t)
      BY <2>2 DEF TakingOut
    <3> QED BY <1>4, <1>10, <2>2, <3>1, ServeGoesOn DEF HookModules, Dispatch, Hooked, TakingOut, Before, After, Saved, PatchedIn, PatchedOut, Hook
  <2>3. ASSUME pc[t] = "rereceive", PuttingBack(t) PROVE PuttingBack(t)'
    <3>1. UnderWay("enable", t)
      BY <2>3 DEF PuttingBack
    <3> QED BY <1>4, <1>10, <2>3, <3>1, ServeGoesOn DEF HookModules, Dispatch, Hooked, PuttingBack, Before, After, Saved, PatchedIn, PatchedOut, Hook
  <2>4. ASSUME pc[t] = "waiting", ReadGoesOn(t) PROVE ReadGoesOn(t)'
    <3>1. UnderWay("read", t)
      BY <2>4 DEF ReadGoesOn
    <3> QED BY <1>4, <1>10, <2>4, <3>1, ServeGoesOn DEF HookModules, Dispatch, Hooked, ReadGoesOn, Before, After, Saved, PatchedIn, PatchedOut, Hook
  <2> QED BY <2>1, <2>2, <2>3, <2>4
<1>11. CASE HookDevices
  <2>1. Saved'
    <3>1. at["devices"] = "original"
      BY <1>3, <1>11 DEF HookDevices, Dispatch, TakingOut, PuttingBack, ReadGoesOn, Hook
    <3> QED BY <1>4, <1>11, <3>1 DEF HookDevices, Hooked, Saved, Hook
  <2>2. ASSUME pc[t] = "receive", TakingOut(t) PROVE TakingOut(t)'
    <3>1. UnderWay("disable", t)
      BY <2>2 DEF TakingOut
    <3> QED BY <1>4, <1>11, <2>2, <3>1, ServeGoesOn DEF HookDevices, Dispatch, Hooked, TakingOut, Before, After, Saved, PatchedIn, PatchedOut, Hook
  <2>3. ASSUME pc[t] = "rereceive", PuttingBack(t) PROVE PuttingBack(t)'
    <3>1. UnderWay("enable", t)
      BY <2>3 DEF PuttingBack
    <3> QED BY <1>4, <1>11, <2>3, <3>1, ServeGoesOn DEF HookDevices, Dispatch, Hooked, PuttingBack, Before, After, Saved, PatchedIn, PatchedOut, Hook
  <2>4. ASSUME pc[t] = "waiting", ReadGoesOn(t) PROVE ReadGoesOn(t)'
    <3>1. UnderWay("read", t)
      BY <2>4 DEF ReadGoesOn
    <3> QED BY <1>4, <1>11, <2>4, <3>1, ServeGoesOn DEF HookDevices, Dispatch, Hooked, ReadGoesOn, Before, After, Saved, PatchedIn, PatchedOut, Hook
  <2> QED BY <2>1, <2>2, <2>3, <2>4
<1>12. CASE DisablePatches
  <2>1. Saved'
    BY <1>4, <1>12 DEF DisablePatches, Unhooked, Saved, Hook
  <2>2. ASSUME pc[t] = "receive", TakingOut(t) PROVE TakingOut(t)'
    <3>1. UnderWay("disable", t)
      BY <2>2 DEF TakingOut
    <3> QED BY <1>4, <1>12, <2>2, <3>1, ServeGoesOn DEF DisablePatches, Dispatch, Unhooked, TakingOut, Before, After, Saved, PatchedIn, PatchedOut, Hook
  <2>3. ASSUME pc[t] = "rereceive", PuttingBack(t) PROVE PuttingBack(t)'
    <3>1. UnderWay("enable", t)
      BY <2>3 DEF PuttingBack
    <3> QED BY <1>4, <1>12, <2>3, <3>1, ServeGoesOn DEF DisablePatches, Dispatch, Unhooked, PuttingBack, Before, After, Saved, PatchedIn, PatchedOut, Hook
  <2>4. ASSUME pc[t] = "waiting", ReadGoesOn(t) PROVE ReadGoesOn(t)'
    <3>1. UnderWay("read", t)
      BY <2>4 DEF ReadGoesOn
    <3> QED BY <1>4, <1>12, <2>4, <3>1, ServeGoesOn DEF DisablePatches, Dispatch, Unhooked, ReadGoesOn, Before, After, Saved, PatchedIn, PatchedOut, Hook
  <2> QED BY <2>1, <2>2, <2>3, <2>4
<1>13. CASE UnhookDevices
  <2>1. Saved'
    BY <1>4, <1>13 DEF UnhookDevices, Unhooked, Saved, Hook
  <2>2. ASSUME pc[t] = "receive", TakingOut(t) PROVE TakingOut(t)'
    <3>1. UnderWay("disable", t)
      BY <2>2 DEF TakingOut
    <3> QED BY <1>4, <1>13, <2>2, <3>1, ServeGoesOn DEF UnhookDevices, Dispatch, Unhooked, TakingOut, Before, After, Saved, PatchedIn, PatchedOut, Hook
  <2>3. ASSUME pc[t] = "rereceive", PuttingBack(t) PROVE PuttingBack(t)'
    <3>1. UnderWay("enable", t)
      BY <2>3 DEF PuttingBack
    <3> QED BY <1>4, <1>13, <2>3, <3>1, ServeGoesOn DEF UnhookDevices, Dispatch, Unhooked, PuttingBack, Before, After, Saved, PatchedIn, PatchedOut, Hook
  <2>4. ASSUME pc[t] = "waiting", ReadGoesOn(t) PROVE ReadGoesOn(t)'
    <3>1. UnderWay("read", t)
      BY <2>4 DEF ReadGoesOn
    <3> QED BY <1>4, <1>13, <2>4, <3>1, ServeGoesOn DEF UnhookDevices, Dispatch, Unhooked, ReadGoesOn, Before, After, Saved, PatchedIn, PatchedOut, Hook
  <2> QED BY <2>1, <2>2, <2>3, <2>4
<1>14. CASE RemoveSyscallHandler
  <2>1. Saved'
    BY <1>4, <1>14 DEF RemoveSyscallHandler, Saved, Hook
  <2>2. ASSUME pc[t] = "receive", TakingOut(t) PROVE TakingOut(t)'
    <3>1. UnderWay("disable", t)
      BY <2>2 DEF TakingOut
    <3> QED BY <1>4, <1>14, <2>2, <3>1, ServeGoesOn DEF RemoveSyscallHandler, Dispatch, TakingOut, Before, After, Saved, PatchedIn, PatchedOut, Hook
  <2>3. ASSUME pc[t] = "rereceive", PuttingBack(t) PROVE PuttingBack(t)'
    <3>1. UnderWay("enable", t)
      BY <2>3 DEF PuttingBack
    <3> QED BY <1>4, <1>14, <2>3, <3>1, ServeGoesOn DEF RemoveSyscallHandler, Dispatch, PuttingBack, Before, After, Saved, PatchedIn, PatchedOut, Hook
  <2>4. ASSUME pc[t] = "waiting", ReadGoesOn(t) PROVE ReadGoesOn(t)'
    <3>1. UnderWay("read", t)
      BY <2>4 DEF ReadGoesOn
    <3> QED BY <1>4, <1>14, <2>4, <3>1, ServeGoesOn DEF RemoveSyscallHandler, Dispatch, ReadGoesOn, Before, After, Saved, PatchedIn, PatchedOut, Hook
  <2> QED BY <2>1, <2>2, <2>3, <2>4
<1>15. CASE Reply
  <2>1. Saved'
    BY <1>4, <1>15 DEF Reply, hookVars, Saved, Hook
  <2>2. ASSUME pc[t] = "receive", TakingOut(t) PROVE TakingOut(t)'
    <3>1. UnderWay("disable", t)
      BY <2>2 DEF TakingOut
    <3> QED BY <1>4, <1>15, <2>2, <3>1, ReplyGoesOn DEF Reply, Dispatch, hookVars, TakingOut, Before, After, Saved, PatchedIn, PatchedOut, Hook
  <2>3. ASSUME pc[t] = "rereceive", PuttingBack(t) PROVE PuttingBack(t)'
    <3>1. UnderWay("enable", t)
      BY <2>3 DEF PuttingBack
    <3> QED BY <1>4, <1>15, <2>3, <3>1, ReplyGoesOn DEF Reply, Dispatch, hookVars, PuttingBack, Before, After, Saved, PatchedIn, PatchedOut, Hook
  <2>4. ASSUME pc[t] = "waiting", ReadGoesOn(t) PROVE ReadGoesOn(t)'
    <3>1. UnderWay("read", t)
      BY <2>4 DEF ReadGoesOn
    <3> QED BY <1>4, <1>15, <2>4, <3>1, ReplyGoesOn DEF Reply, Dispatch, hookVars, ReadGoesOn, Before, After, Saved, PatchedIn, PatchedOut, Hook
  <2> QED BY <2>1, <2>2, <2>3, <2>4
<1> QED BY <1>7, <1>8, <1>9, <1>10, <1>11, <1>12, <1>13, <1>14, <1>15 DEF Dispatching

-----------------------------------------------------------------------------
(* The other threads.                                                      *)

\* A step of the one thread that uses the queues, or that begins to.
LEMMA UserInOrder ==
  ASSUME Types, Types', Ordered, NEW t \in Loader \cup Reader, Using \ {t} = {},
         \A s \in Loader \cup Reader : s # t => pc'[s] = pc[s] /\ (s \in served => s \in served'),
         Saved',
         Phase(t)',
         t \in Using' \/ (Quiet /\ PatchedIn)',
         (t \in Loader /\ t \in Using') \/ sleep_done' = 1,
         pc'[t] \in {"resend", "rereceive", "redrain"} => sleep_done' = 1
  PROVE  Ordered'
<1>1. ASSUME NEW s \in Loader \cup Reader, s # t
      PROVE  s \notin Using' /\ Phase(s)' /\ pc'[s] \in {"idle", "game", "module", "astray", "read"}
  <2>1. s \notin Using /\ Phase(s)
    BY <1>1 DEF Ordered
  <2>2. pc[s] \in {"idle", "game", "module", "astray", "read"}
    BY <2>1, PatchesAssumption DEF Using, Types, LoadStep, ReadStep
  <2>3. pc'[s] = pc[s] /\ (pc[s] = "read" => s \in served')
    BY <1>1, <2>1 DEF Phase
  <2>4. s \notin Using'
    BY <2>1, <2>3 DEF Using
  <2> QED BY <2>2, <2>3, <2>4 DEF Phase
<1>2. Using' \subseteq {t}
  BY <1>1 DEF Using
<1>3. (OneUser /\ Unused)'
  BY <1>2 DEF OneUser, Unused
<1>4. Awake'
  <2>1. Loader \cap Using' = {} => sleep_done' = 1
    OBVIOUS
  <2>2. ASSUME NEW l \in Loader, pc'[l] \in {"resend", "rereceive", "redrain"} PROVE sleep_done' = 1
    BY <1>1, <2>2
  <2> QED BY <2>1, <2>2 DEF Awake
<1> QED BY <1>1, <1>3, <1>4 DEF Ordered

\* A step of a thread that does not use the queues.
LEMMA OtherInOrder ==
  ASSUME Types, Types', Ordered, NEW t \in Thread, t \notin Using, t \notin Using', pc'[t] # "read",
         \A s \in Thread : s # t => pc'[s] = pc[s],
         UNCHANGED <<hookVars, queueVars, dispatchVars, served>>,
         sleep_done' \in {sleep_done, 1}
  PROVE  Ordered'
<1>1. Using' = Using
  BY DEF Using, Thread
<1>2. (OneUser /\ Unused)'
  BY <1>1 DEF Ordered, OneUser, Unused, Quiet, PatchedIn, hookVars, queueVars, dispatchVars
<1>3. ASSUME NEW l \in Loader, pc'[l] \in {"resend", "rereceive", "redrain"} PROVE sleep_done' = 1
  <2>1. l \in Using'
    BY <1>3 DEF Using
  <2>2. l # t /\ l \in Thread
    BY <2>1 DEF Thread
  <2> QED BY <1>3, <2>2 DEF Ordered, Awake
<1>4. Awake'
  BY <1>1, <1>3 DEF Ordered, Awake
<1>5. Saved'
  BY DEF Ordered, Saved, hookVars
<1>6. ASSUME NEW s \in Loader \cup Reader PROVE Phase(s)'
  <2>1. CASE s = t
    <3>1. pc'[t] \in {"idle", "game", "module", "astray"}
      BY <1>6, <2>1, PatchesAssumption DEF Using, Types, LoadStep, ReadStep
    <3> QED BY <2>1, <3>1 DEF Phase
  <2>2. CASE s # t
    <3>1. pc'[s] = pc[s] /\ Phase(s)
      BY <1>6, <2>2 DEF Thread, Ordered
    <3> QED BY <3>1 DEF Phase, Quiet, PatchedIn, PatchedOut, TakingOut, PuttingBack, ReadGoesOn,
                        UnderWay, Before, After, hookVars, queueVars, dispatchVars
  <2> QED BY <2>1, <2>2
<1> QED BY <1>2, <1>4, <1>5, <1>6 DEF Ordered

\* Threads stay at places of their own kind.
LEMMA NextTypes == Types /\ [Next]_vars => Types'
<1> SUFFICES ASSUME Types, [Next]_vars PROVE Types'
  OBVIOUS
<1> USE PatchesAssumption DEF Types, LoadStep, ReadStep, Thread
<1>1. ASSUME NEW l \in Loader, Wrap(l) \/ Loading(l) PROVE Types'
  <2>1. UNCHANGED hookVars
    BY <1>1 DEF Wrap, Loading, Hold, Drain, SendToggle, ReceiveToggle, DelayOver, Decrypt
  <2>2. \E next \in LoadStep : pc' = [pc EXCEPT ![l] = next]
    BY <1>1 DEF Wrap, Loading, Hold, Drain, SendToggle, ReceiveToggle, DelayOver, Decrypt, Step
  <2> QED BY <2>1, <2>2 DEF hookVars
<1>2. ASSUME NEW r \in Reader, LockRead(r) \/ Reading(r) PROVE Types'
  <2>1. UNCHANGED hookVars
    BY <1>2 DEF LockRead, Reading, SendRead, ReceiveRead, UnlockRead
  <2>2. \E next \in ReadStep : pc' = [pc EXCEPT ![r] = next]
    BY <1>2 DEF LockRead, Reading, SendRead, ReceiveRead, UnlockRead, Step
  <2> QED BY <2>1, <2>2 DEF hookVars
<1>3. ASSUME NEW c \in Caller, Spin(c) \/ Unspin(c) PROVE Types'
  BY <1>3 DEF Spin, Unspin, Step, hookVars
<1>4. CASE Dispatching
  BY <1>4 DEF Dispatching, Dispatch, Take, ServeRead, EnablePatches, HookModules, HookDevices,
         DisablePatches, UnhookDevices, RemoveSyscallHandler, Reply, Hooked, Unhooked, hookVars,
         Hook, Instruction
<1>5. CASE UNCHANGED vars
  BY <1>5 DEF vars, hookVars
<1> QED BY <1>1, <1>2, <1>3, <1>4, <1>5 DEF Next

\* A thread that uses the queues is the only one.
LEMMA OnlyUser ==
  ASSUME Ordered, NEW t \in Using
  PROVE  Using = {t} /\ t \in Loader \cup Reader /\ Phase(t)
BY DEF Ordered, OneUser, Using

\* A result that is received was the last word on a command.
LEMMA ResultTaken ==
  ASSUME NEW k, NEW t, UnderWay(k, t), resultQ # <<>>
  PROVE  commandQ = <<>> /\ dpc = "wait" /\ Tail(resultQ) = <<>>
<1>1. resultQ = <<[kind |-> k, from |-> t]>> /\ commandQ = <<>> /\ dpc = "wait"
  BY DEF UnderWay
<1> QED BY <1>1

\* Every step of a load keeps the order, as long as it does not cross another.
LEMMA LoadKeeps ==
  ASSUME Types, Types', Ordered, NEW l \in Loader, Wrap(l) \/ Loading(l), ~crossed'
  PROVE  Ordered'
<1> USE PatchesAssumption DEF Types, LoadStep, ReadStep
<1>1. l \in Thread /\ DOMAIN pc = Thread /\ l \notin Reader
  BY DEF Thread
<1>2. CASE Wrap(l)
  <2>1. saved["modules"] # "jump"
    BY DEF Ordered, Saved, Hook
  <2>2. PICK next \in {"game", "module"} : pc' = [pc EXCEPT ![l] = next]
    BY <1>2, <2>1 DEF Wrap
  <2>3. l \notin Using /\ l \notin Using' /\ pc'[l] # "read" /\ \A s \in Thread : s # l => pc'[s] = pc[s]
    BY <1>1, <1>2, <2>2 DEF Wrap, Using
  <2>4. UNCHANGED <<hookVars, queueVars, dispatchVars, served>> /\ sleep_done' \in {sleep_done, 1}
    BY <1>2, <2>1 DEF Wrap
  <2> QED BY <1>1, <2>3, <2>4, OtherInOrder
<1>3. CASE Decrypt(l)
  <2>1. l \notin Using /\ l \notin Using' /\ pc'[l] # "read" /\ \A s \in Thread : s # l => pc'[s] = pc[s]
    BY <1>1, <1>3 DEF Decrypt, Step, Using
  <2>2. UNCHANGED <<hookVars, queueVars, dispatchVars, served, sleep_done>>
    BY <1>3 DEF Decrypt
  <2> QED BY <1>1, <2>1, <2>2, OtherInOrder
<1>4. CASE Hold(l)
  <2>1. Using = {} /\ pc' = [pc EXCEPT ![l] = "drain"] /\ UNCHANGED <<hookVars, queueVars, dispatchVars, served>>
    BY <1>4, <1>1 DEF Hold, Step, Use, Using
  <2>2. Quiet /\ PatchedIn /\ Saved
    BY <2>1 DEF Ordered, Unused
  <2>3. (Quiet /\ PatchedIn /\ Saved)'
    BY <2>1, <2>2 DEF Quiet, PatchedIn, Saved, hookVars, queueVars, dispatchVars
  <2>4. Phase(l)' /\ l \in Using' /\ pc'[l] = "drain"
    BY <1>1, <2>1, <2>3 DEF Phase, Using
  <2>5. \A s \in Loader \cup Reader : s # l => pc'[s] = pc[s] /\ (s \in served => s \in served')
    BY <1>1, <2>1 DEF Thread
  <2> QED BY <2>1, <2>3, <2>4, <2>5, UserInOrder
<1>5. ASSUME Drain(l) \/ SendToggle(l) \/ ReceiveToggle(l) \/ DelayOver(l)
      PROVE  Ordered'
  <2>1. l \in Using
    BY <1>5 DEF Drain, SendToggle, ReceiveToggle, DelayOver, Step, Using
  <2>2. Using = {l} /\ Phase(l) /\ Saved /\ Awake
    BY <2>1, OnlyUser DEF Ordered
  <2>3. /\ UNCHANGED <<hookVars, dispatchVars, served>>
        /\ \A s \in Loader \cup Reader : s # l => pc'[s] = pc[s]
    BY <1>1, <1>5 DEF Drain, SendToggle, ReceiveToggle, DelayOver, Step, Thread
  <2>4. Saved'
    BY <2>2, <2>3 DEF Saved, hookVars
  <2>5. SUFFICES /\ Phase(l)'
                 /\ l \in Using' \/ ((Quiet /\ PatchedIn)' /\ sleep_done' = 1)
                 /\ pc'[l] \in {"resend", "rereceive", "redrain"} => sleep_done' = 1
    BY <2>2, <2>3, <2>4, UserInOrder
  <2>6. CASE Drain(l)
    <3>1. Quiet /\ UNCHANGED <<hookVars, commandQ, dispatchVars, sleep_done>> /\ resultQ' = <<>>
      BY <2>2, <2>6 DEF Drain, Step, Phase
    <3>2. Quiet' /\ (PatchedIn => PatchedIn') /\ (PatchedOut => PatchedOut')
      BY <3>1 DEF Quiet, PatchedIn, PatchedOut, hookVars, dispatchVars
    <3>3. CASE Step(l, "drain", "send")
      <4>1. pc[l] = "drain" /\ pc'[l] = "send"
        BY <1>1, <3>3 DEF Step
      <4>2. Phase(l)'
        BY <2>2, <3>2, <4>1 DEF Phase
      <4>3. l \in Using'
        BY <4>1 DEF Using
      <4> QED BY <4>1, <4>2, <4>3
    <3>4. CASE Step(l, "drained", "delay")
      <4>1. pc[l] = "drained" /\ pc'[l] = "delay"
        BY <1>1, <3>4 DEF Step
      <4>2. Phase(l)'
        BY <2>2, <3>2, <4>1 DEF Phase
      <4>3. l \in Using'
        BY <4>1 DEF Using
      <4> QED BY <4>1, <4>2, <4>3
    <3>5. CASE Step(l, "redrain", "module")
      BY <1>1, <2>2, <3>1, <3>2, <3>5 DEF Step, Phase, Using, Awake
    <3> QED BY <2>6, <3>3, <3>4, <3>5 DEF Drain
  <2>7. CASE SendToggle(l)
    <3>1. CASE Step(l, "send", "receive")
      <4>1. Quiet /\ PatchedIn /\ pc' = [pc EXCEPT ![l] = "receive"] /\ pc[l] = "send"
        BY <2>2, <3>1 DEF Step, Phase
      <4>2. commandQ' = <<[kind |-> "disable", from |-> l]>>
            /\ UNCHANGED <<patched, at, syscallHook, resultQ, dpc>>
        BY <2>7, <4>1 DEF SendToggle, Step, Sent, Quiet, hookVars, dispatchVars
      <4>3. TakingOut(l)'
        BY <4>1, <4>2 DEF TakingOut, UnderWay, Quiet, Before, After, PatchedIn
      <4>4. pc'[l] = "receive"
        BY <1>1, <4>1
      <4>5. Phase(l)' /\ l \in Using'
        BY <4>3, <4>4 DEF Phase, Using
      <4> QED BY <4>4, <4>5
    <3>2. CASE Step(l, "resend", "rereceive")
      <4>1. Quiet /\ PatchedOut /\ pc' = [pc EXCEPT ![l] = "rereceive"] /\ pc[l] = "resend"
        BY <2>2, <3>2 DEF Step, Phase
      <4>2. commandQ' = <<[kind |-> "enable", from |-> l]>>
            /\ UNCHANGED <<patched, at, syscallHook, resultQ, dpc, sleep_done>>
        BY <2>7, <4>1 DEF SendToggle, Step, Sent, Quiet, hookVars, dispatchVars
      <4>3. PuttingBack(l)'
        BY <4>1, <4>2 DEF PuttingBack, UnderWay, Quiet, Before, After, PatchedOut
      <4> QED BY <1>1, <2>2, <4>1, <4>2, <4>3 DEF Phase, Using, Awake
    <3> QED BY <2>7, <3>1, <3>2 DEF SendToggle
  <2>8. CASE ReceiveToggle(l)
    <3>1. CASE Step(l, "receive", "drained")
      <4>1. TakingOut(l) /\ pc' = [pc EXCEPT ![l] = "drained"]
        BY <2>2, <3>1 DEF Step, Phase
      <4>2. commandQ = <<>> /\ dpc = "wait" /\ PatchedOut /\ resultQ' = <<>>
        BY <2>8, <4>1, ResultTaken DEF ReceiveToggle, TakingOut, After
      <4>3. (Quiet /\ PatchedOut)'
        BY <2>8, <4>2 DEF ReceiveToggle, Quiet, PatchedOut, hookVars, dispatchVars
      <4>4. pc'[l] = "drained"
        BY <1>1, <4>1
      <4>5. Phase(l)' /\ l \in Using'
        BY <4>3, <4>4 DEF Phase, Using
      <4> QED BY <4>4, <4>5
    <3>2. CASE Step(l, "rereceive", "redrain")
      <4>1. PuttingBack(l) /\ pc' = [pc EXCEPT ![l] = "redrain"] /\ sleep_done = 1
        BY <2>2, <3>2 DEF Step, Phase, Awake
      <4>2. commandQ = <<>> /\ dpc = "wait" /\ PatchedIn /\ resultQ' = <<>>
        BY <2>8, <4>1, ResultTaken DEF ReceiveToggle, PuttingBack, After
      <4>3. (Quiet /\ PatchedIn)' /\ sleep_done' = 1
        BY <2>8, <4>1, <4>2 DEF ReceiveToggle, Quiet, PatchedIn, hookVars, dispatchVars
      <4> QED BY <1>1, <4>1, <4>3 DEF Phase, Using
    <3> QED BY <2>8, <3>1, <3>2 DEF ReceiveToggle
  <2>9. CASE DelayOver(l)
    <3>1. Quiet /\ PatchedOut /\ pc' = [pc EXCEPT ![l] = "resend"] /\ sleep_done' = 1
      BY <2>2, <2>9 DEF DelayOver, Step, Phase
    <3>2. (Quiet /\ PatchedOut)'
      BY <2>9, <3>1 DEF DelayOver, Quiet, PatchedOut, hookVars, queueVars, dispatchVars
    <3> QED BY <1>1, <3>1, <3>2 DEF Phase, Using
  <2> QED BY <1>5, <2>6, <2>7, <2>8, <2>9
<1> QED BY <1>2, <1>3, <1>4, <1>5 DEF Loading

\* So does every step of a read.
LEMMA ReadKeeps ==
  ASSUME Types, Types', Ordered, NEW r \in Reader, LockRead(r) \/ Reading(r), ~crossed'
  PROVE  Ordered'
<1> USE PatchesAssumption DEF Types, LoadStep, ReadStep
<1>1. r \in Thread /\ DOMAIN pc = Thread /\ r \notin Loader
  BY DEF Thread
<1>2. CASE LockRead(r)
  <2>1. /\ Using = {} /\ pc' = [pc EXCEPT ![r] = "sending"]
        /\ served' = served \ {r} /\ UNCHANGED <<hookVars, queueVars, dispatchVars, sleep_done>>
    BY <1>1, <1>2 DEF LockRead, Step, Use, Using
  <2>2. Quiet /\ PatchedIn /\ Saved /\ sleep_done = 1
    BY <2>1 DEF Ordered, Unused, Awake
  <2>3. (Quiet /\ PatchedIn /\ Saved)' /\ sleep_done' = 1
    BY <2>1, <2>2 DEF Quiet, PatchedIn, Saved, hookVars, queueVars, dispatchVars
  <2>4. Phase(r)' /\ r \in Using'
    BY <1>1, <2>1, <2>3 DEF Phase, Using
  <2>5. \A s \in Loader \cup Reader : s # r => pc'[s] = pc[s] /\ (s \in served => s \in served')
    BY <1>1, <2>1 DEF Thread
  <2> QED BY <2>1, <2>3, <2>4, <2>5, UserInOrder
<1>3. CASE UnlockRead(r)
  <2>1. r \notin Using /\ r \notin Using' /\ pc'[r] # "read" /\ \A s \in Thread : s # r => pc'[s] = pc[s]
    BY <1>1, <1>3 DEF UnlockRead, Step, Using
  <2>2. UNCHANGED <<hookVars, queueVars, dispatchVars, served, sleep_done>>
    BY <1>3 DEF UnlockRead
  <2> QED BY <1>1, <2>1, <2>2, OtherInOrder
<1>4. ASSUME SendRead(r) \/ ReceiveRead(r) PROVE Ordered'
  <2>1. r \in Using
    BY <1>4 DEF SendRead, ReceiveRead, Step, Using
  <2>2. Using = {r} /\ Phase(r) /\ Saved /\ sleep_done = 1
    BY <1>1, <2>1, OnlyUser DEF Ordered, Awake
  <2>3. /\ UNCHANGED <<hookVars, dispatchVars, served, sleep_done>>
        /\ \A s \in Loader \cup Reader : s # r => pc'[s] = pc[s]
    BY <1>1, <1>4 DEF SendRead, ReceiveRead, Step, Thread
  <2>4. Saved'
    BY <2>2, <2>3 DEF Saved, hookVars
  <2>5. SUFFICES Phase(r)' /\ (r \in Using' \/ (Quiet /\ PatchedIn)')
    BY <2>2, <2>3, <2>4, UserInOrder
  <2>6. CASE SendRead(r)
    <3>1. Quiet /\ PatchedIn /\ pc' = [pc EXCEPT ![r] = "waiting"]
      BY <2>2, <2>6 DEF SendRead, Step, Phase
    <3>2. commandQ' = <<[kind |-> "read", from |-> r]>> /\ UNCHANGED <<patched, at, syscallHook, resultQ, dpc>>
      BY <2>6, <3>1 DEF SendRead, Sent, Quiet, hookVars, dispatchVars
    <3>3. ReadGoesOn(r)'
      BY <3>1, <3>2 DEF ReadGoesOn, UnderWay, Quiet, After, PatchedIn
    <3> QED BY <1>1, <3>1, <3>3 DEF Phase, Using
  <2>7. CASE ReceiveRead(r)
    <3>1. ReadGoesOn(r) /\ pc' = [pc EXCEPT ![r] = "read"]
      BY <2>2, <2>7 DEF ReceiveRead, Step, Phase
    <3>2. commandQ = <<>> /\ dpc = "wait" /\ PatchedIn /\ resultQ' = <<>> /\ r \in served
      BY <2>7, <3>1, ResultTaken DEF ReceiveRead, ReadGoesOn, After
    <3>3. (Quiet /\ PatchedIn)' /\ r \in served'
      BY <2>7, <3>2 DEF ReceiveRead, Quiet, PatchedIn, hookVars, dispatchVars
    <3> QED BY <1>1, <3>1, <3>3 DEF Phase, Using
  <2> QED BY <1>4, <2>6, <2>7
<1> QED BY <1>2, <1>3, <1>4 DEF Reading

-----------------------------------------------------------------------------
\* The invariant is inductive.
LEMMA NextPatchesInv == PatchesInv /\ [Next]_vars => PatchesInv'
<1> SUFFICES ASSUME PatchesInv, [Next]_vars PROVE PatchesInv'
  OBVIOUS
<1>1. Types /\ Types'
  BY NextTypes DEF PatchesInv
<1>2. SUFFICES ASSUME ~crossed' PROVE Ordered'
  BY <1>1 DEF PatchesInv
<1>3. ~crossed
  BY <1>2 DEF Next, Wrap, Loading, Hold, Drain, SendToggle, ReceiveToggle, DelayOver, Decrypt,
              LockRead, Reading, SendRead, ReceiveRead, UnlockRead, Spin, Unspin, Use, vars,
              Dispatching, Dispatch, Take, ServeRead, EnablePatches, HookModules, HookDevices,
              DisablePatches, UnhookDevices, RemoveSyscallHandler, Reply
<1>4. Ordered
  BY <1>3 DEF PatchesInv
<1>5. ASSUME NEW l \in Loader, Wrap(l) \/ Loading(l) PROVE Ordered'
  BY <1>1, <1>2, <1>4, <1>5, LoadKeeps
<1>6. ASSUME NEW r \in Reader, LockRead(r) \/ Reading(r) PROVE Ordered'
  BY <1>1, <1>2, <1>4, <1>6, ReadKeeps
<1>7. ASSUME NEW c \in Caller, Spin(c) \/ Unspin(c) PROVE Ordered'
  <2>1. c \in Thread /\ c \notin Loader \cup Reader /\ DOMAIN pc = Thread
    BY <1>1, PatchesAssumption DEF Thread, Types
  <2>2. c \notin Using /\ c \notin Using'
    BY <2>1 DEF Using
  <2>3. pc'[c] # "read" /\ \A s \in Thread : s # c => pc'[s] = pc[s]
    BY <1>7, <2>1 DEF Spin, Unspin, Step
  <2>4. UNCHANGED <<hookVars, queueVars, dispatchVars, served, sleep_done>>
    BY <1>7 DEF Spin, Unspin
  <2> QED BY <1>1, <1>4, <2>1, <2>2, <2>3, <2>4, OtherInOrder
<1>8. CASE Dispatching
  BY <1>1, <1>4, <1>8, DispatchKeeps
<1>9. CASE UNCHANGED vars
  BY <1>4, <1>9 DEF vars, hookVars, queueVars, dispatchVars, Ordered, OneUser, Unused, Awake, Saved,
                    Phase, Using, Quiet, PatchedIn, PatchedOut, TakingOut, PuttingBack, ReadGoesOn,
                    UnderWay, Before, After
<1> QED BY <1>5, <1>6, <1>7, <1>8, <1>9 DEF Next

\* At the end of main all patches are in and no command is under way.
LEMMA InitPatchesInv == Init => PatchesInv
<1> SUFFICES ASSUME Init PROVE PatchesInv
  OBVIOUS
<1> USE PatchesAssumption DEF Init
<1>1. Types
  BY DEF Types, LoadStep, ReadStep, Thread, Hook, Instruction
<1>2. Using = {}
  BY DEF Using, Thread
<1>3. Quiet /\ PatchedIn /\ Saved /\ Awake
  BY <1>2 DEF Quiet, PatchedIn, Saved, Awake, Thread, Hook
<1>4. \A t \in Loader \cup Reader : Phase(t)
  BY DEF Phase, Thread
<1> QED BY <1>1, <1>2, <1>3, <1>4 DEF PatchesInv, Ordered, OneUser, Unused

\* The inductive invariant holds whatever threads do.
THEOREM PatchesInvariance == Spec => []PatchesInv
BY InitPatchesInv, NextPatchesInv, PTL DEF Spec

\* While a game is let through, the kernel is the original one.
THEOREM DelayIsUnpatched == Spec => []DelayUnpatched
<1>1. PatchesInv => DelayUnpatched
  BY DEF PatchesInv, Ordered, Phase, DelayUnpatched
<1> QED BY <1>1, PatchesInvariance, PTL

\* No instruction is lost to a second hook.
THEOREM NeverHookedTwice == Spec => []HookedOnce
<1>1. PatchesInv => HookedOnce
  BY DEF PatchesInv, Ordered, Saved, HookedOnce
<1> QED BY <1>1, PatchesInvariance, PTL

\* A read that returns has been done by the dispatch thread.
THEOREM ReadsAreServed == Spec => []ReadIsServed
<1>1. PatchesInv => ReadIsServed
  BY DEF PatchesInv, Ordered, Phase, ReadIsServed
<1> QED BY <1>1, PatchesInvariance, PTL

\* When no load is under way, the patches are in and no thread is held.
THEOREM PatchesComeBack == Spec => []PatchedAgain
<1>1. PatchesInv => PatchedAgain
  <2> SUFFICES ASSUME PatchesInv, Loader \cap Using = {}, ~crossed PROVE PatchedIn /\ sleep_done = 1
    BY DEF PatchedAgain
  <2>1. Ordered /\ Types /\ sleep_done = 1
    BY DEF PatchesInv, Ordered, Awake
  <2>2. CASE Using = {}
    BY <2>1, <2>2 DEF Ordered, Unused
  <2>3. CASE \E r \in Reader : r \in Using
    BY <2>1, <2>3, PatchesAssumption DEF Ordered, Phase, Using, ReadGoesOn
  <2> QED BY <2>1, <2>2, <2>3 DEF Using
<1> QED BY <1>1, PatchesInvariance, PTL
=============================================================================

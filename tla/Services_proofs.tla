-------------------------- MODULE Services_proofs ---------------------------
(* Proofs about the services: the gate of syscall 8, the table of plugins, *)
(* the calls on other processes, the regions and toggles of the console    *)
(* and the modules of VSH that are decrypted, for every set of access      *)
(* keys, of syscalls, of threads, of modules, of clients, of processes, of *)
(* pages, of regions and of users, and the hooks of every kind.           *)
EXTENDS MCServices, SequenceTheorems, WellFoundedInduction, TLAPS

-----------------------------------------------------------------------------
(* The gate.  GateReopens is not inductive: a level above 0 hides the      *)
(* function that switches Cobra on, so it rests on Cobra never being off   *)
(* under such a level.                                                     *)

Gates ==
  [key : AccessKey, tries : Nat, granted : BOOLEAN, partial : 0 .. 3, cobra_off : BOOLEAN]
\* No level is set while Cobra is off, and no try is counted without a key.
GoodGate(g) ==
  /\ g \in Gates
  /\ g.cobra_off => g.partial = 0
  /\ g.key = NoKey => g.tries < 3
GateOrder == GoodGate(gate)

\* At the start the gate is open for anyone, and in order.
LEMMA GateAtInit == GateInit => GateOrder
BY GateAssumption DEF GateInit, GateOrder, Gates, GoodGate, GateAssumption

\* The steps that leave the gate alone.
LEMMA GateElsewhere ==
  PokeTable \/ OpenUpdate \/ OpenApplication \/ OpenPspEmulator \/ SetUmd \/ WriteLists
    \/ UNCHANGED gateVars => gate' = gate
BY DEF PokeTable, OpenUpdate, OpenApplication, OpenPspEmulator, SetUmd, WriteLists, gateVars

\* Every stage of syscall8 keeps the gate a gate and its order.
LEMMA AdmittedKeeps ==
  ASSUME NEW g, GoodGate(g), NEW c PROVE GoodGate(Admitted(g, c))
<1>1. CASE Requests(g, c)
  <2>1. Admitted(g, c) = [g EXCEPT !.tries = 0, !.granted = TRUE]
    BY <1>1 DEF Admitted
  <2>2. Admitted(g, c) \in Gates
    <3>1. g \in Gates
      BY DEF GoodGate
    <3>2. [g EXCEPT !.tries = 0, !.granted = TRUE] \in Gates
      BY <3>1 DEF Gates
    <3> QED BY <2>1, <3>2, Zenon
  <2>3. Admitted(g, c).tries = 0
    BY <2>1 DEF GoodGate, Gates
  <2>4. Admitted(g, c).cobra_off = g.cobra_off /\ Admitted(g, c).partial = g.partial
    BY <2>1 DEF GoodGate, Gates
  <2> QED BY <2>2, <2>3, <2>4 DEF GoodGate
<1>2. CASE ~Requests(g, c)
  BY <1>2 DEF Admitted
<1> QED BY <1>1, <1>2

\* Cobra is switched off only with no level set.
LEMMA ToggledKeeps ==
  ASSUME NEW g, GoodGate(g), NEW c PROVE GoodGate(Toggled(g, c))
<1>1. CASE Toggles(g, c)
  <2>1. Toggled(g, c) = [g EXCEPT !.cobra_off = (c.param = 1)]
    BY <1>1 DEF Toggled
  <2>2. g.partial = 0
    BY <1>1 DEF Toggles
  <2>3. PICK off \in BOOLEAN : Toggled(g, c) = [g EXCEPT !.cobra_off = off]
    BY <2>1
  <2> QED BY <2>2, <2>3 DEF GoodGate, Gates
<1>2. CASE ~Toggles(g, c)
  BY <1>2 DEF Toggled
<1> QED BY <1>1, <1>2

\* A refused call is counted, and the order kept.
LEMMA RefusedKeeps ==
  ASSUME NEW g, GoodGate(g), Refuses(g) PROVE GoodGate(Refused(g))
<1>1. PICK n \in Nat : Refused(g) = [g EXCEPT !.tries = n]
  <2>1. g.tries + 1 \in Nat /\ 99 \in Nat
    BY DEF GoodGate, Gates
  <2> QED BY <2>1 DEF Refused
<1>2. g.key # NoKey
  BY DEF Refuses
<1> QED BY <1>1, <1>2 DEF GoodGate, Gates

\* What a served call changes of the gate keeps the order.
LEMMA ServedKeeps ==
  ASSUME NEW g, GoodGate(g), NEW c \in Request, ~(g.cobra_off /\ g.partial < 3)
  PROVE  GoodGate(Served(g, c))
<1>1. ~g.cobra_off
  BY DEF GoodGate, Gates
<1>2. CASE c.function = "ps3mapi" /\ c.op = "set_access_key"
  <2>1. c.param \in AccessKey
    BY <1>2 DEF Request, Service, ManagerOp
  <2>2. PICK k \in AccessKey :
          Served(g, c) = [g EXCEPT !.key = k, !.granted = FALSE, !.tries = 0]
    BY <1>2, <2>1 DEF Served
  <2>3. Served(g, c) \in Gates
    <3>1. g \in Gates
      BY DEF GoodGate
    <3>2. \A n \in AccessKey : [g EXCEPT !.key = n, !.granted = FALSE, !.tries = 0] \in Gates
      BY <3>1 DEF Gates
    <3> QED BY <2>2, <3>2, Zenon
  <2>4. Served(g, c).cobra_off = g.cobra_off
    BY <2>2 DEF GoodGate, Gates
  <2>5. Served(g, c).tries = 0
    BY <2>2 DEF GoodGate, Gates
  <2> QED BY <1>1, <2>3, <2>4, <2>5 DEF GoodGate
<1>3. CASE c.function = "ps3mapi" /\ c.op = "pdisable"
  <2>1. c.param \in 0 .. 3
    BY <1>3 DEF Request
  <2>2. Served(g, c) = [g EXCEPT !.partial = c.param]
    BY <1>3 DEF Served
  <2> QED BY <1>1, <2>1, <2>2 DEF GoodGate, Gates
<1>4. CASE c.function = "stealth"
  <2>1. Served(g, c) = [g EXCEPT !.partial = 2]
    BY <1>4 DEF Served
  <2> QED BY <1>1, <2>1 DEF GoodGate, Gates
<1>5. CASE /\ c.function # "stealth"
           /\ ~(c.function = "ps3mapi" /\ c.op \in {"set_access_key", "pdisable"})
  <2>1. Served(g, c) = g
    BY <1>5 DEF Served
  <2> QED BY <2>1
<1> QED BY <1>2, <1>3, <1>4, <1>5

\* A whole call of syscall 8 keeps the order.
LEMMA CallKeepsGate ==
  ASSUME NEW g, GoodGate(g), NEW c \in Request PROVE GoodGate(Call(g, c).gate)
<1> DEFINE a == Admitted(Toggled(g, c), c)
<1>1. GoodGate(a)
  BY ToggledKeeps, AdmittedKeeps
<1>2. Refuses(a) => GoodGate(Refused(a))
  BY <1>1, RefusedKeeps
<1>3. ~(a.cobra_off /\ a.partial < 3) => GoodGate(Served(a, c))
  BY <1>1, ServedKeeps
<1>4. \/ Call(g, c).gate \in {g, a}
      \/ Refuses(a) /\ Call(g, c).gate = Refused(a)
      \/ ~(a.cobra_off /\ a.partial < 3) /\ Call(g, c).gate = Served(a, c)
  BY DEF Call
<1> QED BY <1>1, <1>2, <1>3, <1>4

\* So does every step.
LEMMA GateStep == GateOrder /\ [GateNext]_gateVars => GateOrder'
<1> SUFFICES ASSUME GateOrder, [GateNext]_gateVars PROVE GateOrder'
  OBVIOUS
<1>1. CASE Syscall8
  <2>1. PICK c \in Request : gate' = Call(gate, c).gate
    BY <1>1 DEF Syscall8
  <2> QED BY <2>1, CallKeepsGate DEF GateOrder
<1>2. CASE gate' = gate
  BY <1>2 DEF GateOrder
<1> QED BY <1>1, <1>2, GateElsewhere DEF GateNext

\* For all keys and syscalls, no level is set while Cobra is off, and no try is counted
\* without a key: the order of the gate that GateReopens rests on.
THEOREM GateInvariant == GateSpec => []GateOrder
BY GateAtInit, GateStep, PTL DEF GateSpec

\* The three calls that open the gate.
LEMMA GateOpens == GateOrder => GateReopens
<1> SUFFICES ASSUME GateOrder, ~(Refuses(gate) /\ gate.tries >= 3)
             PROVE  LET g1 == GateAfter(gate, Ps3mapi("request_access", gate.key))
                        g2 == GateAfter(g1, Cobra(TRUE))
                        g3 == GateAfter(g2, Ps3mapi("pdisable", 0))
                    IN  g3.granted /\ g3.partial = 0 /\ ~g3.cobra_off
  BY DEF GateReopens
<1> DEFINE g1 == GateAfter(gate, Ps3mapi("request_access", gate.key))
           g2 == GateAfter(g1, Cobra(TRUE))
           g3 == GateAfter(g2, Ps3mapi("pdisable", 0))
<1>1. GoodGate(g1) /\ g1.granted
  <2> DEFINE c == Ps3mapi("request_access", gate.key)
             a == Admitted(Toggled(gate, c), c)
  <2>1. c.function = "ps3mapi" /\ c.op = "request_access" /\ c.param = gate.key
    BY DEF Ps3mapi
  <2>2. Toggled(gate, c) = gate
    BY <2>1 DEF Toggled, Toggles
  <2>3. GoodGate(a)
    BY <2>2, AdmittedKeeps DEF GateOrder
  <2>4. a.granted
    <3>1. CASE gate.tries < 3
      <4>1. a = [gate EXCEPT !.tries = 0, !.granted = TRUE]
        BY <2>1, <2>2, <3>1 DEF Admitted, Requests
      <4> QED BY <4>1 DEF GateOrder, GoodGate, Gates
    <3>2. CASE ~(gate.tries < 3)
      <4>1. a = gate
        BY <2>1, <2>2, <3>2 DEF Admitted, Requests
      <4>2. gate.granted
        BY <3>2 DEF Refuses, GateOrder, GoodGate, Gates
      <4> QED BY <4>1, <4>2
    <3> QED BY <3>1, <3>2
  <2>5. ~Refuses(a)
    BY <2>4 DEF Refuses
  <2>6. ~Capability(gate, c)
    BY <2>1 DEF Capability, Toggles
  <2>7. Served(a, c) = a
    BY <2>1 DEF Served
  <2>8. Call(gate, c).gate = a
    BY <2>5, <2>6, <2>7 DEF Call
  <2> QED BY <2>3, <2>4, <2>8 DEF GateAfter
<1>2. g2 \in Gates /\ g2.granted /\ ~g2.cobra_off
  <2> DEFINE c == Cobra(TRUE)
             a == Toggled(g1, c)
  <2>1. c.function = "disable" /\ c.op = "none" /\ c.param = 0
    BY DEF Cobra
  <2>2. Admitted(a, c) = a
    BY <2>1 DEF Admitted, Requests
  <2>3. a \in Gates /\ a.granted /\ ~a.cobra_off
    <3>1. CASE g1.partial = 0
      <4> HIDE DEF g1, c
      <4>1. Toggles(g1, c) /\ c.param # 1
        BY <1>1, <2>1, <3>1 DEF Toggles
      <4>2. a = [g1 EXCEPT !.cobra_off = FALSE]
        BY <4>1 DEF Toggled
      <4> QED BY <1>1, <4>2 DEF GoodGate, Gates
    <3>2. CASE g1.partial # 0
      <4>1. a = g1
        BY <3>2 DEF Toggled, Toggles
      <4> QED BY <1>1, <3>2, <4>1 DEF GoodGate
    <3> QED BY <3>1, <3>2
  <2>4. ~Refuses(a)
    BY <2>3 DEF Refuses
  <2>5. ~Capability(g1, c)
    <3> HIDE DEF c
    <3> QED BY <2>1 DEF Capability
  <2>6. Served(a, c) = a
    BY <2>1 DEF Served
  <2>7. Call(g1, c).gate = a
    BY <2>2, <2>4, <2>5, <2>6 DEF Call
  <2> QED BY <2>3, <2>7 DEF GateAfter
<1>3. g3.granted /\ g3.partial = 0 /\ ~g3.cobra_off
  <2> DEFINE c == Ps3mapi("pdisable", 0)
  <2>1. c.function = "ps3mapi" /\ c.op = "pdisable" /\ c.param = 0
    BY DEF Ps3mapi
  <2>2. Admitted(Toggled(g2, c), c) = g2
    BY <2>1 DEF Admitted, Requests, Toggled, Toggles
  <2>3. ~Refuses(g2) /\ ~Capability(g2, c) /\ ~Closed(g2, c)
    BY <1>2, <2>1 DEF Refuses, Capability, Toggles, Closed
  <2>4. Call(g2, c).gate = Served(g2, c)
    BY <1>2, <2>2, <2>3 DEF Call
  <2>5. Served(g2, c) = [g2 EXCEPT !.partial = 0]
    BY <2>1 DEF Served
  <2> QED BY <1>2, <2>4, <2>5 DEF GateAfter, Gates
<1> QED BY <1>3

\* Whatever was called before, three calls open the gate again, unless wrong keys
\* have locked it (main.c 692-774).
THEOREM GateCanBeReopened == GateSpec => []GateReopens
BY GateInvariant, GateOpens, PTL

\* After three refused calls nothing opens the gate: not even the right key
\* (main.c 734-748).
THEOREM GateStaysLocked == GateSpec => LockedStaysLocked
<1>1. ASSUME GateOrder, [GateNext]_gateVars, Refuses(gate), gate.tries >= 3
      PROVE  gate'.granted = FALSE /\ gate'.tries >= 3
  <2>1. CASE gate' = gate
    BY <1>1, <2>1 DEF Refuses, GateOrder, GoodGate, Gates
  <2>2. CASE Syscall8
    <3>1. PICK c \in Request : gate' = Call(gate, c).gate
      BY <2>2 DEF Syscall8
    <3>2. Toggled(gate, c) = gate /\ ~Capability(gate, c)
      BY <1>1 DEF Toggled, Capability, Toggles, Refuses
    <3>3. Admitted(gate, c) = gate
      BY <1>1 DEF Admitted, Requests, GateOrder, GoodGate, Gates
    <3>4. gate' = Refused(gate)
      BY <1>1, <3>1, <3>2, <3>3 DEF Call
    <3> QED BY <1>1, <3>4 DEF Refused, Refuses, GateOrder, GoodGate, Gates
  <2> QED BY <1>1, <2>1, <2>2, GateElsewhere DEF GateNext
<1>2. GateOrder /\ [GateNext]_gateVars
        => [Refuses(gate) /\ gate.tries >= 3 =>
              gate'.granted = FALSE /\ gate'.tries >= 3]_gateVars
  BY <1>1
<1> QED BY <1>2, GateInvariant, PTL DEF GateSpec, LockedStaysLocked

-----------------------------------------------------------------------------
(* The table of plugins.  Until two loads take a slot at once, every       *)
(* module that is loaded belongs to one load, one slot or one removal.     *)

PluginPlace ==
  {"idle", "check", "load", "start", "store", "slot", "stop", "unload", "clear", "scan",
   "hen", "line", "kernel", "booted"}
ModuleState == {"unused", "loaded", "running", "stopped", "gone"}
PluginType ==
  /\ plugins \in [PluginSlot -> Prx \cup {NoPrx}]
  /\ module \in [Prx -> ModuleState]
  /\ ppc \in [PluginThread -> PluginPlace]
  /\ job \in [PluginThread -> [slot : Nat, prx : Prx \cup {NoPrx}, want : Name \cup {AnyName}]]
  /\ bootlist.slot \in Nat
  /\ overlapped \in BOOLEAN

Started == {"running", "stopped", "gone"}
Loading(t) == ppc[t] \in {"start", "store"}
Unloading(t) == ppc[t] \in {"unload", "clear"}
Removing(t) == ppc[t] = "stop" \/ Unloading(t)
Own(t) == job[t].prx
Place(t) == plugins[job[t].slot]

\* What a thread knows of its slot and its module.
ThreadOrder(t) ==
  /\ ppc[t] \in {"load", "start", "store", "stop", "unload", "clear"} =>
       job[t].slot \in PluginSlot
  /\ Loading(t) \/ Removing(t) => Own(t) \in Prx
  /\ ppc[t] = "start" => module[Own(t)] = "loaded"
  /\ ppc[t] = "store" => module[Own(t)] = "running" \/ Own(t) \in stolen
  /\ ppc[t] \in {"store", "stop"} => module[Own(t)] \in Started
  /\ ppc[t] = "stop" => module[Own(t)] = "gone" \/ Place(t) = Own(t)
  /\ ppc[t] = "unload" => module[Own(t)] = "stopped" /\ Place(t) = Own(t)
  /\ ppc[t] = "clear" => module[Own(t)] = "gone" /\ Place(t) = Own(t)

\* A module has one owner.
OneOwner(t) ==
  /\ Loading(t) => \A s \in PluginSlot : plugins[s] # Own(t)
  /\ \A u \in PluginThread \ {t} :
       /\ Loading(t) /\ (Loading(u) \/ Removing(u)) => Own(t) # Own(u)
       /\ Unloading(t) /\ Unloading(u) => Own(t) # Own(u)

\* A slot names a module that was started, and no other slot names it.
SlotOrder(s) ==
  plugins[s] # NoPrx =>
    /\ module[plugins[s]] \in Started
    /\ module[plugins[s]] = "gone" =>
         \/ plugins[s] \in stolen
         \/ \E t \in PluginThread :
              ppc[t] = "clear" /\ job[t].slot = s /\ Own(t) = plugins[s]
    /\ \A r \in PluginSlot : plugins[r] = plugins[s] => r = s

ModuleKept(x) ==
  module[x] = "running" =>
    \/ \E s \in PluginSlot : plugins[s] = x
    \/ \E t \in PluginThread : ppc[t] = "store" /\ Own(t) = x

TableOrder ==
  ~overlapped =>
    /\ \A t \in PluginThread : ThreadOrder(t) /\ OneOwner(t)
    /\ \A s \in PluginSlot : SlotOrder(s)
    /\ \A x \in Prx \ outside : ModuleKept(x)

-----------------------------------------------------------------------------
\* At the start the table is empty and the calls are of their types.
LEMMA PluginTypeAtInit == PluginInit => PluginType
<1> SUFFICES ASSUME PluginInit PROVE PluginType
  OBVIOUS
<1>1. bootlist.slot = 1 /\ overlapped \in BOOLEAN
  BY DEF PluginInit, FirstSlot
<1>2. NoJob \in [slot : Nat, prx : Prx \cup {NoPrx}, want : Name \cup {AnyName}]
  BY DEF NoJob
<1> QED BY <1>1, <1>2 DEF PluginInit, PluginType, PluginPlace, ModuleState

\* Every step keeps the table, the modules and the calls of their types.
LEMMA PluginTypeStep == PluginType /\ [PluginNext]_pluginVars => PluginType'
<1> SUFFICES ASSUME PluginType, [PluginNext]_pluginVars PROVE PluginType'
  OBVIOUS
<1> USE PluginAssumption DEF PluginAssumption, PluginPlace, ModuleState
<1>0. BootThread \in PluginThread /\ Client \subseteq PluginThread /\ NoJob.slot = 0
      /\ NoJob \in [slot : Nat, prx : Prx \cup {NoPrx}, want : Name \cup {AnyName}]
  BY DEF PluginThread, NoJob
<1>1. ASSUME NEW t \in PluginThread, PluginStep(t) PROVE PluginType'
  <2>1. CASE CallLoad(t) \/ CallUnload(t)
    <3>1. PICK p \in {"check", "slot"}, s \in 0 .. MaxPlugins : PluginCall(t, p, s)
      BY <2>1 DEF CallLoad, CallUnload
    <3>2. s \in Nat
      OBVIOUS
    <3>3. [NoJob EXCEPT !.slot = s] \in [slot : Nat, prx : Prx \cup {NoPrx}, want : Name \cup {AnyName}]
      BY <1>0, <3>2
    <3> QED BY <1>1, <3>1, <3>3 DEF PluginCall, PluginType, GoTo
  <2>2. CASE CheckSlot(t)
    BY <1>0, <1>1, <2>2 DEF CheckSlot, PluginType, GoTo, Return
  <2>3. CASE LoadModule(t)
    <3>1. ASSUME NEW x \in UnusedPrx, module' = [module EXCEPT ![x] = "loaded"],
                 job' = [job EXCEPT ![t].prx = x], GoTo(t, "start")
          PROVE  PluginType'
      BY <1>1, <2>3, <3>1 DEF LoadModule, PluginType, UnusedPrx, GoTo
    <3>2. CASE Return(t) /\ UNCHANGED module
      BY <1>0, <1>1, <2>3, <3>2 DEF LoadModule, PluginType, GoTo, Return
    <3> QED BY <2>3, <3>1, <3>2 DEF LoadModule
  <2>4. CASE StartModule(t)
    BY <1>0, <1>1, <2>4 DEF StartModule, PluginType, GoTo, Return
  <2>5. CASE StoreSlot(t)
    <3>1. bootlist'.slot \in Nat
      BY <2>5 DEF StoreSlot, NextSlot, PluginType
    <3>2. overlapped' \in BOOLEAN
      BY <2>5 DEF StoreSlot
    <3> QED BY <1>0, <1>1, <2>5, <3>1, <3>2 DEF StoreSlot, PluginType, GoTo, Return
  <2>6. CASE ReadSlot(t)
    BY <1>0, <1>1, <2>6 DEF ReadSlot, PluginType, GoTo, Return
  <2>7. CASE StopModule(t)
    <3>1. CASE /\ module' = [module EXCEPT ![job[t].prx] = "stopped"]
               /\ GoTo(t, "unload") /\ UNCHANGED job
      BY <1>1, <2>7, <3>1 DEF StopModule, PluginType, GoTo
    <3>2. CASE Return(t) /\ UNCHANGED module
      BY <1>0, <1>1, <2>7, <3>2 DEF StopModule, PluginType, GoTo, Return
    <3> QED BY <2>7, <3>1, <3>2 DEF StopModule
  <2>8. CASE UnloadModule(t)
    <3>1. CASE /\ module' = [module EXCEPT ![job[t].prx] = "gone"]
               /\ GoTo(t, "clear") /\ UNCHANGED job
      BY <1>1, <2>8, <3>1 DEF UnloadModule, PluginType, GoTo
    <3>2. CASE Return(t) /\ UNCHANGED module
      BY <1>0, <1>1, <2>8, <3>2 DEF UnloadModule, PluginType, GoTo, Return
    <3> QED BY <2>8, <3>1, <3>2 DEF UnloadModule
  <2>9. CASE ClearSlot(t)
    BY <1>0, <1>1, <2>9 DEF ClearSlot, PluginType, GoTo, Return
  <2>10. CASE CallUnloadName(t)
    <3>1. PICK n \in Name : job' = [job EXCEPT ![t] = [NoJob EXCEPT !.want = n]]
      BY <2>10 DEF CallUnloadName
    <3>2. [NoJob EXCEPT !.want = n] \in [slot : Nat, prx : Prx \cup {NoPrx}, want : Name \cup {AnyName}]
      BY <1>0
    <3> QED BY <1>1, <2>10, <3>1, <3>2 DEF CallUnloadName, PluginType, GoTo
  <2>11. CASE ScanSlot(t)
    <3>1. job[t].slot + 1 \in Nat
      BY <1>1 DEF PluginType
    <3> QED BY <1>0, <1>1, <2>11, <3>1 DEF ScanSlot, PluginType, GoTo, Return
  <2>12. CASE LoadOutside(t)
    BY <1>1, <2>12 DEF LoadOutside, PluginType, UnusedPrx
  <2>13. CASE UnloadById(t)
    BY <1>1, <2>13 DEF UnloadById, PluginType
  <2> QED BY <1>1, <2>1, <2>2, <2>3, <2>4, <2>5, <2>6, <2>7, <2>8, <2>9, <2>10, <2>11, <2>12, <2>13
           DEF PluginStep
<1>2. CASE BootHenPlugin
  BY <1>0, <1>2 DEF BootHenPlugin, PluginType, GoTo, UnusedPrx
<1>3. CASE BootLine
  <2>1. [NoJob EXCEPT !.slot = bootlist.slot]
          \in [slot : Nat, prx : Prx \cup {NoPrx}, want : Name \cup {AnyName}]
    BY <1>0 DEF PluginType
  <2>2. bootlist'.slot = bootlist.slot
    BY <1>3 DEF BootLine
  <2> QED BY <1>0, <1>3, <2>1, <2>2 DEF BootLine, PluginType, GoTo
<1>4. CASE BootEnd
  <2>1. bootlist'.slot = bootlist.slot
    BY <1>4 DEF BootEnd
  <2> QED BY <1>0, <1>4, <2>1 DEF BootEnd, PluginType, GoTo
<1>5. CASE KernelLine
  <2>1. bootlist'.slot = bootlist.slot
    BY <1>5 DEF KernelLine
  <2> QED BY <1>0, <1>5, <2>1 DEF KernelLine, PluginType, GoTo
<1>6. CASE KernelEnd
  BY <1>0, <1>6 DEF KernelEnd, PluginType, GoTo
<1>7. CASE UNCHANGED pluginVars
  BY <1>7 DEF pluginVars, PluginType
<1> QED BY <1>1, <1>2, <1>3, <1>4, <1>5, <1>6, <1>7 DEF PluginNext

-----------------------------------------------------------------------------
\* The parts of TableOrder after a step that takes no slot twice.
LEMMA OrderParts ==
  ASSUME ~overlapped' =>
           /\ \A t \in PluginThread : ThreadOrder(t)'
           /\ \A t \in PluginThread : OneOwner(t)'
           /\ \A s \in PluginSlot : SlotOrder(s)'
           /\ \A x \in Prx \ outside' : ModuleKept(x)'
  PROVE  TableOrder'
BY DEF TableOrder

\* A thread goes to a place where it owns no module, or looks for a slot.
LEMMA QuietKeeps ==
  ASSUME PluginType, TableOrder, ~overlapped, NEW t \in PluginThread,
         ppc[t] \notin {"start", "store", "clear"},
         ppc'[t] \notin {"start", "store", "stop", "unload", "clear"},
         ppc'[t] = "load" => job'[t].slot \in PluginSlot,
         \A u \in PluginThread \ {t} : ppc'[u] = ppc[u] /\ job'[u] = job[u],
         UNCHANGED <<plugins, module, outside, stolen, overlapped>>
  PROVE  TableOrder'
<1>1. \A u \in PluginThread : ThreadOrder(u)'
  BY DEF TableOrder, ThreadOrder, Loading, Removing, Unloading, Own, Place
<1>2. \A u \in PluginThread : OneOwner(u)'
  BY DEF TableOrder, OneOwner, Loading, Removing, Unloading, Own
<1>3. \A s \in PluginSlot : SlotOrder(s)'
  BY DEF TableOrder, SlotOrder, Own
<1>4. \A x \in Prx \ outside' : ModuleKept(x)'
  BY DEF TableOrder, ModuleKept, Own
<1> QED BY <1>1, <1>2, <1>3, <1>4, OrderParts

\* A module no thread and no slot owns changes, and is outside if it runs.
LEMMA OutsideKeeps ==
  ASSUME PluginType, TableOrder, ~overlapped, NEW x \in Prx, module[x] = "unused",
         NEW m, module' = [module EXCEPT ![x] = m], outside' = outside \cup {x},
         \A u \in PluginThread : ppc'[u] = ppc[u] \/ {ppc[u], ppc'[u]} \subseteq {"hen", "line", "kernel"},
         UNCHANGED <<plugins, job, stolen, overlapped>>
  PROVE  TableOrder'
<1>0. \A y \in Prx : y # x => module'[y] = module[y]
  BY DEF PluginType
<1>1. \A u \in PluginThread : ThreadOrder(u)'
  BY <1>0 DEF TableOrder, ThreadOrder, Loading, Removing, Unloading, Own, Place, Started
<1>2. \A u \in PluginThread : OneOwner(u)'
  BY DEF TableOrder, OneOwner, Loading, Removing, Unloading, Own
<1>3. \A s \in PluginSlot : SlotOrder(s)'
  BY <1>0 DEF TableOrder, SlotOrder, Own, Started, PluginType
<1>4. \A y \in Prx \ outside' : ModuleKept(y)'
  BY <1>0 DEF TableOrder, ModuleKept, Own
<1> QED BY <1>1, <1>2, <1>3, <1>4, OrderParts

\* Loading a module keeps the order of the table.
LEMMA LoadModuleKeeps ==
  ASSUME PluginType, TableOrder, ~overlapped, NEW t \in PluginThread, ppc[t] = "load",
         NEW x \in UnusedPrx, module' = [module EXCEPT ![x] = "loaded"],
         job' = [job EXCEPT ![t].prx = x], GoTo(t, "start"),
         UNCHANGED <<plugins, bootlist, outside, stolen, overlapped>>
  PROVE  TableOrder'
<1>1. /\ x \in Prx /\ module[x] = "unused" /\ module'[x] = "loaded"
      /\ \A y \in Prx : y # x => module'[y] = module[y]
  BY DEF PluginType, UnusedPrx
<1>2. /\ ppc'[t] = "start" /\ job'[t].prx = x /\ job'[t].slot = job[t].slot
      /\ \A u \in PluginThread \ {t} : ppc'[u] = ppc[u] /\ job'[u] = job[u]
  BY DEF PluginType, GoTo
<1>3. \A u \in PluginThread : Loading(u) \/ Removing(u) => Own(u) # x
  BY <1>1 DEF TableOrder, ThreadOrder, Loading, Removing, Unloading, Own, Started
<1>4. \A s \in PluginSlot : plugins[s] # x
  BY <1>1, PluginAssumption DEF TableOrder, SlotOrder, Started, PluginAssumption
<1>5. \A u \in PluginThread : ThreadOrder(u)'
  BY <1>1, <1>2, <1>3 DEF TableOrder, ThreadOrder, Loading, Removing, Unloading, Own, Place
<1>6. \A u \in PluginThread : OneOwner(u)'
  BY <1>2, <1>3, <1>4 DEF TableOrder, OneOwner, Loading, Removing, Unloading, Own
<1>7. \A s \in PluginSlot : SlotOrder(s)'
  BY <1>1, <1>2, <1>4 DEF TableOrder, SlotOrder, Own, PluginType
<1>8. \A y \in Prx \ outside' : ModuleKept(y)'
  BY <1>1, <1>2 DEF TableOrder, ModuleKept, Own
<1> QED BY <1>5, <1>6, <1>7, <1>8, OrderParts

\* The module runs, or it is stopped and unloaded again.
LEMMA StartModuleKeeps ==
  ASSUME PluginType, TableOrder, ~overlapped, NEW t \in PluginThread, StartModule(t)
  PROVE  TableOrder'
<1> DEFINE x == Own(t)
<1>1. /\ ppc[t] = "start" /\ x \in Prx /\ module[x] = "loaded"
      /\ job[t].slot \in PluginSlot
  BY DEF StartModule, TableOrder, ThreadOrder, Loading
<1>2. \A u \in PluginThread \ {t} : ppc'[u] = ppc[u] /\ job'[u] = job[u]
  BY DEF StartModule, PluginType, GoTo, Return
<1>3. \A y \in Prx : y # x => module'[y] = module[y]
  BY <1>1 DEF StartModule, PluginType, Own
<1>4. \A u \in PluginThread \ {t} : Loading(u) \/ Removing(u) => Own(u) # x
  BY <1>1 DEF TableOrder, OneOwner, Loading, Removing, Unloading
<1>5. \A s \in PluginSlot : plugins[s] # x
  BY <1>1 DEF TableOrder, OneOwner, Loading
<1>6. UNCHANGED <<plugins, outside, stolen, overlapped>>
  BY DEF StartModule
<1>7. CASE ppc'[t] = "store" /\ job'[t] = job[t] /\ module'[x] = "running"
  <2>1. \A u \in PluginThread : ThreadOrder(u)'
    BY <1>1, <1>2, <1>3, <1>4, <1>6, <1>7
       DEF TableOrder, ThreadOrder, Loading, Removing, Unloading, Own, Place, Started
  <2>2. \A u \in PluginThread : OneOwner(u)'
    BY <1>1, <1>2, <1>6, <1>7 DEF TableOrder, OneOwner, Loading, Removing, Unloading, Own
  <2>3. \A s \in PluginSlot : SlotOrder(s)'
    BY <1>1, <1>2, <1>3, <1>5, <1>6 DEF TableOrder, SlotOrder, Own, PluginType
  <2>4. \A y \in Prx \ outside' : ModuleKept(y)'
    BY <1>1, <1>2, <1>3, <1>6, <1>7 DEF TableOrder, ModuleKept, Own
  <2> QED BY <2>1, <2>2, <2>3, <2>4, OrderParts
<1>8. CASE ppc'[t] \in {"line", "idle"} /\ module'[x] \in {"loaded", "gone"}
  <2>1. \A u \in PluginThread : ThreadOrder(u)'
    BY <1>1, <1>2, <1>3, <1>4, <1>6, <1>8
       DEF TableOrder, ThreadOrder, Loading, Removing, Unloading, Own, Place, Started
  <2>2. \A u \in PluginThread : OneOwner(u)'
    BY <1>1, <1>2, <1>6, <1>8 DEF TableOrder, OneOwner, Loading, Removing, Unloading, Own
  <2>3. \A s \in PluginSlot : SlotOrder(s)'
    BY <1>1, <1>2, <1>3, <1>5, <1>6 DEF TableOrder, SlotOrder, Own, PluginType
  <2>4. \A y \in Prx \ outside' : ModuleKept(y)'
    BY <1>1, <1>2, <1>3, <1>6, <1>8 DEF TableOrder, ModuleKept, Own
  <2> QED BY <2>1, <2>2, <2>3, <2>4, OrderParts
<1>9. \/ ppc'[t] = "store" /\ job'[t] = job[t] /\ module'[x] = "running"
      \/ ppc'[t] \in {"line", "idle"} /\ module'[x] \in {"loaded", "gone"}
  BY <1>1 DEF StartModule, GoTo, Return, PluginType, Own
<1> QED BY <1>7, <1>8, <1>9

\* The slot was free, unless two loads took it at once.
LEMMA StoreSlotKeeps ==
  ASSUME PluginType, TableOrder, ~overlapped, NEW t \in PluginThread, StoreSlot(t), ~overlapped'
  PROVE  TableOrder'
<1>0. PICK x, n : x = Own(t) /\ n = job[t].slot
  OBVIOUS
<1>1. /\ ppc[t] = "store" /\ x \in Prx /\ n \in PluginSlot /\ module[x] \in Started
      /\ module[x] = "running" \/ x \in stolen
  BY <1>0 DEF StoreSlot, TableOrder, ThreadOrder, Loading
<1>2. /\ plugins[n] = NoPrx /\ plugins'[n] = x
      /\ \A s \in PluginSlot : s # n => plugins'[s] = plugins[s]
  BY <1>0, <1>1 DEF StoreSlot, PluginType, Own
<1>3. /\ ppc'[t] \in {"line", "idle"}
      /\ \A u \in PluginThread \ {t} : ppc'[u] = ppc[u] /\ job'[u] = job[u]
  BY DEF StoreSlot, PluginType, GoTo, Return
<1>4. UNCHANGED <<module, outside, stolen>>
  BY DEF StoreSlot
<1>5. x # NoPrx /\ \A s \in PluginSlot : plugins[s] # x
  BY <1>0, <1>1, PluginAssumption DEF TableOrder, OneOwner, Loading, PluginAssumption
<1>6. \A u \in PluginThread \ {t} : Loading(u) \/ Removing(u) => Own(u) # x
  BY <1>0, <1>1 DEF TableOrder, OneOwner, Loading, Removing, Unloading
<1>7. \A u \in PluginThread : ThreadOrder(u)'
  <2>1. ASSUME NEW u \in PluginThread \ {t} PROVE ThreadOrder(u)'
    <3>1. ppc[u] \in {"unload", "clear"} => job[u].slot # n
      BY <1>2, PluginAssumption
         DEF TableOrder, ThreadOrder, Removing, Unloading, Own, Place, PluginAssumption
    <3>2. ppc[u] = "stop" => module[Own(u)] = "gone" \/ job[u].slot # n
      BY <1>2, PluginAssumption
         DEF TableOrder, ThreadOrder, Removing, Unloading, Own, Place, PluginAssumption
    <3> QED BY <1>2, <1>3, <1>4, <3>1, <3>2
            DEF TableOrder, ThreadOrder, Loading, Removing, Unloading, Own, Place
  <2>2. ThreadOrder(t)'
    BY <1>3 DEF ThreadOrder, Loading, Removing, Unloading
  <2> QED BY <2>1, <2>2
<1>8. \A u \in PluginThread : OneOwner(u)'
  BY <1>2, <1>3, <1>6 DEF TableOrder, OneOwner, Loading, Removing, Unloading, Own
<1>9. \A s \in PluginSlot : SlotOrder(s)'
  <2>1. ASSUME NEW s \in PluginSlot, s # n PROVE SlotOrder(s)'
    BY <1>0, <1>1, <1>2, <1>3, <1>4, <1>5, <2>1 DEF TableOrder, SlotOrder, Own
  <2>2. SlotOrder(n)'
    BY <1>1, <1>2, <1>4, <1>5 DEF SlotOrder, Started
  <2> QED BY <2>1, <2>2
<1>10. \A y \in Prx \ outside' : ModuleKept(y)'
  <2>1. ASSUME NEW y \in Prx \ outside, y # x, module[y] = "running" PROVE ModuleKept(y)'
    BY <1>0, <1>2, <1>3, <1>4, <2>1, PluginAssumption DEF TableOrder, ModuleKept, Own, PluginAssumption
  <2>2. ModuleKept(x)'
    BY <1>1, <1>2 DEF ModuleKept
  <2> QED BY <1>4, <2>1, <2>2 DEF ModuleKept
<1> QED BY <1>7, <1>8, <1>9, <1>10, OrderParts

\* So does reading the slot that a call is to clear.
LEMMA ReadSlotKeeps ==
  ASSUME PluginType, TableOrder, ~overlapped, NEW t \in PluginThread, ReadSlot(t)
  PROVE  TableOrder'
<1> DEFINE n == job[t].slot
<1>1. /\ ppc[t] = "slot" /\ UNCHANGED <<plugins, module, outside, stolen, overlapped>>
      /\ \A u \in PluginThread \ {t} : ppc'[u] = ppc[u] /\ job'[u] = job[u]
  BY DEF ReadSlot, PluginType, GoTo, Return
<1>2. CASE ppc'[t] \in {"line", "idle"}
  BY <1>1, <1>2, QuietKeeps
<1>3. CASE /\ n \in PluginSlot /\ plugins[n] # NoPrx
           /\ ppc'[t] = "stop" /\ job'[t].slot = n /\ job'[t].prx = plugins[n]
  <2>1. plugins[n] \in Prx /\ module[plugins[n]] \in Started
    BY <1>3 DEF PluginType, TableOrder, SlotOrder
  <2>2. \A u \in PluginThread : ThreadOrder(u)'
    BY <1>1, <1>3, <2>1 DEF TableOrder, ThreadOrder, Loading, Removing, Unloading, Own, Place
  <2>3. \A u \in PluginThread : OneOwner(u)'
    BY <1>1, <1>3 DEF TableOrder, OneOwner, Loading, Removing, Unloading, Own
  <2>4. \A s \in PluginSlot : SlotOrder(s)'
    BY <1>1 DEF TableOrder, SlotOrder, Own
  <2>5. \A y \in Prx \ outside' : ModuleKept(y)'
    BY <1>1 DEF TableOrder, ModuleKept, Own
  <2> QED BY <2>2, <2>3, <2>4, <2>5, OrderParts
<1>4. \/ ppc'[t] \in {"line", "idle"}
      \/ /\ n \in PluginSlot /\ plugins[n] # NoPrx
         /\ ppc'[t] = "stop" /\ job'[t].slot = n /\ job'[t].prx = plugins[n]
  BY DEF ReadSlot, PluginType, GoTo, Return
<1> QED BY <1>2, <1>3, <1>4

\* Only one thread stops a module; whoever stops it knows its slot.
LEMMA StopModuleKeeps ==
  ASSUME PluginType, TableOrder, ~overlapped, NEW t \in PluginThread, StopModule(t)
  PROVE  TableOrder'
<1> DEFINE x == Own(t)
<1>1. /\ ppc[t] = "stop" /\ x \in Prx /\ job[t].slot \in PluginSlot
      /\ module[x] = "gone" \/ Place(t) = x
      /\ UNCHANGED <<plugins, outside, stolen, overlapped>>
      /\ \A u \in PluginThread \ {t} : ppc'[u] = ppc[u] /\ job'[u] = job[u]
  BY DEF StopModule, PluginType, GoTo, Return, TableOrder, ThreadOrder, Removing
<1>2. CASE ppc'[t] \in {"line", "idle"} /\ UNCHANGED module
  BY <1>1, <1>2, QuietKeeps
<1>3. CASE /\ module[x] = "running" /\ module' = [module EXCEPT ![x] = "stopped"]
           /\ ppc'[t] = "unload" /\ job' = job
  <2>1. /\ module'[x] = "stopped"
        /\ \A y \in Prx : y # x => module'[y] = module[y]
    BY <1>1, <1>3 DEF PluginType
  <2>2. \A u \in PluginThread : Loading(u) \/ Unloading(u) => Own(u) # x
    BY <1>1, <1>3 DEF TableOrder, ThreadOrder, OneOwner, Loading, Removing, Unloading
  <2>3. \A u \in PluginThread : ThreadOrder(u)'
    BY <1>1, <1>3, <2>1, <2>2
       DEF TableOrder, ThreadOrder, Loading, Removing, Unloading, Own, Place, Started
  <2>4. \A u \in PluginThread : OneOwner(u)'
    BY <1>1, <1>3, <2>2 DEF TableOrder, OneOwner, Loading, Removing, Unloading, Own
  <2>5. \A s \in PluginSlot : SlotOrder(s)'
    BY <1>1, <1>3, <2>1 DEF TableOrder, SlotOrder, Own, Started, PluginType
  <2>6. \A y \in Prx \ outside' : ModuleKept(y)'
    BY <1>1, <1>3, <2>1 DEF TableOrder, ModuleKept, Own
  <2> QED BY <2>3, <2>4, <2>5, <2>6, OrderParts
<1>4. \/ ppc'[t] \in {"line", "idle"} /\ UNCHANGED module
      \/ /\ module[x] = "running" /\ module' = [module EXCEPT ![x] = "stopped"]
         /\ ppc'[t] = "unload" /\ job' = job
  BY DEF StopModule, PluginType, GoTo, Return, Own
<1> QED BY <1>2, <1>3, <1>4

\* So does unloading the module that was read.
LEMMA UnloadModuleKeeps ==
  ASSUME PluginType, TableOrder, ~overlapped, NEW t \in PluginThread, UnloadModule(t)
  PROVE  TableOrder'
<1> DEFINE x == Own(t)
<1>1. /\ ppc[t] = "unload" /\ x \in Prx /\ job[t].slot \in PluginSlot
      /\ module[x] = "stopped" /\ Place(t) = x
      /\ UNCHANGED <<plugins, outside, stolen, overlapped>>
      /\ \A u \in PluginThread \ {t} : ppc'[u] = ppc[u] /\ job'[u] = job[u]
  BY DEF UnloadModule, PluginType, GoTo, Return, TableOrder, ThreadOrder, Removing, Unloading
<1>2. CASE ppc'[t] \in {"line", "idle"} /\ UNCHANGED module
  BY <1>1, <1>2, QuietKeeps
<1>3. CASE module' = [module EXCEPT ![x] = "gone"] /\ ppc'[t] = "clear" /\ job' = job
  <2>1. /\ module'[x] = "gone"
        /\ \A y \in Prx : y # x => module'[y] = module[y]
    BY <1>1, <1>3 DEF PluginType
  <2>2. \A u \in PluginThread \ {t} : Loading(u) \/ Unloading(u) => Own(u) # x
    BY <1>1 DEF TableOrder, OneOwner, Loading, Removing, Unloading
  <2>3. \A u \in PluginThread : ThreadOrder(u)'
    BY <1>1, <1>3, <2>1, <2>2
       DEF TableOrder, ThreadOrder, Loading, Removing, Unloading, Own, Place, Started
  <2>4. \A u \in PluginThread : OneOwner(u)'
    BY <1>1, <1>3, <2>2 DEF TableOrder, OneOwner, Loading, Removing, Unloading, Own
  <2>5. \A s \in PluginSlot : SlotOrder(s)'
    <3>1. ASSUME NEW s \in PluginSlot, plugins[s] = x PROVE SlotOrder(s)'
      <4>1. s = job[t].slot
        BY <1>1, <3>1, PluginAssumption DEF TableOrder, SlotOrder, Place, PluginAssumption
      <4> QED BY <1>1, <1>3, <2>1, <3>1, <4>1, PluginAssumption
              DEF TableOrder, SlotOrder, Own, Started, PluginAssumption
    <3>2. ASSUME NEW s \in PluginSlot, plugins[s] # x PROVE SlotOrder(s)'
      BY <1>1, <1>3, <2>1, <3>2 DEF TableOrder, SlotOrder, Own, PluginType
    <3> QED BY <3>1, <3>2
  <2>6. \A y \in Prx \ outside' : ModuleKept(y)'
    BY <1>1, <1>3, <2>1 DEF TableOrder, ModuleKept, Own
  <2> QED BY <2>3, <2>4, <2>5, <2>6, OrderParts
<1>4. \/ ppc'[t] \in {"line", "idle"} /\ UNCHANGED module
      \/ module' = [module EXCEPT ![x] = "gone"] /\ ppc'[t] = "clear" /\ job' = job
  BY DEF UnloadModule, PluginType, GoTo, Return, Own
<1> QED BY <1>2, <1>3, <1>4

\* So does clearing the slot.
LEMMA ClearSlotKeeps ==
  ASSUME PluginType, TableOrder, ~overlapped, NEW t \in PluginThread, ClearSlot(t)
  PROVE  TableOrder'
<1>0. PICK x, n : x = Own(t) /\ n = job[t].slot
  OBVIOUS
<1>1. /\ ppc[t] = "clear" /\ x \in Prx /\ n \in PluginSlot
      /\ module[x] = "gone" /\ plugins[n] = x
      /\ UNCHANGED <<module, outside, stolen, overlapped>>
      /\ ppc'[t] \in {"line", "idle"}
      /\ \A u \in PluginThread \ {t} : ppc'[u] = ppc[u] /\ job'[u] = job[u]
  BY <1>0 DEF ClearSlot, PluginType, GoTo, Return, TableOrder, ThreadOrder, Removing, Unloading,
             Place
<1>2. /\ plugins'[n] = NoPrx
      /\ \A s \in PluginSlot : s # n => plugins'[s] = plugins[s]
  BY <1>0, <1>1 DEF ClearSlot, PluginType
<1>3. NoPrx \notin Prx
  BY PluginAssumption DEF PluginAssumption
<1>4. \A u \in PluginThread \ {t} : Unloading(u) => Own(u) # x
  BY <1>0, <1>1 DEF TableOrder, OneOwner, Unloading
<1>5. \A u \in PluginThread : ThreadOrder(u)'
  <2>1. ASSUME NEW u \in PluginThread \ {t} PROVE ThreadOrder(u)'
    <3>1. ppc[u] \in {"unload", "clear"} => job[u].slot # n
      BY <1>1, <1>4 DEF TableOrder, ThreadOrder, Unloading, Place
    <3>2. ppc[u] = "stop" => module[Own(u)] = "gone" \/ job[u].slot # n
      BY <1>1 DEF TableOrder, ThreadOrder, Place
    <3> QED BY <1>1, <1>2, <3>1, <3>2
            DEF TableOrder, ThreadOrder, Loading, Removing, Unloading, Own, Place
  <2>2. ThreadOrder(t)'
    BY <1>1 DEF ThreadOrder, Loading, Removing, Unloading
  <2> QED BY <2>1, <2>2
<1>6. \A u \in PluginThread : OneOwner(u)'
  <2>1. ASSUME NEW u \in PluginThread \ {t}, Loading(u)
        PROVE  Own(u) # NoPrx /\ \A s \in PluginSlot : plugins'[s] # Own(u)
    BY <1>2, <1>3, <2>1 DEF TableOrder, ThreadOrder, OneOwner, Loading
  <2> QED BY <1>1, <2>1 DEF TableOrder, OneOwner, Loading, Removing, Unloading, Own
<1>7. \A s \in PluginSlot : SlotOrder(s)'
  <2>1. SlotOrder(n)'
    BY <1>2 DEF SlotOrder
  <2>2. ASSUME NEW s \in PluginSlot, s # n PROVE SlotOrder(s)'
    BY <1>0, <1>1, <1>2, <2>2 DEF TableOrder, SlotOrder, Own
  <2> QED BY <2>1, <2>2
<1>8. \A y \in Prx \ outside' : ModuleKept(y)'
  BY <1>0, <1>1, <1>2 DEF TableOrder, ModuleKept, Own
<1> QED BY <1>5, <1>6, <1>7, <1>8, OrderParts

\* So does unloading a module by its id, which looks for its slot.
LEMMA UnloadByIdKeeps ==
  ASSUME PluginType, TableOrder, ~overlapped, NEW t \in PluginThread, UnloadById(t)
  PROVE  TableOrder'
<1>1. PICK x \in Prx, m \in {"stopped", "gone"} :
        module[x] = "running" /\ module' = [module EXCEPT ![x] = m] /\ stolen' = stolen \cup {x}
  BY DEF UnloadById
<1>2. UNCHANGED <<plugins, ppc, job, outside, overlapped>>
  BY DEF UnloadById
<1>3. /\ module'[x] \in {"stopped", "gone"}
      /\ \A y \in Prx : y # x => module'[y] = module[y]
  BY <1>1 DEF PluginType
<1>4. \A u \in PluginThread : Unloading(u) \/ ppc[u] = "start" => Own(u) # x
  BY <1>1 DEF TableOrder, ThreadOrder, Unloading
<1>5. \A u \in PluginThread : ThreadOrder(u)'
  BY <1>1, <1>2, <1>3, <1>4
     DEF TableOrder, ThreadOrder, Loading, Removing, Unloading, Own, Place, Started
<1>6. \A u \in PluginThread : OneOwner(u)'
  BY <1>2 DEF TableOrder, OneOwner, Loading, Removing, Unloading, Own
<1>7. \A s \in PluginSlot : SlotOrder(s)'
  BY <1>1, <1>2, <1>3 DEF TableOrder, SlotOrder, Own, Started, PluginType
<1>8. \A y \in Prx \ outside' : ModuleKept(y)'
  BY <1>1, <1>2, <1>3 DEF TableOrder, ModuleKept, Own
<1> QED BY <1>5, <1>6, <1>7, <1>8, OrderParts

\* So does every step.
LEMMA TableOrderStep ==
  PluginType /\ TableOrder /\ [PluginNext]_pluginVars => TableOrder'
<1> SUFFICES ASSUME PluginType, TableOrder, [PluginNext]_pluginVars, ~overlapped'
             PROVE  TableOrder'
  BY DEF TableOrder
<1>0. ~overlapped
  <2>1. CASE \E t \in PluginThread : StoreSlot(t)
    BY <2>1 DEF StoreSlot
  <2>2. CASE ~(\E t \in PluginThread : StoreSlot(t))
    BY <2>2 DEF PluginNext, PluginStep, CallLoad, CallUnload, PluginCall, CheckSlot, LoadModule,
                StartModule, ReadSlot, StopModule, UnloadModule, ClearSlot, CallUnloadName,
                ScanSlot, LoadOutside, UnloadById, BootHenPlugin, BootLine, BootEnd, KernelLine,
                KernelEnd, pluginVars
  <2> QED BY <2>1, <2>2
<1>1. ASSUME NEW t \in PluginThread, PluginStep(t) PROVE TableOrder'
  <2>1. CASE CallLoad(t) \/ CallUnload(t)
    <3>1. PICK p \in {"check", "slot"}, s \in 0 .. MaxPlugins : PluginCall(t, p, s)
      BY <2>1 DEF CallLoad, CallUnload
    <3>2. /\ ppc[t] = "idle" /\ ppc'[t] = p
          /\ \A u \in PluginThread \ {t} : ppc'[u] = ppc[u] /\ job'[u] = job[u]
          /\ UNCHANGED <<plugins, module, outside, stolen, overlapped>>
      BY <3>1 DEF PluginCall, PluginType, GoTo
    <3> QED BY <1>0, <3>2, QuietKeeps
  <2>2. CASE CheckSlot(t)
    <3>1. /\ ppc[t] = "check" /\ ppc'[t] \in {"load", "line", "idle"}
          /\ ppc'[t] = "load" => job'[t].slot \in PluginSlot
          /\ \A u \in PluginThread \ {t} : ppc'[u] = ppc[u] /\ job'[u] = job[u]
          /\ UNCHANGED <<plugins, module, outside, stolen, overlapped>>
      BY <2>2 DEF CheckSlot, PluginType, GoTo, Return
    <3> QED BY <1>0, <3>1, QuietKeeps
  <2>3. CASE LoadModule(t)
    <3>1. ppc[t] = "load" /\ UNCHANGED <<plugins, bootlist, outside, stolen, overlapped>>
      BY <2>3 DEF LoadModule
    <3>2. ASSUME NEW x \in UnusedPrx, module' = [module EXCEPT ![x] = "loaded"],
                 job' = [job EXCEPT ![t].prx = x], GoTo(t, "start")
          PROVE  TableOrder'
      BY <1>0, <3>1, <3>2, LoadModuleKeeps
    <3>3. CASE Return(t) /\ UNCHANGED module
      <4>1. /\ ppc'[t] \in {"line", "idle"}
            /\ \A u \in PluginThread \ {t} : ppc'[u] = ppc[u] /\ job'[u] = job[u]
        BY <3>3 DEF PluginType, GoTo, Return
      <4> QED BY <1>0, <3>1, <3>3, <4>1, QuietKeeps
    <3> QED BY <2>3, <3>2, <3>3 DEF LoadModule
  <2>4. CASE CallUnloadName(t)
    <3>1. /\ ppc[t] = "idle" /\ ppc'[t] = "scan"
          /\ \A u \in PluginThread \ {t} : ppc'[u] = ppc[u] /\ job'[u] = job[u]
          /\ UNCHANGED <<plugins, module, outside, stolen, overlapped>>
      BY <2>4 DEF CallUnloadName, PluginType, GoTo
    <3> QED BY <1>0, <3>1, QuietKeeps
  <2>5. CASE ScanSlot(t)
    <3>1. /\ ppc[t] = "scan" /\ ppc'[t] \in {"scan", "slot", "line", "idle"}
          /\ \A u \in PluginThread \ {t} : ppc'[u] = ppc[u] /\ job'[u] = job[u]
          /\ UNCHANGED <<plugins, module, outside, stolen, overlapped>>
      BY <2>5 DEF ScanSlot, PluginType, GoTo, Return
    <3> QED BY <1>0, <3>1, QuietKeeps
  <2>6. CASE LoadOutside(t)
    <3>1. PICK x \in UnusedPrx, m \in {"running", "gone"} :
            module' = [module EXCEPT ![x] = m] /\ outside' = outside \cup {x}
      BY <2>6 DEF LoadOutside
    <3>2. UNCHANGED <<plugins, ppc, job, stolen, overlapped>>
      BY <2>6 DEF LoadOutside
    <3> QED BY <1>0, <3>1, <3>2, OutsideKeeps DEF UnusedPrx
  <2> QED BY <1>0, <1>1, <2>1, <2>2, <2>3, <2>4, <2>5, <2>6, StartModuleKeeps, StoreSlotKeeps,
             ReadSlotKeeps, StopModuleKeeps, UnloadModuleKeeps, ClearSlotKeeps, UnloadByIdKeeps
          DEF PluginStep
<1>2. CASE BootHenPlugin
  <2>1. \A u \in PluginThread :
          ppc'[u] = ppc[u] \/ {ppc[u], ppc'[u]} \subseteq {"hen", "line", "kernel"}
    BY <1>2 DEF BootHenPlugin, GoTo, PluginType
  <2>2. CASE \E x \in UnusedPrx :
               module' = [module EXCEPT ![x] = "running"] /\ outside' = outside \cup {x}
    BY <1>0, <1>2, <2>1, <2>2, OutsideKeeps DEF BootHenPlugin, UnusedPrx
  <2>3. CASE UNCHANGED <<module, outside>>
    <3>1. /\ BootThread \in PluginThread /\ ppc[BootThread] = "hen"
          /\ ppc'[BootThread] \in {"line", "kernel"}
          /\ \A u \in PluginThread \ {BootThread} : ppc'[u] = ppc[u] /\ job'[u] = job[u]
          /\ UNCHANGED <<plugins, stolen, overlapped>>
      BY <1>2 DEF BootHenPlugin, GoTo, PluginType, PluginThread
    <3> QED BY <1>0, <2>3, <3>1, QuietKeeps
  <2> QED BY <1>2, <2>2, <2>3 DEF BootHenPlugin
<1>3. CASE BootLine \/ BootEnd \/ KernelEnd
  <2>1. /\ BootThread \in PluginThread /\ ppc[BootThread] \in {"line", "kernel"}
        /\ ppc'[BootThread] \in {"check", "kernel", "booted"}
        /\ \A u \in PluginThread \ {BootThread} : ppc'[u] = ppc[u] /\ job'[u] = job[u]
        /\ UNCHANGED <<plugins, module, outside, stolen, overlapped>>
    BY <1>3 DEF BootLine, BootEnd, KernelEnd, GoTo, PluginType, PluginThread
  <2> QED BY <1>0, <2>1, QuietKeeps
<1>4. CASE KernelLine \/ UNCHANGED pluginVars
  <2>1. UNCHANGED <<plugins, module, ppc, job, outside, stolen, overlapped>>
    BY <1>4 DEF KernelLine, pluginVars
  <2> QED BY <2>1
          DEF TableOrder, ThreadOrder, OneOwner, SlotOrder, ModuleKept, Loading, Removing,
              Unloading, Own, Place
<1> QED BY <1>1, <1>2, <1>3, <1>4 DEF PluginNext

\* For all clients, modules and table sizes, until two loads take a slot at once a slot
\* names a module that was started, no two name the same, and one that runs is in a slot.
THEOREM TableInvariant == PluginSpec => [](PluginType /\ TableOrder)
<1>1. PluginInit => TableOrder
  <2> SUFFICES ASSUME PluginInit PROVE TableOrder
    OBVIOUS
  <2>1. \A t \in PluginThread : ppc[t] \in {"hen", "idle"}
    BY DEF PluginInit
  <2> QED BY <2>1 DEF PluginInit, TableOrder, ThreadOrder, OneOwner, SlotOrder, ModuleKept,
                      Loading, Removing, Unloading
<1> QED BY <1>1, PluginTypeAtInit, PluginTypeStep, TableOrderStep, PTL DEF PluginSpec

\* However loads and removals of plugins interleave, the table names what is in
\* the kernel, until two loads take a slot at once (modulespatch.c 1104, 1153).
THEOREM PluginTableIsTrue == PluginSpec => []TableIsTrue
<1>1. PluginType /\ TableOrder => NoLostPlugin
  BY DEF TableOrder, ModuleKept, NoLostPlugin, Own
<1>2. PluginType /\ TableOrder => SlotNamesModule
  BY DEF TableOrder, SlotOrder, SlotNamesModule, Own, Started
<1> QED BY <1>1, <1>2, TableInvariant, PTL DEF TableIsTrue

-----------------------------------------------------------------------------
(* ProcessApi.  The call of a client holds buffers only of its own kind.   *)

ApiShape ==
  /\ DOMAIN api = ApiClient /\ DOMAIN held = ApiClient
  /\ \A c \in ApiClient :
       {"op", "at"} \subseteq DOMAIN api[c] /\ held[c] \subseteq Needs(api[c].op)

\* Every step keeps the calls on processes of their types.
LEMMA ApiShapeStep ==
  ApiShape /\ [ProcessNext]_processVars => ApiShape'
<1> SUFFICES ASSUME ApiShape, [ProcessNext]_processVars PROVE ApiShape'
  OBVIOUS
<1> USE DEF ApiShape, Reaches, LeaveApi, At, Buffered, Needs, Operation, NoApiCall, otherVars,
            memoryVars, historyVars, SetPrx, Sets
<1>1. ASSUME NEW c \in ApiClient, NEW op \in Operation, NEW p \in Pid, EnterApi(c, op, p)
      PROVE  ApiShape'
  BY <1>1 DEF EnterApi
<1>2. ASSUME NEW c \in ApiClient, ListPids(c) PROVE ApiShape'
  BY <1>2 DEF ListPids
<1>3. ASSUME NEW c \in ApiClient, Looked(c) PROVE ApiShape'
  BY <1>3 DEF Looked
<1>4. ASSUME NEW c \in ApiClient, Alloc(c) PROVE ApiShape'
  BY <1>4 DEF Alloc
<1>5. ASSUME NEW c \in ApiClient, Ask(c) PROVE ApiShape'
  BY <1>5 DEF Ask
<1>6. ASSUME NEW c \in ApiClient, CopyOut(c) PROVE ApiShape'
  BY <1>6 DEF CopyOut
<1>7. ASSUME NEW c \in ApiClient, CopyInfo(c) PROVE ApiShape'
  BY <1>7 DEF CopyInfo, InfoGiven
<1>8. ASSUME NEW c \in ApiClient, WriteMemory(c) PROVE ApiShape'
  BY <1>8 DEF WriteMemory
<1>9. ASSUME NEW c \in ApiClient, AllocatePages(c) PROVE ApiShape'
  BY <1>9 DEF AllocatePages
<1>10. ASSUME NEW c \in ApiClient, PatchMapper(c) PROVE ApiShape'
  BY <1>10 DEF PatchMapper
<1>11. ASSUME NEW c \in ApiClient, ExportPlain(c) PROVE ApiShape'
  BY <1>11 DEF ExportPlain, Exported, Free
<1>12. ASSUME NEW c \in ApiClient, ExportExecutable(c) PROVE ApiShape'
  BY <1>12 DEF ExportExecutable, Exported, Free
<1>13. ASSUME NEW c \in ApiClient, RestoreMapper(c) PROVE ApiShape'
  BY <1>13 DEF RestoreMapper, Restored
<1>14. ASSUME NEW c \in ApiClient, GiveTable(c) PROVE ApiShape'
  BY <1>14 DEF GiveTable
<1>15. ASSUME NEW c \in ApiClient, FreePages(c) PROVE ApiShape'
  BY <1>15 DEF FreePages
<1>16. ASSUME NEW c \in ApiClient, ApiLoadModule(c) PROVE ApiShape'
  BY <1>16 DEF ApiLoadModule
<1>17. ASSUME NEW c \in ApiClient, ApiStartModule(c) PROVE ApiShape'
  BY <1>17 DEF ApiStartModule
<1>18. ASSUME NEW c \in ApiClient, ApiUnloadModule(c) PROVE ApiShape'
  BY <1>18 DEF ApiUnloadModule
<1>19. ASSUME NEW c \in ApiClient, CreateThread(c) PROVE ApiShape'
  BY <1>19 DEF CreateThread
<1>20. ASSUME NEW c \in ApiClient, ThreadJoined(c) PROVE ApiShape'
  BY <1>20 DEF ThreadJoined
<1>21. ASSUME NEW p \in Pid, ProcessEnds(p) PROVE ApiShape'
  BY <1>21 DEF ProcessEnds
<1>22. ASSUME NEW c \in ApiClient, NEW op \in {"idps", "psid"}, BeginId(c, op) PROVE ApiShape'
  BY <1>22 DEF BeginId
<1>23. ASSUME NEW c \in ApiClient, NEW op \in {"idps", "psid"}, WriteHalf(c, op) PROVE ApiShape'
  BY <1>23 DEF WriteHalf
<1>24. ASSUME NEW c \in ApiClient, NEW op \in {"idps", "psid"}, EndId(c, op) PROVE ApiShape'
  BY <1>24 DEF EndId
<1>25. CASE UNCHANGED processVars
  BY <1>25 DEF processVars
<1> QED
  BY <1>1, <1>2, <1>3, <1>4, <1>5, <1>6, <1>7, <1>8, <1>9, <1>10, <1>11, <1>12, <1>13,
     <1>14, <1>15, <1>16, <1>17, <1>18, <1>19, <1>20, <1>21, <1>22, <1>23, <1>24, <1>25
  DEF ProcessNext, ApiNext, IdNext

\* Every step keeps account of the buffers.
LEMMA BuffersStep ==
  ApiShape /\ BuffersGivenBack /\ [ProcessNext]_processVars => BuffersGivenBack'
<1> SUFFICES ASSUME ApiShape, BuffersGivenBack, [ProcessNext]_processVars PROVE BuffersGivenBack'
  OBVIOUS
<1> USE DEF ApiShape, Reaches, LeaveApi, At, Buffered, Needs, Operation, NoApiCall, otherVars,
            memoryVars, historyVars, BuffersGivenBack, Sets
<1>1. ASSUME NEW c \in ApiClient, NEW op \in Operation, NEW p \in Pid, EnterApi(c, op, p)
      PROVE  BuffersGivenBack'
  BY <1>1 DEF EnterApi
<1>2. ASSUME NEW c \in ApiClient, ListPids(c) PROVE BuffersGivenBack'
  BY <1>2 DEF ListPids
<1>3. ASSUME NEW c \in ApiClient, Looked(c) PROVE BuffersGivenBack'
  BY <1>3 DEF Looked
<1>4. ASSUME NEW c \in ApiClient, Alloc(c) PROVE BuffersGivenBack'
  BY <1>4 DEF Alloc
<1>5. ASSUME NEW c \in ApiClient, Ask(c) PROVE BuffersGivenBack'
  BY <1>5 DEF Ask
<1>6. ASSUME NEW c \in ApiClient, CopyOut(c) PROVE BuffersGivenBack'
  BY <1>6 DEF CopyOut
<1>7. ASSUME NEW c \in ApiClient, CopyInfo(c) PROVE BuffersGivenBack'
  BY <1>7 DEF CopyInfo, InfoGiven
<1>8. ASSUME NEW c \in ApiClient, WriteMemory(c) PROVE BuffersGivenBack'
  BY <1>8 DEF WriteMemory
<1>9. ASSUME NEW c \in ApiClient, AllocatePages(c) PROVE BuffersGivenBack'
  BY <1>9 DEF AllocatePages
<1>10. ASSUME NEW c \in ApiClient, PatchMapper(c) PROVE BuffersGivenBack'
  BY <1>10 DEF PatchMapper
<1>11. ASSUME NEW c \in ApiClient, ExportPlain(c) PROVE BuffersGivenBack'
  BY <1>11 DEF ExportPlain, Exported, Free
<1>12. ASSUME NEW c \in ApiClient, ExportExecutable(c) PROVE BuffersGivenBack'
  BY <1>12 DEF ExportExecutable, Exported, Free
<1>13. ASSUME NEW c \in ApiClient, RestoreMapper(c) PROVE BuffersGivenBack'
  BY <1>13 DEF RestoreMapper, Restored
<1>14. ASSUME NEW c \in ApiClient, GiveTable(c) PROVE BuffersGivenBack'
  BY <1>14 DEF GiveTable
<1>15. ASSUME NEW c \in ApiClient, FreePages(c) PROVE BuffersGivenBack'
  BY <1>15 DEF FreePages
<1>16. ASSUME NEW c \in ApiClient, ApiLoadModule(c) PROVE BuffersGivenBack'
  BY <1>16 DEF ApiLoadModule
<1>17. ASSUME NEW c \in ApiClient, ApiStartModule(c) PROVE BuffersGivenBack'
  BY <1>17 DEF ApiStartModule
<1>18. ASSUME NEW c \in ApiClient, ApiUnloadModule(c) PROVE BuffersGivenBack'
  BY <1>18 DEF ApiUnloadModule
<1>19. ASSUME NEW c \in ApiClient, CreateThread(c) PROVE BuffersGivenBack'
  BY <1>19 DEF CreateThread
<1>20. ASSUME NEW c \in ApiClient, ThreadJoined(c) PROVE BuffersGivenBack'
  BY <1>20 DEF ThreadJoined
<1>21. ASSUME NEW p \in Pid, ProcessEnds(p) PROVE BuffersGivenBack'
  BY <1>21 DEF ProcessEnds
<1>22. ASSUME NEW c \in ApiClient, NEW op \in {"idps", "psid"}, BeginId(c, op) PROVE BuffersGivenBack'
  BY <1>22 DEF BeginId
<1>23. ASSUME NEW c \in ApiClient, NEW op \in {"idps", "psid"}, WriteHalf(c, op) PROVE BuffersGivenBack'
  BY <1>23 DEF WriteHalf
<1>24. ASSUME NEW c \in ApiClient, NEW op \in {"idps", "psid"}, EndId(c, op) PROVE BuffersGivenBack'
  BY <1>24 DEF EndId
<1>25. CASE UNCHANGED processVars
  BY <1>25 DEF processVars
<1> QED
  BY <1>1, <1>2, <1>3, <1>4, <1>5, <1>6, <1>7, <1>8, <1>9, <1>10, <1>11, <1>12, <1>13,
     <1>14, <1>15, <1>16, <1>17, <1>18, <1>19, <1>20, <1>21, <1>22, <1>23, <1>24, <1>25
  DEF ProcessNext, ApiNext, IdNext

\* While no two mappings overlapped and none failed inside its patch, the
\* instruction is patched exactly while one client maps, and for it alone.
InPatch(c) == api[c].op = "map" /\ api[c].at \in Patching
MapperOrder ==
  /\ mapper \in {"normal", "executable"}
  /\ ~mixed /\ ~stuck =>
       /\ \A g \in pages : g.made = g.asked
       /\ \A c \in ApiClient : InPatch(c) => mapper = "executable"
       /\ mapper = "executable" => \E c \in ApiClient : InPatch(c)
       /\ \A c, d \in ApiClient : InPatch(c) /\ InPatch(d) => c = d

\* Every step keeps the pages executable where a client asked for it.
LEMMA MapperStep ==
  ApiShape /\ MapperOrder /\ [ProcessNext]_processVars => MapperOrder'
<1> SUFFICES ASSUME ApiShape, MapperOrder, [ProcessNext]_processVars PROVE MapperOrder'
  OBVIOUS
<1> USE DEF ApiShape, Reaches, LeaveApi, At, Buffered, Needs, Operation, NoApiCall, otherVars,
            memoryVars, historyVars, MapperOrder, InPatch, Patching, OthersPatch, Sets
<1>1. ASSUME NEW c \in ApiClient, NEW op \in Operation, NEW p \in Pid, EnterApi(c, op, p)
      PROVE  MapperOrder'
  BY <1>1 DEF EnterApi
<1>2. ASSUME NEW c \in ApiClient, ListPids(c) PROVE MapperOrder'
  BY <1>2 DEF ListPids
<1>3. ASSUME NEW c \in ApiClient, Looked(c) PROVE MapperOrder'
  BY <1>3 DEF Looked
<1>4. ASSUME NEW c \in ApiClient, Alloc(c) PROVE MapperOrder'
  BY <1>4 DEF Alloc
<1>5. ASSUME NEW c \in ApiClient, Ask(c) PROVE MapperOrder'
  BY <1>5 DEF Ask
<1>6. ASSUME NEW c \in ApiClient, CopyOut(c) PROVE MapperOrder'
  BY <1>6 DEF CopyOut
<1>7. ASSUME NEW c \in ApiClient, CopyInfo(c) PROVE MapperOrder'
  BY <1>7 DEF CopyInfo, InfoGiven
<1>8. ASSUME NEW c \in ApiClient, WriteMemory(c) PROVE MapperOrder'
  BY <1>8 DEF WriteMemory
<1>9. ASSUME NEW c \in ApiClient, AllocatePages(c) PROVE MapperOrder'
  BY <1>9 DEF AllocatePages
<1>10. ASSUME NEW c \in ApiClient, PatchMapper(c) PROVE MapperOrder'
  BY <1>10 DEF PatchMapper
<1>11. ASSUME NEW c \in ApiClient, ExportPlain(c) PROVE MapperOrder'
  <2>1. /\ mapper' = mapper /\ stuck' = stuck
        /\ mixed' = (mixed \/ \E d \in ApiClient \ {c} : InPatch(d))
        /\ ~InPatch(c)
    BY <1>11 DEF ExportPlain
  <2>2. \A d \in ApiClient : InPatch(d)' <=> InPatch(d)
    BY <1>11, <2>1 DEF ExportPlain, Exported
  <2>3. \A g \in pages' : g \in pages \/ (g.asked = "normal" /\ g.made = mapper)
    BY <1>11 DEF ExportPlain, Exported
  <2>4. ~mixed' /\ ~stuck' => ~mixed /\ ~stuck /\ mapper = "normal"
    BY <2>1
  <2> HIDE DEF InPatch
  <2> QED
    BY <2>1, <2>2, <2>3, <2>4
<1>12. ASSUME NEW c \in ApiClient, ExportExecutable(c) PROVE MapperOrder'
  <2>1. CASE stuck'
    BY <1>12, <2>1 DEF ExportExecutable
  <2>2. CASE ~stuck'
    <3>1. Exported(c, "executable", "restore") /\ InPatch(c)
      BY <1>12, <2>2 DEF ExportExecutable
    <3>2. mapper' = mapper /\ stuck' = stuck /\ (~mixed' => ~mixed)
      BY <1>12, <2>2 DEF ExportExecutable
    <3>3. \A d \in ApiClient : InPatch(d)' <=> InPatch(d)
      BY <3>1 DEF Exported
    <3>4. \A g \in pages' : g \in pages \/ (g.asked = "executable" /\ g.made = mapper)
      BY <3>1 DEF Exported
    <3> HIDE DEF InPatch
    <3> QED
      BY <3>1, <3>2, <3>3, <3>4
  <2> QED
    BY <2>1, <2>2
<1>13. ASSUME NEW c \in ApiClient, RestoreMapper(c) PROVE MapperOrder'
  BY <1>13 DEF RestoreMapper, Restored
<1>14. ASSUME NEW c \in ApiClient, GiveTable(c) PROVE MapperOrder'
  BY <1>14 DEF GiveTable
<1>15. ASSUME NEW c \in ApiClient, FreePages(c) PROVE MapperOrder'
  BY <1>15 DEF FreePages
<1>16. ASSUME NEW c \in ApiClient, ApiLoadModule(c) PROVE MapperOrder'
  BY <1>16 DEF ApiLoadModule
<1>17. ASSUME NEW c \in ApiClient, ApiStartModule(c) PROVE MapperOrder'
  BY <1>17 DEF ApiStartModule
<1>18. ASSUME NEW c \in ApiClient, ApiUnloadModule(c) PROVE MapperOrder'
  BY <1>18 DEF ApiUnloadModule
<1>19. ASSUME NEW c \in ApiClient, CreateThread(c) PROVE MapperOrder'
  BY <1>19 DEF CreateThread
<1>20. ASSUME NEW c \in ApiClient, ThreadJoined(c) PROVE MapperOrder'
  BY <1>20 DEF ThreadJoined
<1>21. ASSUME NEW p \in Pid, ProcessEnds(p) PROVE MapperOrder'
  BY <1>21 DEF ProcessEnds
<1>22. ASSUME NEW c \in ApiClient, NEW op \in {"idps", "psid"}, BeginId(c, op) PROVE MapperOrder'
  BY <1>22 DEF BeginId
<1>23. ASSUME NEW c \in ApiClient, NEW op \in {"idps", "psid"}, WriteHalf(c, op) PROVE MapperOrder'
  BY <1>23 DEF WriteHalf
<1>24. ASSUME NEW c \in ApiClient, NEW op \in {"idps", "psid"}, EndId(c, op) PROVE MapperOrder'
  BY <1>24 DEF EndId
<1>25. CASE UNCHANGED processVars
  BY <1>25 DEF processVars
<1> QED
  BY <1>1, <1>2, <1>3, <1>4, <1>5, <1>6, <1>7, <1>8, <1>9, <1>10, <1>11, <1>12, <1>13,
     <1>14, <1>15, <1>16, <1>17, <1>18, <1>19, <1>20, <1>21, <1>22, <1>23, <1>24, <1>25
  DEF ProcessNext, ApiNext, IdNext

\* While no two calls set an id at once, the halves a call has written are its
\* own, and an id that no call writes is whole.
Half(op) == 2 * Len(Copies(op))
Whole(op) ==
  \A i, j \in {Copies(op)[k] : k \in DOMAIN Copies(op)} :
    ids[i] = ids[j] /\ ids[i][1] = ids[i][2]
IdOrder ==
  /\ ids \in [IdName -> Value \X Value]
  /\ \A op \in {"idps", "psid"} :
       /\ \A c \in ApiClient : Sets(c, op) => "n" \in DOMAIN api[c] /\ api[c].n \in 0 .. Half(op)
       /\ ~raced =>
            /\ \A c, d \in ApiClient : Sets(c, op) /\ Sets(d, op) => c = d
            /\ \/ \E c \in ApiClient : Sets(c, op)
               \/ Whole(op)
            /\ \A c \in ApiClient : Sets(c, op) =>
                 \A k \in 1 .. Len(Copies(op)), h \in {1, 2} :
                   2 * (k - 1) + h <= api[c].n => ids[Copies(op)[k]][h] = c

\* A step that is not one of the calls that set an id.
Apart ==
  /\ ids' = ids /\ raced' = raced
  /\ \A d \in ApiClient, op \in {"idps", "psid"} :
       (Sets(d, op)' <=> Sets(d, op)) /\ (Sets(d, op) => api'[d] = api[d])

\* A step of a call that sets no id is apart from those that do.
LEMMA SetsElsewhere ==
  ApiShape /\ [ApiNext]_processVars => Apart
<1> SUFFICES ASSUME ApiShape, [ApiNext]_processVars PROVE Apart
  OBVIOUS
<1> USE DEF ApiShape, Reaches, LeaveApi, At, Buffered, Needs, Operation, NoApiCall, otherVars,
            memoryVars, historyVars, Apart, Sets
<1>1. ASSUME NEW c \in ApiClient, NEW op \in Operation, NEW p \in Pid, EnterApi(c, op, p)
      PROVE  Apart
  BY <1>1 DEF EnterApi
<1>2. ASSUME NEW c \in ApiClient, ListPids(c) PROVE Apart
  BY <1>2 DEF ListPids
<1>3. ASSUME NEW c \in ApiClient, Looked(c) PROVE Apart
  BY <1>3 DEF Looked
<1>4. ASSUME NEW c \in ApiClient, Alloc(c) PROVE Apart
  BY <1>4 DEF Alloc
<1>5. ASSUME NEW c \in ApiClient, Ask(c) PROVE Apart
  BY <1>5 DEF Ask
<1>6. ASSUME NEW c \in ApiClient, CopyOut(c) PROVE Apart
  BY <1>6 DEF CopyOut
<1>7. ASSUME NEW c \in ApiClient, CopyInfo(c) PROVE Apart
  BY <1>7 DEF CopyInfo, InfoGiven
<1>8. ASSUME NEW c \in ApiClient, WriteMemory(c) PROVE Apart
  BY <1>8 DEF WriteMemory
<1>9. ASSUME NEW c \in ApiClient, AllocatePages(c) PROVE Apart
  BY <1>9 DEF AllocatePages
<1>10. ASSUME NEW c \in ApiClient, PatchMapper(c) PROVE Apart
  BY <1>10 DEF PatchMapper
<1>11. ASSUME NEW c \in ApiClient, ExportPlain(c) PROVE Apart
  BY <1>11 DEF ExportPlain, Exported, Free
<1>12. ASSUME NEW c \in ApiClient, ExportExecutable(c) PROVE Apart
  BY <1>12 DEF ExportExecutable, Exported, Free
<1>13. ASSUME NEW c \in ApiClient, RestoreMapper(c) PROVE Apart
  BY <1>13 DEF RestoreMapper, Restored
<1>14. ASSUME NEW c \in ApiClient, GiveTable(c) PROVE Apart
  BY <1>14 DEF GiveTable
<1>15. ASSUME NEW c \in ApiClient, FreePages(c) PROVE Apart
  BY <1>15 DEF FreePages
<1>16. ASSUME NEW c \in ApiClient, ApiLoadModule(c) PROVE Apart
  BY <1>16 DEF ApiLoadModule
<1>17. ASSUME NEW c \in ApiClient, ApiStartModule(c) PROVE Apart
  BY <1>17 DEF ApiStartModule
<1>18. ASSUME NEW c \in ApiClient, ApiUnloadModule(c) PROVE Apart
  BY <1>18 DEF ApiUnloadModule
<1>19. ASSUME NEW c \in ApiClient, CreateThread(c) PROVE Apart
  BY <1>19 DEF CreateThread
<1>20. ASSUME NEW c \in ApiClient, ThreadJoined(c) PROVE Apart
  BY <1>20 DEF ThreadJoined
<1>21. ASSUME NEW p \in Pid, ProcessEnds(p) PROVE Apart
  BY <1>21 DEF ProcessEnds
<1>22. CASE UNCHANGED processVars
  BY <1>22 DEF processVars
<1> QED
  BY <1>1, <1>2, <1>3, <1>4, <1>5, <1>6, <1>7, <1>8, <1>9, <1>10, <1>11, <1>12, <1>13,
     <1>14, <1>15, <1>16, <1>17, <1>18, <1>19, <1>20, <1>21, <1>22
  DEF ApiNext

\* The psid has one copy, the idps one or two.
LEMMA CopiesShape ==
  /\ Copies("psid") = <<"psid">>
  /\ Copies("idps") = <<"idps1", "idps2">> \/ Copies("idps") = <<"idps1">>
BY DEF Copies

\* A step apart from the calls that set an id keeps the ids.
LEMMA ApartKeepsIds == IdOrder /\ Apart => IdOrder'
BY DEF IdOrder, Apart, Whole, Half

\* So does a call that begins to set one,
LEMMA BeginKeepsIds ==
  ASSUME ApiShape, IdOrder, NEW c \in ApiClient, NEW op \in {"idps", "psid"}, BeginId(c, op)
  PROVE  IdOrder'
<1> USE DEF ApiShape, IdOrder, Sets, BeginId, NoApiCall
<1>1. /\ ids' = ids
      /\ api'[c] = [op |-> op, at |-> "writing", n |-> 0]
      /\ \A d \in ApiClient \ {c} : api'[d] = api[d]
      /\ ~raced' => ~raced /\ \A d \in ApiClient : ~Sets(d, op)
  OBVIOUS
<1>2. \A q \in {"idps", "psid"} : Half(q) \in Nat /\ Len(Copies(q)) \in Nat
  BY CopiesShape DEF Half
<1>3. (\A d \in ApiClient, q \in {"idps", "psid"} : Sets(d, q) =>
        "n" \in DOMAIN api[d] /\ api[d].n \in 0 .. Half(q))'
  BY <1>1, <1>2 DEF Half
<1>4. ASSUME NEW q \in {"idps", "psid"}, ~raced'
      PROVE  /\ (\A d, e \in ApiClient : Sets(d, q) /\ Sets(e, q) => d = e)'
             /\ ((\E d \in ApiClient : Sets(d, q)) \/ Whole(q))'
             /\ (\A d \in ApiClient : Sets(d, q) =>
                  \A k \in 1 .. Len(Copies(q)), h \in {1, 2} :
                    2 * (k - 1) + h <= api[d].n => ids[Copies(q)[k]][h] = d)'
  <2>1. (\A d, e \in ApiClient : Sets(d, q) /\ Sets(e, q) => d = e)'
    BY <1>1, <1>4
  <2>2. ((\E d \in ApiClient : Sets(d, q)) \/ Whole(q))'
    <3>1. CASE q = op
      BY <1>1, <3>1
    <3>2. CASE q # op
      BY <1>1, <1>4, <3>2 DEF Whole
    <3> QED
      BY <3>1, <3>2
  <2>3. ASSUME NEW d \in ApiClient, Sets(d, q)', NEW k \in 1 .. Len(Copies(q)), NEW h \in {1, 2},
               2 * (k - 1) + h <= api'[d].n
        PROVE  ids'[Copies(q)[k]][h] = d
    BY <1>1, <1>2, <1>4, <2>3
  <2> QED
    BY <2>1, <2>2, <2>3
<1> QED
  BY <1>1, <1>3, <1>4 DEF Half

\* The place that the n-th half goes to.
LEMMA Halves ==
  ASSUME NEW op \in {"idps", "psid"}, NEW n \in 0 .. Half(op), n < Half(op)
  PROVE  /\ n \div 2 \in 0 .. Len(Copies(op)) - 1 /\ n % 2 \in {0, 1}
         /\ n = 2 * (n \div 2) + (n % 2)
         /\ Copies(op)[1 + n \div 2] \in IdName
<1>1. Len(Copies(op)) \in {1, 2} /\ (Len(Copies(op)) = 1 => n \in {0, 1})
      /\ n \in {0, 1, 2, 3}
  <2>1. Len(Copies(op)) \in {1, 2}
    BY CopiesShape
  <2>2. Half(op) = 2 * Len(Copies(op))
    BY DEF Half
  <2>3. CASE Len(Copies(op)) = 1
    BY <2>2, <2>3
  <2>4. CASE Len(Copies(op)) = 2
    BY <2>2, <2>4
  <2> QED
    BY <2>1, <2>3, <2>4
<1>2. /\ 0 \div 2 = 0 /\ 1 \div 2 = 0 /\ 2 \div 2 = 1 /\ 3 \div 2 = 1
      /\ 0 % 2 = 0 /\ 1 % 2 = 1 /\ 2 % 2 = 0 /\ 3 % 2 = 1
  OBVIOUS
<1>3. /\ Copies(op)[1] \in IdName
      /\ Len(Copies(op)) = 2 => Copies(op)[2] \in IdName
  BY CopiesShape DEF IdName
<1>4. CASE n = 0
  BY <1>1, <1>2, <1>3, <1>4
<1>5. CASE n = 1
  BY <1>1, <1>2, <1>3, <1>5
<1>6. CASE n = 2
  <2>1. Len(Copies(op)) = 2
    BY <1>1, <1>6
  <2>2. n \div 2 = 1 /\ n % 2 = 0 /\ 1 + n \div 2 = 2
    BY <1>2, <1>6
  <2>3. Copies(op)[1 + n \div 2] \in IdName
    BY <1>3, <2>1, <2>2
  <2>4. n \div 2 \in 0 .. Len(Copies(op)) - 1
    BY <2>1, <2>2
  <2>5. n = 2 * (n \div 2) + (n % 2)
    BY <2>2, <1>6
  <2> QED
    BY <2>2, <2>3, <2>4, <2>5
<1>7. CASE n = 3
  <2>1. Len(Copies(op)) = 2
    BY <1>1, <1>7
  <2>2. n \div 2 = 1 /\ n % 2 = 1 /\ 1 + n \div 2 = 2
    BY <1>2, <1>7
  <2>3. Copies(op)[1 + n \div 2] \in IdName
    BY <1>3, <2>1, <2>2
  <2>4. n \div 2 \in 0 .. Len(Copies(op)) - 1
    BY <2>1, <2>2
  <2>5. n = 2 * (n \div 2) + (n % 2)
    BY <2>2, <1>7
  <2> QED
    BY <2>2, <2>3, <2>4, <2>5
<1> QED
  BY <1>1, <1>4, <1>5, <1>6, <1>7

\* No two places of an id are the same, and the two ids share none.
LEMMA CopiesApart ==
  ASSUME NEW op \in {"idps", "psid"}, NEW q \in {"idps", "psid"},
         NEW k \in 1 .. Len(Copies(op)), NEW l \in 1 .. Len(Copies(q)),
         Copies(op)[k] = Copies(q)[l]
  PROVE  op = q /\ k = l
<1>1. CASE Copies("idps") = <<"idps1", "idps2">>
  <2>1. \A q2 \in {"idps", "psid"} : q2 = "idps" => Len(Copies(q2)) = 2
    BY <1>1
  <2>2. k \in {1, 2} /\ l \in {1, 2} /\ (op = "psid" => k = 1) /\ (q = "psid" => l = 1)
    BY <1>1, CopiesShape
  <2> QED
    BY <1>1, <2>1, <2>2, CopiesShape
<1>2. CASE Copies("idps") = <<"idps1">>
  <2>1. k = 1 /\ l = 1
    BY <1>2, CopiesShape
  <2> QED
    BY <1>2, <2>1, CopiesShape
<1> QED
  BY <1>1, <1>2, CopiesShape

\* that writes a half of a copy,
LEMMA WriteKeepsIds ==
  ASSUME ApiShape, IdOrder, NEW c \in ApiClient, NEW op \in {"idps", "psid"}, WriteHalf(c, op)
  PROVE  IdOrder'
<1> DEFINE n == api[c].n
           kk == 1 + (n \div 2)
           hh == 1 + (n % 2)
<1>1. /\ n \in 0 .. Half(op) /\ n < Half(op) /\ Half(op) \in Nat
      /\ \A q \in {"idps", "psid"} : Len(Copies(q)) \in Nat
  BY CopiesShape DEF IdOrder, WriteHalf, Half, Sets
<1>2. /\ kk \in 1 .. Len(Copies(op)) /\ hh \in {1, 2}
      /\ n + 1 = 2 * (kk - 1) + hh /\ Copies(op)[kk] \in IdName
  <2>1. /\ n \div 2 \in 0 .. Len(Copies(op)) - 1 /\ n % 2 \in {0, 1}
        /\ n = 2 * (n \div 2) + (n % 2)
        /\ Copies(op)[1 + n \div 2] \in IdName
    BY <1>1, Halves
  <2>2. n \in Nat
    BY <1>1
  <2>3. kk - 1 = n \div 2 /\ hh - 1 = n % 2
    BY <2>1
  <2> HIDE DEF n
  <2>4. kk \in 1 .. Len(Copies(op)) /\ hh \in {1, 2}
    BY <1>1, <2>1
  <2> QED
    BY <1>1, <2>1, <2>2, <2>3, <2>4
<1>3. /\ ids' = [ids EXCEPT ![Copies(op)[kk]] = [@ EXCEPT ![hh] = c]]
      /\ raced' = raced
      /\ api' = [api EXCEPT ![c].n = @ + 1]
  BY DEF WriteHalf, historyVars
<1>4. Sets(c, op) /\ "n" \in DOMAIN api[c]
  BY DEF WriteHalf, IdOrder
<1>5. /\ api'[c].n = n + 1
      /\ \A d \in ApiClient, q \in {"idps", "psid"} :
           Sets(d, q)' <=> Sets(d, q)
      /\ \A d \in ApiClient : d # c => api'[d] = api[d]
      /\ DOMAIN api'[c] = DOMAIN api[c]
  BY <1>3, <1>4 DEF ApiShape, Sets
<1>6. (ids \in [IdName -> Value \X Value])'
  <2>1. ids \in [IdName -> Value \X Value] /\ c \in Value
    BY DEF IdOrder, Value
  <2>2. [ids[Copies(op)[kk]] EXCEPT ![hh] = c] \in Value \X Value
    BY <1>2, <2>1
  <2> QED
    BY <1>2, <1>3, <2>1, <2>2
<1>7. (\A d \in ApiClient, q \in {"idps", "psid"} : Sets(d, q) =>
        "n" \in DOMAIN api[d] /\ api[d].n \in 0 .. Half(q))'
  <2>1. \A q \in {"idps", "psid"} : Sets(c, q) => q = op
    BY <1>4 DEF Sets
  <2> QED
    BY <1>1, <1>4, <1>5, <2>1 DEF IdOrder, Half
<1>8. ids[Copies(op)[kk]] \in Value \X Value
  BY <1>2 DEF IdOrder
<1>9. ASSUME NEW q \in {"idps", "psid"}, NEW k \in 1 .. Len(Copies(q)), NEW h \in {1, 2},
             <<q, k, h>> # <<op, kk, hh>>
      PROVE  ids'[Copies(q)[k]][h] = ids[Copies(q)[k]][h]
  <2>1. CASE Copies(q)[k] = Copies(op)[kk]
    <3>1. q = op /\ k = kk
      BY <1>2, <2>1, CopiesApart
    <3> QED
      BY <1>2, <1>3, <1>8, <1>9, <3>1 DEF IdOrder
  <2>2. CASE Copies(q)[k] # Copies(op)[kk]
    BY <1>3, <2>2
  <2> QED
    BY <2>1, <2>2
<1>10. ids'[Copies(op)[kk]][hh] = c
  BY <1>2, <1>3, <1>8 DEF IdOrder
<1>11. ASSUME NEW q \in {"idps", "psid"}, ~raced'
       PROVE  /\ (\A d, e \in ApiClient : Sets(d, q) /\ Sets(e, q) => d = e)'
              /\ ((\E d \in ApiClient : Sets(d, q)) \/ Whole(q))'
              /\ (\A d \in ApiClient : Sets(d, q) =>
                   \A k \in 1 .. Len(Copies(q)), h \in {1, 2} :
                     2 * (k - 1) + h <= api[d].n => ids[Copies(q)[k]][h] = d)'
  <2>1. (\A d, e \in ApiClient : Sets(d, q) /\ Sets(e, q) => d = e)'
    BY <1>3, <1>5, <1>11 DEF IdOrder
  <2>2. ((\E d \in ApiClient : Sets(d, q)) \/ Whole(q))'
    <3>1. CASE q = op
      BY <1>4, <1>5, <3>1
    <3>2. CASE q # op
      <4>1. \A k \in 1 .. Len(Copies(q)) : Copies(q)[k] # Copies(op)[kk]
        BY <1>2, <3>2, CopiesApart
      <4>2. \A k \in 1 .. Len(Copies(q)) : ids'[Copies(q)[k]] = ids[Copies(q)[k]]
        BY <1>3, <4>1
      <4>3. DOMAIN Copies(q) = 1 .. Len(Copies(q))
        BY CopiesShape
      <4>4. (\E d \in ApiClient : Sets(d, q)) \/ Whole(q)
        BY <1>3, <1>11 DEF IdOrder
      <4> QED
        BY <1>5, <4>2, <4>3, <4>4 DEF Whole
    <3> QED
      BY <3>1, <3>2
  <2>3. ASSUME NEW d \in ApiClient, Sets(d, q)', NEW k \in 1 .. Len(Copies(q)), NEW h \in {1, 2},
               2 * (k - 1) + h <= api'[d].n
        PROVE  ids'[Copies(q)[k]][h] = d
    <3>1. Sets(d, q) /\ api[d].n \in 0 .. Half(q)
      BY <1>5, <2>3 DEF IdOrder
    <3>2. CASE <<q, k, h>> = <<op, kk, hh>>
      BY <1>3, <1>4, <1>10, <1>11, <3>1, <3>2 DEF IdOrder
    <3>3. CASE <<q, k, h>> # <<op, kk, hh>>
      <4>1. 2 * (k - 1) + h <= api[d].n
        <5>1. CASE d # c
          BY <1>5, <2>3, <5>1
        <5>2. CASE d = c
          <6>1. q = op
            BY <1>4, <3>1, <5>2 DEF Sets
          <6>2. k # kk \/ h # hh
            BY <3>3, <6>1
          <6>3. k \in Nat /\ kk \in Nat /\ n \in Nat
            <7> HIDE DEF n, kk
            <7>1. Len(Copies(q)) \in Nat /\ Len(Copies(op)) \in Nat
              BY <1>1
            <7> QED
              BY <1>1, <1>2, <7>1
          <6>4. 2 * (k - 1) + h # 2 * (kk - 1) + hh
            <7> HIDE DEF kk, hh
            <7> QED
              BY <1>2, <6>2, <6>3
          <6>5. 2 * (k - 1) + h <= n + 1 /\ n + 1 = 2 * (kk - 1) + hh
            BY <1>2, <1>5, <2>3, <5>2
          <6> HIDE DEF n, kk, hh
          <6>6. 2 * (k - 1) + h <= n
            BY <1>2, <6>3, <6>4, <6>5
          <6> QED
            BY <5>2, <6>6 DEF n
        <5> QED
          BY <5>1, <5>2
      <4>2. ids[Copies(q)[k]][h] = d
        BY <1>3, <1>11, <3>1, <4>1 DEF IdOrder
      <4> QED
        BY <1>9, <3>3, <4>2
    <3> QED
      BY <3>2, <3>3
  <2> QED
    BY <2>1, <2>2, <2>3
<1> QED
  BY <1>6, <1>7, <1>11 DEF IdOrder

\* and that ends: the id is whole.
LEMMA EndKeepsIds ==
  ASSUME ApiShape, IdOrder, NEW c \in ApiClient, NEW op \in {"idps", "psid"}, EndId(c, op)
  PROVE  IdOrder'
<1>1. /\ ids' = ids /\ raced' = raced /\ api'[c] = NoApiCall
      /\ \A d \in ApiClient \ {c} : api'[d] = api[d]
      /\ Sets(c, op) /\ api[c].n = Half(op)
  BY DEF EndId, LeaveApi, ApiShape, historyVars, Half
<1>2. \A d \in ApiClient, q \in {"idps", "psid"} :
        Sets(d, q)' <=> Sets(d, q) /\ d # c
  BY <1>1 DEF Sets, NoApiCall
<1>3. ASSUME NEW q \in {"idps", "psid"}, ~raced'
      PROVE  ((\E d \in ApiClient : Sets(d, q)) \/ Whole(q))'
  <2>1. CASE q = op
    <3>1. \A k \in 1 .. Len(Copies(op)), h \in {1, 2} : ids[Copies(op)[k]][h] = c
      <4>1. Len(Copies(op)) \in Nat
        BY CopiesShape
      <4>2. \A k \in 1 .. Len(Copies(op)), h \in {1, 2} : 2 * (k - 1) + h <= Half(op)
        BY <4>1 DEF Half
      <4> QED
        BY <1>1, <1>3, <4>2 DEF IdOrder
    <3>2. DOMAIN Copies(op) = 1 .. Len(Copies(op))
      BY CopiesShape
    <3>3. \A k \in DOMAIN Copies(op) : ids[Copies(op)[k]] \in Value \X Value
      BY CopiesShape DEF IdOrder, IdName
    <3>4. \A k \in DOMAIN Copies(op) : ids[Copies(op)[k]] = <<c, c>>
      BY <3>1, <3>2, <3>3
    <3> QED
      BY <1>1, <2>1, <3>4 DEF Whole
  <2>2. CASE q # op
    <3>1. \A d \in ApiClient : Sets(d, q)' <=> Sets(d, q)
      BY <1>1, <1>2, <2>2 DEF Sets
    <3> QED
      BY <1>1, <1>3, <3>1 DEF IdOrder, Whole
  <2> QED
    BY <2>1, <2>2
<1>4. ids' \in [IdName -> Value \X Value]
  BY <1>1 DEF IdOrder
<1>5. ASSUME NEW q \in {"idps", "psid"}, NEW d \in ApiClient, Sets(d, q)'
      PROVE  /\ Sets(d, q) /\ d # c /\ api'[d] = api[d]
             /\ "n" \in DOMAIN api[d] /\ api[d].n \in 0 .. Half(q)
  BY <1>1, <1>2, <1>5 DEF IdOrder
<1>6. ASSUME NEW q \in {"idps", "psid"}, ~raced'
      PROVE  /\ \A d, e \in ApiClient : Sets(d, q)' /\ Sets(e, q)' => d = e
             /\ \A d \in ApiClient : Sets(d, q)' =>
                  \A k \in 1 .. Len(Copies(q)), h \in {1, 2} :
                    2 * (k - 1) + h <= api'[d].n => ids'[Copies(q)[k]][h] = d
  BY <1>1, <1>5, <1>6 DEF IdOrder
<1> QED
  BY <1>3, <1>4, <1>5, <1>6 DEF IdOrder, Half

\* So does every step.
LEMMA IdStep ==
  ApiShape /\ IdOrder /\ [ProcessNext]_processVars => IdOrder'
<1> SUFFICES ASSUME ApiShape, IdOrder, [ProcessNext]_processVars PROVE IdOrder'
  OBVIOUS
<1>1. CASE [ApiNext]_processVars
  BY <1>1, SetsElsewhere, ApartKeepsIds
<1>2. CASE IdNext
  BY <1>2, BeginKeepsIds, WriteKeepsIds, EndKeepsIds DEF IdNext
<1> QED
  BY <1>1, <1>2 DEF ProcessNext

\* At the start no call runs and every id is whole.
LEMMA ProcessAtInit ==
  ProcessInit => ApiShape /\ BuffersGivenBack /\ MapperOrder /\ IdOrder
<1> SUFFICES ASSUME ProcessInit PROVE ApiShape /\ BuffersGivenBack /\ MapperOrder /\ IdOrder
  OBVIOUS
<1> USE DEF ProcessInit, NoApiCall
<1>1. ApiShape
  BY DEF ApiShape
<1>2. BuffersGivenBack
  BY DEF BuffersGivenBack
<1>3. MapperOrder
  BY DEF MapperOrder, InPatch
<1>4. IdOrder
  BY CopiesShape DEF IdOrder, Sets, Whole, Value, IdName
<1> QED
  BY <1>1, <1>2, <1>3, <1>4

\* A process has executable pages exactly where a client asked for them, no
\* buffer of a call is lost and no id is left in halves, for every number of
\* clients, processes and pages, under the exceptions the three conjuncts name.
THEOREM ProcessCallsStayClean == ProcessSpec => []ProcessCallsClean
<1> DEFINE Inv == ApiShape /\ BuffersGivenBack /\ MapperOrder /\ IdOrder
<1>1. ProcessInit => Inv
  BY ProcessAtInit
<1>2. Inv /\ [ProcessNext]_processVars => Inv'
  BY ApiShapeStep, BuffersStep, MapperStep, IdStep
<1>3. Inv => ProcessCallsClean
  <2>1. MapperOrder => PagesAsAsked
    BY DEF MapperOrder, InPatch, PagesAsAsked
  <2>2. IdOrder => IdsWhole
    BY DEF IdOrder, Whole, IdsWhole
  <2> QED
    BY <2>1, <2>2 DEF ProcessCallsClean
<1> QED
  BY <1>1, <1>2, <1>3, PTL DEF ProcessSpec

-----------------------------------------------------------------------------
(* Numbers.                                                                 *)

\* Every nonempty set of natural numbers has a least element.
LEMMA LeastNumber ==
  ASSUME NEW S \in SUBSET Nat, S # {}
  PROVE  \E m \in S : \A n \in S : m <= n
<1>1. PICK m \in S : \A n \in S : ~(<<n, m>> \in OpToRel(<, Nat))
  BY NatLessThanWellFounded, WFMin
<1>2. \A n \in S : <<n, m>> \in Nat \X Nat
  OBVIOUS
<1>3. \A n \in S : ~(n < m)
  BY <1>1, <1>2 DEF OpToRel
<1> QED BY <1>3

-----------------------------------------------------------------------------
(* ConsoleSettings.  The region a player is told.                          *)

\* Every nonempty set of bytes has a greatest element.
LEMMA GreatestByte ==
  ASSUME NEW S \in SUBSET (1 .. 255), S # {}
  PROVE  \E m \in S : \A n \in S : n <= m
<1> DEFINE D == {k \in Nat : \E n \in S : k = 255 - n}
<1>1. D \in SUBSET Nat /\ D # {}
  <2>1. PICK n \in S : TRUE
    OBVIOUS
  <2>2. 255 - n \in Nat
    OBVIOUS
  <2> QED BY <2>2
<1>2. PICK d \in D : \A e \in D : d <= e
  <2> HIDE DEF D
  <2> QED BY <1>1, LeastNumber
<1>3. PICK m \in S : d = 255 - m
  OBVIOUS
<1>4. ASSUME NEW n \in S PROVE n <= m
  <2>1. 255 - n \in D
    OBVIOUS
  <2>2. d <= 255 - n
    BY <1>2, <2>1
  <2> QED BY <1>3, <2>2
<1> QED BY <1>4

\* The last region of the map with the chosen video region, if the console's own has
\* another and there is one.
LEMMA FakeHas ==
  ASSUME NEW of, NEW chosen
  PROVE  LET answer == Fake(HomeRegion, of, chosen)
         IN  IF \E r \in PsRegion : of[r] = chosen
             THEN of[answer] = chosen /\ (of[HomeRegion] = chosen => answer = HomeRegion)
             ELSE answer = HomeRegion
<1> DEFINE withChosen == {r \in PsRegion \ {HomeRegion} : of[r] = chosen}
<1>1. PsRegion \subseteq 1 .. 255 /\ HomeRegion \in PsRegion
  BY SettingsAssumption
<1>2. CASE of[HomeRegion] = chosen \/ withChosen = {}
  <2>1. Fake(HomeRegion, of, chosen) = HomeRegion
    BY <1>2 DEF Fake
  <2> QED BY <1>1, <1>2, <2>1
<1>3. CASE ~(of[HomeRegion] = chosen \/ withChosen = {})
  <2>1. withChosen \in SUBSET (1 .. 255) /\ withChosen # {}
    BY <1>1, <1>3
  <2>2. \E r \in withChosen : \A q \in withChosen : q <= r
    <3> HIDE DEF withChosen
    <3> QED BY <2>1, GreatestByte
  <2>3. Fake(HomeRegion, of, chosen) = CHOOSE r \in withChosen : \A q \in withChosen : q <= r
    BY <1>3 DEF Fake
  <2>4. Fake(HomeRegion, of, chosen) \in withChosen
    <3> HIDE DEF withChosen
    <3> QED BY <2>2, <2>3
  <2> QED BY <1>3, <2>4
<1> QED BY <1>2, <1>3

\* For all maps of regions, the region a player is told plays what was chosen.
THEOREM RegionIsServed == SettingsSpec => []RegionServed
<1>1. SettingsInit => RegionServed
  BY DEF SettingsInit, RegionServed, NotAsked
<1>2. RegionServed /\ [SettingsNext]_settingsVars => RegionServed'
  <2> SUFFICES ASSUME RegionServed, [SettingsNext]_settingsVars PROVE RegionServed'
    OBVIOUS
  <2>1. CASE AskRegion
    <3>1. CASE reported' = [player |-> "dvd", chosen |-> dvd_video_region,
                            region |-> IF dvd_video_region # 0
                                       THEN Fake(HomeRegion, DvdRegionOf, dvd_video_region)
                                       ELSE HomeRegion]
      BY <3>1, FakeHas DEF RegionServed
    <3>2. CASE reported' = [player |-> "bd", chosen |-> bd_video_region,
                            region |-> IF bd_video_region # 0
                                       THEN Fake(HomeRegion, BdRegionOf, bd_video_region)
                                       ELSE HomeRegion]
      BY <3>2, FakeHas DEF RegionServed
    <3>3. CASE reported' = [player |-> "other", chosen |-> 0, region |-> HomeRegion]
      BY <3>3 DEF RegionServed
    <3> QED BY <2>1, <3>1, <3>2, <3>3 DEF AskRegion
  <2>2. CASE Restart
    BY <2>2 DEF Restart, RegionServed, NotAsked
  <2>3. CASE UNCHANGED reported
    BY <2>3 DEF RegionServed
  <2>4. WriteConfig \/ ReadConfig \/ RequestPower \/ HookPower \/ TellVsh \/ UnhookPower
          \/ UNCHANGED settingsVars => UNCHANGED reported
    BY DEF WriteConfig, ReadConfig, RequestPower, HookPower, TellVsh, UnhookPower, settingsVars
  <2> QED BY <2>1, <2>2, <2>3, <2>4 DEF SettingsNext
<1> QED BY <1>1, <1>2, PTL DEF SettingsSpec

-----------------------------------------------------------------------------
(* HenSession.  A default is only copied over a choice that was made       *)
(* meanwhile; what is cleared was there at the start, and is of the user   *)
(* the paths were made for.                                                *)

SessionAt == {"reload", "usb", "paths", "backup", "restore", "count", "look", "copy", "update",
              "clear", "exit", "reboot"}
Clearing == AtStep("clear") \/ AtStep("exit")
SessionType ==
  /\ flag \in [HenToggle -> SUBSET {"on", "off"}]
  /\ choice \in [HenToggle -> {"none", "on", "off"}]
  /\ step = [at |-> step.at, n |-> step.n] /\ step.at \in SessionAt
  /\ step.at \in {"paths", "look", "copy", "clear"} => step.n \in 1 .. 3
  /\ DOMAIN paths = WebFile /\ DOMAIN act = HenUser

\* The files of a toggle the user never chose are its default at most, and while a
\* default is on its way the opposite was not chosen, or is overtaken.
DefaultsOnly ==
  /\ \A t \in HenToggle : choice[t] = "none" => flag[t] \subseteq {DefaultChoice(t)}
  /\ AtStep("copy") =>
       LET t == ToggleOrder[step.n]
       IN  t \notin overtaken => Opposite(DefaultChoice(t)) \notin flag[t]

\* The paths are of one user, unless the user changed.
OneUser ==
  ~between =>
    /\ AtStep("restore") => paths["history"] = current
    /\ AtStep("paths") => \A i \in 1 .. 3 : i < step.n => paths[WebOrder[i]] = current
    /\ Clearing => \A f \in WebFile : paths[f] = paths["history"]

Kept(f) == \A u \in HenUser : <<u, f>> \in webAtStart => <<u, f>> \in web
\* What is done with a file is as the user chose.
FileCleared(f) ==
  f \notin touched \cup overtaken =>
    IF f # "community" /\ choice[f] = "off" THEN Kept(f) ELSE <<paths[f], f>> \notin web
WebInOrder ==
  /\ ~Clearing => web = webAtStart
  /\ Clearing => \A i \in 1 .. 3 : IF AtStep("exit") \/ i < step.n THEN FileCleared(WebOrder[i])
                                   ELSE Kept(WebOrder[i])
  /\ Clearing /\ ~between =>
       \A u \in HenUser \ {paths["history"]}, f \in WebFile : <<u, f>> \in webAtStart => <<u, f>> \in web

SessionInv == SessionType /\ ChoicesStand /\ DefaultsOnly /\ OneUser /\ WebInOrder /\ RestoredOwn

\* The names of the toggles and files, and the defaults.
LEMMA SessionNames ==
  /\ \A i \in 1 .. 3 : ToggleOrder[i] \in HenToggle /\ WebOrder[i] \in WebFile
  /\ \A f \in WebFile : \E i \in 1 .. 3 : f = WebOrder[i]
  /\ \A i, j \in 1 .. 3 : WebOrder[i] = WebOrder[j] => i = j
  /\ Len(ToggleOrder) = 3 /\ Len(WebOrder) = 3 /\ WebOrder[1] = "history" /\ "history" \in WebFile
  /\ \A f \in WebFile : f # "community" => f \in HenToggle /\ DefaultChoice(f) = "on"
  /\ \A t \in HenToggle : /\ DefaultChoice(t) \in {"on", "off"}
                          /\ Opposite(DefaultChoice(t)) \in {"on", "off"} \ {DefaultChoice(t)}
<1>1. HenToggle = {ToggleOrder[1], ToggleOrder[2], ToggleOrder[3]}
  BY DEF HenToggle, ToggleOrder
<1>2. WebFile = {WebOrder[1], WebOrder[2], WebOrder[3]}
  BY DEF WebFile, WebOrder
<1>3. ToggleOrder[1] = "hen_reload" /\ ToggleOrder[2] = "cookie" /\ ToggleOrder[3] = "history"
  BY DEF ToggleOrder
<1>4. WebOrder[1] = "history" /\ WebOrder[2] = "cookie" /\ WebOrder[3] = "community"
  BY DEF WebOrder
<1>5. Len(ToggleOrder) = 3 /\ Len(WebOrder) = 3
  BY DEF ToggleOrder, WebOrder
<1>6. \A i \in 1 .. 3 : ToggleOrder[i] \in HenToggle /\ WebOrder[i] \in WebFile
  BY <1>1, <1>2
<1>7. \A f \in WebFile : \E i \in 1 .. 3 : f = WebOrder[i]
  BY <1>2
<1>8. \A i, j \in 1 .. 3 : WebOrder[i] = WebOrder[j] => i = j
  BY <1>4
<1>9. \A f \in WebFile : f # "community" => f \in HenToggle /\ DefaultChoice(f) = "on"
  BY <1>1, <1>2, <1>3, <1>4 DEF DefaultChoice
<1>10. \A t \in HenToggle : /\ DefaultChoice(t) \in {"on", "off"}
                            /\ Opposite(DefaultChoice(t)) \in {"on", "off"} \ {DefaultChoice(t)}
  BY DEF DefaultChoice, Opposite
<1> QED BY <1>2, <1>4, <1>5, <1>6, <1>7, <1>8, <1>9, <1>10

\* A session as it begins.
LEMMA SessionAtInit == HenSessionInit => SessionInv
<1> SUFFICES ASSUME HenSessionInit PROVE SessionInv
  OBVIOUS
<1>1. choice \in [HenToggle -> {"none", "on", "off"}]
  BY HenSessionAssumption DEF HenSessionInit
<1>2. flag = [t \in HenToggle |-> {choice[t]} \ {"none"}]
  BY DEF HenSessionInit
<1>3. /\ step = [at |-> "reload", n |-> 0] /\ paths = [f \in WebFile |-> current]
      /\ act = [u \in HenUser |-> "none"] /\ webAtStart = web
  BY DEF HenSessionInit
<1>4. SessionType
  BY <1>1, <1>2, <1>3 DEF SessionType, SessionAt
<1>5. ChoicesStand /\ DefaultsOnly
  BY <1>1, <1>2, <1>3 DEF ChoicesStand, DefaultsOnly, AtStep
<1>6. OneUser /\ WebInOrder /\ RestoredOwn
  BY <1>3 DEF OneUser, WebInOrder, RestoredOwn, AtStep, Clearing
<1> QED BY <1>4, <1>5, <1>6 DEF SessionInv

\* The user changes, between two reads of the number or not.
LEMMA SwitchUserInv ==
  ASSUME SessionInv, SwitchUser
  PROVE  SessionInv'
<1>1. /\ between' = (between \/ AtStep("restore") \/ (AtStep("paths") /\ step.n > 1))
      /\ UNCHANGED <<filesVars, step, paths, message, toggleVars, webAtStart>>
  BY DEF SwitchUser
<1> USE DEF filesVars, toggleVars
<1>2. SessionType' /\ ChoicesStand' /\ DefaultsOnly' /\ WebInOrder' /\ RestoredOwn'
  BY <1>1 DEF SessionInv, SessionType, ChoicesStand, DefaultsOnly, WebInOrder, RestoredOwn, AtStep, Clearing,
     Kept, FileCleared
<1>3. ASSUME ~between' PROVE ~between /\ ~AtStep("restore") /\ ~(AtStep("paths") /\ step.n > 1)
  BY <1>1, <1>3
<1>4. AtStep("paths") => step.n \in 1 .. 3
  BY DEF SessionInv, SessionType, AtStep
<1>5. OneUser'
  BY <1>1, <1>3, <1>4 DEF SessionInv, OneUser, AtStep, Clearing
<1> QED BY <1>2, <1>5 DEF SessionInv

\* The user chooses: what was cleared before is excused, and so is a default on its way.
LEMMA ChooseToggleInv ==
  ASSUME SessionInv, ChooseToggle
  PROVE  SessionInv'
<1>1. PICK t \in HenToggle, c \in {"on", "off"} :
        /\ flag' = [flag EXCEPT ![t] = {c}] /\ choice' = [choice EXCEPT ![t] = c]
        /\ touched' = touched \cup {t}
        /\ overtaken' = IF AtStep("copy") /\ ToggleOrder[step.n] = t THEN overtaken \cup {t}
                        ELSE overtaken \ {t}
  BY DEF ChooseToggle
<1>2. UNCHANGED <<others, named, web, act, bak, current, step, paths, message, webAtStart, between>>
  BY DEF ChooseToggle
<1>3. SessionType'
  BY <1>1, <1>2 DEF SessionInv, SessionType
<1>4. ChoicesStand'
  BY <1>1 DEF SessionInv, SessionType, ChoicesStand
<1>5. DefaultsOnly'
  BY <1>1, <1>2, SessionNames DEF SessionInv, SessionType, DefaultsOnly, AtStep
<1>6. OneUser' /\ RestoredOwn'
  BY <1>2 DEF SessionInv, OneUser, RestoredOwn, AtStep, Clearing
<1>7. ASSUME NEW f \in WebFile, FileCleared(f) PROVE FileCleared(f)'
  BY <1>1, <1>2, <1>7, SessionNames DEF SessionInv, SessionType, FileCleared, Kept
<1>8. WebInOrder'
  BY <1>2, <1>7, SessionNames DEF SessionInv, WebInOrder, AtStep, Clearing, Kept
<1> QED BY <1>3, <1>4, <1>5, <1>6, <1>8 DEF SessionInv

\* The thread before it clears: nothing of the browser's is touched.
LEMMA BeforeClearingInv ==
  ASSUME SessionInv,
         ReloadXmb \/ LookForUsb \/ ReadBackupPath \/ RestoreAct \/ CountFiles \/ LookOpposite \/ AfterUpdate
  PROVE  SessionInv'
<1>1. /\ UNCHANGED <<flag, named, web, bak, message, toggleVars, webAtStart, between>>
      /\ ~Clearing /\ ~Clearing'
  BY DEF ReloadXmb, LookForUsb, ReadBackupPath, RestoreAct, CountFiles, LookOpposite, AfterUpdate, AtStep,
     GoStep, NextDefault, filesVars, Clearing
<1>2. SessionType'
  BY SessionNames DEF SessionInv, SessionType, SessionAt, ReloadXmb, LookForUsb, ReadBackupPath, RestoreAct,
     CountFiles, LookOpposite, AfterUpdate, AtStep, GoStep, NextDefault, filesVars, toggleVars
<1>3. ChoicesStand'
  BY <1>1 DEF SessionInv, ChoicesStand, toggleVars
<1>4. DefaultsOnly'
  <2>1. AtStep("copy")' => LookOpposite /\ step'.n = step.n
    BY DEF ReloadXmb, LookForUsb, ReadBackupPath, RestoreAct, CountFiles, LookOpposite, AfterUpdate, AtStep,
       GoStep, NextDefault
  <2>2. AtStep("copy")' => Opposite(DefaultChoice(ToggleOrder[step.n])) \notin flag[ToggleOrder[step.n]]
    BY <2>1 DEF LookOpposite, NextDefault, GoStep, AtStep
  <2> QED BY <1>1, <2>1, <2>2 DEF SessionInv, DefaultsOnly, toggleVars
<1>5. OneUser'
  <2>1. AtStep("restore")' => paths'["history"] = current'
    BY SessionNames DEF ReloadXmb, LookForUsb, ReadBackupPath, RestoreAct, CountFiles, LookOpposite,
       AfterUpdate, AtStep, GoStep, NextDefault, SessionInv, SessionType
  <2>2. AtStep("paths")' => step'.n = 1
    BY DEF ReloadXmb, LookForUsb, ReadBackupPath, RestoreAct, CountFiles, LookOpposite,
       AfterUpdate, AtStep, GoStep, NextDefault
  <2> QED BY <1>1, <2>1, <2>2 DEF OneUser
<1>6. WebInOrder'
  BY <1>1 DEF SessionInv, WebInOrder
<1>7. RestoredOwn'
  <2>1. CASE RestoreAct
    BY <1>1, <2>1 DEF RestoreAct, SessionInv, SessionType, RestoredOwn, OneUser, AtStep
  <2>2. CASE ~RestoreAct
    <3>1. act' = act
      BY <2>2 DEF ReloadXmb, LookForUsb, ReadBackupPath, CountFiles, LookOpposite, AfterUpdate, filesVars
    <3> QED BY <1>1, <3>1 DEF SessionInv, RestoredOwn
  <2> QED BY <2>1, <2>2
<1> QED BY <1>2, <1>3, <1>4, <1>5, <1>6, <1>7 DEF SessionInv

\* A default is copied, unless it is overtaken it is where nothing else was chosen.
LEMMA CopyDefaultInv ==
  ASSUME SessionInv, CopyDefault
  PROVE  SessionInv'
<1> DEFINE t == ToggleOrder[step.n]
<1>1. /\ AtStep("copy") /\ step' \in {[at |-> "look", n |-> step.n + 1], [at |-> "update", n |-> 0]}
      /\ step.n < Len(ToggleOrder) \/ step'.at = "update"
      /\ flag' \in {flag, [flag EXCEPT ![t] = @ \cup {DefaultChoice(t)}]}
      /\ UNCHANGED <<others, named, web, act, bak, current, paths, message, toggleVars, webAtStart, between>>
  BY DEF CopyDefault, NextDefault, GoStep
<1>2. step.n \in 1 .. 3 /\ t \in HenToggle /\ DefaultChoice(t) \in {"on", "off"}
  BY <1>1, SessionNames DEF SessionInv, SessionType, AtStep
<1>3. t \notin overtaken => Opposite(DefaultChoice(t)) \notin flag[t]
  BY <1>1 DEF SessionInv, DefaultsOnly
<1>4. ~Clearing /\ ~Clearing' /\ ~AtStep("copy")' /\ ~AtStep("restore")' /\ ~AtStep("paths")'
  BY <1>1 DEF AtStep, Clearing
<1>5. SessionType'
  <2>1. flag' \in [HenToggle -> SUBSET {"on", "off"}]
    <3> HIDE DEF t
    <3> QED BY <1>1, <1>2 DEF SessionInv, SessionType
  <2>2. step' = [at |-> step'.at, n |-> step'.n] /\ step'.at \in {"look", "update"}
    BY <1>1
  <2>3. step'.at = "look" => step'.n \in 1 .. 3
    BY <1>1, <1>2, SessionNames
  <2> QED BY <1>1, <2>1, <2>2, <2>3 DEF SessionInv, SessionType, SessionAt, toggleVars
<1> HIDE DEF t
<1>6. ChoicesStand'
  <2> SUFFICES ASSUME NEW u \in HenToggle \ overtaken, choice[u] # "none"
               PROVE  flag'[u] = {choice[u]}
    BY <1>1 DEF ChoicesStand, toggleVars
  <2>1. flag[u] = {choice[u]}
    BY DEF SessionInv, ChoicesStand
  <2>2. CASE u = t
    <3>1. choice[t] = DefaultChoice(t)
      BY <1>2, <1>3, <2>1, <2>2, SessionNames DEF SessionInv, SessionType
    <3> QED BY <1>1, <1>2, <2>1, <2>2, <3>1 DEF SessionInv, SessionType
  <2>3. CASE u # t
    BY <1>1, <2>1, <2>3 DEF SessionInv, SessionType
  <2> QED BY <2>2, <2>3
<1>7. DefaultsOnly'
  BY <1>1, <1>2, <1>4 DEF SessionInv, SessionType, DefaultsOnly, toggleVars
<1>8. OneUser' /\ WebInOrder' /\ RestoredOwn'
  BY <1>1, <1>4 DEF SessionInv, OneUser, WebInOrder, RestoredOwn
<1> QED BY <1>5, <1>6, <1>7, <1>8 DEF SessionInv

\* The paths, one by one.
LEMMA MakePathInv ==
  ASSUME SessionInv, MakePath
  PROVE  SessionInv'
<1>1. /\ AtStep("paths") /\ paths' = [paths EXCEPT ![WebOrder[step.n]] = current]
      /\ step' = IF step.n < 3 THEN [at |-> "paths", n |-> step.n + 1] ELSE [at |-> "clear", n |-> 1]
      /\ UNCHANGED <<filesVars, current, message, toggleVars, webAtStart, between>>
  BY SessionNames DEF MakePath, GoStep
<1>2. step.n \in 1 .. 3 /\ ~Clearing /\ web = webAtStart
  BY <1>1 DEF SessionInv, SessionType, AtStep, WebInOrder, Clearing
<1>3. SessionType'
  BY <1>1, <1>2 DEF SessionInv, SessionType, SessionAt, filesVars, toggleVars
<1>4. ChoicesStand' /\ DefaultsOnly' /\ RestoredOwn'
  BY <1>1, <1>2 DEF SessionInv, ChoicesStand, DefaultsOnly, RestoredOwn, AtStep, filesVars, toggleVars
<1>5. ~between => \A i \in 1 .. 3 : i < step.n + 1 => paths'[WebOrder[i]] = current
  BY <1>1, <1>2, SessionNames DEF SessionInv, SessionType, OneUser
<1>6. OneUser'
  <2>1. ASSUME ~between, Clearing', NEW f \in WebFile PROVE paths'[f] = paths'["history"]
    <3>1. step.n = 3
      BY <1>1, <1>2, <2>1 DEF Clearing, AtStep
    <3>2. PICK i \in 1 .. 3 : f = WebOrder[i]
      BY SessionNames
    <3> QED BY <1>5, <2>1, <3>1, <3>2, SessionNames
  <2>2. ASSUME ~between, AtStep("paths")', NEW i \in 1 .. 3, i < step'.n
        PROVE  paths'[WebOrder[i]] = current'
    BY <1>1, <1>2, <1>5, <2>2 DEF AtStep
  <2>3. ~AtStep("restore")'
    BY <1>1 DEF AtStep
  <2> QED BY <1>1, <2>1, <2>2, <2>3 DEF OneUser
<1>7. WebInOrder'
  <2>1. web' = webAtStart' /\ ~AtStep("exit")'
    BY <1>1, <1>2 DEF filesVars, AtStep
  <2>2. Clearing' => step'.n = 1
    BY <1>1, <1>2 DEF Clearing, AtStep
  <2> QED BY <2>1, <2>2 DEF WebInOrder, Kept
<1> QED BY <1>3, <1>4, <1>6, <1>7 DEF SessionInv

\* One file is cleared, or left as its toggle says.
LEMMA ClearFileInv ==
  ASSUME SessionInv, ClearFile
  PROVE  SessionInv'
<1>0. step.n \in 1 .. 3 /\ WebOrder[step.n] \in WebFile
  BY SessionNames DEF SessionInv, SessionType, AtStep, ClearFile
<1>10. PICK f \in WebFile : f = WebOrder[step.n]
  BY <1>0
<1> DEFINE off == f # "community" /\ "off" \in flag[f]
<1>1. /\ AtStep("clear") /\ web' = IF off THEN web ELSE web \ {<<paths[f], f>>}
      /\ step' = IF step.n < 3 THEN [at |-> "clear", n |-> step.n + 1] ELSE [at |-> "exit", n |-> 0]
      /\ UNCHANGED <<flag, others, named, act, bak, current, paths, toggleVars, webAtStart, between>>
  BY <1>10, SessionNames DEF ClearFile, GoStep
<1>2. step.n \in 1 .. 3 /\ f \in WebFile /\ f = WebOrder[step.n] /\ Clearing
  BY <1>0, <1>1, <1>10 DEF Clearing
<1>3. SessionType'
  BY <1>1, <1>2 DEF SessionInv, SessionType, SessionAt, toggleVars
<1>4. ChoicesStand' /\ DefaultsOnly' /\ RestoredOwn'
  BY <1>1, <1>2 DEF SessionInv, ChoicesStand, DefaultsOnly, RestoredOwn, AtStep, toggleVars
<1>5. OneUser'
  BY <1>1, <1>2 DEF SessionInv, OneUser, AtStep, Clearing
<1>6. FileCleared(f)'
  <2> SUFFICES ASSUME f \notin touched \cup overtaken
               PROVE  IF f # "community" /\ choice[f] = "off" THEN Kept(f)' ELSE <<paths[f], f>> \notin web'
    BY <1>1 DEF FileCleared, toggleVars
  <2>1. CASE f # "community" /\ choice[f] = "off"
    <3>1. flag[f] = {"off"}
      BY <2>1, <1>2, SessionNames DEF SessionInv, ChoicesStand
    <3>2. Kept(f)
      BY <1>1, <1>2 DEF SessionInv, WebInOrder, AtStep
    <3> QED BY <1>1, <2>1, <3>1, <3>2 DEF Kept
  <2>2. CASE ~(f # "community" /\ choice[f] = "off")
    <3>1. ~off
      <4>1. CASE f # "community"
        <5>1. f \in HenToggle /\ DefaultChoice(f) = "on" /\ choice[f] \in {"none", "on"}
          BY <1>2, <2>2, <4>1, SessionNames DEF SessionInv, SessionType
        <5>2. choice[f] = "none" => flag[f] \subseteq {"on"}
          BY <5>1 DEF SessionInv, DefaultsOnly
        <5>3. choice[f] = "on" => flag[f] = {"on"}
          BY <5>1 DEF SessionInv, ChoicesStand
        <5> QED BY <5>1, <5>2, <5>3
      <4> QED BY <4>1
    <3> QED BY <1>1, <2>2, <3>1
  <2> QED BY <2>1, <2>2
<1>7. ASSUME NEW i \in 1 .. 3, i # step.n
      PROVE  /\ FileCleared(WebOrder[i]) => FileCleared(WebOrder[i])'
             /\ Kept(WebOrder[i]) => Kept(WebOrder[i])'
  <2>1. WebOrder[i] # f
    BY <1>2, <1>7, SessionNames
  <2>2. \A u : <<u, WebOrder[i]>> \in web <=> <<u, WebOrder[i]>> \in web'
    BY <1>1, <2>1
  <2> HIDE DEF off
  <2> QED BY <1>1, <2>2 DEF FileCleared, Kept, toggleVars
<1>8. WebInOrder'
  <2>1. ASSUME NEW i \in 1 .. 3
        PROVE  IF AtStep("exit")' \/ i < step'.n THEN FileCleared(WebOrder[i])' ELSE Kept(WebOrder[i])'
    <3>1. AtStep("exit")' \/ i < step'.n <=> i <= step.n
      BY <1>1, <1>2 DEF AtStep
    <3>2. IF i < step.n THEN FileCleared(WebOrder[i]) ELSE Kept(WebOrder[i])
      BY <1>1, <1>2 DEF SessionInv, WebInOrder, AtStep
    <3> HIDE DEF off
    <3> QED BY <1>2, <1>6, <1>7, <3>1, <3>2
  <2>2. Clearing'
    BY <1>1 DEF AtStep, Clearing
  <2>3. ASSUME ~between, NEW u \in HenUser \ {paths["history"]}, NEW g \in WebFile, <<u, g>> \in webAtStart
        PROVE  <<u, g>> \in web'
    <3>1. paths[f] = paths["history"] /\ <<u, g>> \in web
      BY <1>2, <2>3 DEF SessionInv, OneUser, WebInOrder
    <3> QED BY <1>1, <2>3, <3>1
  <2> QED BY <1>1, <2>1, <2>2, <2>3 DEF WebInOrder
<1> QED BY <1>3, <1>4, <1>5, <1>8 DEF SessionInv

\* The next boot.
LEMMA NextSessionInv ==
  ASSUME SessionInv, NextSession
  PROVE  SessionInv'
<1>1. /\ step' = [at |-> "reload", n |-> 0] /\ webAtStart' = web' /\ act' = [u \in HenUser |-> "none"]
      /\ paths' = [f \in WebFile |-> current] /\ UNCHANGED <<flag, choice, overtaken>>
  BY DEF NextSession, GoStep
<1>2. SessionType' /\ ChoicesStand'
  BY <1>1 DEF SessionInv, SessionType, SessionAt, ChoicesStand
<1>3. DefaultsOnly' /\ OneUser' /\ WebInOrder' /\ RestoredOwn'
  BY <1>1 DEF SessionInv, DefaultsOnly, OneUser, WebInOrder, RestoredOwn, AtStep, Clearing
<1> QED BY <1>2, <1>3 DEF SessionInv

\* For all users, choices and files: no choice is undone by a default, what is cleared
\* is what the user did not keep, and act.dat is of its user.
THEOREM SessionStands == HenSessionSpec => []SessionAgrees
<1>1. SessionInv /\ [HenSessionNext]_henSessionVars => SessionInv'
  <2> SUFFICES ASSUME SessionInv, [HenSessionNext]_henSessionVars PROVE SessionInv'
    OBVIOUS
  <2>1. CASE UNCHANGED henSessionVars
    BY <2>1 DEF henSessionVars, filesVars, toggleVars, SessionInv, SessionType, ChoicesStand, DefaultsOnly,
       OneUser, WebInOrder, RestoredOwn, AtStep, Clearing, Kept, FileCleared
  <2> QED BY <2>1, SwitchUserInv, ChooseToggleInv, BeforeClearingInv, CopyDefaultInv, MakePathInv,
             ClearFileInv, NextSessionInv DEF HenSessionNext
<1>2. SessionInv => SessionAgrees
  <2> SUFFICES ASSUME SessionInv PROVE ClearedAsChosen
    BY DEF SessionInv, SessionAgrees
  <2> SUFFICES ASSUME AtStep("exit") PROVE ClearedAsChosen
    BY DEF ClearedAsChosen
  <2>1. ASSUME NEW f \in WebFile PROVE FileCleared(f)
    <3>1. PICK i \in 1 .. 3 : f = WebOrder[i]
      BY SessionNames
    <3>2. \A j \in 1 .. 3 : FileCleared(WebOrder[j])
      BY DEF SessionInv, WebInOrder, Clearing
    <3> QED BY <3>1, <3>2
  <2> QED BY <2>1 DEF SessionInv, WebInOrder, Clearing, ClearedAsChosen, FileCleared, Kept
<1> QED BY <1>1, <1>2, SessionAtInit, PTL DEF HenSessionSpec

-----------------------------------------------------------------------------
(* ModuleDecrypt.  What the static variables hold is of the only load, but *)
(* for what a section that was given up left; the first section that ends  *)
(* clears that.                                                            *)

\* Where the next chunk of a load is copied.
ChunkPlace(l) ==
  <<l.mod, IF ModuleKind[l.mod] = "native" THEN 0
           ELSE SectionStart(l.mod, l.sec)[2] + l.chunk>>
LoadShape(l) ==
  /\ l = [mod |-> l.mod, sec |-> l.sec, chunk |-> l.chunk]
  /\ l.mod \in Mod \cup {NoMod} /\ l.sec \in 1 .. 3 /\ l.chunk \in Nat
  /\ l.mod # NoMod /\ l.sec \in DOMAIN Shape[l.mod] => l.chunk < Shape[l.mod][l.sec]
  /\ l.mod # NoMod /\ l.sec \notin DOMAIN Shape[l.mod] => l.chunk = 0

DecryptType ==
  /\ total \in Nat /\ keys = [of |-> keys.of, block |-> keys.block] /\ keys.block \in Nat
  /\ saved_buf = <<saved_buf[1], saved_buf[2]>> /\ saved_buf[2] \in Nat
  /\ DOMAIN dpc = Loader /\ \A t \in Loader : LoadShape(dpc[t])
  /\ spoiled \in {"no", "section", "load"}

\* While loads do not overlap, the place is the one of the only load.
LoadAlone ==
  spoiled # "load" =>
    /\ \A t, u \in InLoad : t = u
    /\ \A t \in InLoad :
         /\ saved_hdr = dpc[t].mod
         /\ dpc[t].sec \in DOMAIN Shape[dpc[t].mod] => saved_buf = ChunkPlace(dpc[t])

\* With nothing left behind, so are the counter, the start and the keys.
NothingLeft ==
  spoiled = "no" =>
    /\ InLoad = {} => total = 0
    /\ \A t \in InLoad :
         LET l == dpc[t] IN
         /\ total = l.chunk
         /\ total > 0 => /\ buf = SectionStart(l.mod, l.sec)
                         /\ ModuleKind[l.mod] = "cobra" => keys = [of |-> l.mod, block |-> l.chunk]

DecryptInv == DecryptType /\ LoadAlone /\ NothingLeft /\ DecryptedOwn /\ PatchedOwn

\* The sections of a module.
LEMMA Sections ==
  ASSUME NEW m \in Mod
  PROVE  /\ DOMAIN Shape[m] = 1 .. Len(Shape[m]) /\ Len(Shape[m]) \in 1 .. 2
         /\ \A s \in DOMAIN Shape[m] : Shape[m][s] \in Nat \ {0}
         /\ ModuleKind[m] \in {"cobra", "bare", "native"} /\ m # NoMod
BY DecryptAssumption

\* By its start and its size a section is found in the table.
LEMMA EntryFound ==
  ASSUME NEW m \in Mod, NEW s \in DOMAIN Shape[m]
  PROVE  FoundEntry(SectionStart(m, s), Shape[m][s]) = Entry[m][s]
<1> DEFINE here == {x \in Mod \X (1 .. 2) :
                      /\ x[2] \in DOMAIN Shape[x[1]]
                      /\ SectionStart(x[1], x[2]) = SectionStart(m, s) /\ Shape[x[1]][x[2]] = Shape[m][s]}
<1>1. s \in 1 .. 2 /\ DOMAIN Shape[m] = 1 .. Len(Shape[m]) /\ Len(Shape[m]) \in 1 .. 2
  BY Sections
<1>2. <<m, s>> \in here
  BY <1>1
<1>3. ASSUME NEW x \in here PROVE Entry[x[1]][x[2]] = Entry[m][s]
  <2>1. x[1] = m /\ x[2] \in DOMAIN Shape[m] /\ x[2] \in 1 .. 2 /\ Shape[m][x[2]] = Shape[m][s]
    BY DEF SectionStart
  <2>2. SectionStart(m, x[2]) = SectionStart(m, s)
    BY <2>1
  <2>3. CASE x[2] = s
    BY <2>1, <2>3
  <2>4. CASE x[2] # s
    <3>1. Len(Shape[m]) = 2 /\ Shape[m][1] = Shape[m][2] /\ Shape[m][1] \in Nat \ {0}
      BY <1>1, <2>1, <2>4, Sections
    <3>2. ModuleKind[m] = "native"
      BY <1>1, <2>1, <2>2, <2>4, <3>1 DEF SectionStart
    <3>3. Entry[m][1] = Entry[m][2]
      BY <3>1, <3>2, DecryptAssumption
    <3> QED BY <1>1, <2>1, <2>4, <3>3
  <2> QED BY <2>3, <2>4
<1>4. FoundEntry(SectionStart(m, s), Shape[m][s])
        = IF here = {} THEN 0 ELSE LET x == CHOOSE x \in here : TRUE IN Entry[x[1]][x[2]]
  BY DEF FoundEntry
<1> HIDE DEF here
<1> QED BY <1>2, <1>3, <1>4

\* The patches of an entry, or of the one behind that for audio.
LEMMA AppliedOfEntry ==
  ASSUME NEW e \in {0} \cup DOMAIN PatchTable
  PROVE  IF e = AudioEntry /\ e # 0 /\ audio_off
         THEN Applied(e) \subseteq PatchList(e + 1)
         ELSE /\ Applied(e) \subseteq PatchList(e)
              /\ \A p \in PatchList(e) : p[2] = "always" => p \in Applied(e)
<1>1. CASE e = 0
  BY <1>1 DEF Applied, PatchList
<1>2. CASE e # 0 /\ ~(e = AudioEntry /\ audio_off)
  <2>1. DOMAIN PatchTable[e] = 1 .. Len(PatchTable[e])
    BY <1>2, DecryptAssumption
  <2>2. PatchesOf(e) = {PatchTable[e][i] : i \in 1 .. Len(PatchTable[e])}
    BY <1>2 DEF PatchesOf
  <2>3. PatchesOf(e) = PatchList(e)
    BY <1>2, <2>1, <2>2 DEF PatchList
  <2>4. Applied(e) = {p \in PatchList(e) : p[2] = "always" \/ p[2] \in conditions}
    BY <1>2, <2>3 DEF Applied
  <2> QED BY <1>2, <2>4
<1>3. CASE e # 0 /\ e = AudioEntry /\ audio_off
  <2>1. e + 1 \in DOMAIN PatchTable /\ e + 1 # 0
    BY <1>3, DecryptAssumption
  <2>2. DOMAIN PatchTable[e + 1] = 1 .. Len(PatchTable[e + 1])
    BY <2>1, DecryptAssumption
  <2>3. PatchesOf(e) = {PatchTable[e + 1][i] : i \in 2 .. Len(PatchTable[e + 1])}
    BY <1>3 DEF PatchesOf
  <2>4. PatchesOf(e) \subseteq PatchList(e + 1)
    BY <2>1, <2>2, <2>3 DEF PatchList
  <2>5. Applied(e) \subseteq PatchesOf(e)
    BY <1>3 DEF Applied
  <2> QED BY <1>3, <2>4, <2>5
<1> QED BY <1>1, <1>2, <1>3

\* At first nothing is loaded.
LEMMA DecryptAtInit == DecryptInit => DecryptInv
<1> SUFFICES ASSUME DecryptInit PROVE DecryptInv
  OBVIOUS
<1>1. /\ total = 0 /\ keys = [of |-> NoMod, block |-> 0] /\ saved_buf = <<NoMod, 0>>
      /\ dpc = [t \in Loader |-> NoLoad] /\ chunked = NoChunk /\ patched = NoPatches /\ spoiled = "no"
  BY DEF DecryptInit
<1>2. DecryptType
  BY <1>1 DEF DecryptType, LoadShape, NoLoad
<1>3. InLoad = {}
  BY <1>1 DEF InLoad, NoLoad
<1>4. LoadAlone /\ NothingLeft
  BY <1>1, <1>3 DEF LoadAlone, NothingLeft
<1>5. DecryptedOwn /\ PatchedOwn
  BY <1>1 DEF DecryptedOwn, PatchedOwn, NoChunk, NoPatches
<1> QED BY <1>2, <1>4, <1>5 DEF DecryptInv

\* A load begins.
LEMMA BeginLoadInv ==
  ASSUME DecryptInv, NEW t \in Loader, BeginLoad(t)
  PROVE  DecryptInv'
<1>1. PICK m \in Mod : /\ dpc' = [dpc EXCEPT ![t] = [NoLoad EXCEPT !.mod = m]]
                       /\ saved_buf' = <<m, 0>> /\ saved_hdr' = m
  BY DEF BeginLoad
<1>2. /\ dpc[t].mod = NoMod /\ spoiled' = IF InLoad # {} THEN "load" ELSE spoiled
      /\ UNCHANGED <<total, buf, keys, chunked, patched>>
  BY DEF BeginLoad
<1>3. dpc'[t] = [mod |-> m, sec |-> 1, chunk |-> 0] /\ \A u \in Loader : u # t => dpc'[u] = dpc[u]
  BY <1>1 DEF DecryptInv, DecryptType, NoLoad
<1>4. DecryptType'
  <2>1. ASSUME NEW u \in Loader PROVE LoadShape(dpc'[u])
    BY <1>3, Sections DEF DecryptInv, DecryptType, LoadShape
  <2>2. DOMAIN dpc' = Loader
    BY <1>1 DEF DecryptInv, DecryptType
  <2> QED BY <1>1, <1>2, <2>1, <2>2 DEF DecryptInv, DecryptType
<1>5. ASSUME spoiled' # "load"
      PROVE  InLoad = {} /\ InLoad' = {t} /\ spoiled' = spoiled
  <2>1. InLoad = {} /\ spoiled' = spoiled
    BY <1>2, <1>5
  <2>2. InLoad' = {t}
    BY <1>3, <2>1, Sections DEF InLoad
  <2> QED BY <2>1, <2>2
<1>6. LoadAlone'
  BY <1>1, <1>3, <1>5 DEF LoadAlone, ChunkPlace, SectionStart
<1>7. NothingLeft'
  BY <1>2, <1>3, <1>5 DEF DecryptInv, NothingLeft
<1>8. DecryptedOwn' /\ PatchedOwn'
  BY <1>2 DEF DecryptInv, DecryptedOwn, PatchedOwn
<1> QED BY <1>4, <1>6, <1>7, <1>8 DEF DecryptInv

\* A load ends, or is given up.
LEMMA EndLoadInv ==
  ASSUME DecryptInv, NEW t \in Loader, EndLoad(t)
  PROVE  DecryptInv'
<1>1. /\ dpc[t].mod # NoMod /\ dpc' = [dpc EXCEPT ![t] = NoLoad]
      /\ spoiled' = IF InLoad # {t} THEN "load" ELSE IF total # 0 THEN "section" ELSE "no"
      /\ chunked' = NoChunk /\ patched' = NoPatches
      /\ UNCHANGED <<total, buf, keys, saved_buf, saved_hdr, conditions>>
  BY DEF EndLoad
<1>2. dpc'[t] = NoLoad /\ \A u \in Loader : u # t => dpc'[u] = dpc[u]
  BY <1>1 DEF DecryptInv, DecryptType
<1>3. DecryptType'
  <2>1. ASSUME NEW u \in Loader PROVE LoadShape(dpc'[u])
    BY <1>2 DEF DecryptInv, DecryptType, LoadShape, NoLoad
  <2> QED BY <1>1, <2>1 DEF DecryptInv, DecryptType
<1>4. spoiled' # "load" => InLoad' = {}
  BY <1>1, <1>2 DEF InLoad, NoLoad
<1>5. LoadAlone'
  BY <1>4 DEF LoadAlone
<1>6. NothingLeft'
  BY <1>1, <1>4 DEF NothingLeft
<1>7. DecryptedOwn' /\ PatchedOwn'
  BY <1>1 DEF DecryptedOwn, PatchedOwn, NoChunk, NoPatches
<1> QED BY <1>3, <1>5, <1>6, <1>7 DEF DecryptInv

\* One chunk of the only load, of what begins a section or of what follows.
LEMMA ChunkInv ==
  ASSUME DecryptInv, NEW t \in Loader, Chunk(t)
  PROVE  DecryptInv'
<1>0. PICK l : l = dpc[t]
  OBVIOUS
<1> DEFINE copied == ModuleKind[l.mod] # "native"
           mine == KeysNow
           decrypted == ModuleKind[saved_hdr] = "cobra" /\ copied
           start == IF total = 0 \/ ~copied THEN saved_buf ELSE buf
<1>1. /\ l.mod # NoMod /\ l.sec \in DOMAIN Shape[l.mod]
      /\ keys' = IF ~decrypted THEN keys
                 ELSE IF IsLast(l) THEN [of |-> NoMod, block |-> 0]
                      ELSE [mine EXCEPT !.block = @ + 1]
      /\ chunked' = IF spoiled # "no" THEN NoChunk
                    ELSE [of |-> [l EXCEPT !.chunk = @ + 1],
                          key |-> IF decrypted THEN mine.of ELSE NoMod,
                          block |-> IF decrypted THEN mine.block ELSE 0,
                          at |-> saved_buf, sure |-> TRUE]
      /\ buf' = start
      /\ saved_buf' = IF copied THEN [saved_buf EXCEPT ![2] = @ + 1] ELSE saved_buf
      /\ UNCHANGED <<saved_hdr, conditions>>
  BY <1>0 DEF Chunk
<1>2. IsLast(l) => /\ total' = 0
                   /\ patched' = IF spoiled # "no" THEN NoPatches
                                 ELSE [of |-> l, from |-> start, size |-> total + 1,
                                       applied |-> Applied(FoundEntry(start, total + 1)),
                                       no_audio |-> audio_off, sure |-> TRUE]
                   /\ dpc' = [dpc EXCEPT ![t] = [l EXCEPT !.sec = @ + 1, !.chunk = 0]]
                   /\ spoiled' = IF spoiled = "section" THEN "no" ELSE spoiled
  BY <1>0 DEF Chunk
<1>3. ~IsLast(l) => /\ total' = total + 1
                    /\ dpc' = [dpc EXCEPT ![t].chunk = @ + 1]
                    /\ UNCHANGED <<patched, spoiled>>
  BY <1>0 DEF Chunk
<1> HIDE DEF mine, decrypted, copied, start
<1>4. /\ LoadShape(l) /\ l.mod \in Mod /\ l.chunk \in Nat /\ l.sec \in 1 .. 2 /\ t \in InLoad
      /\ total \in Nat /\ l.chunk < Shape[l.mod][l.sec] /\ Shape[l.mod][l.sec] \in Nat \ {0}
  BY <1>0, <1>1, Sections DEF DecryptInv, DecryptType, LoadShape, InLoad
<1>5. dpc'[t] = IF IsLast(l) THEN [mod |-> l.mod, sec |-> l.sec + 1, chunk |-> 0]
                ELSE [mod |-> l.mod, sec |-> l.sec, chunk |-> l.chunk + 1]
  <2>1. l = [mod |-> l.mod, sec |-> l.sec, chunk |-> l.chunk]
    BY <1>4 DEF LoadShape
  <2> QED BY <1>0, <1>2, <1>3, <2>1 DEF DecryptInv, DecryptType
<1>6. DOMAIN dpc' = Loader /\ \A u \in Loader : u # t => dpc'[u] = dpc[u]
  BY <1>2, <1>3 DEF DecryptInv, DecryptType
<1>7. InLoad' = InLoad
  BY <1>0, <1>5, <1>6 DEF InLoad
<1>8. DecryptType'
  <2>1. ASSUME NEW u \in Loader PROVE LoadShape(dpc'[u])
    <3>1. CASE u = t
      <4>1. CASE IsLast(l)
        <5>1. l.sec + 1 \in DOMAIN Shape[l.mod] => 0 < Shape[l.mod][l.sec + 1]
          BY <1>4, Sections
        <5> QED BY <1>4, <1>5, <3>1, <4>1, <5>1 DEF LoadShape
      <4>2. CASE ~IsLast(l)
        <5>1. l.chunk + 1 < Shape[l.mod][l.sec]
          BY <1>4, <4>2 DEF IsLast
        <5> QED BY <1>1, <1>4, <1>5, <3>1, <4>2, <5>1 DEF LoadShape
      <4> QED BY <4>1, <4>2
    <3>2. CASE u # t
      BY <1>6, <3>2 DEF DecryptInv, DecryptType
    <3> QED BY <3>1, <3>2
  <2>2. keys' = [of |-> keys'.of, block |-> keys'.block] /\ keys'.block \in Nat
    <3>1. mine = [of |-> mine.of, block |-> mine.block] /\ mine.block \in Nat
      BY DEF mine, KeysNow, DecryptInv, DecryptType
    <3> QED BY <1>1, <3>1 DEF DecryptInv, DecryptType
  <2>3. saved_buf' = <<saved_buf'[1], saved_buf'[2]>> /\ saved_buf'[2] \in Nat
    BY <1>1 DEF DecryptInv, DecryptType
  <2>4. total' \in Nat /\ spoiled' \in {"no", "section", "load"}
    BY <1>2, <1>3, <1>4 DEF DecryptInv, DecryptType
  <2> QED BY <1>6, <2>1, <2>2, <2>3, <2>4 DEF DecryptType
<1>9. ASSUME spoiled # "load"
      PROVE  InLoad = {t} /\ saved_hdr = l.mod /\ saved_buf = ChunkPlace(l)
  BY <1>0, <1>1, <1>4, <1>9 DEF DecryptInv, LoadAlone
<1>10. spoiled' # "load" => spoiled # "load"
  BY <1>2, <1>3
<1>11. LoadAlone'
  <2> SUFFICES ASSUME spoiled # "load"
               PROVE  /\ saved_hdr' = dpc'[t].mod
                      /\ dpc'[t].sec \in DOMAIN Shape[dpc'[t].mod] => saved_buf' = ChunkPlace(dpc'[t])
    BY <1>7, <1>9, <1>10 DEF LoadAlone
  <2>1. saved_hdr' = dpc'[t].mod
    BY <1>1, <1>5, <1>9
  <2>2. CASE ~copied
    BY <1>1, <1>5, <1>9, <2>2 DEF copied, ChunkPlace
  <2>3. CASE copied
    <3>1. SectionStart(l.mod, l.sec) = <<l.mod, IF l.sec = 1 THEN 0 ELSE Shape[l.mod][1]>>
      BY <2>3 DEF SectionStart, copied
    <3>0. SectionStart(l.mod, l.sec)[2] \in Nat
      BY <1>4, <3>1, Sections
    <3>2. saved_buf' = <<l.mod, SectionStart(l.mod, l.sec)[2] + (l.chunk + 1)>>
      BY <1>1, <1>4, <1>9, <2>3, <3>0 DEF copied, ChunkPlace
    <3>3. CASE ~IsLast(l)
      BY <1>5, <2>1, <2>3, <3>2, <3>3 DEF copied, ChunkPlace
    <3>4. CASE IsLast(l) /\ l.sec + 1 \in DOMAIN Shape[l.mod]
      <4>1. l.sec = 1 /\ l.chunk + 1 = Shape[l.mod][1] /\ Shape[l.mod][1] \in Nat
        BY <1>4, <3>4, Sections DEF IsLast
      <4>2. SectionStart(l.mod, 2) = <<l.mod, Shape[l.mod][1]>>
        BY <2>3 DEF SectionStart, copied
      <4>3. saved_buf' = <<l.mod, Shape[l.mod][1]>>
        BY <3>1, <3>2, <4>1
      <4>4. dpc'[t] = [mod |-> l.mod, sec |-> 2, chunk |-> 0]
        BY <1>5, <3>4, <4>1
      <4> QED BY <2>1, <2>3, <4>1, <4>2, <4>3, <4>4 DEF copied, ChunkPlace
    <3> QED BY <1>5, <2>1, <3>3, <3>4
  <2> QED BY <2>1, <2>2, <2>3
\* What is known when nothing was left behind.
<1>12. ASSUME spoiled = "no"
       PROVE  /\ total = l.chunk /\ start = SectionStart(l.mod, l.sec)
              /\ ModuleKind[l.mod] = "cobra" => mine = [of |-> l.mod, block |-> l.chunk]
              /\ decrypted <=> ModuleKind[l.mod] = "cobra"
  <2>1. /\ total = l.chunk
        /\ total > 0 => /\ buf = SectionStart(l.mod, l.sec)
                        /\ ModuleKind[l.mod] = "cobra" => keys = [of |-> l.mod, block |-> l.chunk]
    BY <1>0, <1>4, <1>12 DEF DecryptInv, NothingLeft
  <2>2. saved_hdr = l.mod /\ saved_buf = ChunkPlace(l)
    BY <1>9, <1>12
  <2>3. decrypted <=> ModuleKind[l.mod] = "cobra"
    BY <2>2 DEF decrypted, copied
  <2>4. ModuleKind[l.mod] = "cobra" => mine = [of |-> l.mod, block |-> l.chunk]
    BY <1>4, <2>1, <2>2 DEF mine, KeysNow
  <2>5. start = SectionStart(l.mod, l.sec)
    <3>1. CASE ~copied
      BY <2>2, <3>1 DEF start, copied, ChunkPlace, SectionStart
    <3>2. CASE copied /\ total = 0
      <4>1. SectionStart(l.mod, l.sec) = <<l.mod, IF l.sec = 1 THEN 0 ELSE Shape[l.mod][1]>>
        BY <3>2 DEF SectionStart, copied
      <4>2. SectionStart(l.mod, l.sec)[2] \in Nat
        BY <1>4, <4>1, Sections
      <4> QED BY <2>1, <2>2, <3>2, <4>1, <4>2 DEF start, copied, ChunkPlace
    <3>3. CASE copied /\ total # 0
      BY <1>4, <2>1, <3>3 DEF start
    <3> QED BY <3>1, <3>2, <3>3
  <2> QED BY <2>1, <2>3, <2>4, <2>5
<1>13. NothingLeft'
  <2> SUFFICES ASSUME spoiled' = "no"
               PROVE  /\ total' = dpc'[t].chunk
                      /\ total' > 0 =>
                           /\ buf' = SectionStart(l.mod, l.sec) /\ dpc'[t].sec = l.sec
                           /\ ModuleKind[l.mod] = "cobra" => keys' = [of |-> l.mod, block |-> dpc'[t].chunk]
    <3>1. dpc'[t].mod = l.mod
      BY <1>5
    <3>2. spoiled' = "no" => InLoad' = {t}
      BY <1>7, <1>9, <1>10
    <3> QED BY <3>1, <3>2 DEF NothingLeft
  <2>1. CASE IsLast(l)
    BY <1>2, <1>5, <2>1
  <2>2. CASE ~IsLast(l)
    <3>1. spoiled = "no"
      BY <1>3, <2>2
    <3> QED BY <1>1, <1>3, <1>5, <1>12, <2>2, <3>1
  <2> QED BY <2>1, <2>2
<1>14. DecryptedOwn'
  <2>1. CASE spoiled # "no"
    BY <1>1, <2>1 DEF DecryptedOwn, NoChunk
  <2>2. CASE spoiled = "no"
    <3>1. l = [mod |-> l.mod, sec |-> l.sec, chunk |-> l.chunk]
      BY <1>4 DEF LoadShape
    <3>2. chunked' = [of |-> [mod |-> l.mod, sec |-> l.sec, chunk |-> l.chunk + 1],
                      key |-> IF decrypted THEN mine.of ELSE NoMod,
                      block |-> IF decrypted THEN mine.block ELSE 0,
                      at |-> saved_buf, sure |-> TRUE]
      BY <1>1, <2>2, <3>1
    <3>3. chunked'.key = (IF ModuleKind[l.mod] = "cobra" THEN l.mod ELSE NoMod)
          /\ chunked'.block = (IF ModuleKind[l.mod] = "cobra" THEN l.chunk ELSE 0)
      BY <1>12, <2>2, <3>2
    <3>4. ModuleKind[l.mod] # "native" =>
            saved_buf = <<l.mod, SectionStart(l.mod, l.sec)[2] + l.chunk>>
      BY <1>9, <2>2 DEF ChunkPlace
    <3>5. (l.chunk + 1) - 1 = l.chunk
      BY <1>4
    <3>6. ModuleKind[l.mod] # "native" =>
            saved_buf = <<l.mod, SectionStart(l.mod, l.sec)[2] + (l.chunk + 1) - 1>>
      <4>1. SectionStart(l.mod, l.sec)[2] \in Nat
        BY <1>4, Sections DEF SectionStart
      <4> QED BY <1>4, <3>4, <4>1
    <3> QED BY <3>2, <3>3, <3>5, <3>6 DEF DecryptedOwn
  <2> QED BY <2>1, <2>2
<1>15. PatchedOwn'
  <2>1. CASE IsLast(l) /\ spoiled # "no"
    BY <1>2, <2>1 DEF PatchedOwn, NoPatches
  <2>2. CASE ~IsLast(l)
    BY <1>3, <2>2 DEF DecryptInv, PatchedOwn
  <2>3. CASE IsLast(l) /\ spoiled = "no"
    <3> DEFINE e == Entry[l.mod][l.sec]
    <3>1. total + 1 = Shape[l.mod][l.sec] /\ start = SectionStart(l.mod, l.sec)
      BY <1>12, <2>3 DEF IsLast
    <3>2. FoundEntry(start, total + 1) = e
      BY <1>1, <1>4, <3>1, EntryFound
    <3>3. e \in {0} \cup DOMAIN PatchTable
      BY <1>1, <1>4, DecryptAssumption
    <3> HIDE DEF e
    <3>4. IF e = AudioEntry /\ e # 0 /\ audio_off
          THEN Applied(e) \subseteq PatchList(e + 1)
          ELSE /\ Applied(e) \subseteq PatchList(e)
               /\ \A p \in PatchList(e) : p[2] = "always" => p \in Applied(e)
      BY <3>3, AppliedOfEntry
    <3>5. /\ patched'.of = l /\ patched'.from = SectionStart(l.mod, l.sec)
          /\ patched'.size = Shape[l.mod][l.sec] /\ patched'.applied = Applied(e)
          /\ patched'.no_audio = audio_off
      BY <1>2, <2>3, <3>1, <3>2
    <3> QED BY <3>4, <3>5 DEF PatchedOwn, PatchList, e
  <2> QED BY <2>1, <2>2, <2>3
<1> QED BY <1>8, <1>11, <1>13, <1>14, <1>15 DEF DecryptInv

\* For all modules, loaders and tables of patches, with hen_audio.off or without: a
\* module that is loaded alone is decrypted, placed and patched as its own, and only
\* the module for audio may get the patches of another entry (modulespatch.c 845-1030).
THEOREM LoadedAsItsOwn == DecryptSpec => []OwnKeysAndPatches
<1>1. DecryptInv /\ [DecryptNext]_decryptVars => DecryptInv'
  <2> SUFFICES ASSUME DecryptInv, [DecryptNext]_decryptVars PROVE DecryptInv'
    BY Zenon
  <2>1. CASE SetCondition \/ SetAudio \/ UNCHANGED decryptVars
    <3>1. UNCHANGED <<total, buf, keys, saved_buf, saved_hdr, dpc, chunked, patched, spoiled>>
      BY <2>1 DEF SetCondition, SetAudio, decryptVars
    <3>2. InLoad' = InLoad
      BY <3>1 DEF InLoad
    <3>3. DecryptType' /\ LoadAlone' /\ NothingLeft'
      BY <3>1, <3>2 DEF DecryptInv, DecryptType, LoadAlone, NothingLeft
    <3>4. DecryptedOwn' /\ PatchedOwn'
      BY <3>1 DEF DecryptInv, DecryptedOwn, PatchedOwn
    <3> QED BY <3>3, <3>4 DEF DecryptInv
  <2> QED BY <2>1, BeginLoadInv, EndLoadInv, ChunkInv DEF DecryptNext
<1>2. DecryptInv => OwnKeysAndPatches
  BY DEF DecryptInv, OwnKeysAndPatches
<1> QED BY <1>1, <1>2, DecryptAtInit, PTL DEF DecryptSpec

-----------------------------------------------------------------------------
(* The kernel's code.  None of the five parts is inductive: what is ours   *)
(* follows from how far each list is, and nothing is hooked twice because  *)
(* what a load puts back it has taken out itself.                          *)

\* What main has put in and made after its first k steps.
Begun(k) ==
  (IF k < 6 THEN {} ELSE Put("modules")) \cup (IF k < 7 THEN {} ELSE Put("main"))
    \cup (IF k < 8 THEN {} ELSE Put("map_syscall")) \cup (IF k < 9 THEN {} ELSE Put("storage"))
    \cup (IF k < 10 THEN {} ELSE Put("region")) \cup (IF k < 12 THEN {} ELSE Put("syscalls"))
Made(k) ==
  {IF i < 6 THEN MainSteps[i][2] ELSE IF i < 13 THEN "sleep_done" ELSE "plugins" :
     i \in (1 .. k) \cap {1, 2, 3, 4, 5, 11, 13}}
\* What a load has taken out after k steps, and put back.
TakenOut(k) == UNION {Taken(DisableSteps[i][2]) : i \in 1 .. k}
PutAgain(k) == UNION {Put(EnableSteps[i][2]) : i \in 1 .. k}

\* What is ours once main is done, if no client takes hooks out.
Expected ==
  CASE game = "none" -> Site
    [] game = "disabling" -> Site \ TakenOut(Len(DisableSteps) - left["load"])
    [] game = "out" -> NewSyscalls
    [] game = "enabling" -> NewSyscalls \cup PutAgain(Len(EnableSteps) - left["load"])

ListsType ==
  /\ left \in [Actor -> Nat]
  /\ left["main"] <= 13 /\ left["load"] <= 7 /\ left["client"] <= 4
  /\ game \in {"none", "disabling", "out", "enabling"}
  /\ game \in {"none", "out"} => left["load"] = 0

\* main is alone until it ends.
Starting ==
  left["main"] > 0 =>
    /\ game = "none" /\ left["client"] = 0 /\ removed = FALSE /\ met = FALSE
    /\ ours = Begun(13 - left["main"]) /\ ready = Made(13 - left["main"])
    /\ kept = ours \cap JumpSite

Running ==
  left["main"] = 0 =>
    /\ ready = Made(13) /\ kept = JumpSite
    /\ ours \subseteq Expected
    /\ ~removed => ours = Expected /\ left["client"] = 0

\* What a client has taken out stays out, unless it meets a load: without
\* lv1_call_99_wrapper no load begins.
StaysOut ==
  removed /\ ~met =>
    /\ \/ game = "none"
       \/ game = "disabling" /\ left["load"] = 7 /\ left["client"] = 4
    /\ \A i \in 1 .. 4 - left["client"] : Taken(RemoveSteps[i][2]) \cap ours = {}

KernelInv == ListsType /\ Starting /\ Running /\ StaysOut /\ OriginalsKept

\* The lists, entry by entry.
LEMMA KernelLists ==
  /\ Len(MainSteps) = 13 /\ Len(DisableSteps) = 7 /\ Len(EnableSteps) = 7 /\ Len(RemoveSteps) = 4
  /\ MainSteps[1] = <<"make", "vsh_process">> /\ MainSteps[2] = <<"make", "mutex">>
  /\ MainSteps[3] = <<"make", "queues">> /\ MainSteps[4] = <<"make", "dispatcher">>
  /\ MainSteps[5] = <<"make", "vsh_checks">> /\ MainSteps[6] = <<"hook", "modules">>
  /\ MainSteps[7] = <<"hook", "main">> /\ MainSteps[8] = <<"hook", "map_syscall">>
  /\ MainSteps[9] = <<"hook", "storage">> /\ MainSteps[10] = <<"hook", "region">>
  /\ MainSteps[11] = <<"make", "sleep_done">> /\ MainSteps[12] = <<"hook", "syscalls">>
  /\ MainSteps[13] = <<"make", "plugins">>
  /\ \A i \in 1 .. 7 : DisableSteps[i] = <<"unhook", DisableSteps[i][2]>>
  /\ DisableSteps[1][2] = "disable" /\ DisableSteps[2][2] = "modules"
  /\ DisableSteps[3][2] = "storage" /\ DisableSteps[4][2] = "region"
  /\ DisableSteps[5][2] = "map" /\ DisableSteps[6][2] = "update" /\ DisableSteps[7][2] = "syscalls"
  /\ \A i \in 1 .. 7 : EnableSteps[i] = <<"hook", EnableSteps[i][2]>>
  /\ EnableSteps[1][2] = "enable" /\ EnableSteps[2][2] = "syscalls"
  /\ EnableSteps[3][2] = "region" /\ EnableSteps[4][2] = "modules"
  /\ EnableSteps[5][2] = "map" /\ EnableSteps[6][2] = "storage" /\ EnableSteps[7][2] = "update"
  /\ \A i \in 1 .. 4 : RemoveSteps[i] = <<"unhook", RemoveSteps[i][2]>>
  /\ RemoveSteps[1][2] = "modules" /\ RemoveSteps[2][2] = "region"
  /\ RemoveSteps[3][2] = "map" /\ RemoveSteps[4][2] = "storage"
BY DEF MainSteps, StorageInit, DisableSteps, EnableSteps, RemoveSteps

\* What the entries stand for.
LEMMA KernelEntries ==
  /\ Put("main") = MainPatched \cup UpdateHooks \cup (NewSyscalls \ {"sys_map_path"})
  /\ Put("enable") = MainPatched /\ Taken("disable") = MainPatched
  /\ Put("modules") = ModuleHooks \cup ModulePatches /\ Taken("modules") = Put("modules")
  /\ Put("region") = RegionHooks /\ Taken("region") = Put("region")
  /\ Put("map_syscall") = MapHooks \cup {"sys_map_path"}
  /\ Put("map") = MapHooks /\ Taken("map") = Put("map")
  /\ Put("storage") = StorageHooks \cup StoragePatches /\ Taken("storage") = Put("storage")
  /\ Put("update") = UpdateHooks /\ Taken("update") = Put("update")
  /\ Put("syscalls") = Handler /\ Taken("syscalls") = Put("syscalls")
<1>1. EnablePatched = MainPatched /\ DisableRestored = MainPatched
  BY DEF MainPatched, EnablePatched, DisableRestored
<1> QED BY <1>1 DEF Put, Taken

\* The groups of sites share none.
LEMMA Groups ==
  /\ MainPatched \cap (JumpSite \cup ModulePatches \cup StoragePatches \cup NewSyscalls \cup Handler) = {}
  /\ ModulePatches \cap (JumpSite \cup StoragePatches \cup NewSyscalls \cup Handler) = {}
  /\ StoragePatches \cap (JumpSite \cup NewSyscalls \cup Handler) = {}
  /\ NewSyscalls \cap (JumpSite \cup Handler) = {}
  /\ Handler \cap JumpSite = {}
  /\ ModuleHooks \cap (RegionHooks \cup MapHooks \cup StorageHooks \cup UpdateHooks) = {}
  /\ RegionHooks \cap (MapHooks \cup StorageHooks \cup UpdateHooks) = {}
  /\ MapHooks \cap (StorageHooks \cup UpdateHooks) = {}
  /\ StorageHooks \cap UpdateHooks = {}
  /\ "sys_map_path" \in NewSyscalls /\ "syscall_8" \in NewSyscalls
  /\ "lv1_call_99_wrapper" \in ModuleHooks
BY DEF MainPatched, JumpSite, ModuleHooks, RegionHooks, MapHooks, StorageHooks, UpdateHooks,
       NewSyscalls, ModulePatches, StoragePatches, Handler

\* Every site is in one.
LEMMA Sites ==
  /\ JumpSite = ModuleHooks \cup RegionHooks \cup MapHooks \cup StorageHooks \cup UpdateHooks
  /\ Site = MainPatched \cup JumpSite \cup ModulePatches \cup StoragePatches \cup NewSyscalls \cup Handler
<1>1. EnablePatched = MainPatched
  BY DEF EnablePatched, MainPatched
<1> QED BY <1>1 DEF JumpSite, Site

\* What is made, step by step.
LEMMA MadeIs ==
  /\ Made(0) = {} /\ Made(1) = {"vsh_process"} /\ Made(2) = Made(1) \cup {"mutex"}
  /\ Made(3) = Made(2) \cup {"queues"} /\ Made(4) = Made(3) \cup {"dispatcher"}
  /\ Made(5) = Made(4) \cup {"vsh_checks"}
  /\ \A k \in 6 .. 10 : Made(k) = Made(5)
  /\ Made(11) = Made(5) \cup {"sleep_done"} /\ Made(12) = Made(11)
  /\ Made(13) = Made(12) \cup {"plugins"}
<1> DEFINE at(i) == IF i < 6 THEN MainSteps[i][2] ELSE IF i < 13 THEN "sleep_done" ELSE "plugins"
           made == {1, 2, 3, 4, 5, 11, 13}
<1>1. /\ at(1) = "vsh_process" /\ at(2) = "mutex" /\ at(3) = "queues" /\ at(4) = "dispatcher"
      /\ at(5) = "vsh_checks" /\ at(11) = "sleep_done" /\ at(13) = "plugins"
  BY KernelLists
<1>2. \A k : Made(k) = {at(i) : i \in (1 .. k) \cap made}
  BY DEF Made
<1>3. /\ (1 .. 0) \cap made = {} /\ (1 .. 1) \cap made = {1} /\ (1 .. 2) \cap made = {1, 2}
      /\ (1 .. 3) \cap made = {1, 2, 3} /\ (1 .. 4) \cap made = {1, 2, 3, 4}
      /\ \A k \in 5 .. 10 : (1 .. k) \cap made = {1, 2, 3, 4, 5}
      /\ \A k \in 11 .. 12 : (1 .. k) \cap made = {1, 2, 3, 4, 5, 11}
      /\ (1 .. 13) \cap made = {1, 2, 3, 4, 5, 11, 13}
  OBVIOUS
<1> HIDE DEF at, made
<1>4. /\ Made(0) = {} /\ Made(1) = {"vsh_process"} /\ Made(2) = {"vsh_process", "mutex"}
      /\ Made(3) = {"vsh_process", "mutex", "queues"}
  BY <1>1, <1>2, <1>3
<1>5. Made(4) = {"vsh_process", "mutex", "queues", "dispatcher"}
  BY <1>1, <1>2, <1>3
<1>6. \A k \in 5 .. 10 : Made(k) = {"vsh_process", "mutex", "queues", "dispatcher", "vsh_checks"}
  BY <1>1, <1>2, <1>3
<1>7. \A k \in 11 .. 12 :
        Made(k) = {"vsh_process", "mutex", "queues", "dispatcher", "vsh_checks", "sleep_done"}
  BY <1>1, <1>2, <1>3
<1>8. Made(13) = {"vsh_process", "mutex", "queues", "dispatcher", "vsh_checks", "sleep_done", "plugins"}
  BY <1>1, <1>2, <1>3
<1> QED BY <1>4, <1>5, <1>6, <1>7, <1>8

\* A load takes out and puts back one entry a step, and each entry once.
LEMMA LoadLists ==
  /\ TakenOut(0) = {} /\ PutAgain(0) = {}
  /\ \A k \in 1 .. 7 : /\ TakenOut(k) = TakenOut(k - 1) \cup Taken(DisableSteps[k][2])
                       /\ PutAgain(k) = PutAgain(k - 1) \cup Put(EnableSteps[k][2])
                       /\ Put(EnableSteps[k][2]) \cap (NewSyscalls \cup PutAgain(k - 1)) = {}
  /\ Site \ TakenOut(7) = NewSyscalls /\ NewSyscalls \cup PutAgain(7) = Site
<1>1. TakenOut(0) = {} /\ PutAgain(0) = {}
  BY DEF TakenOut, PutAgain
<1>2. ASSUME NEW k \in 1 .. 7
      PROVE  /\ TakenOut(k) = TakenOut(k - 1) \cup Taken(DisableSteps[k][2])
             /\ PutAgain(k) = PutAgain(k - 1) \cup Put(EnableSteps[k][2])
  <2>1. 1 .. k = (1 .. (k - 1)) \cup {k}
    OBVIOUS
  <2> QED BY <2>1 DEF TakenOut, PutAgain
<1>3. \A i, j \in 1 .. 7 : i # j => Put(EnableSteps[i][2]) \cap Put(EnableSteps[j][2]) = {}
  <2> DEFINE P(i) == Put(EnableSteps[i][2])
  <2>1. /\ P(1) = MainPatched /\ P(2) = Handler /\ P(3) = RegionHooks
        /\ P(4) = ModuleHooks \cup ModulePatches /\ P(5) = MapHooks
        /\ P(6) = StorageHooks \cup StoragePatches /\ P(7) = UpdateHooks
    BY KernelLists, KernelEntries
  <2> HIDE DEF P
  <2>2. \A i, j \in 1 .. 7 : i # j => P(i) \cap P(j) = {}
    BY <2>1, Groups, Sites
  <2> QED BY <2>2 DEF P
<1>4. \A i \in 1 .. 7 : Put(EnableSteps[i][2]) \cap NewSyscalls = {}
  <2> DEFINE P(i) == Put(EnableSteps[i][2])
  <2>1. /\ P(1) = MainPatched /\ P(2) = Handler /\ P(3) = RegionHooks
        /\ P(4) = ModuleHooks \cup ModulePatches /\ P(5) = MapHooks
        /\ P(6) = StorageHooks \cup StoragePatches /\ P(7) = UpdateHooks
    BY KernelLists, KernelEntries
  <2> HIDE DEF P
  <2>2. \A i \in 1 .. 7 : P(i) \cap NewSyscalls = {}
    BY <2>1, Groups, Sites
  <2> QED BY <2>2 DEF P
<1>5. ASSUME NEW k \in 1 .. 7
      PROVE  Put(EnableSteps[k][2]) \cap (NewSyscalls \cup PutAgain(k - 1)) = {}
  <2>1. \A i \in 1 .. (k - 1) : i \in 1 .. 7 /\ i # k
    OBVIOUS
  <2> QED BY <1>3, <1>4, <2>1 DEF PutAgain
<1>6. PutAgain(7) = MainPatched \cup Handler \cup RegionHooks \cup ModuleHooks \cup ModulePatches
        \cup MapHooks \cup StorageHooks \cup StoragePatches \cup UpdateHooks
  <2>1. 1 .. 7 = {1, 2, 3, 4, 5, 6, 7}
    OBVIOUS
  <2>2. PutAgain(7) = Put("enable") \cup Put("syscalls") \cup Put("region") \cup Put("modules")
          \cup Put("map") \cup Put("storage") \cup Put("update")
    BY <2>1, KernelLists DEF PutAgain
  <2> QED BY <2>2, KernelEntries
<1>7. TakenOut(7) = PutAgain(7)
  <2>1. 1 .. 7 = {1, 2, 3, 4, 5, 6, 7}
    OBVIOUS
  <2>2. TakenOut(7) = Taken("disable") \cup Taken("modules") \cup Taken("storage")
          \cup Taken("region") \cup Taken("map") \cup Taken("update") \cup Taken("syscalls")
    BY <2>1, KernelLists DEF TakenOut
  <2> QED BY <1>6, <2>2, KernelEntries
<1>8. Site \ TakenOut(7) = NewSyscalls /\ NewSyscalls \cup PutAgain(7) = Site
  BY <1>6, <1>7, Groups, Sites
<1> QED BY <1>1, <1>2, <1>5, <1>8

\* What main has put in, step by step, is put in once.
LEMMA BegunIs ==
  /\ \A k \in 0 .. 5 : Begun(k) = {}
  /\ \A k \in {6, 7, 8, 9, 10, 12} :
       /\ MainSteps[k][1] = "hook" /\ Begun(k) = Begun(k - 1) \cup Put(MainSteps[k][2])
       /\ Put(MainSteps[k][2]) \cap JumpSite \cap Begun(k - 1) = {}
  /\ Begun(11) = Begun(10) /\ Begun(13) = Begun(12)
  /\ Begun(13) = Site
<1> DEFINE g == JumpSite
<1>1. /\ Begun(6) = Put("modules") /\ Begun(7) = Begun(6) \cup Put("main")
      /\ Begun(8) = Begun(7) \cup Put("map_syscall") /\ Begun(9) = Begun(8) \cup Put("storage")
      /\ Begun(10) = Begun(9) \cup Put("region") /\ Begun(11) = Begun(10)
      /\ Begun(12) = Begun(11) \cup Put("syscalls") /\ Begun(13) = Begun(12)
      /\ \A k \in 0 .. 5 : Begun(k) = {}
  BY DEF Begun
<1>2. /\ Put("main") \cap g \cap Begun(6) = {} /\ Put("map_syscall") \cap g \cap Begun(7) = {}
      /\ Put("storage") \cap g \cap Begun(8) = {} /\ Put("region") \cap g \cap Begun(9) = {}
      /\ Put("syscalls") \cap g \cap Begun(11) = {}
  BY <1>1, KernelEntries, Groups, Sites
<1>3. Begun(13) = Site
  BY <1>1, KernelEntries, Groups, Sites
<1> HIDE DEF g
<1> QED BY <1>1, <1>2, <1>3, KernelLists DEF g

\* The payload's code is taken out of what it was put in, and put in where it is not.
LEMMA HookedOnce ==
  ASSUME NEW f, PutIn(f), OriginalsKept, Put(f) \cap JumpSite \cap ours = {}
  PROVE  /\ OriginalsKept' /\ ours' = ours \cup Put(f)
         /\ kept = ours \cap JumpSite => kept' = ours' \cap JumpSite
         /\ kept = JumpSite => kept' = JumpSite
BY DEF PutIn, OriginalsKept

\* What the stub kept is what the function was.
LEMMA UnhookedOnce ==
  ASSUME NEW f, TakeOut(f), OriginalsKept, kept = JumpSite
  PROVE  OriginalsKept' /\ ours' = ours \ Taken(f) /\ kept' = JumpSite
BY DEF TakeOut, OriginalsKept

\* At the start nothing is ours.
LEMMA KernelAtInit == KernelInit => KernelInv
<1> SUFFICES ASSUME KernelInit PROVE KernelInv
  OBVIOUS
<1>1. left["main"] = 13 /\ left["load"] = 0 /\ left["client"] = 0 /\ left \in [Actor -> Nat]
  BY KernelLists DEF KernelInit, Actor
<1>2. ListsType /\ OriginalsKept /\ StaysOut
  <2>1. game = "none" /\ removed = FALSE /\ over = {} /\ strayed = {}
    BY DEF KernelInit
  <2>2. ListsType
    BY <1>1, <2>1 DEF ListsType
  <2> QED BY <2>1, <2>2 DEF OriginalsKept, StaysOut
<1>3. Starting
  <2>1. 13 - left["main"] = 0
    BY <1>1
  <2>2. Begun(0) = {} /\ Made(0) = {}
    BY BegunIs, MadeIs
  <2> QED BY <1>1, <2>1, <2>2 DEF KernelInit, Starting
<1> QED BY <1>1, <1>2, <1>3 DEF KernelInv, Running

\* An actor makes one step of its list.
LEMMA OneStep ==
  ASSUME ListsType, NEW a \in Actor, KernelStep(a)
  PROVE  /\ left[a] \in Nat \ {0} /\ left' \in [Actor -> Nat] /\ left'[a] = left[a] - 1
         /\ \A b \in Actor \ {a} : left'[b] = left[b]
         /\ game' = game /\ removed' = removed
BY DEF KernelStep, ListsType

\* main puts its parts in.
LEMMA MainStep == KernelInv /\ KernelStep("main") => KernelInv'
<1> SUFFICES ASSUME KernelInv, KernelStep("main") PROVE KernelInv'
  OBVIOUS
<1> USE DEF Actor
<1>1. ListsType /\ Starting /\ OriginalsKept
  BY DEF KernelInv
<1>2. /\ left["main"] \in 1 .. 13 /\ left' \in [Actor -> Nat] /\ left'["main"] = left["main"] - 1
      /\ left'["load"] = left["load"] /\ left'["client"] = left["client"]
      /\ game' = game /\ removed' = removed /\ met' = met
  <2>1. "main" \in Actor /\ left["main"] <= 13
    BY <1>1 DEF ListsType
  <2>2. /\ left["main"] \in Nat \ {0} /\ left' \in [Actor -> Nat]
        /\ left'["main"] = left["main"] - 1
        /\ \A b \in Actor \ {"main"} : left'[b] = left[b]
        /\ game' = game /\ removed' = removed
    BY <1>1, <2>1, OneStep
  <2>3. met' = met
    <3>1. met' = (met \/ ("main" = "client" /\ Loads) \/ ("main" = "load" /\ left["client"] > 0))
      BY DEF KernelStep
    <3>2. met \in BOOLEAN
      <4>1. left["main"] > 0
        BY <2>2
      <4>2. met = FALSE
        BY <1>1, <4>1 DEF Starting
      <4> QED BY <4>2
    <3> QED BY <3>1, <3>2
  <2> QED BY <2>1, <2>2, <2>3
<1>3. PICK k \in 1 .. 13 : left["main"] = 14 - k
  <2>1. 14 - left["main"] \in 1 .. 13 /\ left["main"] = 14 - (14 - left["main"])
    BY <1>2
  <2> QED BY <2>1
<1>4. /\ game = "none" /\ left["client"] = 0 /\ removed = FALSE /\ met = FALSE
      /\ ours = Begun(k - 1) /\ ready = Made(k - 1) /\ kept = ours \cap JumpSite
  <2>1. 13 - left["main"] = k - 1 /\ left["main"] > 0
    BY <1>3
  <2> QED BY <1>1, <2>1 DEF Starting
<1>5. Do(MainSteps[k])
  <2>1. Len(MainSteps) - left["main"] + 1 = k
    BY <1>3, KernelLists
  <2> QED BY <2>1 DEF KernelStep, StepsOf
<1>6. ours' = Begun(k) /\ kept' = ours' \cap JumpSite /\ OriginalsKept'
  <2>1. CASE k \in {6, 7, 8, 9, 10, 12}
    <3>1. PutIn(MainSteps[k][2])
      BY <1>5, <2>1, BegunIs DEF Do
    <3>2. Put(MainSteps[k][2]) \cap JumpSite \cap ours = {}
      BY <1>4, <2>1, BegunIs
    <3> QED BY <1>1, <1>4, <2>1, <3>1, <3>2, HookedOnce, BegunIs
  <2>2. CASE k \in {1, 2, 3, 4, 5, 11, 13}
    <3>1. MainSteps[k][1] = "make"
      BY <2>2, KernelLists
    <3>2. UNCHANGED codeVars
      BY <1>5, <3>1 DEF Do
    <3>3. Begun(k) = Begun(k - 1)
      <4>1. CASE k \in 1 .. 5
        <5>1. k - 1 \in 0 .. 5 /\ k \in 0 .. 5
          BY <4>1
        <5> QED BY <5>1, BegunIs
      <4>2. CASE k \in {11, 13}
        BY <4>2, BegunIs
      <4> QED BY <2>2, <4>1, <4>2
    <3> QED BY <1>1, <1>4, <3>2, <3>3 DEF codeVars, OriginalsKept
  <2> QED BY <2>1, <2>2
<1>7. ready' = Made(k)
  <2>1. CASE k \in {6, 7, 8, 9, 10, 12}
    <3>1. MainSteps[k][1] = "hook"
      BY <2>1, BegunIs
    <3>2. Made(k) = Made(k - 1)
      BY <2>1, MadeIs
    <3> QED BY <1>4, <1>5, <3>1, <3>2 DEF Do
  <2>2. CASE k \in {1, 2, 3, 4, 5, 11, 13}
    <3>1. MainSteps[k][1] = "make"
      BY <2>2, KernelLists
    <3>2. Made(k) = Made(k - 1) \cup {MainSteps[k][2]}
      <4>1. CASE k \in {1, 2, 3, 4, 5}
        BY <4>1, MadeIs, KernelLists
      <4>2. CASE k = 11
        <5>1. Made(10) = Made(5)
          BY MadeIs
        <5>2. Made(11) = Made(5) \cup {"sleep_done"}
          BY MadeIs
        <5>3. MainSteps[11][2] = "sleep_done" /\ k - 1 = 10
          BY <4>2, KernelLists
        <5> QED BY <4>2, <5>1, <5>2, <5>3
      <4>3. CASE k = 13
        BY <4>3, MadeIs, KernelLists
      <4> QED BY <2>2, <4>1, <4>2, <4>3
    <3> QED BY <1>4, <1>5, <3>1, <3>2 DEF Do
  <2> QED BY <2>1, <2>2
<1>8. left'["main"] = 13 - k /\ 13 - left'["main"] = k
  BY <1>2, <1>3
<1>9. ListsType'
  BY <1>1, <1>2 DEF ListsType
<1>10. Starting'
  BY <1>2, <1>4, <1>6, <1>7, <1>8 DEF Starting
<1>11. Running'
  <2> SUFFICES ASSUME left'["main"] = 0 PROVE Running'
    BY DEF Running
  <2>1. k = 13
    BY <1>8
  <2>2. ours' = Site /\ ready' = Made(13)
    BY <1>6, <1>7, <2>1, BegunIs
  <2>3. kept' = JumpSite
    BY <1>6, <2>2, Sites
  <2>4. Expected' = Site
    BY <1>2, <1>4 DEF Expected
  <2> QED BY <1>2, <1>4, <2>2, <2>3, <2>4 DEF Running
<1>12. StaysOut'
  BY <1>2, <1>4 DEF StaysOut
<1> QED BY <1>6, <1>9, <1>10, <1>11, <1>12 DEF KernelInv

\* A client takes hooks out, in REMOVE_HOOK.
LEMMA ClientStep == KernelInv /\ KernelStep("client") => KernelInv'
<1> SUFFICES ASSUME KernelInv, KernelStep("client") PROVE KernelInv'
  OBVIOUS
<1> USE DEF Actor
<1>1. ListsType /\ Starting /\ Running /\ StaysOut /\ OriginalsKept
  BY DEF KernelInv
<1>2. /\ left["client"] \in 1 .. 4 /\ left' \in [Actor -> Nat] /\ left'["client"] = left["client"] - 1
      /\ left'["load"] = left["load"] /\ left'["main"] = left["main"]
      /\ game' = game /\ removed' = removed /\ met' = (met \/ Loads)
  <2>1. "client" \in Actor /\ left["client"] <= 4
    BY <1>1 DEF ListsType
  <2>2. met' = (met \/ Loads)
    BY DEF KernelStep
  <2> QED BY <1>1, <2>1, <2>2, OneStep
<1>3. left["main"] = 0 /\ removed
  <2>1. left["main"] = 0
    BY <1>1, <1>2 DEF Starting, ListsType
  <2> QED BY <1>1, <1>2, <2>1 DEF Running
<1>4. PICK k \in 1 .. 4 : left["client"] = 5 - k
  <2>1. 5 - left["client"] \in 1 .. 4 /\ left["client"] = 5 - (5 - left["client"])
    BY <1>2
  <2> QED BY <2>1
<1>5. TakeOut(RemoveSteps[k][2]) /\ ready' = ready
  <2>1. Len(RemoveSteps) - left["client"] + 1 = k
    BY <1>4, KernelLists
  <2>2. Do(RemoveSteps[k])
    BY <2>1 DEF KernelStep, StepsOf
  <2>3. RemoveSteps[k][1] = "unhook"
    BY KernelLists
  <2> QED BY <2>2, <2>3 DEF Do
<1>6. OriginalsKept' /\ ours' = ours \ Taken(RemoveSteps[k][2]) /\ kept' = JumpSite
  <2>1. kept = JumpSite
    BY <1>1, <1>3 DEF Running
  <2> QED BY <1>1, <1>5, <2>1, UnhookedOnce
<1>7. ListsType' /\ Starting'
  BY <1>1, <1>2, <1>3 DEF ListsType, Starting
<1>8. Running'
  <2>1. Expected' = Expected
    BY <1>2 DEF Expected
  <2> QED BY <1>1, <1>2, <1>3, <1>5, <1>6, <2>1 DEF Running
<1>9. StaysOut'
  <2> SUFFICES ASSUME ~met' PROVE StaysOut'
    BY DEF StaysOut
  <2>1. game = "none" /\ ~met
    BY <1>1, <1>2 DEF Loads, ListsType
  <2>2. 4 - left'["client"] = k /\ 4 - left["client"] = k - 1
    BY <1>2, <1>4
  <2>3. ASSUME NEW i \in 1 .. k PROVE Taken(RemoveSteps[i][2]) \cap ours' = {}
    <3>1. CASE i = k
      BY <1>6, <3>1
    <3>2. CASE i \in 1 .. (k - 1)
      BY <1>1, <1>3, <1>6, <2>1, <2>2, <3>2 DEF StaysOut
    <3> QED BY <3>1, <3>2
  <2> QED BY <1>2, <2>1, <2>2, <2>3 DEF StaysOut
<1> QED BY <1>6, <1>7, <1>8, <1>9 DEF KernelInv

\* A load takes everything out, or puts it back.
LEMMA LoadStep == KernelInv /\ KernelStep("load") => KernelInv'
<1> SUFFICES ASSUME KernelInv, KernelStep("load") PROVE KernelInv'
  OBVIOUS
<1> USE DEF Actor
<1>1. ListsType /\ Starting /\ Running /\ StaysOut /\ OriginalsKept
  BY DEF KernelInv
<1>2. /\ left["load"] \in 1 .. 7 /\ left' \in [Actor -> Nat] /\ left'["load"] = left["load"] - 1
      /\ left'["client"] = left["client"] /\ left'["main"] = left["main"]
      /\ game' = game /\ removed' = removed /\ met' = (met \/ left["client"] > 0)
  <2>1. "load" \in Actor /\ left["load"] <= 7
    BY <1>1 DEF ListsType
  <2>2. met' = (met \/ left["client"] > 0)
    BY DEF KernelStep
  <2> QED BY <1>1, <2>1, <2>2, OneStep
<1>3. left["main"] = 0 /\ game \in {"disabling", "enabling"} /\ kept = JumpSite
  <2>1. game \in {"disabling", "enabling"}
    BY <1>1, <1>2 DEF ListsType
  <2>2. left["main"] = 0
    BY <1>1, <2>1 DEF Starting, ListsType
  <2> QED BY <1>1, <2>1, <2>2 DEF Running
<1>4. PICK k \in 1 .. 7 : left["load"] = 8 - k
  <2>1. 8 - left["load"] \in 1 .. 7 /\ left["load"] = 8 - (8 - left["load"])
    BY <1>2
  <2> QED BY <2>1
<1>5. 7 - left["load"] = k - 1 /\ 7 - left'["load"] = k /\ 7 - left["load"] + 1 = k
  BY <1>2, <1>4
<1>6. Do((IF game = "disabling" THEN DisableSteps ELSE EnableSteps)[k])
  BY <1>5, KernelLists DEF KernelStep, StepsOf
<1>7. ListsType' /\ Starting'
  BY <1>1, <1>2, <1>3 DEF ListsType, Starting
<1>8. OriginalsKept' /\ Running'
  <2>1. CASE game = "disabling"
    <3>1. DisableSteps[k][1] = "unhook"
      BY KernelLists
    <3>2. TakeOut(DisableSteps[k][2]) /\ ready' = ready
      BY <1>6, <2>1, <3>1 DEF Do
    <3>3. OriginalsKept' /\ ours' = ours \ Taken(DisableSteps[k][2]) /\ kept' = JumpSite
      BY <1>1, <1>3, <3>2, UnhookedOnce
    <3>4. Expected = Site \ TakenOut(k - 1) /\ Expected' = Site \ TakenOut(k)
      BY <1>2, <1>5, <2>1, KernelLists DEF Expected
    <3>5. Expected' = Expected \ Taken(DisableSteps[k][2])
      BY <3>4, LoadLists
    <3> QED BY <1>1, <1>2, <1>3, <3>2, <3>3, <3>5 DEF Running
  <2>2. CASE game = "enabling"
    <3>1. EnableSteps[k][1] = "hook"
      BY KernelLists
    <3>2. PutIn(EnableSteps[k][2]) /\ ready' = ready
      BY <1>6, <2>2, <3>1 DEF Do
    <3>3. Expected = NewSyscalls \cup PutAgain(k - 1) /\ Expected' = NewSyscalls \cup PutAgain(k)
      BY <1>2, <1>5, <2>2, KernelLists DEF Expected
    <3>4. Put(EnableSteps[k][2]) \cap Expected = {}
      BY <3>3, LoadLists
    <3>5. ours \subseteq Expected
      BY <1>1, <1>3 DEF Running
    <3>6. OriginalsKept' /\ ours' = ours \cup Put(EnableSteps[k][2]) /\ kept' = JumpSite
      BY <1>1, <1>3, <3>2, <3>4, <3>5, HookedOnce
    <3>7. Expected' = Expected \cup Put(EnableSteps[k][2])
      BY <3>3, LoadLists
    <3> QED BY <1>1, <1>2, <1>3, <3>2, <3>6, <3>7 DEF Running
  <2> QED BY <1>3, <2>1, <2>2
<1>9. StaysOut'
  <2> SUFFICES ASSUME removed', ~met' PROVE FALSE
    BY DEF StaysOut
  <2>1. removed /\ ~met /\ ~(left["client"] > 0)
    BY <1>2
  <2> QED BY <1>1, <1>3, <2>1 DEF StaysOut
<1> QED BY <1>7, <1>8, <1>9 DEF KernelInv

\* While main is at work the plugins are not there yet, and no load nor client can begin.
LEMMA PluginsLast ==
  ASSUME ListsType, Starting, "plugins" \in ready
  PROVE  left["main"] = 0
<1> SUFFICES ASSUME left["main"] # 0 PROVE FALSE
  OBVIOUS
<1>1. left["main"] \in 1 .. 13
  BY DEF ListsType, Actor
<1>2. PICK k \in 0 .. 12 : 13 - left["main"] = k
  BY <1>1
<1>3. ready = Made(k)
  BY <1>1, <1>2 DEF Starting
<1> QED BY <1>3, MadeIs

\* A load begins, is checked, goes on and ends.
LEMMA LoadMoves ==
  ASSUME KernelInv, StartGame \/ PatchesOut \/ PutBack \/ GameLoaded
  PROVE  KernelInv'
<1> USE DEF Actor
<1>1. ListsType /\ Starting /\ Running /\ StaysOut /\ OriginalsKept
  BY DEF KernelInv
<1>2. /\ UNCHANGED <<ours, kept, over, strayed, ready, removed, met>>
      /\ left' \in [Actor -> Nat] /\ left'["main"] = left["main"] /\ left'["client"] = left["client"]
  BY <1>1, KernelLists DEF StartGame, PatchesOut, PutBack, GameLoaded, codeVars, ListsType
<1>3. left["main"] = 0
  <2>1. CASE StartGame
    BY <1>1, <2>1, PluginsLast DEF StartGame
  <2>2. CASE game # "none"
    BY <1>1, <2>2 DEF Starting, ListsType
  <2> QED BY <2>1, <2>2 DEF PatchesOut, PutBack, GameLoaded
<1>4. ListsType' /\ Starting' /\ OriginalsKept'
  <2>1. /\ game' \in {"none", "disabling", "out", "enabling"} /\ left'["load"] \in 0 .. 7
        /\ game' \in {"none", "out"} => left'["load"] = 0
    BY <1>1, KernelLists DEF StartGame, PatchesOut, PutBack, GameLoaded, ListsType
  <2> QED BY <1>1, <1>2, <1>3, <2>1 DEF ListsType, Starting, OriginalsKept
<1>5. Expected' = Expected
  <2>1. CASE StartGame
    <3>1. game = "none" /\ game' = "disabling" /\ left'["load"] = 7
      BY <1>1, <2>1, KernelLists DEF StartGame, ListsType
    <3>2. TakenOut(7 - 7) = {}
      BY LoadLists
    <3> QED BY <3>1, <3>2, KernelLists DEF Expected
  <2>2. CASE PatchesOut
    <3>1. game = "disabling" /\ game' = "out" /\ left["load"] = 0
      BY <2>2 DEF PatchesOut
    <3>2. Site \ TakenOut(7 - 0) = NewSyscalls
      BY LoadLists
    <3> QED BY <3>1, <3>2, KernelLists DEF Expected
  <2>3. CASE PutBack
    <3>1. game = "out" /\ game' = "enabling" /\ left'["load"] = 7
      BY <1>1, <2>3, KernelLists DEF PutBack, ListsType
    <3>2. PutAgain(7 - 7) = {}
      BY LoadLists
    <3> QED BY <3>1, <3>2, KernelLists DEF Expected
  <2>4. CASE GameLoaded
    <3>1. game = "enabling" /\ game' = "none" /\ left["load"] = 0
      BY <2>4 DEF GameLoaded
    <3>2. NewSyscalls \cup PutAgain(7 - 0) = Site
      BY LoadLists
    <3> QED BY <3>1, <3>2, KernelLists DEF Expected
  <2> QED BY <2>1, <2>2, <2>3, <2>4
<1>6. Running'
  BY <1>1, <1>2, <1>3, <1>5 DEF Running
<1>7. StaysOut'
  <2> SUFFICES ASSUME removed, ~met PROVE StaysOut'
    BY <1>2 DEF StaysOut
  <2>1. \/ game = "none"
        \/ game = "disabling" /\ left["load"] = 7 /\ left["client"] = 4
    BY <1>1 DEF StaysOut
  <2>2. StartGame
    <3>1. ~PutBack /\ ~GameLoaded
      BY <2>1 DEF PutBack, GameLoaded
    <3>2. ~PatchesOut
      <4>1. 7 # 0
        OBVIOUS
      <4> QED BY <2>1, <4>1 DEF PatchesOut
    <3> QED BY <3>1, <3>2
  <2>3. game' = "disabling" /\ left'["load"] = 7 /\ "lv1_call_99_wrapper" \in ours
    BY <1>1, <2>2, KernelLists DEF StartGame, ListsType
  <2>4. left["client"] = 4
    <3> SUFFICES ASSUME left["client"] # 4 PROVE FALSE
      OBVIOUS
    <3>1. 1 \in 1 .. 4 - left["client"]
      BY <1>1 DEF ListsType
    <3>2. Taken("modules") \cap ours = {}
      BY <1>1, <3>1, KernelLists DEF StaysOut
    <3> QED BY <2>3, <3>2, KernelEntries, Groups
  <2>5. ~(\E i \in 1 .. 4 - left'["client"] : TRUE)
    BY <1>2, <2>4
  <2> QED BY <1>2, <2>3, <2>4, <2>5 DEF StaysOut
<1> QED BY <1>4, <1>6, <1>7 DEF KernelInv

\* A client calls REMOVE_HOOK.
LEMMA RemoveMoves == KernelInv /\ RemoveHooks => KernelInv'
<1> SUFFICES ASSUME KernelInv, RemoveHooks PROVE KernelInv'
  OBVIOUS
<1> USE DEF Actor
<1>1. ListsType /\ Starting /\ Running /\ StaysOut /\ OriginalsKept
  BY DEF KernelInv
<1>2. /\ UNCHANGED <<ours, kept, over, strayed, ready, game>> /\ removed' = TRUE
      /\ met' = (met \/ Loads)
      /\ left' \in [Actor -> Nat] /\ left'["main"] = left["main"] /\ left'["load"] = left["load"]
      /\ left'["client"] = 4
  BY <1>1, KernelLists DEF RemoveHooks, codeVars, ListsType
<1>3. left["main"] = 0
  BY <1>1, PluginsLast DEF RemoveHooks
<1>4. ListsType' /\ Starting' /\ OriginalsKept'
  BY <1>1, <1>2, <1>3 DEF ListsType, Starting, OriginalsKept
<1>5. Running'
  <2>1. Expected' = Expected
    BY <1>2 DEF Expected
  <2> QED BY <1>1, <1>2, <1>3, <2>1 DEF Running
<1>6. StaysOut'
  <2> SUFFICES ASSUME ~met' PROVE StaysOut'
    BY DEF StaysOut
  <2>1. game' = "none"
    BY <1>1, <1>2 DEF Loads, ListsType
  <2>2. 4 - left'["client"] = 0
    BY <1>2
  <2>3. 1 .. 0 = {}
    OBVIOUS
  <2> QED BY <2>1, <2>2, <2>3 DEF StaysOut
<1> QED BY <1>4, <1>5, <1>6 DEF KernelInv

\* So every step keeps the account.
LEMMA KernelInvStep == KernelInv /\ [KernelNext]_kernelVars => KernelInv'
<1> SUFFICES ASSUME KernelInv, [KernelNext]_kernelVars PROVE KernelInv'
  OBVIOUS
<1>1. CASE UNCHANGED kernelVars
  BY <1>1 DEF kernelVars, codeVars, KernelInv, ListsType, Starting, Running, Expected, StaysOut,
              OriginalsKept
<1>2. ASSUME NEW a \in Actor, KernelStep(a) PROVE KernelInv'
  BY <1>2, MainStep, ClientStep, LoadStep DEF Actor
<1> QED BY <1>1, <1>2, LoadMoves, RemoveMoves DEF KernelNext

\* The code behind a site uses what is made before it, but for syscall_call.
LEMMA WhatSitesUse ==
  /\ \A s \in Site \ Handler : Uses(s) \subseteq Made(5)
  /\ \A s \in Handler : Uses(s) = {"sleep_done"}
<1>1. Made(5) = {"vsh_process", "mutex", "queues", "dispatcher", "vsh_checks"}
  BY MadeIs
<1>2. \A s \in Handler : s = "syscall_call"
  BY DEF Handler
<1>3. "device_event_port_send" \in StoragePatches /\ "lv1_call_99_wrapper" \in ModuleHooks
  BY Groups DEF StoragePatches
<1>4. \A s \in Handler : Uses(s) = {"sleep_done"}
  <2>1. ASSUME NEW s \in Handler
        PROVE  /\ s \notin StorageHooks \cup {"device_event_port_send"} /\ s \notin NewSyscalls
               /\ s # "lv1_call_99_wrapper" /\ s = "syscall_call"
    BY <1>2, <1>3, Groups, Sites
  <2> QED BY <2>1 DEF Uses
<1>5. ASSUME NEW s \in Site \ Handler PROVE Uses(s) \subseteq Made(5)
  <2>1. CASE s \in StorageHooks \cup {"device_event_port_send"}
    <3>1. s \notin NewSyscalls /\ s # "lv1_call_99_wrapper" /\ s # "syscall_call"
      BY <1>3, <2>1, Groups, Sites DEF Handler
    <3> QED BY <1>1, <2>1, <3>1 DEF Uses
  <2>2. CASE s \in NewSyscalls
    <3>1. s \notin StorageHooks \cup {"device_event_port_send"}
          /\ s # "lv1_call_99_wrapper" /\ s # "syscall_call"
      BY <1>3, <2>2, Groups, Sites DEF Handler
    <3> QED BY <1>1, <2>2, <3>1 DEF Uses
  <2>3. CASE s \notin StorageHooks \cup {"device_event_port_send"} \cup NewSyscalls
    <3>1. s # "syscall_call"
      BY DEF Handler
    <3> QED BY <1>1, <2>3, <3>1 DEF Uses
  <2> QED BY <2>1, <2>2, <2>3
<1> QED BY <1>4, <1>5

\* In every behaviour of the payload's lists, against one client: no code of the payload
\* can run before what it uses is made, no original is lost, nothing is patched while the
\* kernel checks a game, everything is after, and what REMOVE_HOOK takes out stays out.
THEOREM KernelCodeStays == KernelSpec => []KernelCodeAgrees
<1>1. KernelInv => KernelCodeAgrees
  <2> SUFFICES ASSUME KernelInv PROVE KernelCodeAgrees
    OBVIOUS
  <2>1. ListsType /\ Starting /\ Running /\ StaysOut /\ OriginalsKept
    BY DEF KernelInv
  <2>2. left["main"] \in 0 .. 13 /\ left["load"] \in 0 .. 7 /\ left["client"] \in 0 .. 4
    BY <2>1 DEF ListsType, Actor
  <2>3. Expected \subseteq Site
    <3>1. PutAgain(7 - left["load"]) \subseteq PutAgain(7)
      BY <2>2 DEF PutAgain
    <3> QED BY <2>1, <3>1, Sites, LoadLists, KernelLists DEF Expected, ListsType
  <2>4. MadeBeforeHooked
    <3>1. CASE left["main"] = 0
      <4>1. ours \subseteq Site /\ ready = Made(13)
        BY <2>1, <2>3, <3>1 DEF Running
      <4>2. Made(5) \subseteq Made(13) /\ "sleep_done" \in Made(13)
        BY MadeIs
      <4> QED BY <4>1, <4>2, WhatSitesUse DEF MadeBeforeHooked
    <3>2. CASE left["main"] # 0
      <4>1. PICK k \in 0 .. 12 : 13 - left["main"] = k
        BY <2>2, <3>2
      <4>2. ours = Begun(k) /\ ready = Made(k)
        BY <2>1, <2>2, <3>2, <4>1 DEF Starting
      <4>3. CASE k \in 0 .. 5
        BY <4>2, <4>3, BegunIs DEF MadeBeforeHooked
      <4>4. CASE k \in 6 .. 11
        <5>1. Begun(k) \subseteq Site \ Handler
          BY <4>4, KernelEntries, Groups, Sites DEF Begun
        <5>2. Made(5) \subseteq Made(k)
          BY <4>4, MadeIs
        <5> QED BY <4>2, <5>1, <5>2, WhatSitesUse DEF MadeBeforeHooked
      <4>5. CASE k = 12
        <5>1. Begun(k) \subseteq Site
          BY <4>5, BegunIs
        <5>2. Made(5) \subseteq Made(k) /\ "sleep_done" \in Made(k)
          BY <4>5, MadeIs
        <5> QED BY <4>2, <5>1, <5>2, WhatSitesUse DEF MadeBeforeHooked
      <4> QED BY <4>3, <4>4, <4>5
    <3> QED BY <3>1, <3>2
  <2>5. OutForGame
    <3> SUFFICES ASSUME game = "out" PROVE ours \subseteq NewSyscalls
      BY DEF OutForGame
    <3>1. left["main"] = 0
      BY <2>1, <2>2 DEF Starting
    <3> QED BY <2>1, <3>1 DEF Running, Expected
  <2>6. BackAfterGame
    <3> SUFFICES ASSUME game = "none", "plugins" \in ready, ~removed PROVE ours = Site
      BY DEF BackAfterGame
    <3> QED BY <2>1, PluginsLast DEF Running, Expected
  <2>7. RemovedTogether
    <3> SUFFICES ASSUME removed, ~met, left["client"] = 0
                 PROVE  \A f \in Removable : Taken(f) \cap ours = {}
      BY DEF RemovedTogether
    <3>1. \A i \in 1 .. 4 : Taken(RemoveSteps[i][2]) \cap ours = {}
      BY <2>1 DEF StaysOut
    <3>2. \A f \in Removable : \E i \in 1 .. 4 : f = RemoveSteps[i][2]
      BY KernelLists DEF Removable
    <3> QED BY <3>1, <3>2
  <2> QED BY <2>1, <2>4, <2>5, <2>6, <2>7 DEF KernelCodeAgrees
<1> QED BY <1>1, KernelAtInit, KernelInvStep, PTL DEF KernelSpec

-----------------------------------------------------------------------------
(* The stubs, instruction by instruction, for any number of parameters.    *)

Op ==
  {"mflr_0", "std_0", "std", "ld", "slot0", "slot1", "li_0", "li_2", "oris_2", "ori_2", "oris_0",
   "ori_0", "subf_0", "mflr_2", "addi_2", "add_2", "ld_0", "mtlr", "blr", "std_2", "bl_next",
   "bl_hook", "ld_2", "cmpwi_3", "bne", "extsw", "cmpwi_4"}
Insts == Seq(Op \X Int)
\* The words that work out where the TOC of the payload is.
TocWords == {"li_0", "li_2", "oris_2", "ori_2", "oris_0", "ori_0", "subf_0"}

\* Two pieces of code put behind one another.
LEMMA Glue ==
  ASSUME NEW s \in Insts, NEW t \in Insts, NEW k \in Nat, Len(s) = k
  PROVE  /\ s \o t \in Insts /\ Len(s \o t) = k + Len(t)
         /\ \A i \in 1 .. k : (s \o t)[i] = s[i]
         /\ \A j \in 1 .. Len(t) : (s \o t)[k + j] = t[j]
<1>1. /\ s \o t \in Insts /\ Len(s \o t) = k + Len(t)
      /\ \A i \in 1 .. k + Len(t) : (s \o t)[i] = IF i <= k THEN s[i] ELSE t[i - k]
  BY ConcatProperties DEF Insts
<1>2. Len(t) \in Nat
  BY DEF Insts
<1>3. ASSUME NEW j \in 1 .. Len(t) PROVE (s \o t)[k + j] = t[j]
  <2>1. k + j \in 1 .. k + Len(t) /\ ~(k + j <= k) /\ (k + j) - k = j
    BY <1>2
  <2> QED BY <1>1, <2>1
<1>4. ASSUME NEW i \in 1 .. k PROVE (s \o t)[i] = s[i]
  <2>1. i \in 1 .. k + Len(t) /\ i <= k
    BY <1>2
  <2> QED BY <1>1, <2>1
<1> QED BY <1>1, <1>3, <1>4

\* The words the stubs are made of.
LEMMA Words ==
  /\ \A op \in Op : I(op) \in Op \X Int
  /\ \A x \in Int : <<"std", x>> \in Op \X Int /\ <<"ld", x>> \in Op \X Int
                     /\ <<"addi_2", x>> \in Op \X Int /\ <<"bne", x>> \in Op \X Int
<1>1. \A op \in Op : I(op) \in Op \X Int
  <2> HIDE DEF Op
  <2> QED BY DEF I
<1>2. "std" \in Op /\ "ld" \in Op /\ "addi_2" \in Op /\ "bne" \in Op
  BY DEF Op
<1> QED BY <1>1, <1>2

\* Sequences written out are sequences over what they hold.
LEMMA ShortSeqs ==
  ASSUME NEW S, NEW a \in S, NEW b \in S, NEW c \in S
  PROVE  /\ <<a>> \in Seq(S) /\ <<a, b>> \in Seq(S) /\ <<a, b, c>> \in Seq(S)
         /\ \A d, e \in S : <<a, b, c, d, e>> \in Seq(S)
OBVIOUS

\* The pieces of the stubs, word by word.
LEMMA Pieces ==
  ASSUME NEW n \in Nat, NEW d \in Int
  PROVE  /\ SaveLink \in Insts /\ Len(SaveLink) = 2
         /\ SaveLink[1] = I("mflr_0") /\ SaveLink[2] = I("std_0")
         /\ SaveParams(n) \in Insts /\ Len(SaveParams(n)) = n
         /\ \A j \in 1 .. n : SaveParams(n)[j] = <<"std", j>>
         /\ LoadParams(n) \in Insts /\ Len(LoadParams(n)) = n
         /\ \A j \in 1 .. n : LoadParams(n)[j] = <<"ld", j>>
         /\ TwoNops \in Insts /\ Len(TwoNops) = 2
         /\ TwoNops[1] = I("slot0") /\ TwoNops[2] = I("slot1")
         /\ FindToc(d) \in Insts /\ Len(FindToc(d)) = 10
         /\ \A j \in 1 .. 7 : FindToc(d)[j][1] \in TocWords
         /\ FindToc(d)[8] = I("mflr_2") /\ FindToc(d)[9] = <<"addi_2", -d>>
         /\ FindToc(d)[10] = I("add_2")
         /\ Leave \in Insts /\ Len(Leave) = 3
         /\ Leave[1] = I("ld_0") /\ Leave[2] = I("mtlr") /\ Leave[3] = I("blr")
<1>1. SaveLink \in Insts /\ TwoNops \in Insts /\ Leave \in Insts
  <2>1. /\ "mflr_0" \in Op /\ "std_0" \in Op /\ "slot0" \in Op /\ "slot1" \in Op
        /\ "ld_0" \in Op /\ "mtlr" \in Op /\ "blr" \in Op
    BY DEF Op
  <2> QED BY <2>1, Words, ShortSeqs DEF SaveLink, TwoNops, Leave, Insts
<1>2. FindToc(d) \in Insts
  <2> DEFINE S == Op \X Int
  <2>1. /\ "li_0" \in Op /\ "li_2" \in Op /\ "oris_2" \in Op /\ "ori_2" \in Op
        /\ "oris_0" \in Op /\ "ori_0" \in Op /\ "subf_0" \in Op /\ "mflr_2" \in Op
        /\ "add_2" \in Op
    BY DEF Op
  <2>2. /\ I("li_0") \in S /\ I("li_2") \in S /\ I("oris_2") \in S /\ I("ori_2") \in S
        /\ I("oris_0") \in S /\ I("ori_0") \in S /\ I("subf_0") \in S /\ I("mflr_2") \in S
        /\ <<"addi_2", -d>> \in S /\ I("add_2") \in S
    <3>1. -d \in Int
      OBVIOUS
    <3> QED BY <2>1, <3>1, Words
  <2> HIDE DEF S
  <2>3. \A a, b, c, e, f, g, h, i, j, k \in S : <<a, b, c, e, f, g, h, i, j, k>> \in Seq(S)
    OBVIOUS
  <2>4. FindToc(d) \in Seq(S)
    BY <2>2, <2>3 DEF FindToc
  <2> QED BY <2>4 DEF Insts, S
<1>3. SaveParams(n) \in Insts /\ LoadParams(n) \in Insts
  <2> DEFINE S == Op \X Int
  <2>1. SaveParams(n) \in [1 .. n -> S] /\ LoadParams(n) \in [1 .. n -> S]
    <3>1. \A j \in 1 .. n : <<"std", j>> \in S /\ <<"ld", j>> \in S
      <4>1. 1 .. n \subseteq Int
        OBVIOUS
      <4> QED BY <4>1, Words
    <3> HIDE DEF S
    <3> QED BY <3>1 DEF SaveParams, LoadParams
  <2> HIDE DEF S
  <2> QED BY <2>1, SeqDef DEF Insts, S
<1>4. /\ Len(SaveLink) = 2 /\ Len(TwoNops) = 2 /\ Len(Leave) = 3 /\ Len(FindToc(d)) = 10
      /\ SaveLink[1] = I("mflr_0") /\ SaveLink[2] = I("std_0")
      /\ TwoNops[1] = I("slot0") /\ TwoNops[2] = I("slot1")
      /\ Leave[1] = I("ld_0") /\ Leave[2] = I("mtlr") /\ Leave[3] = I("blr")
  BY DEF SaveLink, TwoNops, Leave, FindToc
<1>5. /\ \A j \in 1 .. 7 : FindToc(d)[j][1] \in TocWords
      /\ FindToc(d)[8] = I("mflr_2") /\ FindToc(d)[9] = <<"addi_2", -d>>
      /\ FindToc(d)[10] = I("add_2")
  <2>1. /\ FindToc(d)[1] = I("li_0") /\ FindToc(d)[2] = I("li_2") /\ FindToc(d)[3] = I("oris_2")
        /\ FindToc(d)[4] = I("ori_2") /\ FindToc(d)[5] = I("oris_0") /\ FindToc(d)[6] = I("ori_0")
        /\ FindToc(d)[7] = I("subf_0") /\ FindToc(d)[8] = I("mflr_2")
        /\ FindToc(d)[9] = <<"addi_2", -d>> /\ FindToc(d)[10] = I("add_2")
    BY DEF FindToc
  <2>2. \A j \in 1 .. 7 : j = 1 \/ j = 2 \/ j = 3 \/ j = 4 \/ j = 5 \/ j = 6 \/ j = 7
    OBVIOUS
  <2>3. \A op : I(op)[1] = op
    BY DEF I
  <2> QED BY <2>1, <2>2, <2>3 DEF TocWords
<1>6. Len(SaveParams(n)) = n /\ Len(LoadParams(n)) = n
  BY DEF SaveParams, LoadParams
<1>7. \A j \in 1 .. n : SaveParams(n)[j] = <<"std", j>> /\ LoadParams(n)[j] = <<"ld", j>>
  BY DEF SaveParams, LoadParams
<1> QED BY <1>1, <1>2, <1>3, <1>4, <1>5, <1>6, <1>7

\* The pieces between, by name.
SaveToc == <<I("std_2")>>
SaveTocAndLink == <<I("std_2"), I("bl_next")>>
CallHook == <<I("bl_hook"), I("ld_2")>>
TestSuccess(n) == <<I("cmpwi_3"), <<"bne", 14 + n>>, I("std_2")>>
CallHookAndTest(n) ==
  <<I("bl_hook"), I("ld_2"), I("extsw"), I("cmpwi_4"), <<"bne", 3 + n>>>>

\* A sequence of some instructions, and of one sequence after another.
OfSize(s, k) == s \in Insts /\ Len(s) = k
Joined(d, c, s) == d = c \o s
\* A piece of a stub lies at some place.
Has(c, k, s) ==
  /\ k \in Nat /\ s \in Insts /\ k + Len(s) <= Len(c)
  /\ \A j \in 1 .. Len(s) : c[k + j] = s[j]

\* How long each piece is.
LEMMA PieceSizes ==
  ASSUME NEW n \in Nat
  PROVE  /\ OfSize(SaveLink, 2) /\ OfSize(SaveParams(n), n) /\ OfSize(LoadParams(n), n)
         /\ OfSize(TwoNops, 2) /\ OfSize(FindToc(4), 10) /\ OfSize(FindToc(4 + n), 10)
         /\ OfSize(Leave, 3) /\ OfSize(SaveToc, 1) /\ OfSize(SaveTocAndLink, 2)
         /\ OfSize(CallHook, 2) /\ OfSize(TestSuccess(n), 3) /\ OfSize(CallHookAndTest(n), 5)
<1>1. /\ "std_2" \in Op /\ "bl_next" \in Op /\ "bl_hook" \in Op /\ "ld_2" \in Op
      /\ "cmpwi_3" \in Op /\ "extsw" \in Op /\ "cmpwi_4" \in Op
  BY DEF Op
<1>2. 14 + n \in Int /\ 3 + n \in Int /\ 4 \in Int /\ 4 + n \in Int
  OBVIOUS
<1>3. SaveToc \in Insts /\ SaveTocAndLink \in Insts /\ CallHook \in Insts
  BY <1>1, Words, ShortSeqs DEF Insts, SaveToc, SaveTocAndLink, CallHook
<1>4. TestSuccess(n) \in Insts /\ CallHookAndTest(n) \in Insts
  BY <1>1, <1>2, Words, ShortSeqs DEF Insts, TestSuccess, CallHookAndTest
<1>5. Len(SaveToc) = 1 /\ Len(SaveTocAndLink) = 2 /\ Len(CallHook) = 2
  BY DEF SaveToc, SaveTocAndLink, CallHook
<1>6. Len(TestSuccess(n)) = 3 /\ Len(CallHookAndTest(n)) = 5
  BY DEF TestSuccess, CallHookAndTest
<1> QED BY <1>2, <1>3, <1>4, <1>5, <1>6, Pieces DEF OfSize

\* A piece of code stands at its own beginning.
LEMMA HasItself == ASSUME NEW s, NEW k, OfSize(s, k) PROVE Has(s, 0, s)
<1>1. Len(s) \in Nat /\ s \in Insts
  BY DEF Insts, OfSize
<1>2. \A j \in 1 .. Len(s) : s[0 + j] = s[j]
  BY <1>1
<1> QED BY <1>1, <1>2 DEF Has

\* Code that is extended holds what it held, and the new piece at its end.
LEMMA Extended ==
  ASSUME NEW k \in Nat, NEW l \in Nat, NEW c, NEW s, NEW d,
         OfSize(c, k), OfSize(s, l), Joined(d, c, s)
  PROVE  /\ OfSize(d, k + l) /\ Has(d, k, s)
         /\ \A m, u : Has(c, m, u) => Has(d, m, u)
<1>0. c \in Insts /\ s \in Insts /\ d = c \o s /\ Len(c) = k /\ Len(s) = l
  BY DEF OfSize, Joined
<1>1. /\ d \in Insts /\ Len(d) = k + Len(s) /\ \A i \in 1 .. k : d[i] = c[i]
      /\ \A j \in 1 .. Len(s) : d[k + j] = s[j]
  <2>1. c \in Insts /\ s \in Insts /\ Len(c) = k
    BY <1>0
  <2>2. c \o s \in Insts /\ Len(c \o s) = k + Len(s)
    BY <2>1, Glue
  <2>3. \A i \in 1 .. k : (c \o s)[i] = c[i]
    BY <2>1, Glue
  <2>4. \A j \in 1 .. Len(s) : (c \o s)[k + j] = s[j]
    BY <2>1, Glue
  <2>5. d = c \o s
    BY <1>0
  <2> QED BY <2>2, <2>3, <2>4, <2>5
<1>2. ASSUME NEW m, NEW u, Has(c, m, u) PROVE Has(d, m, u)
  <2>1. Len(u) \in Nat /\ m \in Nat /\ m + Len(u) <= k
    BY <1>0, <1>2 DEF Insts, Has
  <2>2. ASSUME NEW j \in 1 .. Len(u) PROVE d[m + j] = u[j]
    <3>1. m + j \in 1 .. k
      BY <2>1
    <3> QED BY <1>1, <1>2, <3>1 DEF Has
  <2>3. m + Len(u) <= Len(d)
    BY <1>0, <1>1, <2>1
  <2> QED BY <1>2, <2>1, <2>2, <2>3 DEF Has
<1>3. Has(d, k, s)
  BY <1>0, <1>1 DEF Has
<1> QED BY <1>0, <1>1, <1>2, <1>3 DEF OfSize

\* Where each piece is in the stub of a hook that replaces the function.
LEMMA PlainCode ==
  ASSUME NEW n \in Nat
  PROVE  /\ Has(Plain, 0, SaveLink)
         /\ Has(Plain, 2, SaveTocAndLink)
         /\ Has(Plain, 4, FindToc(4))
         /\ Has(Plain, 14, CallHook)
         /\ Has(Plain, 16, Leave)
         /\ Has(Plain, 19, TwoNops)
<1>1. PICK w2 : w2 = SaveLink \o SaveTocAndLink
  OBVIOUS
<1>2. /\ OfSize(w2, 4)
      /\ Has(w2, 0, SaveLink)
      /\ Has(w2, 2, SaveTocAndLink)
  <2>1. Joined(w2, SaveLink, SaveTocAndLink)
    BY <1>1 DEF Joined
  <2>2. 2 \in Nat /\ 2 \in Nat /\ (2) + (2) = 4
    OBVIOUS
  <2>3. OfSize(SaveLink, 2) /\ OfSize(SaveTocAndLink, 2)
    BY PieceSizes
  <2> QED BY <2>1, <2>2, <2>3, Extended, HasItself
<1>3. PICK w3 : w3 = w2 \o FindToc(4)
  OBVIOUS
<1>4. /\ OfSize(w3, 14)
      /\ Has(w3, 0, SaveLink)
      /\ Has(w3, 2, SaveTocAndLink)
      /\ Has(w3, 4, FindToc(4))
  <2>1. Joined(w3, w2, FindToc(4))
    BY <1>3 DEF Joined
  <2>2. 4 \in Nat /\ 10 \in Nat /\ (4) + (10) = 14
    OBVIOUS
  <2>3. OfSize(w2, 4) /\ OfSize(FindToc(4), 10)
    BY PieceSizes, <1>2
  <2> QED BY <2>1, <2>2, <2>3, Extended, <1>2
<1>5. PICK w4 : w4 = w3 \o CallHook
  OBVIOUS
<1>6. /\ OfSize(w4, 16)
      /\ Has(w4, 0, SaveLink)
      /\ Has(w4, 2, SaveTocAndLink)
      /\ Has(w4, 4, FindToc(4))
      /\ Has(w4, 14, CallHook)
  <2>1. Joined(w4, w3, CallHook)
    BY <1>5 DEF Joined
  <2>2. 14 \in Nat /\ 2 \in Nat /\ (14) + (2) = 16
    OBVIOUS
  <2>3. OfSize(w3, 14) /\ OfSize(CallHook, 2)
    BY PieceSizes, <1>4
  <2> QED BY <2>1, <2>2, <2>3, Extended, <1>4
<1>7. PICK w5 : w5 = w4 \o Leave
  OBVIOUS
<1>8. /\ OfSize(w5, 19)
      /\ Has(w5, 0, SaveLink)
      /\ Has(w5, 2, SaveTocAndLink)
      /\ Has(w5, 4, FindToc(4))
      /\ Has(w5, 14, CallHook)
      /\ Has(w5, 16, Leave)
  <2>1. Joined(w5, w4, Leave)
    BY <1>7 DEF Joined
  <2>2. 16 \in Nat /\ 3 \in Nat /\ (16) + (3) = 19
    OBVIOUS
  <2>3. OfSize(w4, 16) /\ OfSize(Leave, 3)
    BY PieceSizes, <1>6
  <2> QED BY <2>1, <2>2, <2>3, Extended, <1>6
<1>9. PICK w6 : w6 = w5 \o TwoNops
  OBVIOUS
<1>10. /\ OfSize(w6, 21)
      /\ Has(w6, 0, SaveLink)
      /\ Has(w6, 2, SaveTocAndLink)
      /\ Has(w6, 4, FindToc(4))
      /\ Has(w6, 14, CallHook)
      /\ Has(w6, 16, Leave)
      /\ Has(w6, 19, TwoNops)
  <2>1. Joined(w6, w5, TwoNops)
    BY <1>9 DEF Joined
  <2>2. 19 \in Nat /\ 2 \in Nat /\ (19) + (2) = 21
    OBVIOUS
  <2>3. OfSize(w5, 19) /\ OfSize(TwoNops, 2)
    BY PieceSizes, <1>8
  <2> QED BY <2>1, <2>2, <2>3, Extended, <1>8
<1>11. Plain = w6
  BY <1>1, <1>3, <1>5, <1>7, <1>9 DEF Plain, SaveTocAndLink, CallHook
<1> QED BY <1>10, <1>11

\* Where each piece is in the stub of a hook that runs behind the function.
LEMMA PrecallCode ==
  ASSUME NEW n \in Nat
  PROVE  /\ Has(Precall(n), 0, SaveLink)
         /\ Has(Precall(n), 2, SaveParams(n))
         /\ Has(Precall(n), n + 2, TwoNops)
         /\ Has(Precall(n), n + 4, SaveToc)
         /\ Has(Precall(n), n + 5, LoadParams(n))
         /\ Has(Precall(n), 2 * n + 5, FindToc(4 + n))
         /\ Has(Precall(n), 2 * n + 15, CallHook)
         /\ Has(Precall(n), 2 * n + 17, Leave)
<1>1. PICK w2 : w2 = SaveLink \o SaveParams(n)
  OBVIOUS
<1>2. /\ OfSize(w2, n + 2)
      /\ Has(w2, 0, SaveLink)
      /\ Has(w2, 2, SaveParams(n))
  <2>1. Joined(w2, SaveLink, SaveParams(n))
    BY <1>1 DEF Joined
  <2>2. 2 \in Nat /\ n \in Nat /\ (2) + (n) = n + 2
    OBVIOUS
  <2>3. OfSize(SaveLink, 2) /\ OfSize(SaveParams(n), n)
    BY PieceSizes
  <2> QED BY <2>1, <2>2, <2>3, Extended, HasItself
<1>3. PICK w3 : w3 = w2 \o TwoNops
  OBVIOUS
<1>4. /\ OfSize(w3, n + 4)
      /\ Has(w3, 0, SaveLink)
      /\ Has(w3, 2, SaveParams(n))
      /\ Has(w3, n + 2, TwoNops)
  <2>1. Joined(w3, w2, TwoNops)
    BY <1>3 DEF Joined
  <2>2. n + 2 \in Nat /\ 2 \in Nat /\ (n + 2) + (2) = n + 4
    OBVIOUS
  <2>3. OfSize(w2, n + 2) /\ OfSize(TwoNops, 2)
    BY PieceSizes, <1>2
  <2> QED BY <2>1, <2>2, <2>3, Extended, <1>2
<1>5. PICK w4 : w4 = w3 \o SaveToc
  OBVIOUS
<1>6. /\ OfSize(w4, n + 5)
      /\ Has(w4, 0, SaveLink)
      /\ Has(w4, 2, SaveParams(n))
      /\ Has(w4, n + 2, TwoNops)
      /\ Has(w4, n + 4, SaveToc)
  <2>1. Joined(w4, w3, SaveToc)
    BY <1>5 DEF Joined
  <2>2. n + 4 \in Nat /\ 1 \in Nat /\ (n + 4) + (1) = n + 5
    OBVIOUS
  <2>3. OfSize(w3, n + 4) /\ OfSize(SaveToc, 1)
    BY PieceSizes, <1>4
  <2> QED BY <2>1, <2>2, <2>3, Extended, <1>4
<1>7. PICK w5 : w5 = w4 \o LoadParams(n)
  OBVIOUS
<1>8. /\ OfSize(w5, 2 * n + 5)
      /\ Has(w5, 0, SaveLink)
      /\ Has(w5, 2, SaveParams(n))
      /\ Has(w5, n + 2, TwoNops)
      /\ Has(w5, n + 4, SaveToc)
      /\ Has(w5, n + 5, LoadParams(n))
  <2>1. Joined(w5, w4, LoadParams(n))
    BY <1>7 DEF Joined
  <2>2. n + 5 \in Nat /\ n \in Nat /\ (n + 5) + (n) = 2 * n + 5
    OBVIOUS
  <2>3. OfSize(w4, n + 5) /\ OfSize(LoadParams(n), n)
    BY PieceSizes, <1>6
  <2> QED BY <2>1, <2>2, <2>3, Extended, <1>6
<1>9. PICK w6 : w6 = w5 \o FindToc(4 + n)
  OBVIOUS
<1>10. /\ OfSize(w6, 2 * n + 15)
      /\ Has(w6, 0, SaveLink)
      /\ Has(w6, 2, SaveParams(n))
      /\ Has(w6, n + 2, TwoNops)
      /\ Has(w6, n + 4, SaveToc)
      /\ Has(w6, n + 5, LoadParams(n))
      /\ Has(w6, 2 * n + 5, FindToc(4 + n))
  <2>1. Joined(w6, w5, FindToc(4 + n))
    BY <1>9 DEF Joined
  <2>2. 2 * n + 5 \in Nat /\ 10 \in Nat /\ (2 * n + 5) + (10) = 2 * n + 15
    OBVIOUS
  <2>3. OfSize(w5, 2 * n + 5) /\ OfSize(FindToc(4 + n), 10)
    BY PieceSizes, <1>8
  <2> QED BY <2>1, <2>2, <2>3, Extended, <1>8
<1>11. PICK w7 : w7 = w6 \o CallHook
  OBVIOUS
<1>12. /\ OfSize(w7, 2 * n + 17)
      /\ Has(w7, 0, SaveLink)
      /\ Has(w7, 2, SaveParams(n))
      /\ Has(w7, n + 2, TwoNops)
      /\ Has(w7, n + 4, SaveToc)
      /\ Has(w7, n + 5, LoadParams(n))
      /\ Has(w7, 2 * n + 5, FindToc(4 + n))
      /\ Has(w7, 2 * n + 15, CallHook)
  <2>1. Joined(w7, w6, CallHook)
    BY <1>11 DEF Joined
  <2>2. 2 * n + 15 \in Nat /\ 2 \in Nat /\ (2 * n + 15) + (2) = 2 * n + 17
    OBVIOUS
  <2>3. OfSize(w6, 2 * n + 15) /\ OfSize(CallHook, 2)
    BY PieceSizes, <1>10
  <2> QED BY <2>1, <2>2, <2>3, Extended, <1>10
<1>13. PICK w8 : w8 = w7 \o Leave
  OBVIOUS
<1>14. /\ OfSize(w8, 2 * n + 20)
      /\ Has(w8, 0, SaveLink)
      /\ Has(w8, 2, SaveParams(n))
      /\ Has(w8, n + 2, TwoNops)
      /\ Has(w8, n + 4, SaveToc)
      /\ Has(w8, n + 5, LoadParams(n))
      /\ Has(w8, 2 * n + 5, FindToc(4 + n))
      /\ Has(w8, 2 * n + 15, CallHook)
      /\ Has(w8, 2 * n + 17, Leave)
  <2>1. Joined(w8, w7, Leave)
    BY <1>13 DEF Joined
  <2>2. 2 * n + 17 \in Nat /\ 3 \in Nat /\ (2 * n + 17) + (3) = 2 * n + 20
    OBVIOUS
  <2>3. OfSize(w7, 2 * n + 17) /\ OfSize(Leave, 3)
    BY PieceSizes, <1>12
  <2> QED BY <2>1, <2>2, <2>3, Extended, <1>12
<1>15. Precall(n) = w8
  BY <1>1, <1>3, <1>5, <1>7, <1>9, <1>11, <1>13 DEF Precall, SaveToc, CallHook
<1> QED BY <1>14, <1>15

\* The same for a hook that runs behind a function that succeeds.
LEMMA PrecallSuccessCode ==
  ASSUME NEW n \in Nat
  PROVE  /\ Has(PrecallSuccess(n), 0, SaveLink)
         /\ Has(PrecallSuccess(n), 2, SaveParams(n))
         /\ Has(PrecallSuccess(n), n + 2, TwoNops)
         /\ Has(PrecallSuccess(n), n + 4, TestSuccess(n))
         /\ Has(PrecallSuccess(n), n + 7, LoadParams(n))
         /\ Has(PrecallSuccess(n), 2 * n + 7, FindToc(4 + n))
         /\ Has(PrecallSuccess(n), 2 * n + 17, CallHook)
         /\ Has(PrecallSuccess(n), 2 * n + 19, Leave)
<1>1. PICK w2 : w2 = SaveLink \o SaveParams(n)
  OBVIOUS
<1>2. /\ OfSize(w2, n + 2)
      /\ Has(w2, 0, SaveLink)
      /\ Has(w2, 2, SaveParams(n))
  <2>1. Joined(w2, SaveLink, SaveParams(n))
    BY <1>1 DEF Joined
  <2>2. 2 \in Nat /\ n \in Nat /\ (2) + (n) = n + 2
    OBVIOUS
  <2>3. OfSize(SaveLink, 2) /\ OfSize(SaveParams(n), n)
    BY PieceSizes
  <2> QED BY <2>1, <2>2, <2>3, Extended, HasItself
<1>3. PICK w3 : w3 = w2 \o TwoNops
  OBVIOUS
<1>4. /\ OfSize(w3, n + 4)
      /\ Has(w3, 0, SaveLink)
      /\ Has(w3, 2, SaveParams(n))
      /\ Has(w3, n + 2, TwoNops)
  <2>1. Joined(w3, w2, TwoNops)
    BY <1>3 DEF Joined
  <2>2. n + 2 \in Nat /\ 2 \in Nat /\ (n + 2) + (2) = n + 4
    OBVIOUS
  <2>3. OfSize(w2, n + 2) /\ OfSize(TwoNops, 2)
    BY PieceSizes, <1>2
  <2> QED BY <2>1, <2>2, <2>3, Extended, <1>2
<1>5. PICK w4 : w4 = w3 \o TestSuccess(n)
  OBVIOUS
<1>6. /\ OfSize(w4, n + 7)
      /\ Has(w4, 0, SaveLink)
      /\ Has(w4, 2, SaveParams(n))
      /\ Has(w4, n + 2, TwoNops)
      /\ Has(w4, n + 4, TestSuccess(n))
  <2>1. Joined(w4, w3, TestSuccess(n))
    BY <1>5 DEF Joined
  <2>2. n + 4 \in Nat /\ 3 \in Nat /\ (n + 4) + (3) = n + 7
    OBVIOUS
  <2>3. OfSize(w3, n + 4) /\ OfSize(TestSuccess(n), 3)
    BY PieceSizes, <1>4
  <2> QED BY <2>1, <2>2, <2>3, Extended, <1>4
<1>7. PICK w5 : w5 = w4 \o LoadParams(n)
  OBVIOUS
<1>8. /\ OfSize(w5, 2 * n + 7)
      /\ Has(w5, 0, SaveLink)
      /\ Has(w5, 2, SaveParams(n))
      /\ Has(w5, n + 2, TwoNops)
      /\ Has(w5, n + 4, TestSuccess(n))
      /\ Has(w5, n + 7, LoadParams(n))
  <2>1. Joined(w5, w4, LoadParams(n))
    BY <1>7 DEF Joined
  <2>2. n + 7 \in Nat /\ n \in Nat /\ (n + 7) + (n) = 2 * n + 7
    OBVIOUS
  <2>3. OfSize(w4, n + 7) /\ OfSize(LoadParams(n), n)
    BY PieceSizes, <1>6
  <2> QED BY <2>1, <2>2, <2>3, Extended, <1>6
<1>9. PICK w6 : w6 = w5 \o FindToc(4 + n)
  OBVIOUS
<1>10. /\ OfSize(w6, 2 * n + 17)
      /\ Has(w6, 0, SaveLink)
      /\ Has(w6, 2, SaveParams(n))
      /\ Has(w6, n + 2, TwoNops)
      /\ Has(w6, n + 4, TestSuccess(n))
      /\ Has(w6, n + 7, LoadParams(n))
      /\ Has(w6, 2 * n + 7, FindToc(4 + n))
  <2>1. Joined(w6, w5, FindToc(4 + n))
    BY <1>9 DEF Joined
  <2>2. 2 * n + 7 \in Nat /\ 10 \in Nat /\ (2 * n + 7) + (10) = 2 * n + 17
    OBVIOUS
  <2>3. OfSize(w5, 2 * n + 7) /\ OfSize(FindToc(4 + n), 10)
    BY PieceSizes, <1>8
  <2> QED BY <2>1, <2>2, <2>3, Extended, <1>8
<1>11. PICK w7 : w7 = w6 \o CallHook
  OBVIOUS
<1>12. /\ OfSize(w7, 2 * n + 19)
      /\ Has(w7, 0, SaveLink)
      /\ Has(w7, 2, SaveParams(n))
      /\ Has(w7, n + 2, TwoNops)
      /\ Has(w7, n + 4, TestSuccess(n))
      /\ Has(w7, n + 7, LoadParams(n))
      /\ Has(w7, 2 * n + 7, FindToc(4 + n))
      /\ Has(w7, 2 * n + 17, CallHook)
  <2>1. Joined(w7, w6, CallHook)
    BY <1>11 DEF Joined
  <2>2. 2 * n + 17 \in Nat /\ 2 \in Nat /\ (2 * n + 17) + (2) = 2 * n + 19
    OBVIOUS
  <2>3. OfSize(w6, 2 * n + 17) /\ OfSize(CallHook, 2)
    BY PieceSizes, <1>10
  <2> QED BY <2>1, <2>2, <2>3, Extended, <1>10
<1>13. PICK w8 : w8 = w7 \o Leave
  OBVIOUS
<1>14. /\ OfSize(w8, 2 * n + 22)
      /\ Has(w8, 0, SaveLink)
      /\ Has(w8, 2, SaveParams(n))
      /\ Has(w8, n + 2, TwoNops)
      /\ Has(w8, n + 4, TestSuccess(n))
      /\ Has(w8, n + 7, LoadParams(n))
      /\ Has(w8, 2 * n + 7, FindToc(4 + n))
      /\ Has(w8, 2 * n + 17, CallHook)
      /\ Has(w8, 2 * n + 19, Leave)
  <2>1. Joined(w8, w7, Leave)
    BY <1>13 DEF Joined
  <2>2. 2 * n + 19 \in Nat /\ 3 \in Nat /\ (2 * n + 19) + (3) = 2 * n + 22
    OBVIOUS
  <2>3. OfSize(w7, 2 * n + 19) /\ OfSize(Leave, 3)
    BY PieceSizes, <1>12
  <2> QED BY <2>1, <2>2, <2>3, Extended, <1>12
<1>15. PrecallSuccess(n) = w8
  BY <1>1, <1>3, <1>5, <1>7, <1>9, <1>11, <1>13 DEF PrecallSuccess, TestSuccess, CallHook
<1> QED BY <1>14, <1>15

\* Where each piece is in the stub of a hook that runs before the function.
LEMMA PostcallCode ==
  ASSUME NEW n \in Nat
  PROVE  /\ Has(Postcall(n), 0, SaveLink)
         /\ Has(Postcall(n), 2, SaveTocAndLink)
         /\ Has(Postcall(n), 4, FindToc(4))
         /\ Has(Postcall(n), 14, SaveParams(n))
         /\ Has(Postcall(n), n + 14, CallHook)
         /\ Has(Postcall(n), n + 16, LoadParams(n))
         /\ Has(Postcall(n), 2 * n + 16, TwoNops)
         /\ Has(Postcall(n), 2 * n + 18, Leave)
<1>1. PICK w2 : w2 = SaveLink \o SaveTocAndLink
  OBVIOUS
<1>2. /\ OfSize(w2, 4)
      /\ Has(w2, 0, SaveLink)
      /\ Has(w2, 2, SaveTocAndLink)
  <2>1. Joined(w2, SaveLink, SaveTocAndLink)
    BY <1>1 DEF Joined
  <2>2. 2 \in Nat /\ 2 \in Nat /\ (2) + (2) = 4
    OBVIOUS
  <2>3. OfSize(SaveLink, 2) /\ OfSize(SaveTocAndLink, 2)
    BY PieceSizes
  <2> QED BY <2>1, <2>2, <2>3, Extended, HasItself
<1>3. PICK w3 : w3 = w2 \o FindToc(4)
  OBVIOUS
<1>4. /\ OfSize(w3, 14)
      /\ Has(w3, 0, SaveLink)
      /\ Has(w3, 2, SaveTocAndLink)
      /\ Has(w3, 4, FindToc(4))
  <2>1. Joined(w3, w2, FindToc(4))
    BY <1>3 DEF Joined
  <2>2. 4 \in Nat /\ 10 \in Nat /\ (4) + (10) = 14
    OBVIOUS
  <2>3. OfSize(w2, 4) /\ OfSize(FindToc(4), 10)
    BY PieceSizes, <1>2
  <2> QED BY <2>1, <2>2, <2>3, Extended, <1>2
<1>5. PICK w4 : w4 = w3 \o SaveParams(n)
  OBVIOUS
<1>6. /\ OfSize(w4, n + 14)
      /\ Has(w4, 0, SaveLink)
      /\ Has(w4, 2, SaveTocAndLink)
      /\ Has(w4, 4, FindToc(4))
      /\ Has(w4, 14, SaveParams(n))
  <2>1. Joined(w4, w3, SaveParams(n))
    BY <1>5 DEF Joined
  <2>2. 14 \in Nat /\ n \in Nat /\ (14) + (n) = n + 14
    OBVIOUS
  <2>3. OfSize(w3, 14) /\ OfSize(SaveParams(n), n)
    BY PieceSizes, <1>4
  <2> QED BY <2>1, <2>2, <2>3, Extended, <1>4
<1>7. PICK w5 : w5 = w4 \o CallHook
  OBVIOUS
<1>8. /\ OfSize(w5, n + 16)
      /\ Has(w5, 0, SaveLink)
      /\ Has(w5, 2, SaveTocAndLink)
      /\ Has(w5, 4, FindToc(4))
      /\ Has(w5, 14, SaveParams(n))
      /\ Has(w5, n + 14, CallHook)
  <2>1. Joined(w5, w4, CallHook)
    BY <1>7 DEF Joined
  <2>2. n + 14 \in Nat /\ 2 \in Nat /\ (n + 14) + (2) = n + 16
    OBVIOUS
  <2>3. OfSize(w4, n + 14) /\ OfSize(CallHook, 2)
    BY PieceSizes, <1>6
  <2> QED BY <2>1, <2>2, <2>3, Extended, <1>6
<1>9. PICK w6 : w6 = w5 \o LoadParams(n)
  OBVIOUS
<1>10. /\ OfSize(w6, 2 * n + 16)
      /\ Has(w6, 0, SaveLink)
      /\ Has(w6, 2, SaveTocAndLink)
      /\ Has(w6, 4, FindToc(4))
      /\ Has(w6, 14, SaveParams(n))
      /\ Has(w6, n + 14, CallHook)
      /\ Has(w6, n + 16, LoadParams(n))
  <2>1. Joined(w6, w5, LoadParams(n))
    BY <1>9 DEF Joined
  <2>2. n + 16 \in Nat /\ n \in Nat /\ (n + 16) + (n) = 2 * n + 16
    OBVIOUS
  <2>3. OfSize(w5, n + 16) /\ OfSize(LoadParams(n), n)
    BY PieceSizes, <1>8
  <2> QED BY <2>1, <2>2, <2>3, Extended, <1>8
<1>11. PICK w7 : w7 = w6 \o TwoNops
  OBVIOUS
<1>12. /\ OfSize(w7, 2 * n + 18)
      /\ Has(w7, 0, SaveLink)
      /\ Has(w7, 2, SaveTocAndLink)
      /\ Has(w7, 4, FindToc(4))
      /\ Has(w7, 14, SaveParams(n))
      /\ Has(w7, n + 14, CallHook)
      /\ Has(w7, n + 16, LoadParams(n))
      /\ Has(w7, 2 * n + 16, TwoNops)
  <2>1. Joined(w7, w6, TwoNops)
    BY <1>11 DEF Joined
  <2>2. 2 * n + 16 \in Nat /\ 2 \in Nat /\ (2 * n + 16) + (2) = 2 * n + 18
    OBVIOUS
  <2>3. OfSize(w6, 2 * n + 16) /\ OfSize(TwoNops, 2)
    BY PieceSizes, <1>10
  <2> QED BY <2>1, <2>2, <2>3, Extended, <1>10
<1>13. PICK w8 : w8 = w7 \o Leave
  OBVIOUS
<1>14. /\ OfSize(w8, 2 * n + 21)
      /\ Has(w8, 0, SaveLink)
      /\ Has(w8, 2, SaveTocAndLink)
      /\ Has(w8, 4, FindToc(4))
      /\ Has(w8, 14, SaveParams(n))
      /\ Has(w8, n + 14, CallHook)
      /\ Has(w8, n + 16, LoadParams(n))
      /\ Has(w8, 2 * n + 16, TwoNops)
      /\ Has(w8, 2 * n + 18, Leave)
  <2>1. Joined(w8, w7, Leave)
    BY <1>13 DEF Joined
  <2>2. 2 * n + 18 \in Nat /\ 3 \in Nat /\ (2 * n + 18) + (3) = 2 * n + 21
    OBVIOUS
  <2>3. OfSize(w7, 2 * n + 18) /\ OfSize(Leave, 3)
    BY PieceSizes, <1>12
  <2> QED BY <2>1, <2>2, <2>3, Extended, <1>12
<1>15. Postcall(n) = w8
  BY <1>1, <1>3, <1>5, <1>7, <1>9, <1>11, <1>13 DEF Postcall, SaveTocAndLink, CallHook
<1> QED BY <1>14, <1>15

\* The same for a hook that decides if the function is run.
LEMMA CondPostcallCode ==
  ASSUME NEW n \in Nat
  PROVE  /\ Has(CondPostcall(n), 0, SaveLink)
         /\ Has(CondPostcall(n), 2, SaveTocAndLink)
         /\ Has(CondPostcall(n), 4, FindToc(4))
         /\ Has(CondPostcall(n), 14, SaveParams(n))
         /\ Has(CondPostcall(n), n + 14, CallHookAndTest(n))
         /\ Has(CondPostcall(n), n + 19, LoadParams(n))
         /\ Has(CondPostcall(n), 2 * n + 19, TwoNops)
         /\ Has(CondPostcall(n), 2 * n + 21, Leave)
<1>1. PICK w2 : w2 = SaveLink \o SaveTocAndLink
  OBVIOUS
<1>2. /\ OfSize(w2, 4)
      /\ Has(w2, 0, SaveLink)
      /\ Has(w2, 2, SaveTocAndLink)
  <2>1. Joined(w2, SaveLink, SaveTocAndLink)
    BY <1>1 DEF Joined
  <2>2. 2 \in Nat /\ 2 \in Nat /\ (2) + (2) = 4
    OBVIOUS
  <2>3. OfSize(SaveLink, 2) /\ OfSize(SaveTocAndLink, 2)
    BY PieceSizes
  <2> QED BY <2>1, <2>2, <2>3, Extended, HasItself
<1>3. PICK w3 : w3 = w2 \o FindToc(4)
  OBVIOUS
<1>4. /\ OfSize(w3, 14)
      /\ Has(w3, 0, SaveLink)
      /\ Has(w3, 2, SaveTocAndLink)
      /\ Has(w3, 4, FindToc(4))
  <2>1. Joined(w3, w2, FindToc(4))
    BY <1>3 DEF Joined
  <2>2. 4 \in Nat /\ 10 \in Nat /\ (4) + (10) = 14
    OBVIOUS
  <2>3. OfSize(w2, 4) /\ OfSize(FindToc(4), 10)
    BY PieceSizes, <1>2
  <2> QED BY <2>1, <2>2, <2>3, Extended, <1>2
<1>5. PICK w4 : w4 = w3 \o SaveParams(n)
  OBVIOUS
<1>6. /\ OfSize(w4, n + 14)
      /\ Has(w4, 0, SaveLink)
      /\ Has(w4, 2, SaveTocAndLink)
      /\ Has(w4, 4, FindToc(4))
      /\ Has(w4, 14, SaveParams(n))
  <2>1. Joined(w4, w3, SaveParams(n))
    BY <1>5 DEF Joined
  <2>2. 14 \in Nat /\ n \in Nat /\ (14) + (n) = n + 14
    OBVIOUS
  <2>3. OfSize(w3, 14) /\ OfSize(SaveParams(n), n)
    BY PieceSizes, <1>4
  <2> QED BY <2>1, <2>2, <2>3, Extended, <1>4
<1>7. PICK w5 : w5 = w4 \o CallHookAndTest(n)
  OBVIOUS
<1>8. /\ OfSize(w5, n + 19)
      /\ Has(w5, 0, SaveLink)
      /\ Has(w5, 2, SaveTocAndLink)
      /\ Has(w5, 4, FindToc(4))
      /\ Has(w5, 14, SaveParams(n))
      /\ Has(w5, n + 14, CallHookAndTest(n))
  <2>1. Joined(w5, w4, CallHookAndTest(n))
    BY <1>7 DEF Joined
  <2>2. n + 14 \in Nat /\ 5 \in Nat /\ (n + 14) + (5) = n + 19
    OBVIOUS
  <2>3. OfSize(w4, n + 14) /\ OfSize(CallHookAndTest(n), 5)
    BY PieceSizes, <1>6
  <2> QED BY <2>1, <2>2, <2>3, Extended, <1>6
<1>9. PICK w6 : w6 = w5 \o LoadParams(n)
  OBVIOUS
<1>10. /\ OfSize(w6, 2 * n + 19)
      /\ Has(w6, 0, SaveLink)
      /\ Has(w6, 2, SaveTocAndLink)
      /\ Has(w6, 4, FindToc(4))
      /\ Has(w6, 14, SaveParams(n))
      /\ Has(w6, n + 14, CallHookAndTest(n))
      /\ Has(w6, n + 19, LoadParams(n))
  <2>1. Joined(w6, w5, LoadParams(n))
    BY <1>9 DEF Joined
  <2>2. n + 19 \in Nat /\ n \in Nat /\ (n + 19) + (n) = 2 * n + 19
    OBVIOUS
  <2>3. OfSize(w5, n + 19) /\ OfSize(LoadParams(n), n)
    BY PieceSizes, <1>8
  <2> QED BY <2>1, <2>2, <2>3, Extended, <1>8
<1>11. PICK w7 : w7 = w6 \o TwoNops
  OBVIOUS
<1>12. /\ OfSize(w7, 2 * n + 21)
      /\ Has(w7, 0, SaveLink)
      /\ Has(w7, 2, SaveTocAndLink)
      /\ Has(w7, 4, FindToc(4))
      /\ Has(w7, 14, SaveParams(n))
      /\ Has(w7, n + 14, CallHookAndTest(n))
      /\ Has(w7, n + 19, LoadParams(n))
      /\ Has(w7, 2 * n + 19, TwoNops)
  <2>1. Joined(w7, w6, TwoNops)
    BY <1>11 DEF Joined
  <2>2. 2 * n + 19 \in Nat /\ 2 \in Nat /\ (2 * n + 19) + (2) = 2 * n + 21
    OBVIOUS
  <2>3. OfSize(w6, 2 * n + 19) /\ OfSize(TwoNops, 2)
    BY PieceSizes, <1>10
  <2> QED BY <2>1, <2>2, <2>3, Extended, <1>10
<1>13. PICK w8 : w8 = w7 \o Leave
  OBVIOUS
<1>14. /\ OfSize(w8, 2 * n + 24)
      /\ Has(w8, 0, SaveLink)
      /\ Has(w8, 2, SaveTocAndLink)
      /\ Has(w8, 4, FindToc(4))
      /\ Has(w8, 14, SaveParams(n))
      /\ Has(w8, n + 14, CallHookAndTest(n))
      /\ Has(w8, n + 19, LoadParams(n))
      /\ Has(w8, 2 * n + 19, TwoNops)
      /\ Has(w8, 2 * n + 21, Leave)
  <2>1. Joined(w8, w7, Leave)
    BY <1>13 DEF Joined
  <2>2. 2 * n + 21 \in Nat /\ 3 \in Nat /\ (2 * n + 21) + (3) = 2 * n + 24
    OBVIOUS
  <2>3. OfSize(w7, 2 * n + 21) /\ OfSize(Leave, 3)
    BY PieceSizes, <1>12
  <2> QED BY <2>1, <2>2, <2>3, Extended, <1>12
<1>15. CondPostcall(n) = w8
  BY <1>1, <1>3, <1>5, <1>7, <1>9, <1>11, <1>13 DEF CondPostcall, SaveTocAndLink, CallHookAndTest
<1> QED BY <1>14, <1>15

-----------------------------------------------------------------------------
(* What one instruction does to the registers of a thread.                 *)

Fields == {"pc", "at", "stub", "first", "link", "kept", "toc", "args", "saved", "loaded",
           "result", "base", "log"}
Regs(r) ==
  /\ DOMAIN r = Fields
  /\ r.at \in Nat /\ r.saved \in Nat /\ r.loaded \in Nat /\ r.base \in Int /\ r.link \in Int
  /\ r.kept \in Int
Goes(r, q) == Regs(q) /\ q.pc = r.pc /\ q.stub = r.stub /\ q.at = r.at + 1
SameLink(r, q) == q.link = r.link /\ q.kept = r.kept
SameArgs(r, q) == q.args = r.args /\ q.saved = r.saved /\ q.loaded = r.loaded
SameToc(r, q) == q.toc = r.toc /\ q.base = r.base
SamePast(r, q) == q.first = r.first /\ q.result = r.result /\ q.log = r.log

Quiet == {"mflr_0", "std_2", "li_0", "li_2", "oris_2", "ori_2", "oris_0", "ori_0", "subf_0",
          "ld_0", "cmpwi_3", "extsw", "cmpwi_4"}

\* The word that a thread is at.
AtWord(r, op, x) ==
  Code(shape.kind, shape.n)[r.at + 1][1] = op /\ Code(shape.kind, shape.n)[r.at + 1][2] = x

\* A word that changes none of the registers that matter here.
LEMMA QuietWord ==
  ASSUME NEW r, Regs(r), NEW q \in Execute(r), NEW op \in Quiet, NEW x, AtWord(r, op, x)
  PROVE  Goes(r, q) /\ SameLink(r, q) /\ SameArgs(r, q) /\ SameToc(r, q) /\ SamePast(r, q)
<1>1. q = [r EXCEPT !.at = @ + 1]
  BY DEF Execute, AtWord, Quiet
<1>2. DOMAIN q = Fields /\ q.at = r.at + 1 /\ q.pc = r.pc /\ q.stub = r.stub
  BY <1>1 DEF Regs, Fields
<1>3. /\ SameLink(r, q)
      /\ SameArgs(r, q)
      /\ SameToc(r, q)
      /\ SamePast(r, q)
  BY <1>1 DEF Regs, SameLink, SameArgs, SameToc, SamePast, Fields
<1>4. q.at \in Nat
  BY <1>2 DEF Regs
<1>5. q.saved \in Nat /\ q.loaded \in Nat /\ q.base \in Int /\ q.link \in Int /\ q.kept \in Int
  BY <1>3 DEF Regs, SameLink, SameArgs, SameToc, SamePast
<1> QED BY <1>2, <1>3, <1>4, <1>5 DEF Regs, Goes

\* The link register is kept in the frame of the caller.
LEMMA StdLink ==
  ASSUME NEW r, Regs(r), NEW q \in Execute(r), NEW x, AtWord(r, "std_0", x)
  PROVE  /\ Goes(r, q) /\ SameArgs(r, q) /\ SameToc(r, q) /\ SamePast(r, q)
         /\ q.link = r.link /\ q.kept = r.link
<1>1. q = [[r EXCEPT !.at = @ + 1] EXCEPT !.kept = r.link]
  BY DEF Execute, AtWord
<1>2. DOMAIN q = Fields /\ q.at = r.at + 1 /\ q.pc = r.pc /\ q.stub = r.stub
  BY <1>1 DEF Regs, Fields
<1>3. /\ SameArgs(r, q)
      /\ SameToc(r, q)
      /\ SamePast(r, q)
      /\ q.link = r.link
      /\ q.kept = r.link
  BY <1>1 DEF Regs, SameArgs, SameToc, SamePast, Fields
<1>4. q.at \in Nat
  BY <1>2 DEF Regs
<1>5. q.saved \in Nat /\ q.loaded \in Nat /\ q.base \in Int /\ q.link \in Int /\ q.kept \in Int
  BY <1>3 DEF Regs, SameArgs, SameToc, SamePast
<1> QED BY <1>2, <1>3, <1>4, <1>5 DEF Regs, Goes

\* The link register takes the next place of the stub.
LEMMA BlNext ==
  ASSUME NEW r, Regs(r), NEW q \in Execute(r), NEW x, AtWord(r, "bl_next", x)
  PROVE  /\ Goes(r, q) /\ SameArgs(r, q) /\ SameToc(r, q) /\ SamePast(r, q)
         /\ q.link = r.at + 1 /\ q.kept = r.kept
<1>1. q = [[r EXCEPT !.at = @ + 1] EXCEPT !.link = r.at + 1]
  BY DEF Execute, AtWord
<1>2. DOMAIN q = Fields /\ q.at = r.at + 1 /\ q.pc = r.pc /\ q.stub = r.stub
  BY <1>1 DEF Regs, Fields
<1>3. /\ SameArgs(r, q)
      /\ SameToc(r, q)
      /\ SamePast(r, q)
      /\ q.link = r.at + 1
      /\ q.kept = r.kept
  BY <1>1 DEF Regs, SameArgs, SameToc, SamePast, Fields
<1>4. q.at \in Nat
  BY <1>2 DEF Regs
<1>5. q.saved \in Nat /\ q.loaded \in Nat /\ q.base \in Int /\ q.link \in Int /\ q.kept \in Int
  BY <1>3 DEF Regs, SameArgs, SameToc, SamePast
<1> QED BY <1>2, <1>3, <1>4, <1>5 DEF Regs, Goes

\* The link register takes back what was kept.
LEMMA Mtlr ==
  ASSUME NEW r, Regs(r), NEW q \in Execute(r), NEW x, AtWord(r, "mtlr", x)
  PROVE  /\ Goes(r, q) /\ SameArgs(r, q) /\ SameToc(r, q) /\ SamePast(r, q)
         /\ q.link = r.kept /\ q.kept = r.kept
<1>1. q = [[r EXCEPT !.at = @ + 1] EXCEPT !.link = r.kept]
  BY DEF Execute, AtWord
<1>2. DOMAIN q = Fields /\ q.at = r.at + 1 /\ q.pc = r.pc /\ q.stub = r.stub
  BY <1>1 DEF Regs, Fields
<1>3. /\ SameArgs(r, q)
      /\ SameToc(r, q)
      /\ SamePast(r, q)
      /\ q.link = r.kept
      /\ q.kept = r.kept
  BY <1>1 DEF Regs, SameArgs, SameToc, SamePast, Fields
<1>4. q.at \in Nat
  BY <1>2 DEF Regs
<1>5. q.saved \in Nat /\ q.loaded \in Nat /\ q.base \in Int /\ q.link \in Int /\ q.kept \in Int
  BY <1>3 DEF Regs, SameArgs, SameToc, SamePast
<1> QED BY <1>2, <1>3, <1>4, <1>5 DEF Regs, Goes

\* The stub comes to its end.
LEMMA Blr ==
  ASSUME NEW r, Regs(r), NEW q \in Execute(r), NEW x, AtWord(r, "blr", x)
  PROVE  /\ Regs(q) /\ q.pc = "return" /\ q.stub = r.stub /\ q.at = r.at
         /\ SameLink(r, q) /\ SameArgs(r, q) /\ SameToc(r, q) /\ SamePast(r, q)
<1>1. q = [r EXCEPT !.pc = "return"]
  BY DEF Execute, AtWord
<1> QED BY <1>1 DEF Regs, SameLink, SameArgs, SameToc, SamePast, Fields

\* One more parameter is kept.
LEMMA Std ==
  ASSUME NEW r, Regs(r), NEW q \in Execute(r), NEW x, AtWord(r, "std", x), r.args
  PROVE  /\ Goes(r, q) /\ SameLink(r, q) /\ SameToc(r, q) /\ SamePast(r, q)
         /\ q.args = r.args /\ q.loaded = r.loaded /\ q.saved = r.saved + 1
<1>1. q = [[r EXCEPT !.at = @ + 1] EXCEPT !.saved = @ + 1]
  BY DEF Execute, AtWord
<1>2. DOMAIN q = Fields /\ q.at = r.at + 1 /\ q.pc = r.pc /\ q.stub = r.stub
  BY <1>1 DEF Regs, Fields
<1>3. /\ SameLink(r, q)
      /\ SameToc(r, q)
      /\ SamePast(r, q)
      /\ q.args = r.args
      /\ q.loaded = r.loaded
      /\ q.saved = r.saved + 1
  BY <1>1 DEF Regs, SameLink, SameToc, SamePast, Fields
<1>4. q.at \in Nat
  BY <1>2 DEF Regs
<1>5. q.saved \in Nat /\ q.loaded \in Nat /\ q.base \in Int /\ q.link \in Int /\ q.kept \in Int
  BY <1>3 DEF Regs, SameLink, SameToc, SamePast
<1> QED BY <1>2, <1>3, <1>4, <1>5 DEF Regs, Goes

\* One more parameter is taken back.
LEMMA Ld ==
  ASSUME NEW r, Regs(r), NEW q \in Execute(r), NEW x \in Nat, AtWord(r, "ld", x), x <= r.saved
  PROVE  /\ Goes(r, q) /\ SameLink(r, q) /\ SameToc(r, q) /\ SamePast(r, q)
         /\ q.saved = r.saved /\ q.loaded = r.loaded + 1
         /\ q.args <=> r.args \/ r.loaded + 1 = shape.n
<1>1. q = [[r EXCEPT !.at = @ + 1] EXCEPT !.loaded = r.loaded + 1,
                                          !.args = @ \/ r.loaded + 1 = shape.n]
  BY DEF Execute, AtWord, Regs
<1>2. DOMAIN q = Fields /\ q.at = r.at + 1 /\ q.pc = r.pc /\ q.stub = r.stub
  BY <1>1 DEF Regs, Fields
<1>3. /\ SameLink(r, q)
      /\ SameToc(r, q)
      /\ SamePast(r, q)
      /\ q.saved = r.saved
      /\ q.loaded = r.loaded + 1
      /\ q.args <=> r.args \/ r.loaded + 1 = shape.n
  BY <1>1 DEF Regs, SameLink, SameToc, SamePast, Fields
<1>4. q.at \in Nat
  BY <1>2 DEF Regs
<1>5. q.saved \in Nat /\ q.loaded \in Nat /\ q.base \in Int /\ q.link \in Int /\ q.kept \in Int
  BY <1>3 DEF Regs, SameLink, SameToc, SamePast
<1> QED BY <1>2, <1>3, <1>4, <1>5 DEF Regs, Goes

\* The place that the link register holds is taken for a base.
LEMMA MflrToc ==
  ASSUME NEW r, Regs(r), NEW q \in Execute(r), NEW x, AtWord(r, "mflr_2", x)
  PROVE  /\ Goes(r, q) /\ SameLink(r, q) /\ SameArgs(r, q) /\ SamePast(r, q)
         /\ q.toc = r.toc /\ q.base = r.link
<1>1. q = [[r EXCEPT !.at = @ + 1] EXCEPT !.base = r.link]
  BY DEF Execute, AtWord
<1>2. DOMAIN q = Fields /\ q.at = r.at + 1 /\ q.pc = r.pc /\ q.stub = r.stub
  BY <1>1 DEF Regs, Fields
<1>3. /\ SameLink(r, q)
      /\ SameArgs(r, q)
      /\ SamePast(r, q)
      /\ q.toc = r.toc
      /\ q.base = r.link
  BY <1>1 DEF Regs, SameLink, SameArgs, SamePast, Fields
<1>4. q.at \in Nat
  BY <1>2 DEF Regs
<1>5. q.saved \in Nat /\ q.loaded \in Nat /\ q.base \in Int /\ q.link \in Int /\ q.kept \in Int
  BY <1>3 DEF Regs, SameLink, SameArgs, SamePast
<1> QED BY <1>2, <1>3, <1>4, <1>5 DEF Regs, Goes

\* The distance the macro knows is taken off the base.
LEMMA AddiToc ==
  ASSUME NEW r, Regs(r), NEW q \in Execute(r), NEW x \in Int, AtWord(r, "addi_2", x)
  PROVE  /\ Goes(r, q) /\ SameLink(r, q) /\ SameArgs(r, q) /\ SamePast(r, q)
         /\ q.toc = r.toc /\ q.base = r.base + x
<1>1. q = [[r EXCEPT !.at = @ + 1] EXCEPT !.base = @ + x]
  BY DEF Execute, AtWord
<1>2. DOMAIN q = Fields /\ q.at = r.at + 1 /\ q.pc = r.pc /\ q.stub = r.stub
  BY <1>1 DEF Regs, Fields
<1>3. /\ SameLink(r, q)
      /\ SameArgs(r, q)
      /\ SamePast(r, q)
      /\ q.toc = r.toc
      /\ q.base = r.base + x
  BY <1>1 DEF Regs, SameLink, SameArgs, SamePast, Fields
<1>4. q.at \in Nat
  BY <1>2 DEF Regs
<1>5. q.saved \in Nat /\ q.loaded \in Nat /\ q.base \in Int /\ q.link \in Int /\ q.kept \in Int
  BY <1>3 DEF Regs, SameLink, SameArgs, SamePast
<1> QED BY <1>2, <1>3, <1>4, <1>5 DEF Regs, Goes

\* From the beginning of the stub on, the TOC of the payload is found.
LEMMA AddToc ==
  ASSUME NEW r, Regs(r), NEW q \in Execute(r), NEW x, AtWord(r, "add_2", x), r.base = 0
  PROVE  /\ Goes(r, q) /\ SameLink(r, q) /\ SameArgs(r, q) /\ SamePast(r, q)
         /\ q.toc = "payload" /\ q.base = r.base
<1>1. q = [[r EXCEPT !.at = @ + 1] EXCEPT !.toc = "payload"]
  BY DEF Execute, AtWord
<1>2. DOMAIN q = Fields /\ q.at = r.at + 1 /\ q.pc = r.pc /\ q.stub = r.stub
  BY <1>1 DEF Regs, Fields
<1>3. /\ SameLink(r, q)
      /\ SameArgs(r, q)
      /\ SamePast(r, q)
      /\ q.toc = "payload"
      /\ q.base = r.base
  BY <1>1 DEF Regs, SameLink, SameArgs, SamePast, Fields
<1>4. q.at \in Nat
  BY <1>2 DEF Regs
<1>5. q.saved \in Nat /\ q.loaded \in Nat /\ q.base \in Int /\ q.link \in Int /\ q.kept \in Int
  BY <1>3 DEF Regs, SameLink, SameArgs, SamePast
<1> QED BY <1>2, <1>3, <1>4, <1>5 DEF Regs, Goes

\* The TOC of the kernel is taken back.
LEMMA LdToc ==
  ASSUME NEW r, Regs(r), NEW q \in Execute(r), NEW x, AtWord(r, "ld_2", x)
  PROVE  /\ Goes(r, q) /\ SameLink(r, q) /\ SameArgs(r, q) /\ SamePast(r, q)
         /\ q.toc = "kernel" /\ q.base = r.base
<1>1. q = [[r EXCEPT !.at = @ + 1] EXCEPT !.toc = "kernel"]
  BY DEF Execute, AtWord
<1>2. DOMAIN q = Fields /\ q.at = r.at + 1 /\ q.pc = r.pc /\ q.stub = r.stub
  BY <1>1 DEF Regs, Fields
<1>3. /\ SameLink(r, q)
      /\ SameArgs(r, q)
      /\ SamePast(r, q)
      /\ q.toc = "kernel"
      /\ q.base = r.base
  BY <1>1 DEF Regs, SameLink, SameArgs, SamePast, Fields
<1>4. q.at \in Nat
  BY <1>2 DEF Regs
<1>5. q.saved \in Nat /\ q.loaded \in Nat /\ q.base \in Int /\ q.link \in Int /\ q.kept \in Int
  BY <1>3 DEF Regs, SameLink, SameArgs, SamePast
<1> QED BY <1>2, <1>3, <1>4, <1>5 DEF Regs, Goes

\* The stub goes on or leaves, as the result says.
LEMMA Bne ==
  ASSUME NEW r, Regs(r), NEW q \in Execute(r), NEW x \in Nat, AtWord(r, "bne", x)
  PROVE  LET goes == r.result = (IF shape.kind = "precall_success" THEN "ok" ELSE "postcall") IN
         /\ Regs(q) /\ q.pc = r.pc /\ q.stub = r.stub
         /\ q.at = IF goes THEN r.at + 1 ELSE r.at + x
         /\ SameLink(r, q) /\ SameArgs(r, q) /\ SameToc(r, q) /\ SamePast(r, q)
<1> DEFINE goes == r.result = (IF shape.kind = "precall_success" THEN "ok" ELSE "postcall")
<1>1. q = [r EXCEPT !.at = IF goes THEN @ + 1 ELSE @ + x]
  <2>1. q = IF goes THEN [r EXCEPT !.at = @ + 1] ELSE [r EXCEPT !.at = @ + x]
    BY DEF Execute, AtWord
  <2> QED BY <2>1
<1> HIDE DEF goes
<1>2. /\ Regs(q) /\ q.pc = r.pc /\ q.stub = r.stub /\ q.at = IF goes THEN r.at + 1 ELSE r.at + x
      /\ SameLink(r, q) /\ SameArgs(r, q) /\ SameToc(r, q) /\ SamePast(r, q)
  BY <1>1 DEF Regs, SameLink, SameArgs, SameToc, SamePast, Fields
<1> QED BY <1>2 DEF goes

-----------------------------------------------------------------------------
(* Where a thread can be in a stub, and what it has with it there.         *)

Link(h) ==
  LET from == SlotAddr(h) + 1
  IN  IF shape.kind = "plain" THEN Branch(from, Func + 1) ELSE BranchLink(from, Func + 1)
\* The stub of a hook holds what a thread that runs through it needs.
Ready(h) == memory.stub[h].s0 = First /\ memory.stub[h].s1 = Link(h)

\* An entry of the log as it should be: run with all its arguments and the right TOC.
Good(e, what, x) ==
  /\ e.what = what /\ e.whole = TRUE /\ e.result = x
  /\ e.toc = IF what = "hook" THEN "payload" ELSE "kernel"
One(log, what, x) == \E e : log = <<e>> /\ Good(e, what, x)
Two(log, what, x, then, y) ==
  \E e, f : log = <<e, f>> /\ Good(e, what, x) /\ Good(f, then, y)

PrecallKind(g) == IF g = 2 THEN "precall_success" ELSE "precall"
PostcallKind(g) == IF g = 3 THEN "cond_postcall" ELSE "postcall"

\* What has run when a call comes to its end.
Ended(kind, log, result) ==
  CASE kind = "plain" ->
         \E x, y : One(log, "hook", x) \/ Two(log, "hook", x, "body", y)
    [] kind = "precall" -> \E x : Two(log, "body", x, "hook", result)
    [] kind = "precall_success" ->
         \/ One(log, "body", result) /\ result = "fail"
         \/ Two(log, "body", "ok", "hook", result)
    [] kind = "postcall" -> \E x : Two(log, "hook", x, "body", result)
    [] kind = "cond_postcall" ->
         \/ One(log, "hook", result) /\ result \in {"ok", "fail"}
         \/ Two(log, "hook", "postcall", "body", result)

Results == {"ok", "fail", "postcall"}

\* The link register: the caller's until it is kept, and given back at the end.
LinkKept(r, at, mtlr) ==
  /\ at < 2 \/ at = mtlr + 1 => r.link = Caller
  /\ at >= 2 => r.kept = Caller
\* The TOC register around the instructions that find the payload's, from place
\* toc on, with the link register at base; the hook is called at place hook.
TocFound(r, at, toc, base, hook) ==
  /\ base <= at /\ at <= toc + 7 => r.link = base
  /\ at = toc + 8 => r.base = base
  /\ at = toc + 9 => r.base = 0
  /\ at <= toc + 9 \/ hook + 2 <= at => r.toc = "kernel"
  /\ toc + 10 <= at /\ at <= hook => r.toc = "payload"
\* The parameters, of which n are kept from place save on and taken back from load on,
\* after a call that came back to place back.
ArgsKept(r, at, n, save, back, load) ==
  /\ at <= save => r.saved = 0
  /\ save <= at /\ at <= save + n => r.saved = at - save
  /\ save + n <= at => r.saved = n
  /\ at <= load => r.loaded = 0
  /\ load <= at /\ at <= load + n => r.loaded = at - load
  /\ at < back \/ n = 0 \/ load + n <= at => r.args

\* A hook of the first kind may call the original from place 14, through the two words.
PlainRan(r, at) ==
  /\ at <= 14 \/ at > 18 => r.args
  /\ at = 20 => r.first
  /\ at <= 14 => r.log = <<>>
  /\ 15 <= at /\ at <= 18 => Ended("plain", r.log, r.result)
  /\ at > 18 => \E x : One(r.log, "hook", x)

PlainAt(r, at) ==
  /\ at \in 0 .. 20
  /\ at <= 18 => LinkKept(r, at, 17) /\ TocFound(r, at, 4, 4, 14)
  /\ at > 18 => r.kept = Caller /\ r.link = InHook /\ r.toc = "kernel"
  /\ PlainRan(r, at)

\* g is 2 when the hook is only called after a success.
PrecallRan(r, at, n, g) ==
  /\ at = n + 3 => r.first
  /\ at < n + 4 => r.log = <<>>
  /\ n + 4 <= at /\ at <= 2 * n + 15 + g =>
       /\ One(r.log, "body", r.result)
       /\ g = 2 /\ at >= n + 6 => r.result = "ok"
       /\ r.result \in {"ok", "fail"}
  /\ at = 2 * n + 16 + g => \E x : Two(r.log, "body", x, "hook", r.result) /\ (g = 2 => x = "ok")
  /\ at > 2 * n + 16 + g => Ended(PrecallKind(g), r.log, r.result)

PrecallAt(r, at, n, g) ==
  /\ at \in 0 .. 2 * n + 19 + g
  /\ LinkKept(r, at, 2 * n + 18 + g)
  /\ TocFound(r, at, 2 * n + 5 + g, n + 4, 2 * n + 15 + g)
  /\ at <= 2 * n + 15 + g => ArgsKept(r, at, n, 2, n + 4, n + 5 + g)
  /\ PrecallRan(r, at, n, g)

\* g is 3 when the body is only called if the hook says so.
PostcallRan(r, at, n, g) ==
  /\ at = 2 * n + 17 + g => r.first
  /\ at < n + 15 => r.log = <<>>
  /\ n + 15 <= at /\ at <= 2 * n + 17 + g =>
       /\ One(r.log, "hook", r.result) /\ r.result \in Results
       /\ g = 3 /\ at >= n + 19 => r.result = "postcall"
  /\ at > 2 * n + 17 + g => Ended(PostcallKind(g), r.log, r.result)

PostcallAt(r, at, n, g) ==
  /\ at \in 0 .. 2 * n + 20 + g
  /\ LinkKept(r, at, 2 * n + 19 + g)
  /\ TocFound(r, at, 4, 4, n + 14)
  /\ at <= 2 * n + 17 + g => ArgsKept(r, at, n, 14, n + 15, n + 16 + g)
  /\ PostcallRan(r, at, n, g)

InStub(r, at) ==
  /\ shape.kind = "plain" => PlainAt(r, at)
  /\ \A g \in {0, 2} : shape.kind = PrecallKind(g) => PrecallAt(r, at, shape.n, g)
  /\ \A g \in {0, 3} : shape.kind = PostcallKind(g) => PostcallAt(r, at, shape.n, g)

\* A call that is over, in the function alone or in a stub.
Final(r) ==
  /\ r.toc = "kernel"
  /\ r.stub = 0 => \E x : One(r.log, "body", x)
  /\ r.stub # 0 => Ended(shape.kind, r.log, r.result)

Called(r) ==
  /\ Regs(r) /\ r.stub \in 0 .. 2
  /\ r.stub # 0 => Ready(r.stub)
  /\ r.pc \in {"idle", "stub", "return", "done"}
  /\ r.pc = "stub" => r.stub # 0 /\ InStub(r, r.at)
  /\ r.pc = "return" =>
       IF r.link = Caller THEN Final(r)
       ELSE r.stub # 0 /\ InStub(r, IF r.link = InHook THEN 15 ELSE r.link)
  /\ r.pc = "done" => Final(r)

Word == {"first", "nop", "b", "bl"} \X Int
Patched ==
  /\ memory \in [func : Word, stub : [1 .. 2 -> [s0 : Word, s1 : Word]]]
  /\ patcher \in [step : {"idle", "save", "link", "change"}, hook : 1 .. 2, inst : Word]
  /\ shape \in [kind : HookKind, n : NParams]
  /\ hooked \subseteq 1 .. 2 /\ \A h, g \in hooked : h = g
  /\ patcher.step # "idle" => hooked = {} /\ patcher.inst = First
  /\ hooked = {} => memory.func = First
  /\ \A h \in hooked : memory.func = Branch(Func, Stub[h]) /\ Ready(h)
  /\ patcher.step \in {"link", "change"} => memory.stub[patcher.hook].s0 = First
  /\ patcher.step = "change" => memory.stub[patcher.hook].s1 = Link(patcher.hook)

HookInv == Patched /\ DOMAIN cpu = Kernel /\ \A t \in Kernel : Called(cpu[t])

-----------------------------------------------------------------------------
\* The two words that the hooking wrote into a stub, and the call of the hook.
LEMMA SlotFirst ==
  ASSUME NEW r, Regs(r), r.stub \in 1 .. 2, Ready(r.stub), NEW q \in Execute(r), NEW x,
         AtWord(r, "slot0", x)
  PROVE  /\ Goes(r, q) /\ SameLink(r, q) /\ SameArgs(r, q) /\ SameToc(r, q)
         /\ q.first /\ q.result = r.result /\ q.log = r.log
<1>1. q = [r EXCEPT !.at = @ + 1, !.first = TRUE]
  <2>1. q \in Continue(r, First, Stub[r.stub] + r.at)
    BY DEF Execute, AtWord, Ready
  <2>2. Stub[r.stub] + r.at + 0 # 1
    BY DEF Regs, Stub
  <2> QED BY <2>1, <2>2 DEF Continue, First, Func
<1>2. DOMAIN q = Fields /\ q.at = r.at + 1 /\ q.pc = r.pc /\ q.stub = r.stub
  BY <1>1 DEF Regs, Fields
<1>3. /\ SameLink(r, q) /\ SameArgs(r, q) /\ SameToc(r, q)
      /\ q.first /\ q.result = r.result /\ q.log = r.log
  BY <1>1 DEF Regs, SameLink, SameArgs, SameToc, Fields
<1> QED BY <1>2, <1>3 DEF Goes, Regs, SameLink, SameArgs, SameToc

\* The second of the two words runs the body, which comes back behind the word.
LEMMA SlotSecond ==
  ASSUME NEW r, Regs(r), r.stub \in 1 .. 2, Ready(r.stub), NEW q \in Execute(r), NEW x,
         AtWord(r, "slot1", x), NEW a \in Nat, SavedAt(shape.kind, shape.n) = a, r.at = a + 1
  PROVE  /\ Regs(q) /\ q.pc = "return" /\ q.stub = r.stub /\ q.at = r.at /\ q.kept = r.kept
         /\ q.link = IF shape.kind = "plain" THEN r.link ELSE r.at + 1
         /\ SameToc(r, q) /\ q.saved = r.saved /\ q.loaded = 0 /\ (q.args <=> shape.n = 0)
         /\ q.result \in {"ok", "fail"} /\ q.log = Append(r.log, Ran(r, "body", q.result))
<1> DEFINE to == IF shape.kind = "plain" THEN r.link ELSE r.at + 1
<1>0. Stub[r.stub] \in Nat
  BY DEF Stub
<1>1. PICK y \in {"ok", "fail"} :
        q = [Clobbered(r, "body", y) EXCEPT !.pc = "return", !.link = to]
  <2> DEFINE here == Stub[r.stub] + r.at
             inst == memory.stub[r.stub].s1
  <2>1. q \in Continue(r, inst, here)
    BY DEF Execute, AtWord
  <2>2. inst = IF shape.kind = "plain" THEN <<"b", 1 - here>> ELSE <<"bl", 1 - here>>
    BY <1>0 DEF Ready, Link, SlotAddr, Branch, BranchLink, Func, Regs
  <2>3. here + inst[2] = 1 /\ inst[1] # "nop" /\ inst[1] # "first"
        /\ (inst[1] = "bl" <=> shape.kind # "plain")
    BY <1>0, <2>2 DEF Regs
  <2> HIDE DEF here, inst
  <2>4. q \in {[Clobbered(r, "body", z) EXCEPT !.pc = "return",
                 !.link = IF inst[1] = "bl" THEN r.at + 1 ELSE @] : z \in {"ok", "fail"}}
    BY <2>1, <2>3 DEF Continue, Func, Stub
  <2>5. PICK z \in {"ok", "fail"} : q = [Clobbered(r, "body", z) EXCEPT !.pc = "return",
                 !.link = IF inst[1] = "bl" THEN r.at + 1 ELSE @]
    BY <2>4
  <2>6. Clobbered(r, "body", z).link = r.link
    BY DEF Clobbered, Regs, Fields
  <2> QED BY <2>3, <2>5, <2>6
<1>2. to \in Int
  BY DEF Regs
<1> HIDE DEF to
<1>3. PICK c : c = Clobbered(r, "body", y)
  OBVIOUS
<1>4. /\ DOMAIN c = Fields /\ c.at = r.at /\ c.stub = r.stub /\ c.kept = r.kept
      /\ c.toc = r.toc /\ c.base = r.base /\ c.saved = r.saved /\ c.loaded = 0
      /\ (c.args <=> shape.n = 0) /\ c.result = y /\ c.log = Append(r.log, Ran(r, "body", y))
  BY <1>3 DEF Clobbered, Regs, Fields
<1>5. /\ DOMAIN q = Fields /\ q.at = r.at /\ q.stub = r.stub /\ q.kept = r.kept
      /\ q.toc = r.toc /\ q.base = r.base /\ q.saved = r.saved /\ q.loaded = 0
      /\ (q.args <=> shape.n = 0) /\ q.result = y /\ q.log = Append(r.log, Ran(r, "body", y))
      /\ q.pc = "return" /\ q.link = to
  <2>1. q = [c EXCEPT !.pc = "return", !.link = to]
    BY <1>1, <1>3
  <2> QED BY <2>1, <1>4 DEF Fields
<1> QED BY <1>1, <1>2, <1>5 DEF Regs, SameToc, to

\* The hook returns, or calls the original function first.
LEMMA HookCalled ==
  ASSUME NEW r, Regs(r), NEW q \in Execute(r), NEW x, AtWord(r, "bl_hook", x)
  PROVE  \/ /\ Goes(r, q) /\ q.link = r.at + 1 /\ q.kept = r.kept /\ SameToc(r, q)
            /\ q.saved = r.saved /\ q.loaded = 0 /\ (q.args <=> shape.n = 0)
            /\ q.result \in Results /\ q.log = Append(r.log, Ran(r, "hook", q.result))
         \/ /\ shape.kind = "plain" /\ Regs(q) /\ q.pc = r.pc /\ q.stub = r.stub
            /\ q.at = 19 /\ q.link = InHook /\ q.kept = r.kept /\ q.toc = "kernel"
            /\ SameArgs(r, q) /\ q.log = Append(r.log, Ran(r, "hook", "none"))
<1> DEFINE next == [r EXCEPT !.at = @ + 1]
<1>1. \/ \E y \in Results : q = [Clobbered(next, "hook", y) EXCEPT !.link = r.at + 1]
      \/ shape.kind = "plain" /\
         q = [next EXCEPT !.log = Append(@, Ran(r, "hook", "none")), !.toc = "kernel",
                                !.at = 19, !.link = InHook]
  BY DEF Execute, AtWord, Results, SavedAt
<1>2. /\ DOMAIN next = Fields /\ next.at = r.at + 1 /\ next.pc = r.pc /\ next.stub = r.stub
      /\ SameLink(r, next) /\ SameArgs(r, next) /\ SameToc(r, next) /\ SamePast(r, next)
  BY DEF Regs, Fields, SameLink, SameArgs, SameToc, SamePast
<1> HIDE DEF next
<1>3. CASE \E y \in Results : q = [Clobbered(next, "hook", y) EXCEPT !.link = r.at + 1]
  <2>1. PICK y \in Results : q = [Clobbered(next, "hook", y) EXCEPT !.link = r.at + 1]
    BY <1>3
  <2>2. PICK c : c = Clobbered(next, "hook", y)
    OBVIOUS
  <2>3. Ran(next, "hook", y) = Ran(r, "hook", y)
    BY <1>2 DEF Ran, SameArgs, SameToc, SamePast
  <2>4. /\ DOMAIN c = Fields /\ c.at = r.at + 1 /\ c.stub = r.stub /\ c.kept = r.kept
        /\ c.pc = r.pc
        /\ c.toc = r.toc /\ c.base = r.base /\ c.saved = r.saved /\ c.loaded = 0
        /\ (c.args <=> shape.n = 0) /\ c.result = y /\ c.log = Append(r.log, Ran(r, "hook", y))
    BY <1>2, <2>2, <2>3 DEF Clobbered, Fields, SameLink, SameArgs, SameToc, SamePast
  <2>5. /\ DOMAIN q = Fields /\ q.at = r.at + 1 /\ q.stub = r.stub /\ q.kept = r.kept
        /\ q.pc = r.pc /\ q.link = r.at + 1
        /\ q.toc = r.toc /\ q.base = r.base /\ q.saved = r.saved /\ q.loaded = 0
        /\ (q.args <=> shape.n = 0) /\ q.result = y /\ q.log = Append(r.log, Ran(r, "hook", y))
    <3>1. q = [c EXCEPT !.link = r.at + 1]
      BY <2>1, <2>2
    <3> QED BY <3>1, <2>4 DEF Fields
  <2> QED BY <2>5 DEF Regs, Goes, SameToc
<1>4. CASE shape.kind = "plain" /\
         q = [next EXCEPT !.log = Append(@, Ran(r, "hook", "none")), !.toc = "kernel",
                                !.at = 19, !.link = InHook]
  <2>1. /\ DOMAIN q = Fields /\ q.at = 19 /\ q.stub = r.stub /\ q.kept = r.kept
        /\ q.pc = r.pc /\ q.link = InHook
        /\ q.toc = "kernel" /\ q.base = r.base /\ q.saved = r.saved /\ q.loaded = r.loaded
        /\ q.args = r.args /\ q.log = Append(r.log, Ran(r, "hook", "none"))
    BY <1>2, <1>4 DEF Fields, SameLink, SameArgs, SameToc, SamePast
  <2> QED BY <1>4, <2>1 DEF Regs, SameArgs, InHook
<1> QED BY <1>1, <1>3, <1>4

\* A second entry behind the first.
LEMMA AppendToOne == ASSUME NEW e, NEW f PROVE Append(<<e>>, f) = <<e, f>>
<1> DEFINE S == {e, f}
<1>1. e \in S /\ f \in S
  OBVIOUS
<1> HIDE DEF S
<1>2. <<e>> \in Seq(S) /\ Len(<<e>>) = 1
  BY <1>1
<1>3. PICK s : s = Append(<<e>>, f)
  OBVIOUS
<1>4. s \in Seq(S) /\ Len(s) = 2 /\ s[1] = e /\ s[2] = f
  BY <1>1, <1>2, <1>3, AppendProperties
<1>5. s = <<s[1], s[2]>>
  BY <1>4
<1> QED BY <1>3, <1>4, <1>5

\* What is run first is run as it should be when its arguments and TOC are right.
LEMMA FirstRan ==
  ASSUME NEW r, r.log = <<>>, r.args, NEW what, NEW x, r.first \/ what = "hook",
         r.toc = IF what = "hook" THEN "payload" ELSE "kernel"
  PROVE  One(Append(r.log, Ran(r, what, x)), what, x)
<1>1. Append(r.log, Ran(r, what, x)) = <<Ran(r, what, x)>>
  OBVIOUS
<1>2. Good(Ran(r, what, x), what, x)
  BY DEF Good, Ran
<1> QED BY <1>1, <1>2 DEF One

\* What is run second is run as it should be when its arguments and TOC are right.
LEMMA ThenRan ==
  ASSUME NEW r, r.args, NEW what, NEW x, r.first \/ what = "hook", NEW before, NEW y,
         One(r.log, before, y), r.toc = IF what = "hook" THEN "payload" ELSE "kernel"
  PROVE  Two(Append(r.log, Ran(r, what, x)), before, y, what, x)
<1>1. PICK e : r.log = <<e>> /\ Good(e, before, y)
  BY DEF One
<1>2. Append(r.log, Ran(r, what, x)) = <<e, Ran(r, what, x)>>
  BY <1>1, AppendToOne
<1>3. Good(Ran(r, what, x), what, x)
  BY DEF Good, Ran
<1> QED BY <1>1, <1>2, <1>3 DEF Two

-----------------------------------------------------------------------------
(* The words a thread finds in the pieces of a stub.                       *)

WordsAt(r, k, s) ==
  \A j \in 1 .. Len(s) : r.at = k + j - 1 => AtWord(r, s[j][1], s[j][2])

\* The words of a piece are the words of the stub there.
LEMMA WordOfPiece ==
  ASSUME NEW r, NEW k, NEW s, NEW c, c = Code(shape.kind, shape.n), Has(c, k, s), r.at \in Nat
  PROVE  WordsAt(r, k, s)
<1> SUFFICES ASSUME NEW j \in 1 .. Len(s), r.at = k + j - 1
             PROVE  AtWord(r, s[j][1], s[j][2])
  BY DEF WordsAt
<1>1. k \in Nat /\ j \in Nat
  BY DEF Has, Insts
<1>2. r.at + 1 = k + j
  BY <1>1
<1>3. c[k + j] = s[j]
  BY DEF Has
<1> QED BY <1>2, <1>3 DEF AtWord

\* Which word is at which place of each piece.
LEMMA InSaveLink ==
  ASSUME NEW r, NEW k \in Nat, WordsAt(r, k, SaveLink)
  PROVE  /\ r.at = k => AtWord(r, "mflr_0", 0)
         /\ r.at = k + 1 => AtWord(r, "std_0", 0)
BY DEF WordsAt, SaveLink, I

\* The words that keep the parameters.
LEMMA InSaveParams ==
  ASSUME NEW r, NEW k \in Nat, NEW n \in Nat, WordsAt(r, k, SaveParams(n)), r.at \in Nat
  PROVE  k <= r.at /\ r.at < k + n => AtWord(r, "std", r.at - k + 1)
<1> SUFFICES ASSUME k <= r.at, r.at < k + n PROVE AtWord(r, "std", r.at - k + 1)
  OBVIOUS
<1>1. PICK j : j = r.at - k + 1
  OBVIOUS
<1>2. j \in 1 .. n /\ r.at = k + j - 1
  BY <1>1
<1>3. Len(SaveParams(n)) = n /\ SaveParams(n)[j] = <<"std", j>>
  BY <1>2 DEF SaveParams
<1> QED BY <1>1, <1>2, <1>3 DEF WordsAt

\* The words that take the parameters back.
LEMMA InLoadParams ==
  ASSUME NEW r, NEW k \in Nat, NEW n \in Nat, WordsAt(r, k, LoadParams(n)), r.at \in Nat
  PROVE  k <= r.at /\ r.at < k + n => AtWord(r, "ld", r.at - k + 1)
<1> SUFFICES ASSUME k <= r.at, r.at < k + n PROVE AtWord(r, "ld", r.at - k + 1)
  OBVIOUS
<1>1. PICK j : j = r.at - k + 1
  OBVIOUS
<1>2. j \in 1 .. n /\ r.at = k + j - 1
  BY <1>1
<1>3. Len(LoadParams(n)) = n /\ LoadParams(n)[j] = <<"ld", j>>
  BY <1>2 DEF LoadParams
<1> QED BY <1>1, <1>2, <1>3 DEF WordsAt

\* The two words that the hooking writes.
LEMMA InTwoNops ==
  ASSUME NEW r, NEW k \in Nat, WordsAt(r, k, TwoNops)
  PROVE  /\ r.at = k => AtWord(r, "slot0", 0)
         /\ r.at = k + 1 => AtWord(r, "slot1", 0)
BY DEF WordsAt, TwoNops, I

\* The words that find the TOC.
LEMMA InFindToc ==
  ASSUME NEW r, NEW k \in Nat, NEW d \in Int, WordsAt(r, k, FindToc(d)), r.at \in Nat
  PROVE  /\ k <= r.at /\ r.at < k + 7 => \E op \in Quiet : \E x : AtWord(r, op, x)
         /\ r.at = k + 7 => AtWord(r, "mflr_2", 0)
         /\ r.at = k + 8 => AtWord(r, "addi_2", -d)
         /\ r.at = k + 9 => AtWord(r, "add_2", 0)
<1>1. PICK s : s = FindToc(d)
  OBVIOUS
<1>2. /\ Len(s) = 10 /\ s[8] = I("mflr_2") /\ s[9] = <<"addi_2", -d>> /\ s[10] = I("add_2")
      /\ \A j \in 1 .. 7 : s[j][1] \in TocWords
  BY <1>1, Pieces
<1>3. WordsAt(r, k, s)
  BY <1>1
<1>4. ASSUME k <= r.at, r.at < k + 7 PROVE \E op \in Quiet : \E x : AtWord(r, op, x)
  <2>1. PICK j : j = r.at - k + 1
    OBVIOUS
  <2>2. j \in 1 .. 7 /\ j \in 1 .. 10 /\ r.at = k + j - 1
    BY <1>4, <2>1
  <2>3. AtWord(r, s[j][1], s[j][2])
    BY <1>2, <1>3, <2>2 DEF WordsAt
  <2>4. s[j][1] \in Quiet
    BY <1>2, <2>2 DEF TocWords, Quiet
  <2> QED BY <2>3, <2>4
<1>5. /\ r.at = k + 7 => AtWord(r, s[8][1], s[8][2])
      /\ r.at = k + 8 => AtWord(r, s[9][1], s[9][2])
      /\ r.at = k + 9 => AtWord(r, s[10][1], s[10][2])
  <2>1. \A j \in 1 .. 10 : r.at = k + j - 1 => AtWord(r, s[j][1], s[j][2])
    BY <1>2, <1>3 DEF WordsAt
  <2>2. /\ r.at = k + 8 - 1 => AtWord(r, s[8][1], s[8][2])
        /\ r.at = k + 9 - 1 => AtWord(r, s[9][1], s[9][2])
        /\ r.at = k + 10 - 1 => AtWord(r, s[10][1], s[10][2])
    BY <2>1
  <2>3. k + 8 - 1 = k + 7 /\ k + 9 - 1 = k + 8 /\ k + 10 - 1 = k + 9
    OBVIOUS
  <2> QED BY <2>2, <2>3
<1>6. /\ s[8][1] = "mflr_2" /\ s[8][2] = 0 /\ s[9][1] = "addi_2" /\ s[9][2] = -d
      /\ s[10][1] = "add_2" /\ s[10][2] = 0
  BY <1>2 DEF I
<1> QED BY <1>4, <1>5, <1>6

\* The words that leave the stub.
LEMMA InLeave ==
  ASSUME NEW r, NEW k \in Nat, WordsAt(r, k, Leave)
  PROVE  /\ r.at = k => AtWord(r, "ld_0", 0)
         /\ r.at = k + 1 => AtWord(r, "mtlr", 0)
         /\ r.at = k + 2 => AtWord(r, "blr", 0)
BY DEF WordsAt, Leave, I

\* The word that keeps the TOC.
LEMMA InSaveToc ==
  ASSUME NEW r, NEW k \in Nat, WordsAt(r, k, SaveToc)
  PROVE  r.at = k => AtWord(r, "std_2", 0)
BY DEF WordsAt, SaveToc, I

\* The words that keep the TOC and take a place of the stub.
LEMMA InSaveTocAndLink ==
  ASSUME NEW r, NEW k \in Nat, WordsAt(r, k, SaveTocAndLink)
  PROVE  /\ r.at = k => AtWord(r, "std_2", 0)
         /\ r.at = k + 1 => AtWord(r, "bl_next", 0)
BY DEF WordsAt, SaveTocAndLink, I

\* The words that call the hook.
LEMMA InCallHook ==
  ASSUME NEW r, NEW k \in Nat, WordsAt(r, k, CallHook)
  PROVE  /\ r.at = k => AtWord(r, "bl_hook", 0)
         /\ r.at = k + 1 => AtWord(r, "ld_2", 0)
BY DEF WordsAt, CallHook, I

\* The words that test if the function succeeded.
LEMMA InTestSuccess ==
  ASSUME NEW r, NEW k \in Nat, NEW n \in Nat, WordsAt(r, k, TestSuccess(n))
  PROVE  /\ r.at = k => AtWord(r, "cmpwi_3", 0)
         /\ r.at = k + 1 => AtWord(r, "bne", 14 + n)
         /\ r.at = k + 2 => AtWord(r, "std_2", 0)
BY DEF WordsAt, TestSuccess, I

\* The words that call the hook and test what it says.
LEMMA InCallHookAndTest ==
  ASSUME NEW r, NEW k \in Nat, NEW n \in Nat, WordsAt(r, k, CallHookAndTest(n))
  PROVE  /\ r.at = k => AtWord(r, "bl_hook", 0)
         /\ r.at = k + 1 => AtWord(r, "ld_2", 0)
         /\ r.at = k + 2 => AtWord(r, "extsw", 0)
         /\ r.at = k + 3 => AtWord(r, "cmpwi_4", 0)
         /\ r.at = k + 4 => AtWord(r, "bne", 3 + n)
BY DEF WordsAt, CallHookAndTest, I

-----------------------------------------------------------------------------
(* What an instruction leaves of the registers, whatever the stub.         *)

\* One place on, the link register and what is kept of it stay as they should be.
LEMMA LinkOn ==
  ASSUME NEW r, NEW q, NEW at \in Nat, NEW mtlr \in Nat, LinkKept(r, at, mtlr), SameLink(r, q),
         2 <= at, at # mtlr
  PROVE  LinkKept(q, at + 1, mtlr)
BY DEF LinkKept, SameLink

\* One place on, the TOC register stays as it should be.
LEMMA TocOn ==
  ASSUME NEW r, NEW q, NEW at \in Nat, NEW toc \in Nat, NEW base \in Nat, NEW hook \in Nat,
         toc + 10 <= hook, TocFound(r, at, toc, base, hook), SameLink(r, q), SameToc(r, q),
         at + 1 # base, at < toc + 7 \/ toc + 10 <= at, at # hook, at # hook + 1
  PROVE  TocFound(q, at + 1, toc, base, hook)
BY DEF TocFound, SameLink, SameToc

\* One place on, the parameters stay as they should be.
LEMMA ArgsOn ==
  ASSUME NEW r, NEW q, NEW at \in Nat, NEW n \in Nat, NEW save \in Nat, NEW back \in Nat,
         NEW load \in Nat, save + n < back, back <= load, ArgsKept(r, at, n, save, back, load),
         SameArgs(r, q), at < save \/ save + n <= at, at < load \/ load + n <= at
  PROVE  ArgsKept(q, at + 1, n, save, back, load)
<1>1. /\ at + 1 <= save => q.saved = 0
      /\ save <= at + 1 /\ at + 1 <= save + n => q.saved = at + 1 - save
      /\ save + n <= at + 1 => q.saved = n
  BY DEF ArgsKept, SameArgs
<1>2. /\ at + 1 <= load => q.loaded = 0
      /\ load <= at + 1 /\ at + 1 <= load + n => q.loaded = at + 1 - load
  BY DEF ArgsKept, SameArgs
<1>3. at + 1 < back \/ n = 0 \/ load + n <= at + 1 => q.args
  <2>1. at + 1 < back \/ n = 0 \/ load + n <= at + 1 => at < back \/ n = 0 \/ load + n <= at
    OBVIOUS
  <2> QED BY <2>1 DEF ArgsKept, SameArgs
<1> QED BY <1>1, <1>2, <1>3 DEF ArgsKept

\* One place on in the words that keep the parameters.
LEMMA ArgsSaved ==
  ASSUME NEW r, NEW q, NEW at \in Nat, NEW n \in Nat, NEW save \in Nat, NEW back \in Nat,
         NEW load \in Nat, save + n < back, back <= load, ArgsKept(r, at, n, save, back, load),
         save <= at, at < save + n,
         q.saved = r.saved + 1, q.loaded = r.loaded, q.args = r.args
  PROVE  ArgsKept(q, at + 1, n, save, back, load)
<1>1. r.saved = at - save /\ r.loaded = 0 /\ r.args
  BY DEF ArgsKept
<1> QED BY <1>1 DEF ArgsKept

\* One place on in the words that take the parameters back.
LEMMA ArgsLoaded ==
  ASSUME NEW r, NEW q, NEW at \in Nat, NEW n \in Nat, NEW save \in Nat, NEW back \in Nat,
         NEW load \in Nat, save + n < back, back <= load, ArgsKept(r, at, n, save, back, load),
         load <= at, at < load + n,
         q.saved = r.saved, q.loaded = r.loaded + 1, q.args <=> r.args \/ r.loaded + 1 = n
  PROVE  ArgsKept(q, at + 1, n, save, back, load)
<1>1. r.saved = n /\ r.loaded = at - load
  BY DEF ArgsKept
<1> QED BY <1>1 DEF ArgsKept

\* A call of the body or of the hook that comes back right before load.
LEMMA ArgsBack ==
  ASSUME NEW r, NEW q, NEW at \in Nat, NEW to \in Nat, NEW n \in Nat, NEW save \in Nat,
         NEW back \in Nat, NEW load \in Nat, save + n < back, back <= load,
         ArgsKept(r, at, n, save, back, load), save + n <= at, at < back, back = to,
         q.saved = r.saved, q.loaded = 0, q.args <=> n = 0
  PROVE  ArgsKept(q, to, n, save, back, load)
<1>1. r.saved = n
  BY DEF ArgsKept
<1> QED BY <1>1 DEF ArgsKept

-----------------------------------------------------------------------------
(* precall and precall_success.                                            *)

\* The word at each place of a stub that runs the function first.
LEMMA PrecallWords ==
  ASSUME NEW n \in Nat, NEW g \in {0, 2}, shape.n = n, shape.kind = PrecallKind(g),
         NEW r, r.at \in Nat
  PROVE  /\ r.at = 0 => AtWord(r, "mflr_0", 0)
         /\ r.at = 1 => AtWord(r, "std_0", 0)
         /\ 2 <= r.at /\ r.at < 2 + n => AtWord(r, "std", r.at - 2 + 1)
         /\ r.at = n + 2 => AtWord(r, "slot0", 0)
         /\ r.at = n + 2 + 1 => AtWord(r, "slot1", 0)
         /\ g = 2 /\ r.at = n + 4 => AtWord(r, "cmpwi_3", 0)
         /\ g = 2 /\ r.at = n + 4 + 1 => AtWord(r, "bne", 14 + n)
         /\ r.at = n + 4 + g => AtWord(r, "std_2", 0)
         /\ n + 5 + g <= r.at /\ r.at < n + 5 + g + n => AtWord(r, "ld", r.at - (n + 5 + g) + 1)
         /\ 2 * n + 5 + g <= r.at /\ r.at < 2 * n + 5 + g + 7 =>
              \E op \in Quiet : \E x : AtWord(r, op, x)
         /\ r.at = 2 * n + 5 + g + 7 => AtWord(r, "mflr_2", 0)
         /\ r.at = 2 * n + 5 + g + 8 => AtWord(r, "addi_2", -(4 + n))
         /\ r.at = 2 * n + 5 + g + 9 => AtWord(r, "add_2", 0)
         /\ r.at = 2 * n + 15 + g => AtWord(r, "bl_hook", 0)
         /\ r.at = 2 * n + 15 + g + 1 => AtWord(r, "ld_2", 0)
         /\ r.at = 2 * n + 17 + g => AtWord(r, "ld_0", 0)
         /\ r.at = 2 * n + 17 + g + 1 => AtWord(r, "mtlr", 0)
         /\ r.at = 2 * n + 17 + g + 2 => AtWord(r, "blr", 0)
<1>1. PICK c : c = Code(shape.kind, shape.n)
  OBVIOUS
<1>2. /\ Has(c, 0, SaveLink) /\ Has(c, 2, SaveParams(n)) /\ Has(c, n + 2, TwoNops)
      /\ g = 2 => Has(c, n + 4, TestSuccess(n))
      /\ g = 0 => Has(c, n + 4, SaveToc)
      /\ Has(c, n + 5 + g, LoadParams(n)) /\ Has(c, 2 * n + 5 + g, FindToc(4 + n))
      /\ Has(c, 2 * n + 15 + g, CallHook) /\ Has(c, 2 * n + 17 + g, Leave)
  <2>1. CASE g = 0
    <3>1. c = Precall(n)
      BY <1>1, <2>1 DEF PrecallKind, Code
    <3>2. n + 5 + g = n + 5 /\ 2 * n + 5 + g = 2 * n + 5 /\ 2 * n + 15 + g = 2 * n + 15
          /\ 2 * n + 17 + g = 2 * n + 17
      BY <2>1
    <3> QED BY <2>1, <3>1, <3>2, PrecallCode
  <2>2. CASE g = 2
    <3>1. c = PrecallSuccess(n)
      BY <1>1, <2>2 DEF PrecallKind, Code
    <3>2. n + 5 + g = n + 7 /\ 2 * n + 5 + g = 2 * n + 7 /\ 2 * n + 15 + g = 2 * n + 17
          /\ 2 * n + 17 + g = 2 * n + 19
      BY <2>2
    <3> QED BY <2>2, <3>1, <3>2, PrecallSuccessCode
  <2> QED BY <2>1, <2>2
<1>3. /\ WordsAt(r, 0, SaveLink) /\ WordsAt(r, 2, SaveParams(n)) /\ WordsAt(r, n + 2, TwoNops)
      /\ g = 2 => WordsAt(r, n + 4, TestSuccess(n))
      /\ g = 0 => WordsAt(r, n + 4, SaveToc)
      /\ WordsAt(r, n + 5 + g, LoadParams(n)) /\ WordsAt(r, 2 * n + 5 + g, FindToc(4 + n))
      /\ WordsAt(r, 2 * n + 15 + g, CallHook) /\ WordsAt(r, 2 * n + 17 + g, Leave)
  BY <1>1, <1>2, WordOfPiece
<1>4. PICK k0, k1, k2, k3, k4, k5, k6 \in Nat :
        /\ k0 = n + 2 /\ k1 = n + 4 /\ k2 = n + 5 + g /\ k3 = 2 * n + 5 + g
        /\ k4 = 2 * n + 15 + g /\ k5 = 2 * n + 17 + g /\ k6 = 4 + n
  OBVIOUS
<1>5. /\ r.at = 0 => AtWord(r, "mflr_0", 0)
      /\ r.at = 0 + 1 => AtWord(r, "std_0", 0)
  BY <1>3, InSaveLink
<1>6. 2 <= r.at /\ r.at < 2 + n => AtWord(r, "std", r.at - 2 + 1)
  BY <1>3, InSaveParams
<1>7. /\ r.at = k0 => AtWord(r, "slot0", 0)
      /\ r.at = k0 + 1 => AtWord(r, "slot1", 0)
  BY <1>3, <1>4, InTwoNops
<1>8. g = 2 => /\ r.at = k1 => AtWord(r, "cmpwi_3", 0)
               /\ r.at = k1 + 1 => AtWord(r, "bne", 14 + n)
               /\ r.at = k1 + 2 => AtWord(r, "std_2", 0)
  BY <1>3, <1>4, InTestSuccess
<1>9. g = 0 => (r.at = k1 => AtWord(r, "std_2", 0))
  BY <1>3, <1>4, InSaveToc
<1>10. k2 <= r.at /\ r.at < k2 + n => AtWord(r, "ld", r.at - k2 + 1)
  BY <1>3, <1>4, InLoadParams
<1>11. /\ k3 <= r.at /\ r.at < k3 + 7 => \E op \in Quiet : \E x : AtWord(r, op, x)
       /\ r.at = k3 + 7 => AtWord(r, "mflr_2", 0)
       /\ r.at = k3 + 8 => AtWord(r, "addi_2", -k6)
       /\ r.at = k3 + 9 => AtWord(r, "add_2", 0)
  <2>1. k6 \in Int
    OBVIOUS
  <2> QED BY <1>3, <1>4, <2>1, InFindToc
<1>12. /\ r.at = k4 => AtWord(r, "bl_hook", 0)
       /\ r.at = k4 + 1 => AtWord(r, "ld_2", 0)
  BY <1>3, <1>4, InCallHook
<1>13. /\ r.at = k5 => AtWord(r, "ld_0", 0)
       /\ r.at = k5 + 1 => AtWord(r, "mtlr", 0)
       /\ r.at = k5 + 2 => AtWord(r, "blr", 0)
  BY <1>3, <1>4, InLeave
<1>14. r.at = n + 4 + g => AtWord(r, "std_2", 0)
  BY <1>4, <1>8, <1>9
<1> QED BY <1>4, <1>5, <1>6, <1>7, <1>8, <1>10, <1>11, <1>12, <1>13, <1>14

\* A step in the stub comes to the next place, to its end or into the body.
PrecallGoesOn(q, n, g) ==
  /\ Regs(q)
  /\ \/ q.pc = "stub" /\ PrecallAt(q, q.at, n, g)
     \/ q.pc = "return" /\ q.link \in Nat /\ PrecallAt(q, q.link, n, g)
     \/ q.pc = "return" /\ q.link = Caller /\ Final(q)

\* One place on, what has run stays what should have run, where no word runs anything.
LEMMA PrecallOn ==
  ASSUME NEW r, NEW q, NEW at \in Nat, NEW n \in Nat, NEW g \in {0, 2}, PrecallRan(r, at, n, g),
         SamePast(r, q), at # n + 2, at # n + 3, g = 2 => at # n + 5, at # 2 * n + 15 + g,
         at # 2 * n + 16 + g
  PROVE  PrecallRan(q, at + 1, n, g)
<1>1. q.first = r.first /\ q.result = r.result /\ q.log = r.log
  BY DEF SamePast
<1>2. g \in Nat
  OBVIOUS
<1> QED BY <1>1, <1>2 DEF PrecallRan

\* Each word of such a stub leads where it should.
LEMMA PrecallStep ==
  ASSUME NEW n \in Nat, NEW g \in {0, 2}, shape.n = n, shape.kind = PrecallKind(g),
         NEW r, Regs(r), r.pc = "stub", r.stub \in 1 .. 2, Ready(r.stub),
         PrecallAt(r, r.at, n, g), NEW q \in Execute(r)
  PROVE  q.stub = r.stub /\ PrecallGoesOn(q, n, g)
<1>1. g \in Nat /\ r.at \in Nat /\ r.at <= 2 * n + 19 + g
  BY DEF Regs, PrecallAt
<1>2. PICK m \in Nat : m = 2 * n + 18 + g
  BY <1>1
<1>3. PICK t \in Nat : t = 2 * n + 5 + g
  BY <1>1
<1>4. PICK b \in Nat : b = n + 4
  BY <1>1
<1>5. PICK h \in Nat : h = 2 * n + 15 + g
  BY <1>1
<1>6. PICK c \in Nat : c = n + 4
  BY <1>1
<1>7. PICK l \in Nat : l = n + 5 + g
  BY <1>1
<1>8. /\ LinkKept(r, r.at, m) /\ TocFound(r, r.at, t, b, h)
      /\ r.at <= 2 * n + 15 + g => ArgsKept(r, r.at, n, 2, c, l)
      /\ PrecallRan(r, r.at, n, g)
  BY <1>2, <1>3, <1>4, <1>5, <1>6, <1>7 DEF PrecallAt
<1>9. ASSUME Regs(q), q.pc = "stub", q.at <= 2 * n + 19 + g, LinkKept(q, q.at, m),
             TocFound(q, q.at, t, b, h),
             q.at <= 2 * n + 15 + g => ArgsKept(q, q.at, n, 2, c, l), PrecallRan(q, q.at, n, g)
      PROVE  PrecallGoesOn(q, n, g)
  BY <1>2, <1>3, <1>4, <1>5, <1>6, <1>7, <1>9 DEF PrecallGoesOn, PrecallAt, Regs
<1>10. 2 + n < c /\ c <= l /\ t + 10 <= h /\ 2 \in Nat
  BY <1>1, <1>3, <1>5, <1>6, <1>7
<1>11. CASE r.at = 0
  <2>1. AtWord(r, "mflr_0", 0) /\ "mflr_0" \in Quiet
    BY <1>1, <1>11, PrecallWords DEF Quiet
  <2>2. Goes(r, q) /\ SameLink(r, q) /\ SameArgs(r, q) /\ SameToc(r, q) /\ SamePast(r, q)
    BY <2>1, QuietWord
  <2>3. LinkKept(q, r.at + 1, m)
    BY <1>1, <1>2, <1>8, <1>11, <2>2 DEF LinkKept, SameLink
  <2>4. TocFound(q, r.at + 1, t, b, h)
    BY <1>1, <1>3, <1>4, <1>5, <1>8, <1>11, <2>2, TocOn
  <2>20. r.at <= 2 * n + 15 + g /\ (r.at < 2 \/ 2 + n <= r.at) /\ (r.at < l \/ l + n <= r.at)
    BY <1>1, <1>7, <1>11
  <2>21. ArgsKept(r, r.at, n, 2, c, l)
    BY <1>8, <2>20
  <2>5. ArgsKept(q, r.at + 1, n, 2, c, l)
    BY <1>1, <1>6, <1>7, <1>10, <2>2, <2>20, <2>21, ArgsOn
  <2>6. PrecallRan(q, r.at + 1, n, g)
    BY <1>1, <1>8, <1>11, <2>2, PrecallOn
  <2> QED BY <1>1, <1>9, <1>11, <2>2, <2>3, <2>4, <2>5, <2>6 DEF Goes
<1>12. CASE r.at = 1
  <2>1. AtWord(r, "std_0", 0)
    BY <1>1, <1>12, PrecallWords
  <2>2. /\ Goes(r, q) /\ SameArgs(r, q) /\ SameToc(r, q) /\ SamePast(r, q)
        /\ q.link = r.link /\ q.kept = r.link
    BY <2>1, StdLink
  <2>3. LinkKept(q, r.at + 1, m)
    BY <1>1, <1>2, <1>8, <1>12, <2>2 DEF LinkKept, SameLink
  <2>4. TocFound(q, r.at + 1, t, b, h)
    BY <1>1, <1>3, <1>4, <1>5, <1>8, <1>12, <2>2 DEF TocFound, SameLink, SameToc
  <2>20. r.at <= 2 * n + 15 + g /\ (r.at < 2 \/ 2 + n <= r.at) /\ (r.at < l \/ l + n <= r.at)
    BY <1>1, <1>7, <1>12
  <2>21. ArgsKept(r, r.at, n, 2, c, l)
    BY <1>8, <2>20
  <2>5. ArgsKept(q, r.at + 1, n, 2, c, l)
    BY <1>1, <1>6, <1>7, <1>10, <2>2, <2>20, <2>21, ArgsOn
  <2>6. PrecallRan(q, r.at + 1, n, g)
    BY <1>1, <1>8, <1>12, <2>2, PrecallOn
  <2> QED BY <1>1, <1>9, <1>12, <2>2, <2>3, <2>4, <2>5, <2>6 DEF Goes
<1>13. CASE 2 <= r.at /\ r.at < 2 + n
  <2>0. AtWord(r, "std", r.at - 2 + 1)
    BY <1>1, <1>13, PrecallWords
  <2>1. r.args
    BY <1>1, <1>6, <1>7, <1>8, <1>13 DEF ArgsKept
  <2>2. /\ Goes(r, q) /\ SameLink(r, q) /\ SameToc(r, q) /\ SamePast(r, q)
        /\ q.args = r.args /\ q.loaded = r.loaded /\ q.saved = r.saved + 1
    BY <2>0, <2>1, Std
  <2>3. LinkKept(q, r.at + 1, m)
    BY <1>1, <1>2, <1>8, <1>13, <2>2, LinkOn
  <2>4. TocFound(q, r.at + 1, t, b, h)
    BY <1>1, <1>3, <1>4, <1>5, <1>8, <1>13, <2>2, TocOn
  <2>20. r.at <= 2 * n + 15 + g /\ 2 <= r.at /\ r.at < 2 + n
    BY <1>1, <1>7, <1>13
  <2>21. ArgsKept(r, r.at, n, 2, c, l)
    BY <1>8, <2>20
  <2>5. ArgsKept(q, r.at + 1, n, 2, c, l)
    BY <1>1, <1>6, <1>7, <1>10, <2>2, <2>20, <2>21, ArgsSaved
  <2>6. PrecallRan(q, r.at + 1, n, g)
    BY <1>1, <1>8, <1>13, <2>2, PrecallOn
  <2> QED BY <1>1, <1>9, <1>13, <2>2, <2>3, <2>4, <2>5, <2>6 DEF Goes
<1>14. CASE r.at = n + 2
  <2>1. AtWord(r, "slot0", 0)
    BY <1>1, <1>14, PrecallWords
  <2>2. /\ Goes(r, q) /\ SameLink(r, q) /\ SameArgs(r, q) /\ SameToc(r, q)
        /\ q.first /\ q.result = r.result /\ q.log = r.log
    BY <2>1, SlotFirst
  <2>3. LinkKept(q, r.at + 1, m)
    BY <1>1, <1>2, <1>8, <1>14, <2>2, LinkOn
  <2>4. TocFound(q, r.at + 1, t, b, h)
    BY <1>1, <1>3, <1>4, <1>5, <1>8, <1>14, <2>2, TocOn
  <2>20. r.at <= 2 * n + 15 + g /\ (r.at < 2 \/ 2 + n <= r.at) /\ (r.at < l \/ l + n <= r.at)
    BY <1>1, <1>7, <1>14
  <2>21. ArgsKept(r, r.at, n, 2, c, l)
    BY <1>8, <2>20
  <2>5. ArgsKept(q, r.at + 1, n, 2, c, l)
    BY <1>1, <1>6, <1>7, <1>10, <2>2, <2>20, <2>21, ArgsOn
  <2>6. PrecallRan(q, r.at + 1, n, g)
    BY <1>1, <1>8, <1>14, <2>2 DEF PrecallRan
  <2> QED BY <1>1, <1>9, <1>14, <2>2, <2>3, <2>4, <2>5, <2>6 DEF Goes
<1>15. CASE r.at = n + 2 + 1
  <2>1. AtWord(r, "slot1", 0) /\ shape.kind # "plain"
    BY <1>1, <1>15, PrecallWords DEF PrecallKind
  <2>9. PICK a \in Nat : a = n + 2
    BY <1>1
  <2>10. SavedAt(shape.kind, shape.n) = a /\ r.at = a + 1
    BY <1>15, <2>9 DEF SavedAt, PrecallKind
  <2>2. /\ Regs(q) /\ q.pc = "return" /\ q.stub = r.stub /\ q.at = r.at /\ q.kept = r.kept
        /\ q.link = r.at + 1
        /\ SameToc(r, q) /\ q.saved = r.saved /\ q.loaded = 0 /\ (q.args <=> n = 0)
        /\ q.result \in {"ok", "fail"} /\ q.log = Append(r.log, Ran(r, "body", q.result))
    BY <2>1, <2>10, SlotSecond
  <2>11. r.args /\ r.first /\ r.toc = "kernel" /\ r.log = <<>>
    <3>1. r.args
      BY <1>1, <1>6, <1>8, <1>15 DEF ArgsKept
    <3>2. r.toc = "kernel"
      BY <1>1, <1>3, <1>8, <1>15 DEF TocFound
    <3>3. r.first /\ r.log = <<>>
      BY <1>1, <1>8, <1>15 DEF PrecallRan
    <3> QED BY <3>1, <3>2, <3>3
  <2>12. One(q.log, "body", q.result)
    BY <2>2, <2>11, FirstRan
  <2>14. TRUE
    OBVIOUS
  <2>13. r.at + 1 \in Nat
    BY <1>1
  <2>3. LinkKept(q, r.at + 1, m)
    BY <1>1, <1>2, <1>8, <1>15, <2>2 DEF LinkKept
  <2>4. TocFound(q, r.at + 1, t, b, h)
    BY <1>1, <1>3, <1>4, <1>5, <1>8, <1>15, <2>2 DEF TocFound, SameToc
  <2>5. r.at + 1 <= 2 * n + 15 + g => ArgsKept(q, r.at + 1, n, 2, c, l)
    BY <1>1, <1>6, <1>7, <1>8, <1>15, <2>2 DEF ArgsKept
  <2>6. PrecallRan(q, r.at + 1, n, g)
    BY <1>1, <1>8, <1>15, <2>2, <2>12, <2>14 DEF PrecallRan
  <2>7. PrecallAt(q, q.link, n, g)
    BY <1>1, <1>2, <1>3, <1>4, <1>5, <1>6, <1>7, <1>8, <1>15, <2>2, <2>3, <2>4, <2>5, <2>6, <2>13
    DEF PrecallAt
  <2> QED BY <2>2, <2>7, <2>13 DEF PrecallGoesOn
<1>16. CASE g = 2 /\ r.at = n + 4
  <2>1. AtWord(r, "cmpwi_3", 0) /\ "cmpwi_3" \in Quiet
    BY <1>1, <1>16, PrecallWords DEF Quiet
  <2>2. Goes(r, q) /\ SameLink(r, q) /\ SameArgs(r, q) /\ SameToc(r, q) /\ SamePast(r, q)
    BY <2>1, QuietWord
  <2>3. LinkKept(q, r.at + 1, m)
    BY <1>1, <1>2, <1>8, <1>16, <2>2, LinkOn
  <2>4. TocFound(q, r.at + 1, t, b, h)
    BY <1>1, <1>3, <1>4, <1>5, <1>8, <1>16, <2>2, TocOn
  <2>20. r.at <= 2 * n + 15 + g /\ (r.at < 2 \/ 2 + n <= r.at) /\ (r.at < l \/ l + n <= r.at)
    BY <1>1, <1>7, <1>16
  <2>21. ArgsKept(r, r.at, n, 2, c, l)
    BY <1>8, <2>20
  <2>5. ArgsKept(q, r.at + 1, n, 2, c, l)
    BY <1>1, <1>6, <1>7, <1>10, <2>2, <2>20, <2>21, ArgsOn
  <2>6. PrecallRan(q, r.at + 1, n, g)
    BY <1>1, <1>8, <1>16, <2>2, PrecallOn
  <2> QED BY <1>1, <1>9, <1>16, <2>2, <2>3, <2>4, <2>5, <2>6 DEF Goes
<1>17. CASE g = 2 /\ r.at = n + 4 + 1
  <2>1. AtWord(r, "bne", 14 + n) /\ shape.kind = "precall_success"
    BY <1>1, <1>17, PrecallWords DEF PrecallKind
  <2>9. 14 + n \in Nat
    BY <1>1
  <2>2. /\ Regs(q) /\ q.pc = r.pc /\ q.stub = r.stub
        /\ q.at = IF r.result = "ok" THEN r.at + 1 ELSE r.at + (14 + n)
        /\ SameLink(r, q) /\ SameArgs(r, q) /\ SameToc(r, q) /\ SamePast(r, q)
    BY <2>1, <2>9, Bne
  <2>10. CASE r.result = "ok"
    <3>1. q.at = r.at + 1
      BY <2>2, <2>10
    <3>3. LinkKept(q, r.at + 1, m)
      BY <1>1, <1>2, <1>8, <1>17, <2>2 DEF LinkKept, SameLink
    <3>4. TocFound(q, r.at + 1, t, b, h)
      BY <1>1, <1>3, <1>4, <1>5, <1>8, <1>17, <2>2
      DEF TocFound, SameLink, SameToc
    <3>7. ArgsKept(r, r.at, n, 2, c, l)
      BY <1>1, <1>8, <1>17
    <3>8. 2 + n <= r.at /\ r.at < l
      BY <1>1, <1>7, <1>17
    <3>5. ArgsKept(q, r.at + 1, n, 2, c, l)
      BY <1>1, <1>6, <1>7, <1>10, <2>2, <3>7, <3>8, ArgsOn
    <3>6. PrecallRan(q, r.at + 1, n, g)
      <4>1. q.result = r.result /\ q.log = r.log
        BY <2>2 DEF SamePast
      <4>2. One(r.log, "body", r.result) /\ r.result = "ok"
        BY <1>1, <1>8, <1>17, <2>10 DEF PrecallRan
      <4> QED BY <1>1, <1>17, <4>1, <4>2 DEF PrecallRan
    <3> QED BY <1>1, <1>2, <1>3, <1>4, <1>5, <1>6, <1>7, <1>8, <1>17, <1>9, <2>2, <3>1, <3>3,
               <3>4, <3>5, <3>6
  <2>11. CASE r.result # "ok"
    <3>1. q.at = r.at + (14 + n)
      BY <2>2, <2>11
    <3>3. LinkKept(q, q.at, m)
      BY <1>1, <1>2, <1>8, <1>17, <2>2, <3>1 DEF LinkKept, SameLink
    <3>4. TocFound(q, q.at, t, b, h)
      BY <1>1, <1>3, <1>4, <1>5, <1>8, <1>17, <2>2, <3>1
      DEF TocFound, SameLink, SameToc
    <3>9. n + 4 <= r.at /\ r.at <= 2 * n + 15 + g
      BY <1>1, <1>17
    <3>8. r.result \in {"ok", "fail"} /\ One(r.log, "body", r.result)
      BY <1>8, <3>9 DEF PrecallRan
    <3>5. r.result = "fail" /\ One(r.log, "body", r.result)
      BY <2>11, <3>8 DEF Results
    <3>6. Ended("precall_success", q.log, q.result)
      BY <2>2, <3>5 DEF Ended, SamePast
    <3>7. PrecallRan(q, q.at, n, g)
      BY <1>1, <1>8, <1>17, <2>1, <3>1, <3>6 DEF PrecallRan
    <3> QED BY <1>1, <1>2, <1>3, <1>4, <1>5, <1>6, <1>7, <1>8, <1>17, <1>9, <2>2, <3>1, <3>3,
               <3>4, <3>7
  <2> QED BY <2>10, <2>11
<1>18. CASE r.at = n + 4 + g
  <2>1. AtWord(r, "std_2", 0) /\ "std_2" \in Quiet
    BY <1>1, <1>18, PrecallWords DEF Quiet
  <2>2. Goes(r, q) /\ SameLink(r, q) /\ SameArgs(r, q) /\ SameToc(r, q) /\ SamePast(r, q)
    BY <2>1, QuietWord
  <2>3. LinkKept(q, r.at + 1, m)
    BY <1>1, <1>2, <1>8, <1>18, <2>2, LinkOn
  <2>4. TocFound(q, r.at + 1, t, b, h)
    BY <1>1, <1>3, <1>4, <1>5, <1>8, <1>18, <2>2, TocOn
  <2>20. r.at <= 2 * n + 15 + g /\ (r.at < 2 \/ 2 + n <= r.at) /\ (r.at < l \/ l + n <= r.at)
    BY <1>1, <1>7, <1>18
  <2>21. ArgsKept(r, r.at, n, 2, c, l)
    BY <1>8, <2>20
  <2>5. ArgsKept(q, r.at + 1, n, 2, c, l)
    BY <1>1, <1>6, <1>7, <1>10, <2>2, <2>20, <2>21, ArgsOn
  <2>6. PrecallRan(q, r.at + 1, n, g)
    BY <1>1, <1>8, <1>18, <2>2, PrecallOn
  <2> QED BY <1>1, <1>9, <1>18, <2>2, <2>3, <2>4, <2>5, <2>6 DEF Goes
<1>19. CASE n + 5 + g <= r.at /\ r.at < n + 5 + g + n
  <2>0. AtWord(r, "ld", r.at - (n + 5 + g) + 1)
    BY <1>1, <1>19, PrecallWords
  <2>1. PICK x \in Nat : x = r.at - (n + 5 + g) + 1
    BY <1>1, <1>19
  <2>9. AtWord(r, "ld", x) /\ x <= r.saved
    BY <1>1, <1>6, <1>7, <1>8, <1>19, <2>0, <2>1 DEF ArgsKept
  <2>2. /\ Goes(r, q) /\ SameLink(r, q) /\ SameToc(r, q) /\ SamePast(r, q)
        /\ q.saved = r.saved /\ q.loaded = r.loaded + 1
        /\ (q.args <=> r.args \/ r.loaded + 1 = n)
    BY <2>9, Ld
  <2>3. LinkKept(q, r.at + 1, m)
    BY <1>1, <1>2, <1>8, <1>19, <2>2, LinkOn
  <2>4. TocFound(q, r.at + 1, t, b, h)
    BY <1>1, <1>3, <1>4, <1>5, <1>8, <1>19, <2>2, TocOn
  <2>20. r.at <= 2 * n + 15 + g /\ l <= r.at /\ r.at < l + n
    BY <1>1, <1>7, <1>19
  <2>21. ArgsKept(r, r.at, n, 2, c, l)
    BY <1>8, <2>20
  <2>5. ArgsKept(q, r.at + 1, n, 2, c, l)
    BY <1>1, <1>6, <1>7, <1>10, <2>2, <2>20, <2>21, ArgsLoaded
  <2>6. PrecallRan(q, r.at + 1, n, g)
    BY <1>1, <1>8, <1>19, <2>2, PrecallOn
  <2> QED BY <1>1, <1>9, <1>19, <2>2, <2>3, <2>4, <2>5, <2>6 DEF Goes
<1>20. CASE 2 * n + 5 + g <= r.at /\ r.at < 2 * n + 5 + g + 7
  <2>1. PICK op \in Quiet : \E x : AtWord(r, op, x)
    BY <1>1, <1>20, PrecallWords
  <2>2. Goes(r, q) /\ SameLink(r, q) /\ SameArgs(r, q) /\ SameToc(r, q) /\ SamePast(r, q)
    BY <2>1, QuietWord
  <2>3. LinkKept(q, r.at + 1, m)
    BY <1>1, <1>2, <1>8, <1>20, <2>2, LinkOn
  <2>4. TocFound(q, r.at + 1, t, b, h)
    BY <1>1, <1>3, <1>4, <1>5, <1>8, <1>20, <2>2, TocOn
  <2>20. r.at <= 2 * n + 15 + g /\ (r.at < 2 \/ 2 + n <= r.at) /\ (r.at < l \/ l + n <= r.at)
    BY <1>1, <1>7, <1>20
  <2>21. ArgsKept(r, r.at, n, 2, c, l)
    BY <1>8, <2>20
  <2>5. ArgsKept(q, r.at + 1, n, 2, c, l)
    BY <1>1, <1>6, <1>7, <1>10, <2>2, <2>20, <2>21, ArgsOn
  <2>6. PrecallRan(q, r.at + 1, n, g)
    BY <1>1, <1>8, <1>20, <2>2, PrecallOn
  <2> QED BY <1>1, <1>9, <1>20, <2>2, <2>3, <2>4, <2>5, <2>6 DEF Goes
<1>21. CASE r.at = 2 * n + 5 + g + 7
  <2>1. AtWord(r, "mflr_2", 0)
    BY <1>1, <1>21, PrecallWords
  <2>2. /\ Goes(r, q) /\ SameLink(r, q) /\ SameArgs(r, q) /\ SamePast(r, q)
        /\ q.toc = r.toc /\ q.base = r.link
    BY <2>1, MflrToc
  <2>3. LinkKept(q, r.at + 1, m)
    BY <1>1, <1>2, <1>8, <1>21, <2>2, LinkOn
  <2>4. TocFound(q, r.at + 1, t, b, h)
    BY <1>1, <1>3, <1>4, <1>5, <1>8, <1>21, <2>2 DEF TocFound, SameLink, SameToc
  <2>20. r.at <= 2 * n + 15 + g /\ (r.at < 2 \/ 2 + n <= r.at) /\ (r.at < l \/ l + n <= r.at)
    BY <1>1, <1>7, <1>21
  <2>21. ArgsKept(r, r.at, n, 2, c, l)
    BY <1>8, <2>20
  <2>5. ArgsKept(q, r.at + 1, n, 2, c, l)
    BY <1>1, <1>6, <1>7, <1>10, <2>2, <2>20, <2>21, ArgsOn
  <2>6. PrecallRan(q, r.at + 1, n, g)
    BY <1>1, <1>8, <1>21, <2>2, PrecallOn
  <2> QED BY <1>1, <1>9, <1>21, <2>2, <2>3, <2>4, <2>5, <2>6 DEF Goes
<1>22. CASE r.at = 2 * n + 5 + g + 8
  <2>1. AtWord(r, "addi_2", -(n + 4))
    BY <1>1, <1>22, PrecallWords
  <2>9. -(n + 4) \in Int
    BY <1>1
  <2>2. /\ Goes(r, q) /\ SameLink(r, q) /\ SameArgs(r, q) /\ SamePast(r, q)
        /\ q.toc = r.toc /\ q.base = r.base + (-(n + 4))
    BY <2>1, <2>9, AddiToc
  <2>3. LinkKept(q, r.at + 1, m)
    BY <1>1, <1>2, <1>8, <1>22, <2>2, LinkOn
  <2>4. TocFound(q, r.at + 1, t, b, h)
    BY <1>1, <1>3, <1>4, <1>5, <1>8, <1>22, <2>2 DEF TocFound, SameLink, SameToc
  <2>20. r.at <= 2 * n + 15 + g /\ (r.at < 2 \/ 2 + n <= r.at) /\ (r.at < l \/ l + n <= r.at)
    BY <1>1, <1>7, <1>22
  <2>21. ArgsKept(r, r.at, n, 2, c, l)
    BY <1>8, <2>20
  <2>5. ArgsKept(q, r.at + 1, n, 2, c, l)
    BY <1>1, <1>6, <1>7, <1>10, <2>2, <2>20, <2>21, ArgsOn
  <2>6. PrecallRan(q, r.at + 1, n, g)
    BY <1>1, <1>8, <1>22, <2>2, PrecallOn
  <2> QED BY <1>1, <1>9, <1>22, <2>2, <2>3, <2>4, <2>5, <2>6 DEF Goes
<1>23. CASE r.at = 2 * n + 5 + g + 9
  <2>1. AtWord(r, "add_2", 0)
    BY <1>1, <1>23, PrecallWords
  <2>9. r.base = 0
    BY <1>1, <1>3, <1>4, <1>5, <1>8, <1>23 DEF TocFound
  <2>2. /\ Goes(r, q) /\ SameLink(r, q) /\ SameArgs(r, q) /\ SamePast(r, q)
        /\ q.toc = "payload" /\ q.base = r.base
    BY <2>1, <2>9, AddToc
  <2>3. LinkKept(q, r.at + 1, m)
    BY <1>1, <1>2, <1>8, <1>23, <2>2, LinkOn
  <2>4. TocFound(q, r.at + 1, t, b, h)
    BY <1>1, <1>3, <1>4, <1>5, <1>8, <1>23, <2>2 DEF TocFound, SameLink, SameToc
  <2>20. r.at <= 2 * n + 15 + g /\ (r.at < 2 \/ 2 + n <= r.at) /\ (r.at < l \/ l + n <= r.at)
    BY <1>1, <1>7, <1>23
  <2>21. ArgsKept(r, r.at, n, 2, c, l)
    BY <1>8, <2>20
  <2>5. ArgsKept(q, r.at + 1, n, 2, c, l)
    BY <1>1, <1>6, <1>7, <1>10, <2>2, <2>20, <2>21, ArgsOn
  <2>6. PrecallRan(q, r.at + 1, n, g)
    BY <1>1, <1>8, <1>23, <2>2, PrecallOn
  <2> QED BY <1>1, <1>9, <1>23, <2>2, <2>3, <2>4, <2>5, <2>6 DEF Goes
<1>24. CASE r.at = 2 * n + 15 + g
  <2>1. AtWord(r, "bl_hook", 0) /\ shape.kind # "plain"
    BY <1>1, <1>24, PrecallWords DEF PrecallKind
  <2>2. /\ Goes(r, q) /\ q.link = r.at + 1 /\ q.kept = r.kept /\ SameToc(r, q)
        /\ q.saved = r.saved /\ q.loaded = 0 /\ (q.args <=> n = 0)
        /\ q.result \in Results /\ q.log = Append(r.log, Ran(r, "hook", q.result))
    BY <2>1, HookCalled
  <2>11. r.args /\ r.toc = "payload" /\ One(r.log, "body", r.result) /\ (g = 2 => r.result = "ok")
    <3>1. r.args
      BY <1>1, <1>7, <1>8, <1>24 DEF ArgsKept
    <3>2. r.toc = "payload"
      BY <1>1, <1>3, <1>5, <1>8, <1>24 DEF TocFound
    <3>3. One(r.log, "body", r.result) /\ (g = 2 => r.result = "ok")
      BY <1>1, <1>8, <1>24 DEF PrecallRan
    <3> QED BY <3>1, <3>2, <3>3
  <2>12. Two(q.log, "body", r.result, "hook", q.result)
    BY <2>2, <2>11, ThenRan
  <2>3. LinkKept(q, r.at + 1, m)
    <3>1. q.kept = r.kept
      BY <2>2
    <3> QED BY <1>1, <1>2, <1>8, <1>24, <3>1 DEF LinkKept
  <2>4. TocFound(q, r.at + 1, t, b, h)
    <3>1. r.at + 1 > b /\ ~(r.at + 1 <= t + 9) /\ ~(h + 2 <= r.at + 1) /\ ~(r.at + 1 <= h)
      BY <1>1, <1>3, <1>4, <1>5, <1>24
    <3>2. ~(r.at + 1 <= t + 7) /\ r.at + 1 # t + 8 /\ r.at + 1 # t + 9
      BY <1>1, <1>3, <1>24
    <3> QED BY <3>1, <3>2 DEF TocFound
  <2>5. r.at + 1 <= 2 * n + 15 + g => ArgsKept(q, r.at + 1, n, 2, c, l)
    BY <1>1, <1>6, <1>7, <1>8, <1>24, <2>2 DEF ArgsKept, SameArgs
  <2>6. PrecallRan(q, r.at + 1, n, g)
    BY <1>1, <1>8, <1>24, <2>2, <2>11, <2>12
    DEF PrecallRan, SamePast
  <2> QED BY <1>1, <1>9, <1>24, <2>2, <2>3, <2>4, <2>5, <2>6 DEF Goes
<1>25. CASE r.at = 2 * n + 15 + g + 1
  <2>1. AtWord(r, "ld_2", 0)
    BY <1>1, <1>25, PrecallWords
  <2>2. /\ Goes(r, q) /\ SameLink(r, q) /\ SameArgs(r, q) /\ SamePast(r, q)
        /\ q.toc = "kernel" /\ q.base = r.base
    BY <2>1, LdToc
  <2>3. LinkKept(q, r.at + 1, m)
    BY <1>1, <1>2, <1>8, <1>25, <2>2, LinkOn
  <2>4. TocFound(q, r.at + 1, t, b, h)
    BY <1>1, <1>3, <1>4, <1>5, <1>8, <1>25, <2>2 DEF TocFound, SameLink, SameToc
  <2>5. ~(r.at + 1 <= 2 * n + 15 + g)
    BY <1>1, <1>25
  <2>22. PICK x : Two(r.log, "body", x, "hook", r.result) /\ (g = 2 => x = "ok")
    BY <1>1, <1>8, <1>25 DEF PrecallRan
  <2>23. q.log = r.log /\ q.result = r.result
    BY <2>2 DEF SamePast
  <2>6. Ended(PrecallKind(g), q.log, q.result)
    BY <2>22, <2>23 DEF Ended, PrecallKind
  <2>7. PrecallRan(q, r.at + 1, n, g)
    BY <1>1, <1>8, <1>25, <2>2, <2>6 DEF PrecallRan
  <2> QED BY <1>1, <1>9, <1>25, <2>2, <2>3, <2>4, <2>5, <2>7 DEF Goes
<1>26. CASE r.at = 2 * n + 17 + g
  <2>1. AtWord(r, "ld_0", 0) /\ "ld_0" \in Quiet
    BY <1>1, <1>26, PrecallWords DEF Quiet
  <2>2. Goes(r, q) /\ SameLink(r, q) /\ SameArgs(r, q) /\ SameToc(r, q) /\ SamePast(r, q)
    BY <2>1, QuietWord
  <2>3. LinkKept(q, r.at + 1, m)
    BY <1>1, <1>2, <1>8, <1>26, <2>2, LinkOn
  <2>4. TocFound(q, r.at + 1, t, b, h)
    BY <1>1, <1>3, <1>4, <1>5, <1>8, <1>26, <2>2, TocOn
  <2>5. ~(r.at + 1 <= 2 * n + 15 + g)
    BY <1>1, <1>26
  <2>6. PrecallRan(q, r.at + 1, n, g)
    BY <1>1, <1>8, <1>26, <2>2, PrecallOn
  <2> QED BY <1>1, <1>9, <1>26, <2>2, <2>3, <2>4, <2>5, <2>6 DEF Goes
<1>27. CASE r.at = 2 * n + 17 + g + 1
  <2>1. AtWord(r, "mtlr", 0)
    BY <1>1, <1>27, PrecallWords
  <2>2. /\ Goes(r, q) /\ SameArgs(r, q) /\ SameToc(r, q) /\ SamePast(r, q)
        /\ q.link = r.kept /\ q.kept = r.kept
    BY <2>1, Mtlr
  <2>3. LinkKept(q, r.at + 1, m)
    BY <1>1, <1>2, <1>8, <1>27, <2>2 DEF LinkKept, SameLink
  <2>4. TocFound(q, r.at + 1, t, b, h)
    BY <1>1, <1>3, <1>4, <1>5, <1>8, <1>27, <2>2 DEF TocFound, SameLink, SameToc
  <2>5. ~(r.at + 1 <= 2 * n + 15 + g)
    BY <1>1, <1>27
  <2>6. PrecallRan(q, r.at + 1, n, g)
    BY <1>1, <1>8, <1>27, <2>2, PrecallOn
  <2> QED BY <1>1, <1>9, <1>27, <2>2, <2>3, <2>4, <2>5, <2>6 DEF Goes
<1>28. CASE r.at = 2 * n + 17 + g + 2
  <2>1. AtWord(r, "blr", 0)
    BY <1>1, <1>28, PrecallWords
  <2>2. /\ Regs(q) /\ q.pc = "return" /\ q.stub = r.stub /\ q.at = r.at
        /\ SameLink(r, q) /\ SameArgs(r, q) /\ SameToc(r, q) /\ SamePast(r, q)
    BY <2>1, Blr
  <2>3. r.link = Caller /\ r.toc = "kernel" /\ Ended(shape.kind, r.log, r.result)
    <3>1. r.link = Caller
      BY <1>1, <1>2, <1>8, <1>28 DEF LinkKept
    <3>2. r.toc = "kernel"
      BY <1>1, <1>3, <1>5, <1>8, <1>28 DEF TocFound
    <3>3. Ended(PrecallKind(g), r.log, r.result)
      BY <1>1, <1>8, <1>28 DEF PrecallRan
    <3> QED BY <3>1, <3>2, <3>3
  <2>4. Final(q)
    BY <2>2, <2>3 DEF Final, SameToc, SamePast
  <2> QED BY <2>2, <2>3, <2>4 DEF PrecallGoesOn, SameLink
<1>29. \/ r.at = 0
      \/ r.at = 1
      \/ (2 <= r.at /\ r.at < 2 + n)
      \/ r.at = n + 2
      \/ r.at = n + 2 + 1
      \/ (g = 2 /\ r.at = n + 4)
      \/ (g = 2 /\ r.at = n + 4 + 1)
      \/ r.at = n + 4 + g
      \/ (n + 5 + g <= r.at /\ r.at < n + 5 + g + n)
      \/ (2 * n + 5 + g <= r.at /\ r.at < 2 * n + 5 + g + 7)
      \/ r.at = 2 * n + 5 + g + 7
      \/ r.at = 2 * n + 5 + g + 8
      \/ r.at = 2 * n + 5 + g + 9
      \/ r.at = 2 * n + 15 + g
      \/ r.at = 2 * n + 15 + g + 1
      \/ r.at = 2 * n + 17 + g
      \/ r.at = 2 * n + 17 + g + 1
      \/ r.at = 2 * n + 17 + g + 2
  BY <1>1
<1> QED BY <1>11, <1>12, <1>13, <1>14, <1>15, <1>16, <1>17, <1>18, <1>19, <1>20, <1>21, <1>22,
           <1>23, <1>24, <1>25, <1>26, <1>27, <1>28, <1>29

-----------------------------------------------------------------------------
(* postcall and cond_postcall.                                             *)

\* The word at each place of a stub that runs the hook first.
LEMMA PostcallWords ==
  ASSUME NEW n \in Nat, NEW g \in {0, 3}, shape.n = n, shape.kind = PostcallKind(g),
         NEW r, r.at \in Nat
  PROVE  /\ r.at = 0 => AtWord(r, "mflr_0", 0)
         /\ r.at = 1 => AtWord(r, "std_0", 0)
         /\ r.at = 2 => AtWord(r, "std_2", 0)
         /\ r.at = 2 + 1 => AtWord(r, "bl_next", 0)
         /\ 4 <= r.at /\ r.at < 4 + 7 => \E op \in Quiet : \E x : AtWord(r, op, x)
         /\ r.at = 4 + 7 => AtWord(r, "mflr_2", 0)
         /\ r.at = 4 + 8 => AtWord(r, "addi_2", -4)
         /\ r.at = 4 + 9 => AtWord(r, "add_2", 0)
         /\ 14 <= r.at /\ r.at < 14 + n => AtWord(r, "std", r.at - 14 + 1)
         /\ r.at = n + 14 => AtWord(r, "bl_hook", 0)
         /\ r.at = n + 14 + 1 => AtWord(r, "ld_2", 0)
         /\ g = 3 /\ r.at = n + 14 + 2 => AtWord(r, "extsw", 0)
         /\ g = 3 /\ r.at = n + 14 + 3 => AtWord(r, "cmpwi_4", 0)
         /\ g = 3 /\ r.at = n + 14 + 4 => AtWord(r, "bne", 3 + n)
         /\ n + 16 + g <= r.at /\ r.at < n + 16 + g + n =>
              AtWord(r, "ld", r.at - (n + 16 + g) + 1)
         /\ r.at = 2 * n + 16 + g => AtWord(r, "slot0", 0)
         /\ r.at = 2 * n + 16 + g + 1 => AtWord(r, "slot1", 0)
         /\ r.at = 2 * n + 18 + g => AtWord(r, "ld_0", 0)
         /\ r.at = 2 * n + 18 + g + 1 => AtWord(r, "mtlr", 0)
         /\ r.at = 2 * n + 18 + g + 2 => AtWord(r, "blr", 0)
<1>1. PICK c : c = Code(shape.kind, shape.n)
  OBVIOUS
<1>2. /\ Has(c, 0, SaveLink) /\ Has(c, 2, SaveTocAndLink) /\ Has(c, 4, FindToc(4))
      /\ Has(c, 14, SaveParams(n))
      /\ g = 3 => Has(c, n + 14, CallHookAndTest(n))
      /\ g = 0 => Has(c, n + 14, CallHook)
      /\ Has(c, n + 16 + g, LoadParams(n)) /\ Has(c, 2 * n + 16 + g, TwoNops)
      /\ Has(c, 2 * n + 18 + g, Leave)
  <2>1. CASE g = 0
    <3>1. c = Postcall(n)
      BY <1>1, <2>1 DEF PostcallKind, Code
    <3>2. n + 16 + g = n + 16 /\ 2 * n + 16 + g = 2 * n + 16 /\ 2 * n + 18 + g = 2 * n + 18
      BY <2>1
    <3> QED BY <2>1, <3>1, <3>2, PostcallCode
  <2>2. CASE g = 3
    <3>1. c = CondPostcall(n)
      BY <1>1, <2>2 DEF PostcallKind, Code
    <3>2. n + 16 + g = n + 19 /\ 2 * n + 16 + g = 2 * n + 19 /\ 2 * n + 18 + g = 2 * n + 21
      BY <2>2
    <3> QED BY <2>2, <3>1, <3>2, CondPostcallCode
  <2> QED BY <2>1, <2>2
<1>3. /\ WordsAt(r, 0, SaveLink) /\ WordsAt(r, 2, SaveTocAndLink) /\ WordsAt(r, 4, FindToc(4))
      /\ WordsAt(r, 14, SaveParams(n))
      /\ g = 3 => WordsAt(r, n + 14, CallHookAndTest(n))
      /\ g = 0 => WordsAt(r, n + 14, CallHook)
      /\ WordsAt(r, n + 16 + g, LoadParams(n)) /\ WordsAt(r, 2 * n + 16 + g, TwoNops)
      /\ WordsAt(r, 2 * n + 18 + g, Leave)
  BY <1>1, <1>2, WordOfPiece
<1>4. PICK k0, k1, k2, k3 \in Nat :
        /\ k0 = n + 14 /\ k1 = n + 16 + g /\ k2 = 2 * n + 16 + g /\ k3 = 2 * n + 18 + g
  OBVIOUS
<1>5. /\ r.at = 0 => AtWord(r, "mflr_0", 0)
      /\ r.at = 0 + 1 => AtWord(r, "std_0", 0)
  BY <1>3, InSaveLink
<1>6. /\ r.at = 2 => AtWord(r, "std_2", 0)
      /\ r.at = 2 + 1 => AtWord(r, "bl_next", 0)
  BY <1>3, InSaveTocAndLink
<1>7. /\ 4 <= r.at /\ r.at < 4 + 7 => \E op \in Quiet : \E x : AtWord(r, op, x)
      /\ r.at = 4 + 7 => AtWord(r, "mflr_2", 0)
      /\ r.at = 4 + 8 => AtWord(r, "addi_2", -4)
      /\ r.at = 4 + 9 => AtWord(r, "add_2", 0)
  BY <1>3, InFindToc
<1>8. 14 <= r.at /\ r.at < 14 + n => AtWord(r, "std", r.at - 14 + 1)
  BY <1>3, InSaveParams
<1>9. g = 3 => /\ r.at = k0 => AtWord(r, "bl_hook", 0)
               /\ r.at = k0 + 1 => AtWord(r, "ld_2", 0)
               /\ r.at = k0 + 2 => AtWord(r, "extsw", 0)
               /\ r.at = k0 + 3 => AtWord(r, "cmpwi_4", 0)
               /\ r.at = k0 + 4 => AtWord(r, "bne", 3 + n)
  BY <1>3, <1>4, InCallHookAndTest
<1>10. g = 0 => /\ r.at = k0 => AtWord(r, "bl_hook", 0)
                /\ r.at = k0 + 1 => AtWord(r, "ld_2", 0)
  BY <1>3, <1>4, InCallHook
<1>11. k1 <= r.at /\ r.at < k1 + n => AtWord(r, "ld", r.at - k1 + 1)
  BY <1>3, <1>4, InLoadParams
<1>12. /\ r.at = k2 => AtWord(r, "slot0", 0)
       /\ r.at = k2 + 1 => AtWord(r, "slot1", 0)
  BY <1>3, <1>4, InTwoNops
<1>13. /\ r.at = k3 => AtWord(r, "ld_0", 0)
       /\ r.at = k3 + 1 => AtWord(r, "mtlr", 0)
       /\ r.at = k3 + 2 => AtWord(r, "blr", 0)
  BY <1>3, <1>4, InLeave
<1>14. /\ r.at = k0 => AtWord(r, "bl_hook", 0)
       /\ r.at = k0 + 1 => AtWord(r, "ld_2", 0)
  BY <1>9, <1>10
<1> QED BY <1>4, <1>5, <1>6, <1>7, <1>8, <1>9, <1>11, <1>12, <1>13, <1>14

\* A step in the stub comes to the next place, to its end or into the body.
PostcallGoesOn(q, n, g) ==
  /\ Regs(q)
  /\ \/ q.pc = "stub" /\ PostcallAt(q, q.at, n, g)
     \/ q.pc = "return" /\ q.link \in Nat /\ PostcallAt(q, q.link, n, g)
     \/ q.pc = "return" /\ q.link = Caller /\ Final(q)

\* One place on, what has run stays what should have run, where no word runs anything.
LEMMA PostcallOn ==
  ASSUME NEW r, NEW q, NEW at \in Nat, NEW n \in Nat, NEW g \in {0, 3},
         PostcallRan(r, at, n, g), SamePast(r, q), at # n + 14, g = 3 => at # n + 18,
         at # 2 * n + 16 + g, at # 2 * n + 17 + g
  PROVE  PostcallRan(q, at + 1, n, g)
<1>1. q.first = r.first /\ q.result = r.result /\ q.log = r.log
  BY DEF SamePast
<1>2. g \in Nat
  OBVIOUS
<1>3. CASE at < n + 14
  BY <1>1, <1>2, <1>3 DEF PostcallRan
<1>4. CASE n + 15 <= at /\ at < 2 * n + 16 + g
  <2>1. /\ One(r.log, "hook", r.result) /\ r.result \in Results
        /\ g = 3 /\ at >= n + 19 => r.result = "postcall"
    BY <1>2, <1>4 DEF PostcallRan
  <2>2. g = 3 /\ at + 1 >= n + 19 => r.result = "postcall"
    BY <1>2, <1>4, <2>1
  <2> QED BY <1>1, <1>2, <1>4, <2>1, <2>2 DEF PostcallRan
<1>5. CASE at > 2 * n + 17 + g
  BY <1>1, <1>2, <1>5 DEF PostcallRan
<1> QED BY <1>2, <1>3, <1>4, <1>5

\* Each word of such a stub leads where it should.
LEMMA PostcallStep ==
  ASSUME NEW n \in Nat, NEW g \in {0, 3}, shape.n = n, shape.kind = PostcallKind(g),
         NEW r, Regs(r), r.pc = "stub", r.stub \in 1 .. 2, Ready(r.stub),
         PostcallAt(r, r.at, n, g), NEW q \in Execute(r)
  PROVE  q.stub = r.stub /\ PostcallGoesOn(q, n, g)
<1>1. g \in Nat /\ r.at \in Nat /\ r.at <= 2 * n + 20 + g
  BY DEF Regs, PostcallAt
<1>2. PICK m \in Nat : m = 2 * n + 19 + g
  BY <1>1
<1>3. PICK t \in Nat : t = 4
  BY <1>1
<1>4. PICK b \in Nat : b = 4
  BY <1>1
<1>5. PICK h \in Nat : h = n + 14
  BY <1>1
<1>6. PICK c \in Nat : c = n + 15
  BY <1>1
<1>7. PICK l \in Nat : l = n + 16 + g
  BY <1>1
<1>8. /\ LinkKept(r, r.at, m) /\ TocFound(r, r.at, t, b, h)
      /\ r.at <= 2 * n + 17 + g => ArgsKept(r, r.at, n, 14, c, l)
      /\ PostcallRan(r, r.at, n, g)
  BY <1>2, <1>3, <1>4, <1>5, <1>6, <1>7 DEF PostcallAt
<1>9. ASSUME Regs(q), q.pc = "stub", q.at <= 2 * n + 20 + g, LinkKept(q, q.at, m),
             TocFound(q, q.at, t, b, h),
             q.at <= 2 * n + 17 + g => ArgsKept(q, q.at, n, 14, c, l), PostcallRan(q, q.at, n, g)
      PROVE  PostcallGoesOn(q, n, g)
  BY <1>2, <1>3, <1>4, <1>5, <1>6, <1>7, <1>9 DEF PostcallGoesOn, PostcallAt, Regs
<1>10. 14 + n < c /\ c <= l /\ t + 10 <= h /\ 14 \in Nat
  BY <1>1, <1>3, <1>5, <1>6, <1>7
<1>11. CASE r.at = 0
  <2>1. AtWord(r, "mflr_0", 0) /\ "mflr_0" \in Quiet
    BY <1>1, <1>11, PostcallWords DEF Quiet
  <2>2. Goes(r, q) /\ SameLink(r, q) /\ SameArgs(r, q) /\ SameToc(r, q) /\ SamePast(r, q)
    BY <2>1, QuietWord
  <2>3. LinkKept(q, r.at + 1, m)
    BY <1>1, <1>2, <1>8, <1>11, <2>2 DEF LinkKept, SameLink
  <2>4. TocFound(q, r.at + 1, t, b, h)
    BY <1>1, <1>3, <1>4, <1>5, <1>8, <1>11, <2>2, TocOn
  <2>20. r.at <= 2 * n + 17 + g /\ (r.at < 14 \/ 14 + n <= r.at) /\ (r.at < l \/ l + n <= r.at)
    BY <1>1, <1>7, <1>11
  <2>21. ArgsKept(r, r.at, n, 14, c, l)
    BY <1>8, <2>20
  <2>5. ArgsKept(q, r.at + 1, n, 14, c, l)
    BY <1>1, <1>6, <1>7, <1>10, <2>2, <2>20, <2>21, ArgsOn
  <2>6. PostcallRan(q, r.at + 1, n, g)
    BY <1>1, <1>8, <1>11, <2>2, PostcallOn
  <2> QED BY <1>1, <1>9, <1>11, <2>2, <2>3, <2>4, <2>5, <2>6 DEF Goes
<1>12. CASE r.at = 1
  <2>1. AtWord(r, "std_0", 0)
    BY <1>1, <1>12, PostcallWords
  <2>2. /\ Goes(r, q) /\ SameArgs(r, q) /\ SameToc(r, q) /\ SamePast(r, q)
        /\ q.link = r.link /\ q.kept = r.link
    BY <2>1, StdLink
  <2>3. LinkKept(q, r.at + 1, m)
    BY <1>1, <1>2, <1>8, <1>12, <2>2 DEF LinkKept, SameLink
  <2>4. TocFound(q, r.at + 1, t, b, h)
    BY <1>1, <1>3, <1>4, <1>5, <1>8, <1>12, <2>2 DEF TocFound, SameLink, SameToc
  <2>20. r.at <= 2 * n + 17 + g /\ (r.at < 14 \/ 14 + n <= r.at) /\ (r.at < l \/ l + n <= r.at)
    BY <1>1, <1>7, <1>12
  <2>21. ArgsKept(r, r.at, n, 14, c, l)
    BY <1>8, <2>20
  <2>5. ArgsKept(q, r.at + 1, n, 14, c, l)
    BY <1>1, <1>6, <1>7, <1>10, <2>2, <2>20, <2>21, ArgsOn
  <2>6. PostcallRan(q, r.at + 1, n, g)
    BY <1>1, <1>8, <1>12, <2>2, PostcallOn
  <2> QED BY <1>1, <1>9, <1>12, <2>2, <2>3, <2>4, <2>5, <2>6 DEF Goes
<1>13. CASE r.at = 2
  <2>1. AtWord(r, "std_2", 0) /\ "std_2" \in Quiet
    BY <1>1, <1>13, PostcallWords DEF Quiet
  <2>2. Goes(r, q) /\ SameLink(r, q) /\ SameArgs(r, q) /\ SameToc(r, q) /\ SamePast(r, q)
    BY <2>1, QuietWord
  <2>3. LinkKept(q, r.at + 1, m)
    BY <1>1, <1>2, <1>8, <1>13, <2>2, LinkOn
  <2>4. TocFound(q, r.at + 1, t, b, h)
    BY <1>1, <1>3, <1>4, <1>5, <1>8, <1>13, <2>2, TocOn
  <2>20. r.at <= 2 * n + 17 + g /\ (r.at < 14 \/ 14 + n <= r.at) /\ (r.at < l \/ l + n <= r.at)
    BY <1>1, <1>7, <1>13
  <2>21. ArgsKept(r, r.at, n, 14, c, l)
    BY <1>8, <2>20
  <2>5. ArgsKept(q, r.at + 1, n, 14, c, l)
    BY <1>1, <1>6, <1>7, <1>10, <2>2, <2>20, <2>21, ArgsOn
  <2>6. PostcallRan(q, r.at + 1, n, g)
    BY <1>1, <1>8, <1>13, <2>2, PostcallOn
  <2> QED BY <1>1, <1>9, <1>13, <2>2, <2>3, <2>4, <2>5, <2>6 DEF Goes
<1>14. CASE r.at = 2 + 1
  <2>1. AtWord(r, "bl_next", 0)
    BY <1>1, <1>14, PostcallWords
  <2>2. /\ Goes(r, q) /\ SameArgs(r, q) /\ SameToc(r, q) /\ SamePast(r, q)
        /\ q.link = r.at + 1 /\ q.kept = r.kept
    BY <2>1, BlNext
  <2>3. LinkKept(q, r.at + 1, m)
    BY <1>1, <1>2, <1>8, <1>14, <2>2 DEF LinkKept, SameLink
  <2>4. TocFound(q, r.at + 1, t, b, h)
    BY <1>1, <1>3, <1>4, <1>5, <1>8, <1>14, <2>2 DEF TocFound, SameLink, SameToc
  <2>20. r.at <= 2 * n + 17 + g /\ (r.at < 14 \/ 14 + n <= r.at) /\ (r.at < l \/ l + n <= r.at)
    BY <1>1, <1>7, <1>14
  <2>21. ArgsKept(r, r.at, n, 14, c, l)
    BY <1>8, <2>20
  <2>5. ArgsKept(q, r.at + 1, n, 14, c, l)
    BY <1>1, <1>6, <1>7, <1>10, <2>2, <2>20, <2>21, ArgsOn
  <2>6. PostcallRan(q, r.at + 1, n, g)
    BY <1>1, <1>8, <1>14, <2>2, PostcallOn
  <2> QED BY <1>1, <1>9, <1>14, <2>2, <2>3, <2>4, <2>5, <2>6 DEF Goes
<1>15. CASE 4 <= r.at /\ r.at < 4 + 7
  <2>1. PICK op \in Quiet : \E x : AtWord(r, op, x)
    BY <1>1, <1>15, PostcallWords
  <2>2. Goes(r, q) /\ SameLink(r, q) /\ SameArgs(r, q) /\ SameToc(r, q) /\ SamePast(r, q)
    BY <2>1, QuietWord
  <2>3. LinkKept(q, r.at + 1, m)
    BY <1>1, <1>2, <1>8, <1>15, <2>2, LinkOn
  <2>4. TocFound(q, r.at + 1, t, b, h)
    BY <1>1, <1>3, <1>4, <1>5, <1>8, <1>15, <2>2, TocOn
  <2>20. r.at <= 2 * n + 17 + g /\ (r.at < 14 \/ 14 + n <= r.at) /\ (r.at < l \/ l + n <= r.at)
    BY <1>1, <1>7, <1>15
  <2>21. ArgsKept(r, r.at, n, 14, c, l)
    BY <1>8, <2>20
  <2>5. ArgsKept(q, r.at + 1, n, 14, c, l)
    BY <1>1, <1>6, <1>7, <1>10, <2>2, <2>20, <2>21, ArgsOn
  <2>6. PostcallRan(q, r.at + 1, n, g)
    BY <1>1, <1>8, <1>15, <2>2, PostcallOn
  <2> QED BY <1>1, <1>9, <1>15, <2>2, <2>3, <2>4, <2>5, <2>6 DEF Goes
<1>16. CASE r.at = 4 + 7
  <2>1. AtWord(r, "mflr_2", 0)
    BY <1>1, <1>16, PostcallWords
  <2>2. /\ Goes(r, q) /\ SameLink(r, q) /\ SameArgs(r, q) /\ SamePast(r, q)
        /\ q.toc = r.toc /\ q.base = r.link
    BY <2>1, MflrToc
  <2>3. LinkKept(q, r.at + 1, m)
    BY <1>1, <1>2, <1>8, <1>16, <2>2, LinkOn
  <2>4. TocFound(q, r.at + 1, t, b, h)
    BY <1>1, <1>3, <1>4, <1>5, <1>8, <1>16, <2>2 DEF TocFound, SameLink, SameToc
  <2>20. r.at <= 2 * n + 17 + g /\ (r.at < 14 \/ 14 + n <= r.at) /\ (r.at < l \/ l + n <= r.at)
    BY <1>1, <1>7, <1>16
  <2>21. ArgsKept(r, r.at, n, 14, c, l)
    BY <1>8, <2>20
  <2>5. ArgsKept(q, r.at + 1, n, 14, c, l)
    BY <1>1, <1>6, <1>7, <1>10, <2>2, <2>20, <2>21, ArgsOn
  <2>6. PostcallRan(q, r.at + 1, n, g)
    BY <1>1, <1>8, <1>16, <2>2, PostcallOn
  <2> QED BY <1>1, <1>9, <1>16, <2>2, <2>3, <2>4, <2>5, <2>6 DEF Goes
<1>17. CASE r.at = 4 + 8
  <2>1. AtWord(r, "addi_2", -4)
    BY <1>1, <1>17, PostcallWords
  <2>9. -4 \in Int
    BY <1>1
  <2>2. /\ Goes(r, q) /\ SameLink(r, q) /\ SameArgs(r, q) /\ SamePast(r, q)
        /\ q.toc = r.toc /\ q.base = r.base + (-4)
    BY <2>1, <2>9, AddiToc
  <2>3. LinkKept(q, r.at + 1, m)
    BY <1>1, <1>2, <1>8, <1>17, <2>2, LinkOn
  <2>4. TocFound(q, r.at + 1, t, b, h)
    BY <1>1, <1>3, <1>4, <1>5, <1>8, <1>17, <2>2 DEF TocFound, SameLink, SameToc
  <2>20. r.at <= 2 * n + 17 + g /\ (r.at < 14 \/ 14 + n <= r.at) /\ (r.at < l \/ l + n <= r.at)
    BY <1>1, <1>7, <1>17
  <2>21. ArgsKept(r, r.at, n, 14, c, l)
    BY <1>8, <2>20
  <2>5. ArgsKept(q, r.at + 1, n, 14, c, l)
    BY <1>1, <1>6, <1>7, <1>10, <2>2, <2>20, <2>21, ArgsOn
  <2>6. PostcallRan(q, r.at + 1, n, g)
    BY <1>1, <1>8, <1>17, <2>2, PostcallOn
  <2> QED BY <1>1, <1>9, <1>17, <2>2, <2>3, <2>4, <2>5, <2>6 DEF Goes
<1>18. CASE r.at = 4 + 9
  <2>1. AtWord(r, "add_2", 0)
    BY <1>1, <1>18, PostcallWords
  <2>9. r.base = 0
    BY <1>1, <1>3, <1>4, <1>5, <1>8, <1>18 DEF TocFound
  <2>2. /\ Goes(r, q) /\ SameLink(r, q) /\ SameArgs(r, q) /\ SamePast(r, q)
        /\ q.toc = "payload" /\ q.base = r.base
    BY <2>1, <2>9, AddToc
  <2>3. LinkKept(q, r.at + 1, m)
    BY <1>1, <1>2, <1>8, <1>18, <2>2, LinkOn
  <2>4. TocFound(q, r.at + 1, t, b, h)
    BY <1>1, <1>3, <1>4, <1>5, <1>8, <1>18, <2>2 DEF TocFound, SameLink, SameToc
  <2>20. r.at <= 2 * n + 17 + g /\ (r.at < 14 \/ 14 + n <= r.at) /\ (r.at < l \/ l + n <= r.at)
    BY <1>1, <1>7, <1>18
  <2>21. ArgsKept(r, r.at, n, 14, c, l)
    BY <1>8, <2>20
  <2>5. ArgsKept(q, r.at + 1, n, 14, c, l)
    BY <1>1, <1>6, <1>7, <1>10, <2>2, <2>20, <2>21, ArgsOn
  <2>6. PostcallRan(q, r.at + 1, n, g)
    BY <1>1, <1>8, <1>18, <2>2, PostcallOn
  <2> QED BY <1>1, <1>9, <1>18, <2>2, <2>3, <2>4, <2>5, <2>6 DEF Goes
<1>19. CASE 14 <= r.at /\ r.at < 14 + n
  <2>0. AtWord(r, "std", r.at - 14 + 1)
    BY <1>1, <1>19, PostcallWords
  <2>1. r.args
    BY <1>1, <1>6, <1>7, <1>8, <1>19 DEF ArgsKept
  <2>2. /\ Goes(r, q) /\ SameLink(r, q) /\ SameToc(r, q) /\ SamePast(r, q)
        /\ q.args = r.args /\ q.loaded = r.loaded /\ q.saved = r.saved + 1
    BY <2>0, <2>1, Std
  <2>3. LinkKept(q, r.at + 1, m)
    BY <1>1, <1>2, <1>8, <1>19, <2>2, LinkOn
  <2>4. TocFound(q, r.at + 1, t, b, h)
    BY <1>1, <1>3, <1>4, <1>5, <1>8, <1>19, <2>2, TocOn
  <2>20. r.at <= 2 * n + 17 + g /\ 14 <= r.at /\ r.at < 14 + n
    BY <1>1, <1>7, <1>19
  <2>21. ArgsKept(r, r.at, n, 14, c, l)
    BY <1>8, <2>20
  <2>5. ArgsKept(q, r.at + 1, n, 14, c, l)
    BY <1>1, <1>6, <1>7, <1>10, <2>2, <2>20, <2>21, ArgsSaved
  <2>6. PostcallRan(q, r.at + 1, n, g)
    BY <1>1, <1>8, <1>19, <2>2, PostcallOn
  <2> QED BY <1>1, <1>9, <1>19, <2>2, <2>3, <2>4, <2>5, <2>6 DEF Goes
<1>20. CASE r.at = n + 14
  <2>1. AtWord(r, "bl_hook", 0) /\ shape.kind # "plain"
    BY <1>1, <1>20, PostcallWords DEF PostcallKind
  <2>2. /\ Goes(r, q) /\ q.link = r.at + 1 /\ q.kept = r.kept /\ SameToc(r, q)
        /\ q.saved = r.saved /\ q.loaded = 0 /\ (q.args <=> n = 0)
        /\ q.result \in Results /\ q.log = Append(r.log, Ran(r, "hook", q.result))
    BY <2>1, HookCalled
  <2>11. r.args /\ r.toc = "payload" /\ r.log = <<>>
    <3>1. r.args
      BY <1>1, <1>6, <1>8, <1>20 DEF ArgsKept
    <3>2. r.toc = "payload"
      BY <1>1, <1>3, <1>5, <1>8, <1>20 DEF TocFound
    <3>3. r.log = <<>>
      BY <1>1, <1>8, <1>20 DEF PostcallRan
    <3> QED BY <3>1, <3>2, <3>3
  <2>12. One(q.log, "hook", q.result)
    BY <2>2, <2>11, FirstRan
  <2>3. LinkKept(q, r.at + 1, m)
    <3>1. q.kept = r.kept
      BY <2>2
    <3> QED BY <1>1, <1>2, <1>8, <1>20, <3>1 DEF LinkKept
  <2>4. TocFound(q, r.at + 1, t, b, h)
    BY <1>1, <1>3, <1>4, <1>5, <1>8, <1>20, <2>2 DEF TocFound, SameLink, SameToc
  <2>5. r.at + 1 <= 2 * n + 17 + g => ArgsKept(q, r.at + 1, n, 14, c, l)
    BY <1>1, <1>6, <1>7, <1>8, <1>20, <2>2 DEF ArgsKept, SameArgs
  <2>6. PostcallRan(q, r.at + 1, n, g)
    BY <1>1, <1>8, <1>20, <2>2, <2>11, <2>12
    DEF PostcallRan, SamePast
  <2> QED BY <1>1, <1>9, <1>20, <2>2, <2>3, <2>4, <2>5, <2>6 DEF Goes
<1>21. CASE r.at = n + 14 + 1
  <2>1. AtWord(r, "ld_2", 0)
    BY <1>1, <1>21, PostcallWords
  <2>2. /\ Goes(r, q) /\ SameLink(r, q) /\ SameArgs(r, q) /\ SamePast(r, q)
        /\ q.toc = "kernel" /\ q.base = r.base
    BY <2>1, LdToc
  <2>3. LinkKept(q, r.at + 1, m)
    BY <1>1, <1>2, <1>8, <1>21, <2>2, LinkOn
  <2>4. TocFound(q, r.at + 1, t, b, h)
    BY <1>1, <1>3, <1>4, <1>5, <1>8, <1>21, <2>2 DEF TocFound, SameLink, SameToc
  <2>20. r.at <= 2 * n + 17 + g /\ (r.at < 14 \/ 14 + n <= r.at) /\ (r.at < l \/ l + n <= r.at)
    BY <1>1, <1>7, <1>21
  <2>21. ArgsKept(r, r.at, n, 14, c, l)
    BY <1>8, <2>20
  <2>5. ArgsKept(q, r.at + 1, n, 14, c, l)
    BY <1>1, <1>6, <1>7, <1>10, <2>2, <2>20, <2>21, ArgsOn
  <2>6. PostcallRan(q, r.at + 1, n, g)
    BY <1>1, <1>8, <1>21, <2>2, PostcallOn
  <2> QED BY <1>1, <1>9, <1>21, <2>2, <2>3, <2>4, <2>5, <2>6 DEF Goes
<1>22. CASE g = 3 /\ r.at = n + 14 + 2
  <2>1. AtWord(r, "extsw", 0) /\ "extsw" \in Quiet
    BY <1>1, <1>22, PostcallWords DEF Quiet
  <2>2. Goes(r, q) /\ SameLink(r, q) /\ SameArgs(r, q) /\ SameToc(r, q) /\ SamePast(r, q)
    BY <2>1, QuietWord
  <2>3. LinkKept(q, r.at + 1, m)
    BY <1>1, <1>2, <1>8, <1>22, <2>2, LinkOn
  <2>4. TocFound(q, r.at + 1, t, b, h)
    BY <1>1, <1>3, <1>4, <1>5, <1>8, <1>22, <2>2, TocOn
  <2>20. r.at <= 2 * n + 17 + g /\ (r.at < 14 \/ 14 + n <= r.at) /\ (r.at < l \/ l + n <= r.at)
    BY <1>1, <1>7, <1>22
  <2>21. ArgsKept(r, r.at, n, 14, c, l)
    BY <1>8, <2>20
  <2>5. ArgsKept(q, r.at + 1, n, 14, c, l)
    BY <1>1, <1>6, <1>7, <1>10, <2>2, <2>20, <2>21, ArgsOn
  <2>6. PostcallRan(q, r.at + 1, n, g)
    BY <1>1, <1>8, <1>22, <2>2, PostcallOn
  <2> QED BY <1>1, <1>9, <1>22, <2>2, <2>3, <2>4, <2>5, <2>6 DEF Goes
<1>23. CASE g = 3 /\ r.at = n + 14 + 3
  <2>1. AtWord(r, "cmpwi_4", 0) /\ "cmpwi_4" \in Quiet
    BY <1>1, <1>23, PostcallWords DEF Quiet
  <2>2. Goes(r, q) /\ SameLink(r, q) /\ SameArgs(r, q) /\ SameToc(r, q) /\ SamePast(r, q)
    BY <2>1, QuietWord
  <2>3. LinkKept(q, r.at + 1, m)
    BY <1>1, <1>2, <1>8, <1>23, <2>2, LinkOn
  <2>4. TocFound(q, r.at + 1, t, b, h)
    BY <1>1, <1>3, <1>4, <1>5, <1>8, <1>23, <2>2, TocOn
  <2>20. r.at <= 2 * n + 17 + g /\ (r.at < 14 \/ 14 + n <= r.at) /\ (r.at < l \/ l + n <= r.at)
    BY <1>1, <1>7, <1>23
  <2>21. ArgsKept(r, r.at, n, 14, c, l)
    BY <1>8, <2>20
  <2>5. ArgsKept(q, r.at + 1, n, 14, c, l)
    BY <1>1, <1>6, <1>7, <1>10, <2>2, <2>20, <2>21, ArgsOn
  <2>6. PostcallRan(q, r.at + 1, n, g)
    BY <1>1, <1>8, <1>23, <2>2, PostcallOn
  <2> QED BY <1>1, <1>9, <1>23, <2>2, <2>3, <2>4, <2>5, <2>6 DEF Goes
<1>24. CASE g = 3 /\ r.at = n + 14 + 4
  <2>1. AtWord(r, "bne", 3 + n) /\ shape.kind = "cond_postcall"
    BY <1>1, <1>24, PostcallWords DEF PostcallKind
  <2>9. 3 + n \in Nat
    BY <1>1
  <2>2. /\ Regs(q) /\ q.pc = r.pc /\ q.stub = r.stub
        /\ q.at = IF r.result = "postcall" THEN r.at + 1 ELSE r.at + (3 + n)
        /\ SameLink(r, q) /\ SameArgs(r, q) /\ SameToc(r, q) /\ SamePast(r, q)
    BY <2>1, <2>9, Bne
  <2>10. CASE r.result = "postcall"
    <3>1. q.at = r.at + 1
      BY <2>2, <2>10
    <3>3. LinkKept(q, r.at + 1, m)
      BY <1>1, <1>2, <1>8, <1>24, <2>2 DEF LinkKept, SameLink
    <3>4. TocFound(q, r.at + 1, t, b, h)
      BY <1>1, <1>3, <1>4, <1>5, <1>8, <1>24, <2>2
      DEF TocFound, SameLink, SameToc
    <3>7. ArgsKept(r, r.at, n, 14, c, l)
      BY <1>1, <1>8, <1>24
    <3>8. 14 + n <= r.at /\ r.at < l
      BY <1>1, <1>7, <1>24
    <3>5. ArgsKept(q, r.at + 1, n, 14, c, l)
      BY <1>1, <1>6, <1>7, <1>10, <2>2, <3>7, <3>8, ArgsOn
    <3>6. PostcallRan(q, r.at + 1, n, g)
      BY <1>1, <1>8, <1>24, <2>2, <2>10
      DEF PostcallRan, SamePast
    <3> QED BY <1>1, <1>2, <1>3, <1>4, <1>5, <1>6, <1>7, <1>8, <1>24, <1>9, <2>2, <3>1, <3>3,
               <3>4, <3>5, <3>6
  <2>11. CASE r.result # "postcall"
    <3>1. q.at = r.at + (3 + n)
      BY <2>2, <2>11
    <3>3. LinkKept(q, q.at, m)
      BY <1>1, <1>2, <1>8, <1>24, <2>2, <3>1 DEF LinkKept, SameLink
    <3>4. TocFound(q, q.at, t, b, h)
      BY <1>1, <1>3, <1>4, <1>5, <1>8, <1>24, <2>2, <3>1
      DEF TocFound, SameLink, SameToc
    <3>9. n + 15 <= r.at /\ r.at <= 2 * n + 17 + g
      BY <1>1, <1>24
    <3>8. r.result \in Results /\ One(r.log, "hook", r.result)
      BY <1>8, <3>9 DEF PostcallRan
    <3>5. r.result \in {"ok", "fail"} /\ One(r.log, "hook", r.result)
      BY <2>11, <3>8 DEF Results
    <3>6. Ended("cond_postcall", q.log, q.result)
      BY <2>2, <3>5 DEF Ended, SamePast
    <3>7. PostcallRan(q, q.at, n, g)
      BY <1>1, <1>8, <1>24, <2>1, <3>1, <3>6 DEF PostcallRan
    <3> QED BY <1>1, <1>2, <1>3, <1>4, <1>5, <1>6, <1>7, <1>8, <1>24, <1>9, <2>2, <3>1, <3>3,
               <3>4, <3>7
  <2> QED BY <2>10, <2>11
<1>25. CASE n + 16 + g <= r.at /\ r.at < n + 16 + g + n
  <2>0. AtWord(r, "ld", r.at - (n + 16 + g) + 1)
    BY <1>1, <1>25, PostcallWords
  <2>1. PICK x \in Nat : x = r.at - (n + 16 + g) + 1
    BY <1>1, <1>25
  <2>9. AtWord(r, "ld", x) /\ x <= r.saved
    BY <1>1, <1>6, <1>7, <1>8, <1>25, <2>0, <2>1 DEF ArgsKept
  <2>2. /\ Goes(r, q) /\ SameLink(r, q) /\ SameToc(r, q) /\ SamePast(r, q)
        /\ q.saved = r.saved /\ q.loaded = r.loaded + 1
        /\ (q.args <=> r.args \/ r.loaded + 1 = n)
    BY <2>9, Ld
  <2>3. LinkKept(q, r.at + 1, m)
    BY <1>1, <1>2, <1>8, <1>25, <2>2, LinkOn
  <2>4. TocFound(q, r.at + 1, t, b, h)
    BY <1>1, <1>3, <1>4, <1>5, <1>8, <1>25, <2>2, TocOn
  <2>20. r.at <= 2 * n + 17 + g /\ l <= r.at /\ r.at < l + n
    BY <1>1, <1>7, <1>25
  <2>21. ArgsKept(r, r.at, n, 14, c, l)
    BY <1>8, <2>20
  <2>5. ArgsKept(q, r.at + 1, n, 14, c, l)
    BY <1>1, <1>6, <1>7, <1>10, <2>2, <2>20, <2>21, ArgsLoaded
  <2>6. PostcallRan(q, r.at + 1, n, g)
    BY <1>1, <1>8, <1>25, <2>2, PostcallOn
  <2> QED BY <1>1, <1>9, <1>25, <2>2, <2>3, <2>4, <2>5, <2>6 DEF Goes
<1>26. CASE r.at = 2 * n + 16 + g
  <2>1. AtWord(r, "slot0", 0)
    BY <1>1, <1>26, PostcallWords
  <2>2. /\ Goes(r, q) /\ SameLink(r, q) /\ SameArgs(r, q) /\ SameToc(r, q)
        /\ q.first /\ q.result = r.result /\ q.log = r.log
    BY <2>1, SlotFirst
  <2>3. LinkKept(q, r.at + 1, m)
    BY <1>1, <1>2, <1>8, <1>26, <2>2, LinkOn
  <2>4. TocFound(q, r.at + 1, t, b, h)
    BY <1>1, <1>3, <1>4, <1>5, <1>8, <1>26, <2>2, TocOn
  <2>20. r.at <= 2 * n + 17 + g /\ (r.at < 14 \/ 14 + n <= r.at) /\ (r.at < l \/ l + n <= r.at)
    BY <1>1, <1>7, <1>26
  <2>21. ArgsKept(r, r.at, n, 14, c, l)
    BY <1>8, <2>20
  <2>5. ArgsKept(q, r.at + 1, n, 14, c, l)
    BY <1>1, <1>6, <1>7, <1>10, <2>2, <2>20, <2>21, ArgsOn
  <2>6. PostcallRan(q, r.at + 1, n, g)
    BY <1>1, <1>8, <1>26, <2>2 DEF PostcallRan
  <2> QED BY <1>1, <1>9, <1>26, <2>2, <2>3, <2>4, <2>5, <2>6 DEF Goes
<1>27. CASE r.at = 2 * n + 16 + g + 1
  <2>1. AtWord(r, "slot1", 0) /\ shape.kind # "plain"
    BY <1>1, <1>27, PostcallWords DEF PostcallKind
  <2>9. PICK a \in Nat : a = 2 * n + 16 + g
    BY <1>1
  <2>10. SavedAt(shape.kind, shape.n) = a /\ r.at = a + 1
    BY <1>27, <2>9 DEF SavedAt, PostcallKind
  <2>2. /\ Regs(q) /\ q.pc = "return" /\ q.stub = r.stub /\ q.at = r.at /\ q.kept = r.kept
        /\ q.link = r.at + 1
        /\ SameToc(r, q) /\ q.saved = r.saved /\ q.loaded = 0 /\ (q.args <=> n = 0)
        /\ q.result \in {"ok", "fail"} /\ q.log = Append(r.log, Ran(r, "body", q.result))
    BY <2>1, <2>10, SlotSecond
  <2>11. r.args /\ r.first /\ r.toc = "kernel" /\ One(r.log, "hook", r.result)
        /\ (g = 3 => r.result = "postcall")
    <3>1. r.args
      BY <1>1, <1>7, <1>8, <1>27 DEF ArgsKept
    <3>2. r.toc = "kernel"
      BY <1>1, <1>3, <1>5, <1>8, <1>27 DEF TocFound
    <3>3. r.first /\ One(r.log, "hook", r.result) /\ (g = 3 => r.result = "postcall")
      BY <1>1, <1>8, <1>27 DEF PostcallRan
    <3> QED BY <3>1, <3>2, <3>3
  <2>12. Two(q.log, "hook", r.result, "body", q.result)
    BY <2>2, <2>11, ThenRan
  <2>14. Ended(PostcallKind(g), q.log, q.result)
    BY <2>11, <2>12 DEF Ended, PostcallKind
  <2>13. r.at + 1 \in Nat
    BY <1>1
  <2>3. LinkKept(q, r.at + 1, m)
    BY <1>1, <1>2, <1>8, <1>27, <2>2 DEF LinkKept
  <2>4. TocFound(q, r.at + 1, t, b, h)
    BY <1>1, <1>3, <1>4, <1>5, <1>8, <1>27, <2>2 DEF TocFound, SameToc
  <2>5. r.at + 1 <= 2 * n + 17 + g => ArgsKept(q, r.at + 1, n, 14, c, l)
    BY <1>1, <1>6, <1>7, <1>8, <1>27, <2>2 DEF ArgsKept
  <2>6. PostcallRan(q, r.at + 1, n, g)
    BY <1>1, <1>8, <1>27, <2>2, <2>12, <2>14 DEF PostcallRan
  <2>7. PostcallAt(q, q.link, n, g)
    BY <1>1, <1>2, <1>3, <1>4, <1>5, <1>6, <1>7, <1>8, <1>27, <2>2, <2>3, <2>4, <2>5, <2>6, <2>13
    DEF PostcallAt
  <2> QED BY <2>2, <2>7, <2>13 DEF PostcallGoesOn
<1>28. CASE r.at = 2 * n + 18 + g
  <2>1. AtWord(r, "ld_0", 0) /\ "ld_0" \in Quiet
    BY <1>1, <1>28, PostcallWords DEF Quiet
  <2>2. Goes(r, q) /\ SameLink(r, q) /\ SameArgs(r, q) /\ SameToc(r, q) /\ SamePast(r, q)
    BY <2>1, QuietWord
  <2>3. LinkKept(q, r.at + 1, m)
    BY <1>1, <1>2, <1>8, <1>28, <2>2, LinkOn
  <2>4. TocFound(q, r.at + 1, t, b, h)
    BY <1>1, <1>3, <1>4, <1>5, <1>8, <1>28, <2>2, TocOn
  <2>5. ~(r.at + 1 <= 2 * n + 17 + g)
    BY <1>1, <1>28
  <2>6. PostcallRan(q, r.at + 1, n, g)
    BY <1>1, <1>8, <1>28, <2>2, PostcallOn
  <2> QED BY <1>1, <1>9, <1>28, <2>2, <2>3, <2>4, <2>5, <2>6 DEF Goes
<1>29. CASE r.at = 2 * n + 18 + g + 1
  <2>1. AtWord(r, "mtlr", 0)
    BY <1>1, <1>29, PostcallWords
  <2>2. /\ Goes(r, q) /\ SameArgs(r, q) /\ SameToc(r, q) /\ SamePast(r, q)
        /\ q.link = r.kept /\ q.kept = r.kept
    BY <2>1, Mtlr
  <2>3. LinkKept(q, r.at + 1, m)
    BY <1>1, <1>2, <1>8, <1>29, <2>2 DEF LinkKept, SameLink
  <2>4. TocFound(q, r.at + 1, t, b, h)
    BY <1>1, <1>3, <1>4, <1>5, <1>8, <1>29, <2>2 DEF TocFound, SameLink, SameToc
  <2>5. ~(r.at + 1 <= 2 * n + 17 + g)
    BY <1>1, <1>29
  <2>6. PostcallRan(q, r.at + 1, n, g)
    BY <1>1, <1>8, <1>29, <2>2, PostcallOn
  <2> QED BY <1>1, <1>9, <1>29, <2>2, <2>3, <2>4, <2>5, <2>6 DEF Goes
<1>30. CASE r.at = 2 * n + 18 + g + 2
  <2>1. AtWord(r, "blr", 0)
    BY <1>1, <1>30, PostcallWords
  <2>2. /\ Regs(q) /\ q.pc = "return" /\ q.stub = r.stub /\ q.at = r.at
        /\ SameLink(r, q) /\ SameArgs(r, q) /\ SameToc(r, q) /\ SamePast(r, q)
    BY <2>1, Blr
  <2>3. r.link = Caller /\ r.toc = "kernel" /\ Ended(shape.kind, r.log, r.result)
    BY <1>1, <1>2, <1>3, <1>4, <1>5, <1>8, <1>30 DEF LinkKept, TocFound, PostcallRan
  <2>4. Final(q)
    BY <2>2, <2>3 DEF Final, SameToc, SamePast
  <2> QED BY <2>2, <2>3, <2>4 DEF PostcallGoesOn, SameLink
<1>31. \/ r.at = 0
      \/ r.at = 1
      \/ r.at = 2
      \/ r.at = 2 + 1
      \/ (4 <= r.at /\ r.at < 4 + 7)
      \/ r.at = 4 + 7
      \/ r.at = 4 + 8
      \/ r.at = 4 + 9
      \/ (14 <= r.at /\ r.at < 14 + n)
      \/ r.at = n + 14
      \/ r.at = n + 14 + 1
      \/ (g = 3 /\ r.at = n + 14 + 2)
      \/ (g = 3 /\ r.at = n + 14 + 3)
      \/ (g = 3 /\ r.at = n + 14 + 4)
      \/ (n + 16 + g <= r.at /\ r.at < n + 16 + g + n)
      \/ r.at = 2 * n + 16 + g
      \/ r.at = 2 * n + 16 + g + 1
      \/ r.at = 2 * n + 18 + g
      \/ r.at = 2 * n + 18 + g + 1
      \/ r.at = 2 * n + 18 + g + 2
  BY <1>1
<1> QED BY <1>11, <1>12, <1>13, <1>14, <1>15, <1>16, <1>17, <1>18, <1>19, <1>20, <1>21, <1>22,
           <1>23, <1>24, <1>25, <1>26, <1>27, <1>28, <1>29, <1>30, <1>31

-----------------------------------------------------------------------------
(* The hook that takes the place of a function, and may call it.           *)

\* The word at each place of a stub that replaces the function.
LEMMA PlainWords ==
  ASSUME shape.kind = "plain", NEW r, r.at \in Nat
  PROVE  /\ r.at = 0 => AtWord(r, "mflr_0", 0)
         /\ r.at = 1 => AtWord(r, "std_0", 0)
         /\ r.at = 2 => AtWord(r, "std_2", 0)
         /\ r.at = 3 => AtWord(r, "bl_next", 0)
         /\ 4 <= r.at /\ r.at < 11 => \E op \in Quiet : \E x : AtWord(r, op, x)
         /\ r.at = 11 => AtWord(r, "mflr_2", 0)
         /\ r.at = 12 => AtWord(r, "addi_2", -4)
         /\ r.at = 13 => AtWord(r, "add_2", 0)
         /\ r.at = 14 => AtWord(r, "bl_hook", 0)
         /\ r.at = 15 => AtWord(r, "ld_2", 0)
         /\ r.at = 16 => AtWord(r, "ld_0", 0)
         /\ r.at = 17 => AtWord(r, "mtlr", 0)
         /\ r.at = 18 => AtWord(r, "blr", 0)
         /\ r.at = 19 => AtWord(r, "slot0", 0)
         /\ r.at = 20 => AtWord(r, "slot1", 0)
<1>1. PICK c : c = Code(shape.kind, shape.n)
  OBVIOUS
<1>2. /\ Has(c, 0, SaveLink) /\ Has(c, 2, SaveTocAndLink) /\ Has(c, 4, FindToc(4))
      /\ Has(c, 14, CallHook) /\ Has(c, 16, Leave) /\ Has(c, 19, TwoNops)
  <2>1. c = Plain
    BY <1>1 DEF Code
  <2>2. 0 \in Nat
    OBVIOUS
  <2> QED BY <2>1, <2>2, PlainCode
<1>3. /\ WordsAt(r, 0, SaveLink) /\ WordsAt(r, 2, SaveTocAndLink) /\ WordsAt(r, 4, FindToc(4))
      /\ WordsAt(r, 14, CallHook) /\ WordsAt(r, 16, Leave) /\ WordsAt(r, 19, TwoNops)
  BY <1>1, <1>2, WordOfPiece
<1>4. /\ r.at = 0 => AtWord(r, "mflr_0", 0)
      /\ r.at = 0 + 1 => AtWord(r, "std_0", 0)
  BY <1>3, InSaveLink
<1>5. /\ r.at = 2 => AtWord(r, "std_2", 0)
      /\ r.at = 2 + 1 => AtWord(r, "bl_next", 0)
  BY <1>3, InSaveTocAndLink
<1>6. /\ 4 <= r.at /\ r.at < 4 + 7 => \E op \in Quiet : \E x : AtWord(r, op, x)
      /\ r.at = 4 + 7 => AtWord(r, "mflr_2", 0)
      /\ r.at = 4 + 8 => AtWord(r, "addi_2", -4)
      /\ r.at = 4 + 9 => AtWord(r, "add_2", 0)
  BY <1>3, InFindToc
<1>7. /\ r.at = 14 => AtWord(r, "bl_hook", 0)
      /\ r.at = 14 + 1 => AtWord(r, "ld_2", 0)
  BY <1>3, InCallHook
<1>8. /\ r.at = 16 => AtWord(r, "ld_0", 0)
      /\ r.at = 16 + 1 => AtWord(r, "mtlr", 0)
      /\ r.at = 16 + 2 => AtWord(r, "blr", 0)
  BY <1>3, InLeave
<1>9. /\ r.at = 19 => AtWord(r, "slot0", 0)
      /\ r.at = 19 + 1 => AtWord(r, "slot1", 0)
  BY <1>3, InTwoNops
<1> QED BY <1>4, <1>5, <1>6, <1>7, <1>8, <1>9

\* A step in the stub comes to the next place, to its end or into the body, which
\* returns to the hook.
PlainGoesOn(q) ==
  /\ Regs(q)
  /\ \/ q.pc = "stub" /\ PlainAt(q, q.at)
     \/ q.pc = "return" /\ q.link = InHook /\ PlainAt(q, 15)
     \/ q.pc = "return" /\ q.link = Caller /\ Final(q)

\* Each word of such a stub leads where it should.
LEMMA PlainStep ==
  ASSUME shape.kind = "plain", NEW r, Regs(r), r.pc = "stub", r.stub \in 1 .. 2,
         Ready(r.stub), PlainAt(r, r.at), NEW q \in Execute(r)
  PROVE  q.stub = r.stub /\ PlainGoesOn(q)
<1>1. r.at \in Nat /\ r.at <= 20
  BY DEF Regs, PlainAt
<1>2. /\ r.at <= 18 => LinkKept(r, r.at, 17) /\ TocFound(r, r.at, 4, 4, 14)
      /\ r.at > 18 => r.kept = Caller /\ r.link = InHook /\ r.toc = "kernel"
      /\ PlainRan(r, r.at)
  BY DEF PlainAt
<1>3. CASE r.at = 0
  <2>1. AtWord(r, "mflr_0", 0) /\ "mflr_0" \in Quiet
    BY <1>1, <1>3, PlainWords DEF Quiet
  <2>2. Goes(r, q) /\ SameLink(r, q) /\ SameArgs(r, q) /\ SameToc(r, q) /\ SamePast(r, q)
    BY <2>1, QuietWord
  <2>3. LinkKept(q, r.at + 1, 17)
    BY <1>1, <1>2, <1>3, <2>2 DEF LinkKept, SameLink
  <2>4. TocFound(q, r.at + 1, 4, 4, 14)
    BY <1>1, <1>2, <1>3, <2>2 DEF TocFound, SameLink, SameToc
  <2>5. PlainRan(q, r.at + 1)
    BY <1>1, <1>2, <1>3, <2>2 DEF PlainRan, SameArgs, SamePast
  <2> QED BY <1>1, <1>3, <2>2, <2>3, <2>4, <2>5 DEF PlainGoesOn, PlainAt, Goes
<1>4. CASE r.at = 1
  <2>1. AtWord(r, "std_0", 0)
    BY <1>1, <1>4, PlainWords
  <2>2. /\ Goes(r, q) /\ SameArgs(r, q) /\ SameToc(r, q) /\ SamePast(r, q)
        /\ q.link = r.link /\ q.kept = r.link
    BY <2>1, StdLink
  <2>3. LinkKept(q, r.at + 1, 17)
    BY <1>1, <1>2, <1>4, <2>2 DEF LinkKept, SameLink
  <2>4. TocFound(q, r.at + 1, 4, 4, 14)
    BY <1>1, <1>2, <1>4, <2>2 DEF TocFound, SameLink, SameToc
  <2>5. PlainRan(q, r.at + 1)
    BY <1>1, <1>2, <1>4, <2>2 DEF PlainRan, SameArgs, SamePast
  <2> QED BY <1>1, <1>4, <2>2, <2>3, <2>4, <2>5 DEF PlainGoesOn, PlainAt, Goes
<1>5. CASE r.at = 2
  <2>1. AtWord(r, "std_2", 0) /\ "std_2" \in Quiet
    BY <1>1, <1>5, PlainWords DEF Quiet
  <2>2. Goes(r, q) /\ SameLink(r, q) /\ SameArgs(r, q) /\ SameToc(r, q) /\ SamePast(r, q)
    BY <2>1, QuietWord
  <2>3. LinkKept(q, r.at + 1, 17)
    BY <1>1, <1>2, <1>5, <2>2 DEF LinkKept, SameLink
  <2>4. TocFound(q, r.at + 1, 4, 4, 14)
    BY <1>1, <1>2, <1>5, <2>2 DEF TocFound, SameLink, SameToc
  <2>5. PlainRan(q, r.at + 1)
    BY <1>1, <1>2, <1>5, <2>2 DEF PlainRan, SameArgs, SamePast
  <2> QED BY <1>1, <1>5, <2>2, <2>3, <2>4, <2>5 DEF PlainGoesOn, PlainAt, Goes
<1>6. CASE r.at = 3
  <2>1. AtWord(r, "bl_next", 0)
    BY <1>1, <1>6, PlainWords
  <2>2. /\ Goes(r, q) /\ SameArgs(r, q) /\ SameToc(r, q) /\ SamePast(r, q)
        /\ q.link = r.at + 1 /\ q.kept = r.kept
    BY <2>1, BlNext
  <2>3. LinkKept(q, r.at + 1, 17)
    BY <1>1, <1>2, <1>6, <2>2 DEF LinkKept, SameLink
  <2>4. TocFound(q, r.at + 1, 4, 4, 14)
    BY <1>1, <1>2, <1>6, <2>2 DEF TocFound, SameLink, SameToc
  <2>5. PlainRan(q, r.at + 1)
    BY <1>1, <1>2, <1>6, <2>2 DEF PlainRan, SameArgs, SamePast
  <2> QED BY <1>1, <1>6, <2>2, <2>3, <2>4, <2>5 DEF PlainGoesOn, PlainAt, Goes
<1>7. CASE 4 <= r.at /\ r.at < 11
  <2>1. PICK op \in Quiet : \E x : AtWord(r, op, x)
    BY <1>1, <1>7, PlainWords
  <2>2. Goes(r, q) /\ SameLink(r, q) /\ SameArgs(r, q) /\ SameToc(r, q) /\ SamePast(r, q)
    BY <2>1, QuietWord
  <2>3. LinkKept(q, r.at + 1, 17)
    BY <1>1, <1>2, <1>7, <2>2 DEF LinkKept, SameLink
  <2>4. TocFound(q, r.at + 1, 4, 4, 14)
    BY <1>1, <1>2, <1>7, <2>2 DEF TocFound, SameLink, SameToc
  <2>5. PlainRan(q, r.at + 1)
    BY <1>1, <1>2, <1>7, <2>2 DEF PlainRan, SameArgs, SamePast
  <2> QED BY <1>1, <1>7, <2>2, <2>3, <2>4, <2>5 DEF PlainGoesOn, PlainAt, Goes
<1>8. CASE r.at = 11
  <2>1. AtWord(r, "mflr_2", 0)
    BY <1>1, <1>8, PlainWords
  <2>2. /\ Goes(r, q) /\ SameLink(r, q) /\ SameArgs(r, q) /\ SamePast(r, q)
        /\ q.toc = r.toc /\ q.base = r.link
    BY <2>1, MflrToc
  <2>3. LinkKept(q, r.at + 1, 17)
    BY <1>1, <1>2, <1>8, <2>2 DEF LinkKept, SameLink
  <2>4. TocFound(q, r.at + 1, 4, 4, 14)
    BY <1>1, <1>2, <1>8, <2>2 DEF TocFound, SameLink, SameToc
  <2>5. PlainRan(q, r.at + 1)
    BY <1>1, <1>2, <1>8, <2>2 DEF PlainRan, SameArgs, SamePast
  <2> QED BY <1>1, <1>8, <2>2, <2>3, <2>4, <2>5 DEF PlainGoesOn, PlainAt, Goes
<1>9. CASE r.at = 12
  <2>1. AtWord(r, "addi_2", -4)
    BY <1>1, <1>9, PlainWords
  <2>9. -4 \in Int
    OBVIOUS
  <2>2. /\ Goes(r, q) /\ SameLink(r, q) /\ SameArgs(r, q) /\ SamePast(r, q)
        /\ q.toc = r.toc /\ q.base = r.base + (-4)
    BY <2>1, <2>9, AddiToc
  <2>3. LinkKept(q, r.at + 1, 17)
    BY <1>1, <1>2, <1>9, <2>2 DEF LinkKept, SameLink
  <2>4. TocFound(q, r.at + 1, 4, 4, 14)
    BY <1>1, <1>2, <1>9, <2>2 DEF TocFound, SameLink, SameToc
  <2>5. PlainRan(q, r.at + 1)
    BY <1>1, <1>2, <1>9, <2>2 DEF PlainRan, SameArgs, SamePast
  <2> QED BY <1>1, <1>9, <2>2, <2>3, <2>4, <2>5 DEF PlainGoesOn, PlainAt, Goes
<1>10. CASE r.at = 13
  <2>1. AtWord(r, "add_2", 0)
    BY <1>1, <1>10, PlainWords
  <2>9. r.base = 0
    BY <1>1, <1>2, <1>10 DEF TocFound
  <2>2. /\ Goes(r, q) /\ SameLink(r, q) /\ SameArgs(r, q) /\ SamePast(r, q)
        /\ q.toc = "payload" /\ q.base = r.base
    BY <2>1, <2>9, AddToc
  <2>3. LinkKept(q, r.at + 1, 17)
    BY <1>1, <1>2, <1>10, <2>2 DEF LinkKept, SameLink
  <2>4. TocFound(q, r.at + 1, 4, 4, 14)
    BY <1>1, <1>2, <1>10, <2>2 DEF TocFound, SameLink, SameToc
  <2>5. PlainRan(q, r.at + 1)
    BY <1>1, <1>2, <1>10, <2>2 DEF PlainRan, SameArgs, SamePast
  <2> QED BY <1>1, <1>10, <2>2, <2>3, <2>4, <2>5 DEF PlainGoesOn, PlainAt, Goes
<1>11. CASE r.at = 14
  <2>1. AtWord(r, "bl_hook", 0)
    BY <1>1, <1>11, PlainWords
  <2>2. r.args /\ r.toc = "payload" /\ r.log = <<>> /\ r.kept = Caller
    BY <1>1, <1>2, <1>11 DEF LinkKept, TocFound, PlainRan
  <2>3. \A x : One(Append(r.log, Ran(r, "hook", x)), "hook", x)
    BY <2>2, FirstRan
  <2>4. CASE /\ Goes(r, q) /\ q.link = r.at + 1 /\ q.kept = r.kept /\ SameToc(r, q)
             /\ q.result \in Results /\ q.log = Append(r.log, Ran(r, "hook", q.result))
    <3>1. LinkKept(q, 15, 17)
      BY <2>2, <2>4 DEF LinkKept
    <3>2. TocFound(q, 15, 4, 4, 14)
      BY DEF TocFound
    <3>3. One(q.log, "hook", q.result)
      BY <2>3, <2>4
    <3>4. Ended("plain", q.log, q.result)
      BY <3>3 DEF Ended
    <3>5. PlainRan(q, 15)
      BY <3>4 DEF PlainRan
    <3>6. q.at = 15
      BY <1>11, <2>4 DEF Goes
    <3> QED BY <2>4, <3>1, <3>2, <3>5, <3>6 DEF PlainGoesOn, PlainAt, Goes
  <2>5. CASE /\ shape.kind = "plain" /\ Regs(q) /\ q.pc = r.pc /\ q.stub = r.stub
             /\ q.at = 19 /\ q.link = InHook /\ q.kept = r.kept /\ q.toc = "kernel"
             /\ SameArgs(r, q) /\ q.log = Append(r.log, Ran(r, "hook", "none"))
    <3>1. One(q.log, "hook", "none") /\ q.args
      BY <2>2, <2>3, <2>5 DEF SameArgs
    <3>2. PlainRan(q, 19)
      BY <3>1 DEF PlainRan
    <3> QED BY <2>2, <2>5, <3>2 DEF PlainGoesOn, PlainAt
  <2> QED BY <2>1, <2>4, <2>5, HookCalled
<1>12. CASE r.at = 15
  <2>1. AtWord(r, "ld_2", 0)
    BY <1>1, <1>12, PlainWords
  <2>2. /\ Goes(r, q) /\ SameLink(r, q) /\ SameArgs(r, q) /\ SamePast(r, q)
        /\ q.toc = "kernel" /\ q.base = r.base
    BY <2>1, LdToc
  <2>3. LinkKept(q, r.at + 1, 17)
    BY <1>1, <1>2, <1>12, <2>2 DEF LinkKept, SameLink
  <2>4. TocFound(q, r.at + 1, 4, 4, 14)
    BY <1>1, <1>2, <1>12, <2>2 DEF TocFound, SameLink, SameToc
  <2>5. PlainRan(q, r.at + 1)
    BY <1>1, <1>2, <1>12, <2>2 DEF PlainRan, SameArgs, SamePast
  <2> QED BY <1>1, <1>12, <2>2, <2>3, <2>4, <2>5 DEF PlainGoesOn, PlainAt, Goes
<1>13. CASE r.at = 16
  <2>1. AtWord(r, "ld_0", 0) /\ "ld_0" \in Quiet
    BY <1>1, <1>13, PlainWords DEF Quiet
  <2>2. Goes(r, q) /\ SameLink(r, q) /\ SameArgs(r, q) /\ SameToc(r, q) /\ SamePast(r, q)
    BY <2>1, QuietWord
  <2>3. LinkKept(q, r.at + 1, 17)
    BY <1>1, <1>2, <1>13, <2>2 DEF LinkKept, SameLink
  <2>4. TocFound(q, r.at + 1, 4, 4, 14)
    BY <1>1, <1>2, <1>13, <2>2 DEF TocFound, SameLink, SameToc
  <2>5. PlainRan(q, r.at + 1)
    BY <1>1, <1>2, <1>13, <2>2 DEF PlainRan, SameArgs, SamePast
  <2> QED BY <1>1, <1>13, <2>2, <2>3, <2>4, <2>5 DEF PlainGoesOn, PlainAt, Goes
<1>14. CASE r.at = 17
  <2>1. AtWord(r, "mtlr", 0)
    BY <1>1, <1>14, PlainWords
  <2>2. /\ Goes(r, q) /\ SameArgs(r, q) /\ SameToc(r, q) /\ SamePast(r, q)
        /\ q.link = r.kept /\ q.kept = r.kept
    BY <2>1, Mtlr
  <2>3. LinkKept(q, r.at + 1, 17)
    BY <1>1, <1>2, <1>14, <2>2 DEF LinkKept, SameLink
  <2>4. TocFound(q, r.at + 1, 4, 4, 14)
    BY <1>1, <1>2, <1>14, <2>2 DEF TocFound, SameLink, SameToc
  <2>5. PlainRan(q, r.at + 1)
    BY <1>1, <1>2, <1>14, <2>2 DEF PlainRan, SameArgs, SamePast
  <2> QED BY <1>1, <1>14, <2>2, <2>3, <2>4, <2>5 DEF PlainGoesOn, PlainAt, Goes
<1>15. CASE r.at = 18
  <2>1. AtWord(r, "blr", 0)
    BY <1>1, <1>15, PlainWords
  <2>2. /\ Regs(q) /\ q.pc = "return" /\ q.stub = r.stub /\ q.at = r.at
        /\ SameLink(r, q) /\ SameArgs(r, q) /\ SameToc(r, q) /\ SamePast(r, q)
    BY <2>1, Blr
  <2>3. r.link = Caller /\ r.toc = "kernel" /\ Ended(shape.kind, r.log, r.result)
    BY <1>1, <1>2, <1>15 DEF LinkKept, TocFound, PlainRan
  <2>4. Final(q)
    BY <2>2, <2>3 DEF Final, SameToc, SamePast
  <2> QED BY <2>2, <2>3, <2>4 DEF PlainGoesOn, SameLink
<1>16. CASE r.at = 19
  <2>1. AtWord(r, "slot0", 0)
    BY <1>1, <1>16, PlainWords
  <2>2. /\ Goes(r, q) /\ SameLink(r, q) /\ SameArgs(r, q) /\ SameToc(r, q)
        /\ q.first /\ q.result = r.result /\ q.log = r.log
    BY <2>1, SlotFirst
  <2>3. PlainRan(q, 20)
    BY <1>1, <1>2, <1>16, <2>2 DEF PlainRan, SameArgs
  <2>4. q.at = 20 /\ q.kept = Caller /\ q.link = InHook /\ q.toc = "kernel"
    BY <1>1, <1>2, <1>16, <2>2 DEF Goes, SameLink, SameToc
  <2> QED BY <2>2, <2>3, <2>4 DEF PlainGoesOn, PlainAt, Goes
<1>17. CASE r.at = 20
  <2>1. AtWord(r, "slot1", 0) /\ 19 \in Nat /\ SavedAt(shape.kind, shape.n) = 19 /\ r.at = 19 + 1
    BY <1>1, <1>17, PlainWords DEF SavedAt
  <2>2. /\ Regs(q) /\ q.pc = "return" /\ q.stub = r.stub /\ q.kept = r.kept /\ q.link = r.link
        /\ SameToc(r, q) /\ q.log = Append(r.log, Ran(r, "body", q.result))
    BY <2>1, SlotSecond
  <2>3. r.args /\ r.first /\ r.kept = Caller /\ r.link = InHook /\ r.toc = "kernel"
    BY <1>1, <1>2, <1>17 DEF PlainRan
  <2>4. PICK x : One(r.log, "hook", x)
    BY <1>1, <1>2, <1>17 DEF PlainRan
  <2>5. Two(q.log, "hook", x, "body", q.result)
    BY <2>2, <2>3, <2>4, ThenRan
  <2>6. Ended("plain", q.log, q.result)
    BY <2>5 DEF Ended
  <2>7. PlainRan(q, 15)
    BY <2>6 DEF PlainRan
  <2>8. LinkKept(q, 15, 17) /\ TocFound(q, 15, 4, 4, 14)
    BY <2>2, <2>3 DEF LinkKept, TocFound
  <2> QED BY <2>2, <2>3, <2>7, <2>8 DEF PlainGoesOn, PlainAt
<1>18. \/ r.at = 0 \/ r.at = 1 \/ r.at = 2 \/ r.at = 3 \/ (4 <= r.at /\ r.at < 11) \/ r.at = 11
       \/ r.at = 12 \/ r.at = 13 \/ r.at = 14 \/ r.at = 15 \/ r.at = 16 \/ r.at = 17
       \/ r.at = 18 \/ r.at = 19 \/ r.at = 20
  BY <1>1
<1> QED BY <1>3, <1>4, <1>5, <1>6, <1>7, <1>8, <1>9, <1>10, <1>11, <1>12, <1>13, <1>14,
           <1>15, <1>16, <1>17, <1>18

-----------------------------------------------------------------------------
(* Calls and their steps.                                                  *)

\* One instruction of a stub keeps a call as it should be.
LEMMA StubStep ==
  ASSUME shape \in [kind : HookKind, n : NParams], NEW r, Called(r), r.pc = "stub",
         NEW q \in Execute(r)
  PROVE  Called(q)
<1>1. /\ Regs(r) /\ r.stub \in 1 .. 2 /\ Ready(r.stub) /\ InStub(r, r.at)
  <2>1. r.stub \in 0 .. 2 /\ r.stub # 0
    BY DEF Called
  <2> QED BY <2>1 DEF Called
<1>2. shape.kind \in Kind /\ shape.n \in Nat
  <2>1. shape.kind \in HookKind /\ shape.n \in NParams
    OBVIOUS
  <2>2. shape.kind \in Kind
    BY <2>1, HookAssumption
  <2>3. shape.n \in Nat
    <3>1. shape.n \in 0 .. 8
      BY <2>1, HookAssumption
    <3> QED BY <3>1
  <2> QED BY <2>2, <2>3
<1>3. PICK n \in Nat : n = shape.n
  BY <1>2
<1>4. CASE shape.kind = "plain"
  <2>1. q.stub = r.stub /\ PlainGoesOn(q)
    BY <1>1, <1>4, PlainStep DEF InStub
  <2>2. \A at : PlainAt(q, at) => InStub(q, at)
    BY <1>4 DEF InStub, PrecallKind, PostcallKind
  <2> QED BY <1>1, <2>1, <2>2 DEF Called, PlainGoesOn, InHook, Caller
<1>5. ASSUME NEW g \in {0, 2}, shape.kind = PrecallKind(g) PROVE Called(q)
  <2>1. PrecallAt(r, r.at, n, g)
    BY <1>1, <1>3, <1>5 DEF InStub
  <2>2. q.stub = r.stub /\ PrecallGoesOn(q, n, g)
    BY <1>1, <1>3, <1>5, <2>1, PrecallStep
  <2>3. \A at : PrecallAt(q, at, n, g) => InStub(q, at)
    BY <1>3, <1>5 DEF InStub, PrecallKind, PostcallKind
  <2> QED BY <1>1, <2>2, <2>3 DEF Called, PrecallGoesOn, InHook, Caller
<1>6. ASSUME NEW g \in {0, 3}, shape.kind = PostcallKind(g) PROVE Called(q)
  <2>1. PostcallAt(r, r.at, n, g)
    BY <1>1, <1>3, <1>6 DEF InStub
  <2>2. q.stub = r.stub /\ PostcallGoesOn(q, n, g)
    BY <1>1, <1>3, <1>6, <2>1, PostcallStep
  <2>3. \A at : PostcallAt(q, at, n, g) => InStub(q, at)
    BY <1>3, <1>6 DEF InStub, PrecallKind, PostcallKind
  <2> QED BY <1>1, <2>2, <2>3 DEF Called, PostcallGoesOn, InHook, Caller
<1>7. \/ shape.kind = "plain" \/ shape.kind = PrecallKind(0) \/ shape.kind = PrecallKind(2)
      \/ shape.kind = PostcallKind(0) \/ shape.kind = PostcallKind(3)
  BY <1>2 DEF Kind, PrecallKind, PostcallKind
<1> QED BY <1>4, <1>5, <1>6, <1>7

\* A thread that enters a function that is not hooked runs its body.
LEMMA PlainCall ==
  ASSUME NEW x \in {"ok", "fail"}, NEW q,
         q = [Clobbered([NoCall EXCEPT !.first = TRUE], "body", x) EXCEPT !.pc = "return"]
  PROVE  Called(q)
<1>1. PICK c : c = [NoCall EXCEPT !.first = TRUE]
  OBVIOUS
<1>2. /\ DOMAIN c = Fields /\ c.at = 0 /\ c.stub = 0 /\ c.first = TRUE /\ c.link = Caller
      /\ c.kept = Caller /\ c.toc = "kernel" /\ c.args = TRUE /\ c.saved = 0 /\ c.loaded = 0
      /\ c.base = 0 /\ c.log = <<>>
  BY <1>1 DEF NoCall, Fields
<1>3. PICK d : d = Clobbered(c, "body", x)
  OBVIOUS
<1>4. /\ DOMAIN d = Fields /\ d.at = 0 /\ d.stub = 0 /\ d.link = Caller
      /\ d.kept = Caller /\ d.toc = "kernel" /\ d.saved = 0 /\ d.loaded = 0
      /\ d.base = 0 /\ d.log = Append(c.log, Ran(c, "body", x))
  BY <1>2, <1>3 DEF Clobbered, Fields
<1>5. /\ DOMAIN q = Fields /\ q.at = 0 /\ q.stub = 0 /\ q.link = Caller
      /\ q.kept = Caller /\ q.toc = "kernel" /\ q.saved = 0 /\ q.loaded = 0
      /\ q.base = 0 /\ q.log = d.log /\ q.pc = "return"
  <2>1. q = [d EXCEPT !.pc = "return"]
    BY <1>1, <1>3
  <2> QED BY <2>1, <1>4 DEF Fields
<1>6. One(q.log, "body", x)
  <2>1. One(Append(c.log, Ran(c, "body", x)), "body", x)
    <3>1. c.log = <<>> /\ c.args /\ c.first /\ c.toc = "kernel"
      BY <1>2
    <3> QED BY <3>1, FirstRan
  <2> QED BY <1>4, <1>5, <2>1
<1>7. Regs(q)
  BY <1>5 DEF Regs, Caller
<1>8. Final(q)
  BY <1>5, <1>6 DEF Final
<1> QED BY <1>5, <1>7, <1>8 DEF Called

\* A thread that enters a function that is hooked comes to the first word of the stub.
LEMMA HookedCall ==
  ASSUME NEW h \in 1 .. 2, Ready(h), shape \in [kind : HookKind, n : NParams],
         NEW q \in Continue([NoCall EXCEPT !.pc = "stub"], Branch(Func, Stub[h]), Func)
  PROVE  Called(q)
<1>1. PICK c : c = [NoCall EXCEPT !.pc = "stub"]
  OBVIOUS
<1>2. /\ DOMAIN c = Fields /\ c.at = 0 /\ c.stub = 0 /\ c.link = Caller /\ c.pc = "stub"
      /\ c.kept = Caller /\ c.toc = "kernel" /\ c.args = TRUE /\ c.saved = 0 /\ c.loaded = 0
      /\ c.base = 0 /\ c.log = <<>>
  BY <1>1 DEF NoCall, Fields
<1>3. q = [c EXCEPT !.at = 0, !.stub = h]
  <2>1. /\ Branch(Func, Stub[h])[1] = "b" /\ Func + Branch(Func, Stub[h])[2] = Stub[h]
        /\ Stub[h] # 1 /\ \A k \in 1 .. 2 : Stub[h] = Stub[k] => h = k
    BY DEF Branch, Func, Stub
  <2>2. PICK w : w = Branch(Func, Stub[h])
    OBVIOUS
  <2>3. w[1] = "b" /\ Func + w[2] = Stub[h] /\ q \in Continue(c, w, Func)
    BY <1>1, <2>1, <2>2
  <2>4. /\ w[1] # "nop" /\ w[1] # "first" /\ Func + w[2] # Func + 1
        /\ (w[1] = "b" /\ \E k \in 1 .. 2 : Func + w[2] = Stub[k])
    BY <2>1, <2>3 DEF Func
  <2>5. q \in {[c EXCEPT !.at = 0, !.stub = CHOOSE k \in 1 .. 2 : Func + w[2] = Stub[k]]}
    BY <2>3, <2>4 DEF Continue
  <2>6. \A k \in 1 .. 2 : Func + w[2] = Stub[k] <=> k = h
    BY <2>1, <2>3
  <2>7. h = CHOOSE k \in 1 .. 2 : Func + w[2] = Stub[k]
    BY <2>6
  <2> QED BY <2>5, <2>7
<1>4. /\ DOMAIN q = Fields /\ q.at = 0 /\ q.stub = h /\ q.link = Caller /\ q.pc = "stub"
      /\ q.kept = Caller /\ q.toc = "kernel" /\ q.args = TRUE /\ q.saved = 0 /\ q.loaded = 0
      /\ q.base = 0 /\ q.log = <<>>
  BY <1>2, <1>3 DEF Fields
<1>5. shape.n \in Nat
  BY HookAssumption
<1>6. PICK n \in Nat : n = shape.n
  BY <1>5
<1>7. PlainAt(q, 0)
  BY <1>4 DEF PlainAt, LinkKept, TocFound, PlainRan
<1>8. ASSUME NEW g \in {0, 2} PROVE PrecallAt(q, 0, n, g)
  <2>1. LinkKept(q, 0, 2 * n + 18 + g)
    BY <1>4, <1>8 DEF LinkKept
  <2>2. TocFound(q, 0, 2 * n + 5 + g, n + 4, 2 * n + 15 + g)
    BY <1>4, <1>8 DEF TocFound
  <2>3. ArgsKept(q, 0, n, 2, n + 4, n + 5 + g)
    BY <1>4, <1>8 DEF ArgsKept
  <2>4. PrecallRan(q, 0, n, g)
    BY <1>4, <1>8 DEF PrecallRan
  <2> QED BY <1>8, <2>1, <2>2, <2>3, <2>4 DEF PrecallAt
<1>9. ASSUME NEW g \in {0, 3} PROVE PostcallAt(q, 0, n, g)
  <2>1. LinkKept(q, 0, 2 * n + 19 + g)
    BY <1>4, <1>9 DEF LinkKept
  <2>2. TocFound(q, 0, 4, 4, n + 14)
    BY <1>4, <1>9 DEF TocFound
  <2>3. ArgsKept(q, 0, n, 14, n + 15, n + 16 + g)
    BY <1>4, <1>9 DEF ArgsKept
  <2>4. PostcallRan(q, 0, n, g)
    BY <1>4, <1>9 DEF PostcallRan
  <2> QED BY <1>9, <2>1, <2>2, <2>3, <2>4 DEF PostcallAt
<1>10. InStub(q, 0)
  BY <1>6, <1>7, <1>8, <1>9 DEF InStub
<1>11. Regs(q)
  BY <1>4 DEF Regs, Caller
<1> QED BY <1>4, <1>10, <1>11 DEF Called

\* Where a thread can be in a stub does not depend on what it runs next.
LEMMA SameStub ==
  ASSUME NEW r, NEW q, NEW at, SameLink(r, q), SameArgs(r, q), SameToc(r, q), SamePast(r, q),
         InStub(r, at)
  PROVE  InStub(q, at)
<1>1. /\ q.link = r.link /\ q.kept = r.kept /\ q.args = r.args /\ q.saved = r.saved
      /\ q.loaded = r.loaded /\ q.toc = r.toc /\ q.base = r.base /\ q.first = r.first
      /\ q.result = r.result /\ q.log = r.log
  BY DEF SameLink, SameArgs, SameToc, SamePast
<1>2. /\ \A m : LinkKept(r, at, m) => LinkKept(q, at, m)
      /\ \A a, b, c : TocFound(r, at, a, b, c) => TocFound(q, at, a, b, c)
      /\ \A n, a, b, c : ArgsKept(r, at, n, a, b, c) => ArgsKept(q, at, n, a, b, c)
  BY <1>1 DEF LinkKept, TocFound, ArgsKept
<1>3. PlainAt(r, at) => PlainAt(q, at)
  BY <1>1, <1>2 DEF PlainAt, PlainRan
<1>4. \A n, g : PrecallAt(r, at, n, g) => PrecallAt(q, at, n, g)
  BY <1>1, <1>2 DEF PrecallAt, PrecallRan
<1>5. \A n, g : PostcallAt(r, at, n, g) => PostcallAt(q, at, n, g)
  BY <1>1, <1>2 DEF PostcallAt, PostcallRan
<1> QED BY <1>3, <1>4, <1>5 DEF InStub

\* A thread comes back from the body, from the stub or from the hook.
LEMMA Returned ==
  ASSUME shape \in [kind : HookKind, n : NParams], NEW r, Called(r), r.pc = "return", NEW q,
         q = CASE r.link = Caller -> [r EXCEPT !.pc = "done"]
               [] r.link = InHook -> [r EXCEPT !.pc = "stub", !.at = 15]
               [] OTHER -> [r EXCEPT !.pc = "stub", !.at = r.link]
  PROVE  Called(q)
<1>1. Regs(r) /\ r.stub \in 0 .. 2 /\ (r.stub # 0 => Ready(r.stub))
  BY DEF Called
<1>2. CASE r.link = Caller
  <2>1. q = [r EXCEPT !.pc = "done"]
    BY <1>2 DEF Caller, InHook
  <2>2. /\ DOMAIN q = Fields /\ q.at = r.at /\ q.stub = r.stub /\ SameLink(r, q)
        /\ SameArgs(r, q) /\ SameToc(r, q) /\ SamePast(r, q) /\ q.pc = "done"
    BY <1>1, <2>1 DEF Regs, Fields, SameLink, SameArgs, SameToc, SamePast
  <2>3. Final(r)
    BY <1>2 DEF Called
  <2>4. Final(q)
    BY <2>2, <2>3 DEF Final, SameToc, SamePast
  <2>5. Regs(q)
    BY <1>1, <2>2 DEF Regs, SameLink, SameArgs, SameToc
  <2> QED BY <1>1, <2>2, <2>4, <2>5 DEF Called
<1>3. CASE r.link # Caller
  <2> DEFINE to == IF r.link = InHook THEN 15 ELSE r.link
  <2>1. r.stub # 0 /\ InStub(r, to)
    BY <1>3 DEF Called
  <2>2. q = [r EXCEPT !.pc = "stub", !.at = to]
    BY <1>3 DEF Caller, InHook
  <2>3. to \in Nat
    <3>1. shape.kind \in Kind
      <4>1. shape.kind \in HookKind
        OBVIOUS
      <4> QED BY <4>1, HookAssumption
    <3>2. CASE shape.kind = "plain"
      BY <2>1, <3>2 DEF InStub, PlainAt
    <3>3. ASSUME NEW g \in {0, 2}, shape.kind = PrecallKind(g) PROVE to \in Nat
      <4>1. PrecallAt(r, to, shape.n, g)
        BY <2>1, <3>3 DEF InStub
      <4> QED BY <4>1 DEF PrecallAt
    <3>4. ASSUME NEW g \in {0, 3}, shape.kind = PostcallKind(g) PROVE to \in Nat
      <4>1. PostcallAt(r, to, shape.n, g)
        BY <2>1, <3>4 DEF InStub
      <4> QED BY <4>1 DEF PostcallAt
    <3>5. \/ shape.kind = "plain" \/ shape.kind = PrecallKind(0)
          \/ shape.kind = PrecallKind(2) \/ shape.kind = PostcallKind(0)
          \/ shape.kind = PostcallKind(3)
      BY <3>1 DEF Kind, PrecallKind, PostcallKind
    <3> QED BY <3>2, <3>3, <3>4, <3>5
  <2> HIDE DEF to
  <2>4. /\ DOMAIN q = Fields /\ q.at = to /\ q.stub = r.stub /\ SameLink(r, q)
        /\ SameArgs(r, q) /\ SameToc(r, q) /\ SamePast(r, q) /\ q.pc = "stub"
    BY <1>1, <2>2 DEF Regs, Fields, SameLink, SameArgs, SameToc, SamePast
  <2>5. InStub(q, to)
    BY <2>1, <2>4, SameStub
  <2>6. Regs(q)
    BY <1>1, <2>3, <2>4 DEF Regs, SameLink, SameArgs, SameToc
  <2> QED BY <1>1, <2>1, <2>4, <2>5, <2>6 DEF Called
<1> QED BY <1>2, <1>3

-----------------------------------------------------------------------------
(* The hooking and the calls together.                                     *)

\* What a call is owed does not change while the words of its stub stay as they are.
LEMMA CalledStays ==
  ASSUME NEW r, Called(r), shape' = shape, \A h \in 1 .. 2 : Ready(h) => Ready(h)'
  PROVE  Called(r)'
<1>1. \A at : InStub(r, at)' <=> InStub(r, at)
  BY DEF InStub, PlainAt, PrecallAt, PostcallAt, PlainRan, PrecallRan, PostcallRan, LinkKept,
         TocFound, ArgsKept, Ended, One, Two, Good, PrecallKind, PostcallKind
<1>2. Final(r)' <=> Final(r)
  BY DEF Final, Ended, One, Two, Good
<1>3. Regs(r)' <=> Regs(r)
  BY DEF Regs, Fields
<1>4. r.stub \in 0 .. 2 /\ (r.stub # 0 => Ready(r.stub)')
  BY DEF Called
<1> QED BY <1>1, <1>2, <1>3, <1>4 DEF Called

\* When no thread of the kernel moves, every call stays as it should be.
LEMMA CallsStay ==
  ASSUME HookInv, shape' = shape, cpu' = cpu, \A h \in 1 .. 2 : Ready(h) => Ready(h)'
  PROVE  (DOMAIN cpu = Kernel /\ \A t \in Kernel : Called(cpu[t]))'
<1>1. ASSUME NEW t \in Kernel PROVE Called(cpu[t])'
  <2>1. PICK r : r = cpu[t]
    OBVIOUS
  <2>2. Called(r)'
    BY <2>1, CalledStays DEF HookInv
  <2>3. cpu'[t] = r
    BY <2>1
  <2> QED BY <2>2, <2>3
<1> QED BY <1>1 DEF HookInv

\* When one thread moves, the others stay where they were.
LEMMA CallMoves ==
  ASSUME HookInv, UNCHANGED <<shape, memory, patcher, hooked>>, NEW t \in Kernel, NEW q,
         cpu' = [cpu EXCEPT ![t] = q], Called(q)
  PROVE  HookInv'
<1>1. \A h \in 1 .. 2 : Ready(h) => Ready(h)'
  BY DEF Ready, Link, SlotAddr
<1>2. ASSUME NEW u \in Kernel PROVE Called(cpu[u])'
  <2>1. PICK r : r = IF u = t THEN q ELSE cpu[u]
    OBVIOUS
  <2>2. Called(r)
    BY <2>1 DEF HookInv
  <2>3. Called(r)'
    BY <1>1, <2>2, CalledStays
  <2>4. cpu'[u] = r
    BY <2>1 DEF HookInv
  <2> QED BY <2>3, <2>4
<1>3. Patched'
  BY DEF HookInv, Patched, Ready, Link, SlotAddr
<1> QED BY <1>2, <1>3 DEF HookInv

\* What the hooking writes are words.
LEMMA LinkIsWord ==
  ASSUME shape \in [kind : HookKind, n : NParams], NEW h \in 1 .. 2
  PROVE  Link(h) \in Word /\ First \in Word /\ Branch(Func, Stub[h]) \in Word
<1>1. shape.kind \in Kind
  <2>1. shape.kind \in HookKind
    OBVIOUS
  <2> QED BY <2>1, HookAssumption
<1>2. shape.n \in Int
  <2>1. shape.n \in 0 .. 8
    BY HookAssumption
  <2> QED BY <2>1
<1>3. SavedAt(shape.kind, shape.n) \in Int
  BY <1>1, <1>2 DEF SavedAt, Kind
<1>4. Stub[h] \in Int
  BY DEF Stub
<1>5. SlotAddr(h) \in Int
  BY <1>3, <1>4 DEF SlotAddr
<1>6. PICK from \in Int : from = SlotAddr(h) + 1
  BY <1>5
<1>7. Link(h) = IF shape.kind = "plain" THEN <<"b", 1 - from>> ELSE <<"bl", 1 - from>>
  BY <1>6 DEF Link, Branch, BranchLink, Func
<1>8. Link(h) \in Word
  BY <1>7 DEF Word
<1>9. First \in Word /\ Branch(Func, Stub[h]) \in Word
  BY <1>4 DEF First, Branch, Func, Word
<1> QED BY <1>8, <1>9

\* A stub that was ready stays so when the thread that hooks writes its words again.
LEMMA BeginHookInv ==
  ASSUME ~Stacked, HookInv, NEW h \in 1 .. 2, BeginHook(h)
  PROVE  HookInv'
<1>1. \A k \in 1 .. 2 : Ready(k) => Ready(k)'
  BY DEF BeginHook, Ready, Link, SlotAddr
<1>2. Patched'
  BY DEF HookInv, Patched, BeginHook, Ready, Link, SlotAddr
<1> QED BY <1>1, <1>2, CallsStay DEF HookInv, BeginHook

\* The first instruction is written to the stub while the function is the kernel's own.
LEMMA SaveFirstInv == HookInv /\ SaveFirst => HookInv'
<1> SUFFICES ASSUME HookInv, SaveFirst PROVE HookInv'
  OBVIOUS
<1>1. PICK h \in 1 .. 2 : h = patcher.hook
  BY DEF HookInv, Patched
<1>2. patcher.inst = First /\ hooked = {} /\ memory.func = First
  BY DEF HookInv, Patched, SaveFirst
<1>3. memory' = [memory EXCEPT !.stub[h].s0 = First]
  BY <1>1, <1>2 DEF SaveFirst
<1>4. /\ memory'.func = First /\ memory'.stub[h].s0 = First
      /\ \A k \in 1 .. 2 : memory'.stub[k].s1 = memory.stub[k].s1
      /\ \A k \in 1 .. 2 : k # h => memory'.stub[k].s0 = memory.stub[k].s0
      /\ memory' \in [func : Word, stub : [1 .. 2 -> [s0 : Word, s1 : Word]]]
  <2>1. First \in Word
    BY LinkIsWord DEF HookInv, Patched
  <2> QED BY <1>2, <1>3, <2>1 DEF HookInv, Patched
<1>5. \A k \in 1 .. 2 : Ready(k) => Ready(k)'
  BY <1>4 DEF SaveFirst, Ready, Link, SlotAddr
<1>6. Patched'
  BY <1>1, <1>2, <1>4 DEF HookInv, Patched, SaveFirst
<1> QED BY <1>5, <1>6, CallsStay DEF HookInv, SaveFirst

\* So is the branch to the rest of the function.
LEMMA LinkStubInv == HookInv /\ LinkStub => HookInv'
<1> SUFFICES ASSUME HookInv, LinkStub PROVE HookInv'
  OBVIOUS
<1>1. PICK h \in 1 .. 2 : h = patcher.hook
  BY DEF HookInv, Patched
<1>2. hooked = {} /\ memory.func = First /\ memory.stub[h].s0 = First
  BY <1>1 DEF HookInv, Patched, LinkStub
<1>3. PICK w : w = Link(h)
  OBVIOUS
<1>4. memory' = [memory EXCEPT !.stub[h].s1 = w]
  BY <1>1, <1>3 DEF LinkStub, Link
<1>5. w \in Word
  BY <1>3, LinkIsWord DEF HookInv, Patched
<1>6. /\ memory'.func = First /\ memory'.stub[h].s1 = w
      /\ \A k \in 1 .. 2 : memory'.stub[k].s0 = memory.stub[k].s0
      /\ \A k \in 1 .. 2 : k # h => memory'.stub[k].s1 = memory.stub[k].s1
      /\ memory' \in [func : Word, stub : [1 .. 2 -> [s0 : Word, s1 : Word]]]
  BY <1>2, <1>4, <1>5 DEF HookInv, Patched
<1>7. \A k \in 1 .. 2 : Link(k)' = Link(k)
  BY DEF LinkStub, Link, SlotAddr
<1>8. \A k \in 1 .. 2 : Ready(k) => Ready(k)'
  BY <1>3, <1>6, <1>7 DEF Ready
<1>9. Patched'
  BY <1>1, <1>2, <1>3, <1>6, <1>7 DEF HookInv, Patched, LinkStub
<1> QED BY <1>8, <1>9, CallsStay DEF HookInv, LinkStub

\* The function is only changed when the stub is ready.
LEMMA ChangeFunctionInv == HookInv /\ ChangeFunction => HookInv'
<1> SUFFICES ASSUME HookInv, ChangeFunction PROVE HookInv'
  OBVIOUS
<1>1. PICK h \in 1 .. 2 : h = patcher.hook
  BY DEF HookInv, Patched
<1>2. hooked = {} /\ Ready(h)
  BY <1>1 DEF HookInv, Patched, ChangeFunction, Ready
<1>3. PICK w : w = Branch(Func, Stub[h])
  OBVIOUS
<1>4. memory' = [memory EXCEPT !.func = w] /\ hooked' = {h}
  BY <1>1, <1>2, <1>3 DEF ChangeFunction
<1>5. w \in Word
  BY <1>3, LinkIsWord DEF HookInv, Patched
<1>6. /\ memory'.func = w /\ memory'.stub = memory.stub
      /\ memory' \in [func : Word, stub : [1 .. 2 -> [s0 : Word, s1 : Word]]]
  BY <1>4, <1>5 DEF HookInv, Patched
<1>7. \A k \in 1 .. 2 : Ready(k)' <=> Ready(k)
  BY <1>6 DEF ChangeFunction, Ready, Link, SlotAddr
<1>8. Patched'
  BY <1>1, <1>2, <1>3, <1>4, <1>6, <1>7 DEF HookInv, Patched, ChangeFunction
<1> QED BY <1>7, <1>8, CallsStay DEF HookInv, ChangeFunction

\* What the stub kept is the kernel's own instruction.
LEMMA UnhookInv == ASSUME HookInv, NEW h \in 1 .. 2, Unhook(h) PROVE HookInv'
<1>1. hooked = {h} /\ Ready(h)
  BY DEF HookInv, Patched, Unhook
<1>2. memory' = [memory EXCEPT !.func = First] /\ hooked' = {}
  BY <1>1 DEF Unhook, Ready
<1>3. First \in Word
  BY LinkIsWord DEF HookInv, Patched
<1>4. /\ memory'.func = First /\ memory'.stub = memory.stub
      /\ memory' \in [func : Word, stub : [1 .. 2 -> [s0 : Word, s1 : Word]]]
  BY <1>2, <1>3 DEF HookInv, Patched
<1>5. \A k \in 1 .. 2 : Ready(k)' <=> Ready(k)
  BY <1>4 DEF Unhook, Ready, Link, SlotAddr
<1>6. Patched'
  BY <1>2, <1>4, <1>5 DEF HookInv, Patched, Unhook
<1> QED BY <1>5, <1>6, CallsStay DEF HookInv, Unhook

\* A thread that enters finds the kernel's own instruction or the way to a stub that is
\* ready.
LEMMA EnterInv == ASSUME HookInv, NEW t \in Kernel, Enter(t) PROVE HookInv'
<1>1. PICK q : /\ cpu' = [cpu EXCEPT ![t] = q]
               /\ q \in IF memory.func = First
                   THEN {[Clobbered([NoCall EXCEPT !.first = TRUE], "body", x)
                            EXCEPT !.pc = "return"] : x \in {"ok", "fail"}}
                   ELSE Continue([NoCall EXCEPT !.pc = "stub"], memory.func, Func)
  BY DEF Enter
<1>2. ASSUME memory.func = First PROVE Called(q)
  <2>1. q \in {[Clobbered([NoCall EXCEPT !.first = TRUE], "body", x)
                  EXCEPT !.pc = "return"] : x \in {"ok", "fail"}}
    BY <1>1, <1>2
  <2>2. PICK x \in {"ok", "fail"} :
          q = [Clobbered([NoCall EXCEPT !.first = TRUE], "body", x) EXCEPT !.pc = "return"]
    BY <2>1
  <2> QED BY <2>2, PlainCall
<1>3. ASSUME memory.func # First PROVE Called(q)
  <2>1. PICK h \in hooked : TRUE
    BY <1>3 DEF HookInv, Patched
  <2>2. /\ h \in 1 .. 2 /\ memory.func = Branch(Func, Stub[h]) /\ Ready(h)
        /\ shape \in [kind : HookKind, n : NParams]
    BY <2>1 DEF HookInv, Patched
  <2>3. q \in Continue([NoCall EXCEPT !.pc = "stub"], Branch(Func, Stub[h]), Func)
    BY <1>1, <1>3, <2>2
  <2> QED BY <2>2, <2>3, HookedCall
<1>4. Called(q)
  BY <1>2, <1>3
<1> QED BY <1>1, <1>4, CallMoves DEF Enter

\* A thread goes on in a stub.
LEMMA RunStubInv == ASSUME HookInv, NEW t \in Kernel, RunStub(t) PROVE HookInv'
<1>1. PICK q \in Execute(cpu[t]) : cpu' = [cpu EXCEPT ![t] = q]
  BY DEF RunStub
<1>2. Called(q)
  BY <1>1, StubStep DEF HookInv, Patched, RunStub
<1> QED BY <1>1, <1>2, CallMoves DEF RunStub

\* A thread comes back to its caller, the stub or the hook.
LEMMA ReturnToInv == ASSUME HookInv, NEW t \in Kernel, ReturnTo(t) PROVE HookInv'
<1>1. PICK r : r = cpu[t]
  OBVIOUS
<1>2. PICK q : q = CASE r.link = Caller -> [r EXCEPT !.pc = "done"]
                     [] r.link = InHook -> [r EXCEPT !.pc = "stub", !.at = 15]
                     [] OTHER -> [r EXCEPT !.pc = "stub", !.at = r.link]
  OBVIOUS
<1>3. cpu' = [cpu EXCEPT ![t] = q]
  BY <1>1, <1>2 DEF ReturnTo, HookInv
<1>4. Called(q)
  BY <1>1, <1>2, Returned DEF HookInv, Patched, ReturnTo
<1> QED BY <1>3, <1>4, CallMoves DEF ReturnTo

\* A thread that is elsewhere.
LEMMA NotCalled == Called(NoCall)
<1>1. DOMAIN NoCall = Fields
  BY DEF NoCall, Fields
<1>2. Regs(NoCall)
  BY <1>1 DEF Regs, NoCall, Caller
<1> QED BY <1>2 DEF Called, NoCall

\* A thread goes on with something else.
LEMMA NextCallInv == ASSUME HookInv, NEW t \in Kernel, NextCall(t) PROVE HookInv'
<1>1. PICK q : q = NoCall
  OBVIOUS
<1>2. Called(q)
  BY <1>1, NotCalled
<1> QED BY <1>1, <1>2, CallMoves DEF NextCall

\* Every step keeps the invariant, unless hooks are put on one another.
LEMMA HookStep == ASSUME ~Stacked PROVE HookInv /\ [HooksNext]_hookVars => HookInv'
<1> SUFFICES ASSUME HookInv, [HooksNext]_hookVars PROVE HookInv'
  OBVIOUS
<1>1. CASE HooksNext
  BY <1>1, BeginHookInv, UnhookInv, SaveFirstInv, LinkStubInv, ChangeFunctionInv, EnterInv,
     RunStubInv, ReturnToInv, NextCallInv DEF HooksNext
<1>2. CASE UNCHANGED hookVars
  <2>1. \A k \in 1 .. 2 : Ready(k)' <=> Ready(k)
    BY <1>2 DEF hookVars, Ready, Link, SlotAddr
  <2>2. Patched'
    BY <1>2, <2>1 DEF hookVars, HookInv, Patched, Link, SlotAddr
  <2> QED BY <1>2, <2>1, <2>2, CallsStay DEF HookInv, hookVars
<1> QED BY <1>1, <1>2

\* It holds before any hook is put in.
LEMMA HookAtInit == HooksInit => HookInv
<1> SUFFICES ASSUME HooksInit PROVE HookInv
  OBVIOUS
<1>1. Nop \in Word /\ First \in Word
  BY DEF Nop, First, Word
<1>2. /\ memory \in [func : Word, stub : [1 .. 2 -> [s0 : Word, s1 : Word]]]
      /\ memory.func = First
  BY <1>1 DEF HooksInit, NoSaved
<1>3. patcher \in [step : {"idle", "save", "link", "change"}, hook : 1 .. 2, inst : Word]
      /\ patcher.step = "idle"
  BY <1>1 DEF HooksInit
<1>4. Patched
  BY <1>2, <1>3 DEF HooksInit, Patched
<1>5. \A t \in Kernel : Called(cpu[t])
  <2>1. \A t \in Kernel : cpu[t] = NoCall
    BY DEF HooksInit
  <2> QED BY <2>1, NotCalled
<1> QED BY <1>4, <1>5 DEF HooksInit, HookInv

\* What has run when a call comes to its end is what the kind of hook promises.
LEMMA EndedIsContract ==
  ASSUME NEW kind \in Kind, NEW log, NEW result, Ended(kind, log, result)
  PROVE  /\ Contract(kind, log, result)
         /\ \A i \in DOMAIN log : /\ log[i].whole
                                  /\ log[i].toc =
                                       IF log[i].what = "hook" THEN "payload" ELSE "kernel"
<1>1. ASSUME NEW what, NEW x, One(log, what, x)
      PROVE  /\ [i \in DOMAIN log |-> log[i].what] = <<what>> /\ log[1].result = x
             /\ \A i \in DOMAIN log : /\ log[i].whole
                   /\ log[i].toc = IF log[i].what = "hook" THEN "payload" ELSE "kernel"
  <2>1. PICK e : log = <<e>> /\ Good(e, what, x)
    BY <1>1 DEF One
  <2>2. DOMAIN log = {1} /\ log[1] = e
    BY <2>1
  <2>3. [i \in DOMAIN log |-> log[i].what] = <<what>>
    BY <2>1, <2>2 DEF Good
  <2> QED BY <2>1, <2>2, <2>3 DEF Good
<1>2. ASSUME NEW what, NEW x, NEW then, NEW y, Two(log, what, x, then, y)
      PROVE  /\ [i \in DOMAIN log |-> log[i].what] = <<what, then>>
             /\ log[1].result = x /\ log[2].result = y
             /\ \A i \in DOMAIN log : /\ log[i].whole
                   /\ log[i].toc = IF log[i].what = "hook" THEN "payload" ELSE "kernel"
  <2>1. PICK e, f : log = <<e, f>> /\ Good(e, what, x) /\ Good(f, then, y)
    BY <1>2 DEF Two
  <2>2. DOMAIN log = {1, 2} /\ log[1] = e /\ log[2] = f
    BY <2>1
  <2>3. [i \in DOMAIN log |-> log[i].what] = <<what, then>>
    BY <2>1, <2>2 DEF Good
  <2> QED BY <2>1, <2>2, <2>3 DEF Good
<1>3. CASE kind = "plain"
  BY <1>1, <1>2, <1>3 DEF Ended, Contract
<1>4. CASE kind = "precall"
  BY <1>2, <1>4 DEF Ended, Contract
<1>5. CASE kind = "precall_success"
  BY <1>1, <1>2, <1>5 DEF Ended, Contract
<1>6. CASE kind = "postcall"
  BY <1>2, <1>6 DEF Ended, Contract
<1>7. CASE kind = "cond_postcall"
  BY <1>1, <1>2, <1>7 DEF Ended, Contract
<1> QED BY <1>3, <1>4, <1>5, <1>6, <1>7 DEF Kind

\* Whenever a function is hooked or unhooked under the threads that call it, any number of
\* them, each call runs the body and the hook as the kind of hook says, whole, with the
\* arguments of the caller and the TOC each needs, no thread runs astray, and a function
\* that is unhooked is the kernel's own again, for every kind of hook and every number of
\* parameters.
THEOREM HooksStaySound == ASSUME ~Stacked PROVE HooksSpec => []HooksAreSound
<1>1. HooksInit => HookInv
  BY HookAtInit
<1>2. HookInv /\ [HooksNext]_hookVars => HookInv'
  BY HookStep
<1>3. HookInv => HooksAreSound
  <2> SUFFICES ASSUME HookInv PROVE HooksAreSound
    OBVIOUS
  <2>1. UnhookedIsKernels
    BY DEF HookInv, Patched, UnhookedIsKernels
  <2>2. ASSUME NEW t \in Kernel, NEW r, r = cpu[t]
        PROVE  /\ r.pc # "astray"
               /\ r.pc = "done" =>
                    /\ \A i \in DOMAIN r.log :
                         /\ r.log[i].whole
                         /\ r.log[i].toc =
                              IF r.log[i].what = "hook" THEN "payload" ELSE "kernel"
                    /\ r.toc = "kernel"
                    /\ IF r.stub = 0 THEN Len(r.log) = 1
                       ELSE Contract(shape.kind, r.log, r.result)
    <3>1. Called(r)
      BY <2>2 DEF HookInv
    <3>2. shape.kind \in Kind
      <4>1. shape.kind \in HookKind
        BY DEF HookInv, Patched
      <4> QED BY <4>1, HookAssumption
    <3>3. r.pc # "astray"
      BY <3>1 DEF Called
    <3>4. ASSUME r.pc = "done", r.stub = 0
          PROVE  /\ Len(r.log) = 1 /\ r.toc = "kernel"
                 /\ \A i \in DOMAIN r.log :
                         /\ r.log[i].whole
                         /\ r.log[i].toc =
                              IF r.log[i].what = "hook" THEN "payload" ELSE "kernel"
      <4>1. Final(r)
        BY <3>1, <3>4 DEF Called
      <4>2. PICK x, e : r.log = <<e>> /\ Good(e, "body", x)
        BY <3>4, <4>1 DEF Final, One
      <4>3. Len(r.log) = 1 /\ DOMAIN r.log = {1} /\ r.log[1] = e
        BY <4>2
      <4> QED BY <4>1, <4>2, <4>3 DEF Final, Good
    <3>5. ASSUME r.pc = "done", r.stub # 0
          PROVE  /\ Contract(shape.kind, r.log, r.result) /\ r.toc = "kernel"
                 /\ \A i \in DOMAIN r.log :
                         /\ r.log[i].whole
                         /\ r.log[i].toc =
                              IF r.log[i].what = "hook" THEN "payload" ELSE "kernel"
      <4>1. Final(r)
        BY <3>1, <3>5 DEF Called
      <4> QED BY <3>2, <3>5, <4>1, EndedIsContract DEF Final
    <3> QED BY <3>3, <3>4, <3>5
  <2>3. CallKeepsContract
    BY <2>2 DEF CallKeepsContract
  <2> QED BY <2>1, <2>3 DEF HooksAreSound
<1> QED BY <1>1, <1>2, <1>3, PTL DEF HooksSpec

-----------------------------------------------------------------------------
(* The instance: one service at a time.                                    *)

\* The region the games and players are told and the toggles of henplugin are what the
\* user set them to be, whatever the console's own region and whoever logs in.
THEOREM SettingsAreServed == ServicesSpec => []SettingsServed
<1>1. ServicesInit => SettingsInit /\ HenSessionInit
  BY DEF ServicesInit
<1>2. [ServicesNext]_servicesVars => [SettingsNext]_settingsVars /\ [HenSessionNext]_henSessionVars
  BY DEF ServicesNext, servicesVars, services
<1>3. ServicesSpec => SettingsSpec /\ HenSessionSpec
  BY <1>1, <1>2, PTL DEF ServicesSpec, SettingsSpec, HenSessionSpec
<1>4. ServicesSpec => []RegionServed /\ []SessionAgrees
  BY <1>3, RegionIsServed, SessionStands
<1>5. RegionServed /\ SessionAgrees => SettingsServed
  BY DEF SettingsServed
<1> QED BY <1>4, <1>5, PTL
=============================================================================

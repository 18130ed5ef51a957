----------------------------- MODULE VshPlugins -----------------------------
(* Plugins of VSH and of the kernel: vsh_plugins[] in modulespatch.c, the  *)
(* boot lists, and the PS3 manager functions that load and unload modules. *)
(* No lock guards the table: a slot is checked, the module is loaded and   *)
(* started, and only then the slot is taken.                               *)
EXTENDS Naturals

CONSTANTS
  Client,       \* threads that call syscall 8
  BootThread,   \* the thread that runs main() of the payload
  MaxPlugins,   \* MAX_VSH_PLUGINS: slots are 0 .. MaxPlugins-1
  MaxKernel,    \* MAX_BOOT_PLUGINS_KERNEL
  Prx,          \* ids of modules; an id is given once (bound of the instance)
  Name,         \* names of modules
  NameOf,       \* name of the module with an id
  MaxLines      \* bound: lines of a boot list

NoPrx == 0
AnyName == "any"

ASSUME PluginAssumption ==
  /\ BootThread \notin Client
  /\ MaxPlugins \in Nat \ {0} /\ MaxKernel \in Nat /\ MaxLines \in Nat
  /\ NoPrx \notin Prx
  /\ NameOf \in [Prx -> Name]

VARIABLES
  plugins,      \* vsh_plugins
  module,       \* state of each module in the kernel
  ppc,          \* where each thread is
  job,          \* its slot, its module, the name it looks for
  bootlist,     \* current_slot, num_loaded, lines read; counters of the kernel list
  outside,      \* modules that were loaded without a slot
  stolen,       \* modules that were unloaded by id, not by slot
  overlapped    \* history: a load took a slot that was taken since its check

pluginVars == <<plugins, module, ppc, job, bootlist, outside, stolen, overlapped>>

PluginThread == Client \cup {BootThread}
PluginSlot == 0 .. MaxPlugins - 1
FirstSlot == 1  \* BOOT_PLUGINS_FIRST_SLOT
Alive == {"loaded", "running", "stopped"}
NoJob == [slot |-> 0, prx |-> NoPrx, want |-> AnyName]
UnusedPrx == {x \in Prx : module[x] = "unused"}

PluginInit ==
  /\ plugins = [s \in PluginSlot |-> NoPrx]
  /\ module = [x \in Prx |-> "unused"]
  /\ ppc = [t \in PluginThread |-> IF t = BootThread THEN "hen" ELSE "idle"]
  /\ job = [t \in PluginThread |-> NoJob]
  /\ bootlist = [slot |-> FirstSlot, loaded |-> 0, lines |-> 0,
                 counted |-> 0, resident |-> 0]
  /\ outside = {} /\ stolen = {} /\ overlapped = FALSE

-----------------------------------------------------------------------------
GoTo(t, place) == ppc' = [ppc EXCEPT ![t] = place]

\* A call returns.  The boot thread goes on with the next line of its list, in
\* the next slot if the plugin was loaded.
Return(t) ==
  /\ GoTo(t, IF t = BootThread THEN "line" ELSE "idle")
  /\ job' = [job EXCEPT ![t] = NoJob]
NextSlot(t) ==
  bootlist' = IF t = BootThread
              THEN [bootlist EXCEPT !.slot = @ + 1, !.loaded = @ + 1]
              ELSE bootlist

\* prx_load_vsh_plugin and prx_unload_vsh_plugin, called with any slot.
PluginCall(t, place, s) ==
  /\ t \in Client /\ ppc[t] = "idle"
  /\ job' = [job EXCEPT ![t] = [NoJob EXCEPT !.slot = s]]
  /\ GoTo(t, place)
  /\ UNCHANGED <<plugins, module, bootlist, outside, stolen, overlapped>>

CallLoad(t) == \E s \in 0 .. MaxPlugins : PluginCall(t, "check", s)
CallUnload(t) == \E s \in 0 .. MaxPlugins : PluginCall(t, "slot", s)

CheckSlot(t) ==
  /\ ppc[t] = "check"
  /\ IF job[t].slot \in PluginSlot /\ plugins[job[t].slot] = NoPrx
     THEN GoTo(t, "load") /\ UNCHANGED job
     ELSE Return(t)  \* EINVAL, EKRESOURCE
  /\ UNCHANGED <<plugins, module, bootlist, outside, stolen, overlapped>>

\* The file is missing, too small, or shorter than its header says; or the
\* kernel does not load it.
LoadModule(t) ==
  /\ ppc[t] = "load"
  /\ \/ /\ \E x \in UnusedPrx :
             /\ module' = [module EXCEPT ![x] = "loaded"]
             /\ job' = [job EXCEPT ![t].prx = x]
        /\ GoTo(t, "start")
     \/ Return(t) /\ UNCHANGED module
  /\ UNCHANGED <<plugins, bootlist, outside, stolen, overlapped>>

\* Mutant: the slot is taken although the module did not start.
StartModuleAnyway(t) ==
  /\ ppc[t] = "start"
  /\ \E after \in {"running", "loaded", "gone"} :
       module' = [module EXCEPT ![job[t].prx] = after]
  /\ GoTo(t, "store")
  /\ UNCHANGED <<plugins, job, bootlist, outside, stolen, overlapped>>

\* A module that does not start is stopped and unloaded; the results of these
\* calls are ignored.
StartModule(t) ==
  /\ ppc[t] = "start"
  /\ \/ /\ module' = [module EXCEPT ![job[t].prx] = "running"]
        /\ GoTo(t, "store") /\ UNCHANGED job
     \/ /\ \E after \in {"loaded", "gone"} :
             module' = [module EXCEPT ![job[t].prx] = after]
        /\ Return(t)
  /\ UNCHANGED <<plugins, bootlist, outside, stolen, overlapped>>

StoreSlot(t) ==
  /\ ppc[t] = "store"
  /\ plugins' = [plugins EXCEPT ![job[t].slot] = job[t].prx]
  /\ overlapped' = (overlapped \/ plugins[job[t].slot] # NoPrx)
  /\ NextSlot(t) /\ Return(t)
  /\ UNCHANGED <<module, outside, stolen>>

-----------------------------------------------------------------------------
ReadSlot(t) ==
  /\ ppc[t] = "slot"
  /\ IF job[t].slot \in PluginSlot /\ plugins[job[t].slot] # NoPrx
     THEN job' = [job EXCEPT ![t].prx = plugins[job[t].slot]] /\ GoTo(t, "stop")
     ELSE Return(t)  \* EINVAL, ENOENT
  /\ UNCHANGED <<plugins, module, bootlist, outside, stolen, overlapped>>

\* Only a running module can be stopped, and only a stopped one unloaded.
StopModule(t) ==
  /\ ppc[t] = "stop"
  /\ \/ /\ module[job[t].prx] = "running"
        /\ module' = [module EXCEPT ![job[t].prx] = "stopped"]
        /\ GoTo(t, "unload") /\ UNCHANGED job
     \/ Return(t) /\ UNCHANGED module
  /\ UNCHANGED <<plugins, bootlist, outside, stolen, overlapped>>

UnloadModule(t) ==
  /\ ppc[t] = "unload"
  /\ \/ /\ module' = [module EXCEPT ![job[t].prx] = "gone"]
        /\ GoTo(t, "clear") /\ UNCHANGED job
     \/ Return(t) /\ UNCHANGED module
  /\ UNCHANGED <<plugins, bootlist, outside, stolen, overlapped>>

ClearSlot(t) ==
  /\ ppc[t] = "clear"
  /\ plugins' = [plugins EXCEPT ![job[t].slot] = NoPrx]
  /\ Return(t)
  /\ UNCHANGED <<module, bootlist, outside, stolen, overlapped>>

\* ps3mapi_unload_vsh_plugin: look through the slots for a name, then unload
\* the slot, which is read again.
CallUnloadName(t) ==
  /\ t \in Client /\ ppc[t] = "idle"
  /\ \E n \in Name : job' = [job EXCEPT ![t] = [NoJob EXCEPT !.want = n]]
  /\ GoTo(t, "scan")
  /\ UNCHANGED <<plugins, module, bootlist, outside, stolen, overlapped>>

ScanSlot(t) ==
  /\ ppc[t] = "scan"
  /\ LET s == job[t].slot IN
     \/ /\ s \in PluginSlot
        /\ plugins[s] # NoPrx /\ module[plugins[s]] \in Alive
        /\ NameOf[plugins[s]] = job[t].want
        /\ GoTo(t, "slot") /\ UNCHANGED job
     \/ /\ s \in PluginSlot
        /\ plugins[s] # NoPrx => module[plugins[s]] \notin Alive
                                 \/ NameOf[plugins[s]] # job[t].want
        /\ job' = [job EXCEPT ![t].slot = s + 1] /\ UNCHANGED ppc
     \/ \* ESRCH, or ENOMEM from the buffers of a used slot
        /\ s \in PluginSlot => plugins[s] # NoPrx
        /\ Return(t)
  /\ UNCHANGED <<plugins, module, bootlist, outside, stolen, overlapped>>

-----------------------------------------------------------------------------
\* ps3mapi_load_process_modules with the process of VSH: no slot is used.
LoadOutside(t) ==
  /\ t \in Client /\ ppc[t] = "idle"
  /\ \E x \in UnusedPrx, started \in BOOLEAN :
       /\ module' = [module EXCEPT ![x] = IF started THEN "running" ELSE "gone"]
       /\ outside' = outside \cup {x}
  /\ UNCHANGED <<plugins, ppc, job, bootlist, stolen, overlapped>>

\* ps3mapi_unload_process_modules with any id: no slot is cleared.
UnloadById(t) ==
  /\ t \in Client /\ ppc[t] = "idle"
  /\ \E x \in Prx, after \in {"stopped", "gone"} :
       /\ module[x] = "running"
       /\ module' = [module EXCEPT ![x] = after]
       /\ stolen' = stolen \cup {x}
  /\ UNCHANGED <<plugins, ppc, job, bootlist, outside, overlapped>>

-----------------------------------------------------------------------------
\* load_boot_plugins: HENplugin.sprx first, without a slot.  The list is looked
\* for on two USB devices and on the disk.
BootHenPlugin ==
  /\ ppc[BootThread] = "hen"
  /\ \/ /\ \E x \in UnusedPrx :
             /\ module' = [module EXCEPT ![x] = "running"]
             /\ outside' = outside \cup {x}
     \/ UNCHANGED <<module, outside>>
  /\ GoTo(BootThread, "line") \/ GoTo(BootThread, "kernel")
  /\ UNCHANGED <<plugins, job, bootlist, stolen, overlapped>>

\* One line of the list; an empty one is skipped.
BootLine ==
  /\ ppc[BootThread] = "line"
  /\ bootlist.loaded < MaxPlugins - FirstSlot  \* MAX_BOOT_PLUGINS
  /\ bootlist.lines < MaxLines
  /\ bootlist' = [bootlist EXCEPT !.lines = @ + 1]
  /\ job' = [job EXCEPT ![BootThread] = [NoJob EXCEPT !.slot = bootlist.slot]]
  /\ GoTo(BootThread, "check")
  /\ UNCHANGED <<plugins, module, outside, stolen, overlapped>>

\* The end of the list, or the table is full.
BootEnd ==
  /\ ppc[BootThread] = "line"
  /\ GoTo(BootThread, "kernel")
  /\ bootlist' = [bootlist EXCEPT !.lines = 0]
  /\ UNCHANGED <<plugins, module, job, outside, stolen, overlapped>>

\* load_boot_plugins_kernel: the result of load_plugin_kernel is unsigned, so
\* every line counts, whether its plugin is resident or not.
KernelLine ==
  /\ ppc[BootThread] = "kernel"
  /\ bootlist.counted < MaxKernel /\ bootlist.lines < MaxLines
  /\ \E ran \in {0, 1} :
       bootlist' = [bootlist EXCEPT !.lines = @ + 1, !.counted = @ + 1,
                                    !.resident = @ + ran]
  /\ UNCHANGED <<plugins, module, ppc, job, outside, stolen, overlapped>>

KernelEnd ==
  /\ ppc[BootThread] = "kernel"
  /\ GoTo(BootThread, "booted")
  /\ UNCHANGED <<plugins, module, job, bootlist, outside, stolen, overlapped>>

-----------------------------------------------------------------------------
PluginStep(t) ==
  \/ CallLoad(t) \/ CheckSlot(t) \/ LoadModule(t)
  \/ StartModule(t) \/ StoreSlot(t)
  \/ CallUnload(t) \/ ReadSlot(t) \/ StopModule(t) \/ UnloadModule(t)
  \/ ClearSlot(t) \/ CallUnloadName(t) \/ ScanSlot(t)
  \/ LoadOutside(t) \/ UnloadById(t)

PluginNext ==
  \/ \E t \in PluginThread : PluginStep(t)
  \/ BootHenPlugin \/ BootLine \/ BootEnd \/ KernelLine \/ KernelEnd

PluginSpec == PluginInit /\ [][PluginNext]_pluginVars

-----------------------------------------------------------------------------
\* A plugin that was started through a slot can be found again: it is in a
\* slot, or its load is about to put it there.  Only a slot that two loads took
\* at once breaks this (modulespatch.c 1104, 1153).
NoLostPlugin ==
  ~overlapped =>
    \A x \in Prx \ outside :
      module[x] = "running" =>
        \/ \E s \in PluginSlot : plugins[s] = x
        \/ \E t \in PluginThread : ppc[t] = "store" /\ job[t].prx = x

\* A slot names a module that is in the kernel, and no other slot names it,
\* until the call that unloaded it clears the slot, unless the module was
\* unloaded by its id (ps3mapi_core.c 442).
SlotNamesModule ==
  ~overlapped =>
    \A s \in PluginSlot : plugins[s] # NoPrx =>
      /\ \/ module[plugins[s]] \in {"running", "stopped"}
         \/ plugins[s] \in stolen
         \/ \E t \in PluginThread :
              ppc[t] = "clear" /\ job[t].slot = s /\ job[t].prx = plugins[s]
      /\ \A r \in PluginSlot : plugins[r] = plugins[s] => r = s

\* The table of plugins tells what is in the kernel.
TableIsTrue == NoLostPlugin /\ SlotNamesModule

\* By hand: the two statements a user would expect, which do not hold.
EveryPluginKept ==
  \A x \in Prx \ outside :
    module[x] = "running" =>
      \/ \E s \in PluginSlot : plugins[s] = x
      \/ \E t \in PluginThread : ppc[t] = "store" /\ job[t].prx = x
KernelCountsLoaded == bootlist.counted = bootlist.resident
UnloadsNamed ==
  \A t \in PluginThread :
    ppc[t] = "stop" /\ job[t].want # AnyName => NameOf[job[t].prx] = job[t].want
=============================================================================

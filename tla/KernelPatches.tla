--------------------------- MODULE KernelPatches ----------------------------
(***************************************************************************)
(* Which code of the kernel is the payload's: what main puts in when it    *)
(* starts, what disable_patches takes out for a game's SELF, what          *)
(* enable_patches puts back, and what REMOVE_HOOK takes out.  The four     *)
(* lists are written down in four places and have to agree.                *)
(*                                                                         *)
(* Sites are named; where they are in a firmware, and with which           *)
(* instruction, is data.  SelfPatches has the threads that load; here one  *)
(* load runs beside one client.                                            *)
(***************************************************************************)
EXTENDS Naturals, Sequences

\* Instructions that are written and restored by value.
MainPatched ==
  {"module_sdk_version", "func8_1", "func8_2", "thread_prio", "thread_prio2", "ECDSA_1",
   "lic", "func9", "fix_80010009", "ode", "ECDSA_2", "mem_base2", "fix_8001003D",
   "fix_8001003E", "PATCH_JUMP"}
EnablePatched ==
  {"module_sdk_version", "func8_1", "func8_2", "thread_prio", "thread_prio2", "ECDSA_1",
   "lic", "func9", "fix_80010009", "ode", "ECDSA_2", "mem_base2", "fix_8001003D",
   "fix_8001003E", "PATCH_JUMP"}

\* Mutant: one patch is not taken back.
RestoredButLicence ==
  {"func8_1", "func8_2", "module_sdk_version", "thread_prio", "thread_prio2", "ECDSA_1",
   "func9", "fix_80010009", "ode", "ECDSA_2", "mem_base2", "fix_8001003D", "fix_8001003E",
   "PATCH_JUMP"}

DisableRestored ==
  {"func8_1", "func8_2", "lic", "module_sdk_version", "thread_prio", "thread_prio2",
   "ECDSA_1", "func9", "fix_80010009", "ode", "ECDSA_2", "mem_base2", "fix_8001003D",
   "fix_8001003E", "PATCH_JUMP"}

\* Functions whose first instruction becomes a jump, and is kept in the stub.
ModuleHooks == {"lv1_call_99_wrapper", "modules_verification", "map_process_memory"}
RegionHooks == {"sys_ss_867"}
MapHooks == {"open_path"}
StorageHooks ==
  {"storage_get_device_info", "read_bdvd0", "read_bdvd1", "read_bdvd2", "storage_read",
   "sys_storage_async_read", "storage_send_device_command",
   "sys_storage_async_send_device_command", "sys_ss_864"}
UpdateHooks == {"sys_net_724", "um_if_get_token", "read_eeprom"}
JumpSite == ModuleHooks \cup RegionHooks \cup MapHooks \cup StorageHooks \cup UpdateHooks

\* Calls and instructions of the same parts, restored by value.
ModulePatches == {"patch_func2", "decrypt_func"}
StoragePatches == {"device_event_port_send", "shutdown_copy_params"}
NewSyscalls == {"syscall_6", "syscall_7", "syscall_8", "syscall_10", "syscall_15",
                "syscall_389", "syscall_409", "sys_map_path"}
Handler == {"syscall_call"}

Site == MainPatched \cup EnablePatched \cup JumpSite \cup ModulePatches \cup StoragePatches
        \cup NewSyscalls \cup Handler
Removable == {"modules", "region", "map", "storage"}

VARIABLES
  ours,       \* sites whose code is the payload's
  kept,       \* hooks whose stub keeps the original instruction
  over,       \* hooks whose stub keeps a jump to the hook itself
  strayed,       \* functions restored from a stub that kept nothing
  ready,      \* what storage_ext_init and main have made
  left,       \* how many steps of its list each actor still has to make
  game,       \* how far the load of a game's SELF is
  removed,    \* history: REMOVE_HOOK was called
  met         \* history: it ran beside the load

codeVars == <<ours, kept, over, strayed>>
kernelVars == <<codeVars, ready, left, game, removed, met>>

Actor == {"main", "load", "client"}

-----------------------------------------------------------------------------
(* What one function puts in or takes out.                                 *)

Put(f) ==
  CASE f = "main" -> MainPatched \cup UpdateHooks \cup (NewSyscalls \ {"sys_map_path"})
    [] f = "enable" -> EnablePatched
    [] f = "modules" -> ModuleHooks \cup ModulePatches
    [] f = "region" -> RegionHooks
    [] f = "map_syscall" -> MapHooks \cup {"sys_map_path"}
    [] f = "map" -> MapHooks
    [] f = "storage" -> StorageHooks \cup StoragePatches
    [] f = "update" -> UpdateHooks
    [] f = "syscalls" -> Handler

Taken(f) ==
  CASE f = "disable" -> DisableRestored
    [] f = "modules" -> ModuleHooks \cup ModulePatches
    [] f = "region" -> RegionHooks
    [] f = "map" -> MapHooks
    [] f = "storage" -> StorageHooks \cup StoragePatches
    [] f = "update" -> UpdateHooks
    [] f = "syscalls" -> Handler

\* A function that is hooked twice keeps a jump to its own hook.
PutIn(f) ==
  /\ ours' = ours \cup Put(f)
  /\ kept' = kept \cup ((Put(f) \cap JumpSite) \ ours)
  /\ over' = over \cup (Put(f) \cap JumpSite \cap ours)
  /\ UNCHANGED strayed

\* The stub gives back what it has kept.
TakeOut(f) ==
  /\ ours' = (ours \ Taken(f)) \cup (Taken(f) \cap over)
  /\ strayed' = strayed \cup ((Taken(f) \cap JumpSite) \ kept)
  /\ UNCHANGED <<kept, over>>

Do(step) ==
  /\ CASE step[1] = "hook" -> PutIn(step[2])
       [] step[1] = "unhook" -> TakeOut(step[2])
       [] OTHER -> UNCHANGED codeVars
  /\ ready' = IF step[1] = "make" THEN ready \cup {step[2]} ELSE ready

-----------------------------------------------------------------------------
(* The lists, in the order of the code.                                    *)

\* storage_ext_init: the process of VSH, the mutex, ports and queues, the thread, and
\* the checks in the memory of VSH, which are never put back.
StorageInit == << <<"make", "vsh_process">>, <<"make", "mutex">>, <<"make", "queues">>,
                  <<"make", "dispatcher">>, <<"make", "vsh_checks">> >>

\* main, from storage_ext_init to the plugins: the clients of REMOVE_HOOK.
MainSteps ==
  StorageInit \o
  << <<"hook", "modules">>, <<"hook", "main">>, <<"hook", "map_syscall">>,
     <<"hook", "storage">>, <<"hook", "region">>, <<"make", "sleep_done">>,
     <<"hook", "syscalls">>, <<"make", "plugins">> >>

DisableSteps ==
  << <<"unhook", "disable">>, <<"unhook", "modules">>, <<"unhook", "storage">>,
     <<"unhook", "region">>, <<"unhook", "map">>, <<"unhook", "update">>,
     <<"unhook", "syscalls">> >>

EnableSteps ==
  << <<"hook", "enable">>, <<"hook", "syscalls">>, <<"hook", "region">>,
     <<"hook", "modules">>, <<"hook", "map">>, <<"hook", "storage">>, <<"hook", "update">> >>

\* ps3mapi_unhook_all.
RemoveSteps ==
  << <<"unhook", "modules">>, <<"unhook", "region">>, <<"unhook", "map">>,
     <<"unhook", "storage">> >>

KernelInit ==
  /\ ours = {} /\ kept = {} /\ over = {} /\ strayed = {}
  /\ ready = {}
  /\ left = [a \in Actor |-> IF a = "main" THEN Len(MainSteps) ELSE 0]
  /\ game = "none"
  /\ removed = FALSE /\ met = FALSE

StepsOf(a) ==
  CASE a = "main" -> MainSteps
    [] a = "client" -> RemoveSteps
    [] a = "load" -> IF game = "disabling" THEN DisableSteps ELSE EnableSteps

Loads == game \in {"disabling", "out", "enabling"}

KernelStep(a) ==
  /\ left[a] > 0
  /\ Do(StepsOf(a)[Len(StepsOf(a)) - left[a] + 1])
  /\ left' = [left EXCEPT ![a] = @ - 1]
  /\ met' = (met \/ (a = "client" /\ Loads) \/ (a = "load" /\ left["client"] > 0))
  /\ UNCHANGED <<game, removed>>

\* A game is started: its SELF passes through post_lv1_call_99_wrapper.
StartGame ==
  /\ game = "none" /\ "plugins" \in ready /\ "lv1_call_99_wrapper" \in ours
  /\ game' = "disabling"
  /\ left' = [left EXCEPT !["load"] = Len(DisableSteps)]
  /\ UNCHANGED <<codeVars, ready, removed, met>>

\* The SELF is being checked by the kernel: nothing of the payload may be left.
PatchesOut ==
  /\ game = "disabling" /\ left["load"] = 0
  /\ game' = "out"
  /\ UNCHANGED <<codeVars, ready, left, removed, met>>

PutBack ==
  /\ game = "out"
  /\ game' = "enabling"
  /\ left' = [left EXCEPT !["load"] = Len(EnableSteps)]
  /\ UNCHANGED <<codeVars, ready, removed, met>>

GameLoaded ==
  /\ game = "enabling" /\ left["load"] = 0
  /\ game' = "none"
  /\ UNCHANGED <<codeVars, ready, left, removed, met>>

\* PS3MAPI_OPCODE_REMOVE_HOOK.
RemoveHooks ==
  /\ "plugins" \in ready /\ "syscall_8" \in ours /\ left["client"] = 0
  /\ left' = [left EXCEPT !["client"] = Len(RemoveSteps)]
  /\ removed' = TRUE
  /\ met' = (met \/ Loads)
  /\ UNCHANGED <<codeVars, ready, game>>

KernelNext ==
  \/ \E a \in Actor : KernelStep(a)
  \/ StartGame \/ PatchesOut \/ PutBack \/ GameLoaded
  \/ RemoveHooks

KernelSpec == KernelInit /\ [][KernelNext]_kernelVars

-----------------------------------------------------------------------------
KernelTypeOK ==
  /\ ours \subseteq Site
  /\ kept \subseteq JumpSite /\ over \subseteq JumpSite /\ strayed \subseteq JumpSite
  /\ game \in {"none", "disabling", "out", "enabling"}

\* What the code behind a site uses from the first call on.
Uses(s) ==
  CASE s \in StorageHooks \cup {"device_event_port_send"} ->
         {"vsh_process", "mutex", "queues", "dispatcher"}
    [] s \in NewSyscalls -> {"vsh_process", "mutex", "queues", "dispatcher", "vsh_checks"}
    [] s = "lv1_call_99_wrapper" -> {"queues", "dispatcher"}
    [] s = "syscall_call" -> {"sleep_done"}
    [] OTHER -> {}

\* A kernel thread may come by as soon as a site is ours: everything its code
\* uses is there by then (main.c 1515-1533).
MadeBeforeHooked == \A s \in ours : Uses(s) \subseteq ready

\* No function is hooked over its own hook, and none is restored that was not
\* hooked: it would call itself for ever, or run what is no instruction.
OriginalsKept == over = {} /\ strayed = {}

\* While the kernel checks a game's SELF no site is patched that it could see
\* (storage_ext.c 1303-1367 against main.c 1230-1281).
OutForGame == game = "out" /\ ~met => ours \subseteq NewSyscalls

\* After the game every site is ours again (1246-1301).
BackAfterGame == game = "none" /\ "plugins" \in ready /\ ~removed => ours = Site

\* Once REMOVE_HOOK has returned, the four parts stay out together.
RemovedTogether ==
  removed /\ ~met /\ left["client"] = 0 => \A f \in Removable : Taken(f) \cap ours = {}

KernelCodeAgrees ==
  MadeBeforeHooked /\ OriginalsKept /\ OutForGame /\ BackAfterGame /\ RemovedTogether
=============================================================================

----------------------------- MODULE ProcessApi -----------------------------
(* The functions of the PS3 manager API on other processes                 *)
(* (ps3mapi_core.c): memory, pages, modules, threads and console ids.  A   *)
(* call runs in the thread of its client; nothing excludes another call.   *)
EXTENDS Naturals, Sequences, FiniteSets

CONSTANTS
  ApiClient,      \* processes that call the API, each with one thread
  Pid,            \* processes they act on
  Page,           \* names of page tables that clients keep
  SecondIdps      \* whether this firmware has the address of the second IDPS

ASSUME ProcessAssumption == IsFiniteSet(Page) /\ SecondIdps \in BOOLEAN

VARIABLES
  processes,      \* the processes of the kernel's table
  listed,         \* what each client was last told of them
  api,            \* the call of each client
  held,           \* kernel buffers of the call
  lost,           \* buffers a call returned without giving back
  mapper,         \* the instruction at mmapper_flags_temp_patch
  pages,          \* pages exported to a process
  prx,            \* the module the API loads in a process
  ids,            \* the console ids, in halves
  mixed,          \* history: a mapping ran inside the patch of another
  stuck,          \* history: an executable export failed
  unread,         \* history: copying module information out failed
  raced           \* history: two calls set an id at once

processVars == <<processes, listed, api, held, lost, mapper, pages, prx, ids,
                 mixed, stuck, unread, raced>>

NoApiCall == [op |-> "none", at |-> "idle"]
IdName == {"idps1", "idps2", "psid"}
Value == ApiClient \cup {"factory"}

ProcessInit ==
  /\ processes = Pid
  /\ listed = [c \in ApiClient |-> {}]
  /\ api = [c \in ApiClient |-> NoApiCall]
  /\ held = [c \in ApiClient |-> {}]
  /\ lost = {}
  /\ mapper = "normal"
  /\ pages = {}
  /\ prx = [p \in Pid |-> "none"]
  /\ ids = [i \in IdName |-> <<"factory", "factory">>]
  /\ mixed = FALSE /\ stuck = FALSE /\ unread = FALSE /\ raced = FALSE

At(c, op, at) == api[c].op = op /\ api[c].at = at
Reaches(c, at) == api' = [api EXCEPT ![c].at = at]

\* A return that gives back what is named in given; a call that failed or
\* succeeded looks the same here.
LeaveApi(c, given) ==
  /\ api' = [api EXCEPT ![c] = NoApiCall]
  /\ held' = [held EXCEPT ![c] = {}]
  /\ lost' = lost \cup (held[c] \ given)

historyVars == <<mixed, stuck, unread, raced>>
memoryVars == <<mapper, pages>>
otherVars == <<processes, listed>>

-----------------------------------------------------------------------------
(* Processes: the list, and the lookup that every call begins with.        *)

\* ps3mapi_get_all_processes_pid and what reads one entry of the table.
ListPids(c) ==
  /\ api[c] = NoApiCall
  /\ listed' = [listed EXCEPT ![c] = processes]
  /\ UNCHANGED <<processes, api, held, lost, memoryVars, prx, ids, historyVars>>

Operation == {"lookup", "read", "write", "modules", "name", "info", "map", "unmap", "load",
              "unload", "thread"}

\* ps3mapi_internal_get_process_by_pid: the pointer is kept with no reference to
\* the process.  A process that has ended since it was listed is ESRCH.
EnterApi(c, op, p) ==
  /\ api[c] = NoApiCall /\ p \in listed[c]
  /\ IF p \in processes
     THEN api' = [api EXCEPT ![c] = [op |-> op, at |-> "found", pid |-> p]]
     ELSE UNCHANGED api
  /\ UNCHANGED <<otherVars, held, lost, memoryVars, prx, ids, historyVars>>

\* The kernel ends a process and takes its pages and modules.
ProcessEnds(p) ==
  /\ p \in processes
  /\ processes' = processes \ {p}
  /\ pages' = {g \in pages : g.pid # p}
  /\ prx' = [prx EXCEPT ![p] = "none"]
  /\ UNCHANGED <<listed, api, held, lost, mapper, ids, historyVars>>

-----------------------------------------------------------------------------
(* Calls that go through buffers of the kernel.                            *)

Needs(op) ==
  CASE op = "read" -> {"buff"}
    [] op = "modules" -> {"list", "unk"}
    [] op \in {"name", "info"} -> {"filename", "segments"}
    [] OTHER -> {}

Buffered == {"read", "modules", "name", "info"}

\* One alloc of the call, or none is left and the call gives up.
Alloc(c) ==
  /\ api[c].op \in Buffered /\ api[c].at = "found" /\ held[c] # Needs(api[c].op)
  /\ \/ /\ \E b \in Needs(api[c].op) \ held[c] : held' = [held EXCEPT ![c] = @ \cup {b}]
        /\ UNCHANGED <<api, lost>>
     \/ LeaveApi(c, held[c])
  /\ UNCHANGED <<otherVars, memoryVars, prx, ids, historyVars>>

\* copy_from_process, prx_get_module_list or prx_get_module_info.
Ask(c) ==
  /\ api[c].op \in Buffered /\ api[c].at = "found" /\ held[c] = Needs(api[c].op)
  /\ \/ Reaches(c, "answered") /\ UNCHANGED <<held, lost>>
     \/ LeaveApi(c, held[c])
  /\ UNCHANGED <<otherVars, memoryVars, prx, ids, historyVars>>

\* One copy to the client and the end of the call, whatever the copy returned.
CopyOut(c) ==
  /\ api[c].op \in Buffered \ {"info"} /\ api[c].at = "answered"
  /\ LeaveApi(c, held[c])
  /\ UNCHANGED <<otherVars, memoryVars, prx, ids, historyVars>>

\* Mutant: the file name is not given back.
SegmentsGiven(c) == {"segments"}

\* What a whole call of get_process_module_info gives back.
InfoGiven(c) == held[c]

\* ps3mapi_get_process_module_info: two buffers to copy, then the record; a copy
\* that fails gives back its own buffer only.
CopyInfo(c) ==
  /\ At(c, "info", "answered")
  /\ \/ \E b \in Needs("info") : LeaveApi(c, {b}) /\ unread' = TRUE
     \/ LeaveApi(c, InfoGiven(c)) /\ UNCHANGED unread
  /\ UNCHANGED <<otherVars, memoryVars, prx, ids, mixed, stuck, raced>>

\* The functions that only look up: a name, a pointer, copied out at once.
Looked(c) ==
  /\ At(c, "lookup", "found")
  /\ LeaveApi(c, {})
  /\ UNCHANGED <<otherVars, memoryVars, prx, ids, historyVars>>

\* process_write_memory, or a failure before it: nothing is kept here.
WriteMemory(c) ==
  /\ At(c, "write", "found")
  /\ LeaveApi(c, {})
  /\ UNCHANGED <<otherVars, memoryVars, prx, ids, historyVars>>

-----------------------------------------------------------------------------
(* Pages: ps3mapi_process_page_allocate and ps3mapi_process_page_free.     *)

Patching == {"patched", "restore"}
OthersPatch(c) == \E d \in ApiClient \ {c} : api[d].op = "map" /\ api[d].at \in Patching

\* page_allocate or page_allocate_auto: ENOMEM, or on to the export.
AllocatePages(c) ==
  /\ At(c, "map", "found")
  /\ \/ LeaveApi(c, {})
     \/ /\ \E at \in {"plain", "executable"} : Reaches(c, at)
        /\ UNCHANGED <<held, lost>>
  /\ UNCHANGED <<otherVars, memoryVars, prx, ids, historyVars>>

\* li r28, 0x4004: from here every mapping of the kernel is executable.
PatchMapper(c) ==
  /\ At(c, "map", "executable")
  /\ mapper' = "executable"
  /\ mixed' = (mixed \/ OthersPatch(c))
  /\ Reaches(c, "patched")
  /\ UNCHANGED <<otherVars, held, lost, pages, prx, ids, stuck, unread, raced>>

Free == {i \in Page : \A g \in pages : g.name # i}

\* The page as the instruction makes it; nothing is left in a process that has
\* ended.
Exported(c, asked, next) ==
  \E i \in Free :
    /\ pages' = IF api[c].pid \in processes
                THEN pages \cup {[name |-> i, pid |-> api[c].pid, asked |-> asked,
                                  made |-> mapper]}
                ELSE pages
    /\ api' = [api EXCEPT ![c] = [op |-> "map", at |-> next, pid |-> api[c].pid, page |-> i]]
    /\ UNCHANGED <<held, lost>>

ExportPlain(c) ==
  /\ At(c, "map", "plain")
  /\ \/ Exported(c, "normal", "exported")
     \/ LeaveApi(c, {}) /\ UNCHANGED pages
  /\ mixed' = (mixed \/ OthersPatch(c))
  /\ UNCHANGED <<otherVars, mapper, prx, ids, stuck, unread, raced>>

\* A failure returns with the instruction still patched.
ExportExecutable(c) ==
  /\ At(c, "map", "patched")
  /\ \/ Exported(c, "executable", "restore") /\ UNCHANGED stuck
     \/ LeaveApi(c, {}) /\ UNCHANGED pages /\ stuck' = TRUE
  /\ mixed' = (mixed \/ OthersPatch(c))
  /\ UNCHANGED <<otherVars, mapper, prx, ids, unread, raced>>

\* Mutant: the instruction stays patched.
RestoreForgotten(c) == mapper

\* li r28, 0x4000.
Restored(c) == "normal"

RestoreMapper(c) ==
  /\ At(c, "map", "restore")
  /\ mapper' = Restored(c)
  /\ Reaches(c, "exported")
  /\ UNCHANGED <<otherVars, held, lost, pages, prx, ids, historyVars>>

\* The table goes out; when it cannot, the page is taken back.  Otherwise the
\* client has it, and the backing pages are freed though they stay exported.
GiveTable(c) ==
  /\ At(c, "map", "exported")
  /\ pages' \in {pages, {g \in pages : g.name # api[c].page}}
  /\ LeaveApi(c, {})
  /\ UNCHANGED <<otherVars, mapper, prx, ids, historyVars>>

\* The table is what the client passes: any page of the process.
FreePages(c) ==
  /\ At(c, "unmap", "found")
  /\ \/ UNCHANGED pages
     \/ \E g \in pages : g.pid = api[c].pid /\ pages' = pages \ {g}
  /\ LeaveApi(c, {})
  /\ UNCHANGED <<otherVars, mapper, prx, ids, historyVars>>

-----------------------------------------------------------------------------
(* Modules and threads of a process.                                       *)

SetPrx(p, s) == prx' = IF p \in processes THEN [prx EXCEPT ![p] = s] ELSE prx

\* ps3mapi_load_process_modules, up to prx_load_module.
ApiLoadModule(c) ==
  /\ At(c, "load", "found")
  /\ \/ LeaveApi(c, {}) /\ UNCHANGED prx
     \/ /\ prx[api[c].pid] = "none"
        /\ SetPrx(api[c].pid, "loaded") /\ Reaches(c, "loaded") /\ UNCHANGED <<held, lost>>
  /\ UNCHANGED <<otherVars, memoryVars, ids, historyVars>>

\* The module is started, with its arguments in pages that are taken back; one
\* that does not start is unloaded.
ApiStartModule(c) ==
  /\ At(c, "load", "loaded")
  /\ \E s \in {"started", "none"} : SetPrx(api[c].pid, s)
  /\ LeaveApi(c, {})
  /\ UNCHANGED <<otherVars, memoryVars, ids, historyVars>>

\* ps3mapi_unload_process_modules: stopped, then unloaded; each may fail.
ApiUnloadModule(c) ==
  /\ At(c, "unload", "found")
  /\ \/ prx[api[c].pid] = "started" /\ \E s \in {"none", "loaded"} : SetPrx(api[c].pid, s)
     \/ UNCHANGED prx
  /\ LeaveApi(c, {})
  /\ UNCHANGED <<otherVars, memoryVars, ids, historyVars>>

\* ps3mapi_create_process_thread: the caller waits until the new thread ends.
CreateThread(c) ==
  /\ At(c, "thread", "found")
  /\ \/ Reaches(c, "joining") /\ UNCHANGED <<held, lost>>
     \/ LeaveApi(c, {})
  /\ UNCHANGED <<otherVars, memoryVars, prx, ids, historyVars>>

ThreadJoined(c) ==
  /\ At(c, "thread", "joining")
  /\ LeaveApi(c, {})
  /\ UNCHANGED <<otherVars, memoryVars, prx, ids, historyVars>>

-----------------------------------------------------------------------------
(* The ids of the console.                                                 *)

\* ps3mapi_set_idps writes two copies, ps3mapi_set_psid one, half by half.
Copies(op) ==
  IF op = "psid" THEN <<"psid">>
  ELSE IF SecondIdps THEN <<"idps1", "idps2">> ELSE <<"idps1">>

Sets(c, op) == api[c].op = op /\ api[c].at = "writing"

BeginId(c, op) ==
  /\ api[c] = NoApiCall
  /\ api' = [api EXCEPT ![c] = [op |-> op, at |-> "writing", n |-> 0]]
  /\ raced' = (raced \/ \E d \in ApiClient : Sets(d, op))
  /\ UNCHANGED <<otherVars, held, lost, memoryVars, prx, ids, mixed, stuck, unread>>

\* Mutant: the second copy is missed.
FirstCopyOnly(op) == <<IF op = "psid" THEN "psid" ELSE "idps1">>

WriteHalf(c, op) ==
  /\ Sets(c, op) /\ api[c].n < 2 * Len(Copies(op))
  /\ ids' = [ids EXCEPT ![Copies(op)[1 + (api[c].n \div 2)]] = [@ EXCEPT ![1 + (api[c].n % 2)] = c]]
  /\ api' = [api EXCEPT ![c].n = @ + 1]
  /\ UNCHANGED <<otherVars, held, lost, memoryVars, prx, historyVars>>

\* ESRCH where the second copy is unknown, although the first was written.
EndId(c, op) ==
  /\ Sets(c, op) /\ api[c].n = 2 * Len(Copies(op))
  /\ LeaveApi(c, {})
  /\ UNCHANGED <<otherVars, memoryVars, prx, ids, historyVars>>

-----------------------------------------------------------------------------
ApiNext ==
  \/ \E c \in ApiClient :
       \/ ListPids(c) \/ Looked(c)
       \/ \E op \in Operation, p \in Pid : EnterApi(c, op, p)
       \/ Alloc(c) \/ Ask(c) \/ CopyOut(c) \/ CopyInfo(c) \/ WriteMemory(c)
       \/ AllocatePages(c) \/ PatchMapper(c) \/ ExportPlain(c) \/ ExportExecutable(c)
       \/ RestoreMapper(c) \/ GiveTable(c) \/ FreePages(c)
       \/ ApiLoadModule(c) \/ ApiStartModule(c) \/ ApiUnloadModule(c)
       \/ CreateThread(c) \/ ThreadJoined(c)
  \/ \E p \in Pid : ProcessEnds(p)

IdNext ==
  \E c \in ApiClient, op \in {"idps", "psid"} : BeginId(c, op) \/ WriteHalf(c, op) \/ EndId(c, op)

ProcessNext == ApiNext \/ IdNext

ProcessSpec == ProcessInit /\ [][ProcessNext]_processVars

-----------------------------------------------------------------------------
ProcessTypeOK ==
  /\ processes \subseteq Pid /\ listed \in [ApiClient -> SUBSET Pid]
  /\ \A c \in ApiClient : held[c] \subseteq Needs(api[c].op)
  /\ mapper \in {"normal", "executable"}
  /\ \A g \in pages : g.name \in Page /\ g.pid \in Pid
  /\ prx \in [Pid -> {"none", "loaded", "started"}]
  /\ ids \in [IdName -> Value \X Value]

\* A process has executable pages exactly where a client asked for them, and the
\* kernel's own mappings stay plain outside of a patch (ps3mapi_core.c 205-236),
\* unless an export failed in between or two mappings overlapped.
PagesAsAsked ==
  ~mixed /\ ~stuck =>
    /\ \A g \in pages : g.made = g.asked
    /\ mapper = "executable" =>
         \E c \in ApiClient : api[c].op = "map" /\ api[c].at \in Patching

\* Every buffer of a call is given back, whichever of its steps fails, but for
\* the copies of get_process_module_info (493-511).
BuffersGivenBack == ~unread => lost = {}

\* An id is never left half one value and half another, and the two copies of
\* the IDPS agree (578-596), unless two calls set it at once.
IdsWhole ==
  ~raced =>
    \A op \in {"idps", "psid"} :
      \/ \E c \in ApiClient : Sets(c, op)
      \/ \A i, j \in {Copies(op)[k] : k \in DOMAIN Copies(op)} :
           ids[i] = ids[j] /\ ids[i][1] = ids[i][2]

\* What every caller of the API relies on.
ProcessCallsClean == PagesAsAsked /\ BuffersGivenBack /\ IdsWhole
=============================================================================

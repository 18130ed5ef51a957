---------------------------- MODULE SyscallGate -----------------------------
(* Who may use syscall 8: the gate of syscall8() in main.c, the entries of *)
(* the syscall table that are removed and brought back, and the opens that *)
(* homebrew_blocker.c refuses while they are removed.                      *)
EXTENDS Naturals, Sequences

CONSTANTS
  AccessKey,    \* access keys; NoKey is 0
  NoKey,
  HenSyscall,   \* syscalls that create_syscalls makes
  GameId,       \* first nine characters of directories under /dev_hdd0/game
  RetailId,     \* those whose prefix passes the built-in lists
  LauncherId,   \* launchers of the PSP emulator
  ListFile      \* contents of blacklist.cfg and whitelist.cfg

ASSUME GateAssumption ==
  /\ NoKey \in AccessKey /\ {6, 7, 8} \subseteq HenSyscall
  /\ RetailId \subseteq GameId /\ LauncherId \subseteq GameId
  /\ ListFile \subseteq [black : SUBSET GameId, white : SUBSET GameId]

VARIABLES
  gate,         \* the static variables of the gate
  table,        \* entries of the syscall table that hold a syscall of HEN
  allow_restore_sc,
  files,        \* blacklist.cfg and whitelist.cfg on disk
  lists,        \* <<what was read of them>>, Unread before
  block_psp_launcher,
  umd_set,      \* umd_file # NULL (PspUmd)
  opened        \* history: the last open of an application

gateVars == <<gate, table, allow_restore_sc, files, lists, block_psp_launcher, umd_set,
              opened>>

Unread == <<>>
NoOpen == [id |-> "none", allowed |-> TRUE, current |-> TRUE, after |-> "none"]

GateInit ==
  /\ gate = [key |-> NoKey, tries |-> 0, granted |-> TRUE, partial |-> 0, cobra_off |-> FALSE]
  /\ table = HenSyscall
  /\ allow_restore_sc = TRUE
  /\ files \in ListFile
  /\ lists = Unread
  /\ block_psp_launcher = FALSE /\ umd_set = FALSE
  /\ opened = NoOpen

-----------------------------------------------------------------------------
(* The gate.  Each operator is one stage of syscall8; a call is refused by *)
(* the first stage that returns.                                           *)

\* main.c 710-731: function 0 switches Cobra off with parameter 1, and on with 0.
\* Function 1, which is meant to switch it on, is not 0 modulo 4 and so does not
\* get there (712).
Toggles(g, c) == g.partial = 0 /\ g.granted /\ c.function = "disable"
Capability(g, c) == Toggles(g, c) /\ c.param >= 2
Toggled(g, c) ==
  IF Toggles(g, c) THEN [g EXCEPT !.cobra_off = (c.param = 1)] ELSE g

\* 734-738: the right key opens the gate again, within three tries.
Requests(g, c) ==
  c.function = "ps3mapi" /\ c.op = "request_access" /\ c.param = g.key /\ g.tries < 3
Admitted(g, c) == IF Requests(g, c) THEN [g EXCEPT !.tries = 0, !.granted = TRUE] ELSE g

\* 740-748: a refused call counts as a try, whatever it was.
Refuses(g) == ~g.granted /\ g.key # NoKey
Refused(g) == [g EXCEPT !.tries = IF @ + 1 > 3 THEN 99 ELSE @ + 1]

\* Mutant: the highest level hides the function that sets the level too.
ClosedForAll(g, c) == g.partial >= 3 \/ (g.partial >= 2 /\ c.function # "ps3mapi")

\* 750-768: the levels of the partial disablement.
Closed(g, c) ==
  \/ g.partial >= 3
     /\ ~(c.function = "ps3mapi" /\ g.granted /\ c.op \in {"pdisable", "pcheck"})
  \/ g.partial >= 2 /\ c.function # "ps3mapi"

\* The functions that change what is modelled here (825-980).
Served(g, c) ==
  CASE c.function = "ps3mapi" /\ c.op = "set_access_key" ->
         [g EXCEPT !.key = c.param, !.granted = FALSE, !.tries = 0]
    [] c.function = "ps3mapi" /\ c.op = "pdisable" -> [g EXCEPT !.partial = c.param]
    [] c.function = "stealth" -> [g EXCEPT !.partial = 2]
    [] OTHER -> g

\* A call to syscall 8: the gate after it and whether the call was served.
Call(g, c) ==
  LET a == Admitted(Toggled(g, c), c)
  IN  IF Capability(g, c) THEN [gate |-> g, served |-> FALSE]
      ELSE IF Refuses(a) THEN [gate |-> Refused(a), served |-> FALSE]
      ELSE IF Closed(a, c) THEN [gate |-> a, served |-> FALSE]
      ELSE IF a.cobra_off /\ a.partial < 3 THEN [gate |-> a, served |-> FALSE]
      ELSE [gate |-> Served(a, c), served |-> TRUE]

\* The functions that leave gate and table alone: each hands over to the module that
\* is named for it, once the gate has let the call through.
Service == {"info", "disc", "payload", "config", "psp", "paths", "plugins", "power", "poke",
            "unknown"}

\* So do these operations of the manager API.
ManagerOp == {"info", "peek_poke", "process", "plugins", "remove_hook", "console_id",
              "unknown"}

Request ==
  [function : {"enable", "disable"}, op : {"none"}, param : 0 .. 3]
  \cup [function : Service, op : {"none"}, param : {0}]
  \cup [function : {"ps3mapi"}, op : ManagerOp, param : {0}]
  \cup [function : {"stealth"}, op : {"none"}, param : {0}]
  \cup [function : {"ps3mapi"}, op : {"request_access", "set_access_key"}, param : AccessKey]
  \cup [function : {"ps3mapi"}, op : {"pdisable"}, param : 0 .. 3]
  \cup [function : {"ps3mapi"}, op : {"disable_syscall"}, param : HenSyscall]
  \cup [function : {"ps3mapi"}, op : {"pcheck", "create_syscalls"}, param : {0}]
  \cup [function : {"ps3mapi"}, op : {"allow_restore"}, param : {0, 1}]

\* What a function that is served does to the table; 9, 11, 36 and 38 have no
\* syscall of HEN.
TableAfter(c) ==
  CASE c.function = "stealth" -> table \ {6, 7, 10, 15, 35}
    [] c.op = "disable_syscall" -> table \ {c.param}
    [] c.op = "create_syscalls" -> table \cup HenSyscall
    [] OTHER -> table

\* A process calls syscall 8.
Syscall8 ==
  /\ 8 \in table
  /\ \E c \in Request :
       LET after == Call(gate, c) IN
         /\ gate' = after.gate
         /\ table' = IF after.served THEN TableAfter(c) ELSE table
         /\ allow_restore_sc' = IF after.served /\ c.op = "allow_restore"
                                THEN c.param = 1 ELSE allow_restore_sc
  /\ UNCHANGED <<files, lists, block_psp_launcher, umd_set, opened>>

\* sys_cfw_poke on an entry of the table: entries 6, 7, 9, 10 and 35 may be
\* removed, entry 8 may not, and none of them takes another value.
PokeTable ==
  /\ 7 \in table
  /\ \E n \in {6, 7, 10, 35} \cap HenSyscall : table' = table \ {n}
  /\ UNCHANGED <<gate, allow_restore_sc, files, lists, block_psp_launcher, umd_set,
                 opened>>

-----------------------------------------------------------------------------
(* open_path_hook: what is brought back or refused when a file is opened   *)
(* (mappath.c 886-905, homebrew_blocker.c).                                *)

SyscallsDisabled == 6 \notin table

\* restore_syscalls: the update plugin of XMB brings the syscalls back.
OpenUpdate ==
  /\ table' = IF allow_restore_sc /\ SyscallsDisabled THEN table \cup HenSyscall ELSE table
  /\ UNCHANGED <<gate, allow_restore_sc, files, lists, block_psp_launcher, umd_set,
                 opened>>

\* listed: the files are read once, at the first test.
ListsNow == IF lists = Unread THEN files ELSE lists[1]
Allowed(id, l) == id \notin l.black /\ (id \in l.white \/ id \in RetailId)

\* block_homebrew, for the EBOOT.BIN of a directory.
OpenApplication ==
  \E id \in GameId :
    /\ block_psp_launcher' = (block_psp_launcher \/ (~umd_set /\ id \in LauncherId))
    /\ lists' = IF SyscallsDisabled THEN <<ListsNow>> ELSE lists
    /\ opened' = [id |-> id, allowed |-> SyscallsDisabled => Allowed(id, ListsNow),
                  current |-> SyscallsDisabled => Allowed(id, files), after |-> "none"]
    /\ UNCHANGED <<gate, table, allow_restore_sc, files, umd_set>>

\* The emulator of a launcher that was opened without an image is refused.
OpenPspEmulator ==
  /\ block_psp_launcher' = (block_psp_launcher /\ umd_set)
  /\ opened' = [id |-> "pspemu", allowed |-> ~(block_psp_launcher /\ ~umd_set),
                current |-> TRUE,
                after |-> IF opened.id = "pspemu" THEN opened.after ELSE opened.id]
  /\ UNCHANGED <<gate, table, allow_restore_sc, files, lists, umd_set>>

SetUmd ==
  /\ umd_set' = ~umd_set
  /\ UNCHANGED <<gate, table, allow_restore_sc, files, lists, block_psp_launcher, opened>>

\* A client rewrites the lists.
WriteLists ==
  /\ files' \in ListFile
  /\ UNCHANGED <<gate, table, allow_restore_sc, lists, block_psp_launcher, umd_set,
                 opened>>

GateNext ==
  \/ Syscall8 \/ PokeTable \/ OpenUpdate \/ OpenApplication \/ OpenPspEmulator \/ SetUmd
  \/ WriteLists

GateSpec == GateInit /\ [][GateNext]_gateVars

-----------------------------------------------------------------------------
Cobra(on) == [function |-> "disable", op |-> "none", param |-> IF on THEN 0 ELSE 1]
Ps3mapi(op, p) == [function |-> "ps3mapi", op |-> op, param |-> p]
GateAfter(g, c) == Call(g, c).gate

\* Whatever a client switched off it can switch on again without a reboot: a
\* request with the key, function 0 with parameter 0 and level 0 leave the gate
\* open, unless three wrong keys have locked it.  The stages of syscall8 test
\* three variables in an order that could shut the way back, for instance with
\* Cobra off under a level that hides function 0.
GateReopens ==
  LET locked == Refuses(gate) /\ gate.tries >= 3
      knock == Ps3mapi("request_access", gate.key)
      last == GateAfter(GateAfter(GateAfter(gate, knock), Cobra(TRUE)), Ps3mapi("pdisable", 0))
  IN ~locked => last.granted /\ last.partial = 0 /\ ~last.cobra_off

\* After three refused calls the gate stays shut, whatever is called: the
\* counter is a byte that every refused call moves, and no count of calls may
\* bring it below three again.
LockedStaysLocked ==
  [][Refuses(gate) /\ gate.tries >= 3 => gate'.granted = FALSE /\ gate'.tries >= 3]_gateVars

\* SYSCALL8_OPCODE_ENABLE_COBRA switches Cobra on.  Not so: see Toggles.
EnableEnables ==
  gate.granted /\ gate.partial = 0 =>
    ~GateAfter(gate, [function |-> "enable", op |-> "none", param |-> 0]).cobra_off

\* An application is refused only while the syscalls are disabled, and then by
\* the lists as they are on the disk.  Not so: they are read once.
ListsAreCurrent == opened.allowed = opened.current \/ opened.id = "pspemu"

\* The PSP emulator is refused only after a launcher was opened without an
\* image.  Not so: the flag of an earlier open outlives other applications.
OnlyLauncherRefused ==
  opened.id = "pspemu" /\ ~opened.allowed => opened.after \in LauncherId
=============================================================================

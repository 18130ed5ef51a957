------------------------------- MODULE Hooks -------------------------------
(* How the payload hooks kernel functions: patch.h.  A hook is a stub of   *)
(* instructions, one macro per kind and number of parameters, in which two *)
(* nops are overwritten with the first instruction of the function and a   *)
(* branch to its second one; then the first instruction of the function    *)
(* becomes a branch to the stub.  Threads run through the stub, one        *)
(* instruction at a time, while another thread hooks and unhooks.          *)
(*                                                                         *)
(* An address counts instructions.  The first instruction of a kernel      *)
(* function is taken not to depend on its place.                           *)
EXTENDS Integers, Sequences

CONSTANTS
  Kernel,    \* threads that call the hooked function
  HookKind,  \* the kinds of hooks that are put in
  NParams,   \* the numbers of parameters of the hooked function
  Stacked    \* TRUE: a second hook is put on a function that has one

Kind == {"plain", "precall", "precall_success", "postcall", "cond_postcall"}

ASSUME HookAssumption ==
  /\ HookKind \subseteq Kind
  /\ NParams \subseteq 0 .. 8
  /\ Stacked \in BOOLEAN

Caller == -1               \* the link register holds a place in the caller
InHook == -2               \* a place in the hook, which calls the original
Func == 0                  \* address of the function; its body begins behind it
Stub == <<100, 200>>       \* addresses of the stubs

-----------------------------------------------------------------------------
(* The stubs, instruction by instruction.                                  *)

I(op) == <<op, 0>>
SaveLink == <<I("mflr_0"), I("std_0")>>
\* The parameters, r3 and on, are kept in the frame of the caller.
SaveParams(n) == [i \in 1 .. n |-> <<"std", i>>]
LoadParams(n) == [i \in 1 .. n |-> <<"ld", i>>]
TwoNops == <<I("slot0"), I("slot1")>>
\* r2 becomes the TOC of the payload: the link register holds a place in the
\* stub, at a distance the macro knows.
FindToc(distance) ==
  <<I("li_0"), I("li_2"), I("oris_2"), I("ori_2"), I("oris_0"), I("ori_0"),
    I("subf_0"), I("mflr_2"), <<"addi_2", -distance>>, I("add_2")>>
Leave == <<I("ld_0"), I("mtlr"), I("blr")>>

Plain ==
  SaveLink \o <<I("std_2"), I("bl_next")>> \o FindToc(4) \o <<I("bl_hook"), I("ld_2")>>
    \o Leave \o TwoNops

Precall(n) ==
  SaveLink \o SaveParams(n) \o TwoNops \o <<I("std_2")>> \o LoadParams(n)
    \o FindToc(4 + n) \o <<I("bl_hook"), I("ld_2")>> \o Leave

PrecallSuccess(n) ==
  SaveLink \o SaveParams(n) \o TwoNops
    \o <<I("cmpwi_3"), <<"bne", 14 + n>>, I("std_2")>> \o LoadParams(n)
    \o FindToc(4 + n) \o <<I("bl_hook"), I("ld_2")>> \o Leave

Postcall(n) ==
  SaveLink \o <<I("std_2"), I("bl_next")>> \o FindToc(4) \o SaveParams(n)
    \o <<I("bl_hook"), I("ld_2")>> \o LoadParams(n) \o TwoNops \o Leave

CondPostcall(n) ==
  SaveLink \o <<I("std_2"), I("bl_next")>> \o FindToc(4) \o SaveParams(n)
    \o <<I("bl_hook"), I("ld_2"), I("extsw"), I("cmpwi_4"), <<"bne", 3 + n>>>>
    \o LoadParams(n) \o TwoNops \o Leave

Code(kind, n) ==
  CASE kind = "plain" -> Plain
    [] kind = "precall" -> Precall(n)
    [] kind = "precall_success" -> PrecallSuccess(n)
    [] kind = "postcall" -> Postcall(n)
    [] kind = "cond_postcall" -> CondPostcall(n)

\* Where hook_function and the others of its kind write: the index of the nops.
SavedAt(kind, n) ==
  CASE kind = "plain" -> 19
    [] kind \in {"precall", "precall_success"} -> 2 + n
    [] kind = "postcall" -> 16 + 2 * n
    [] kind = "cond_postcall" -> 19 + 2 * n

-----------------------------------------------------------------------------
VARIABLES
  shape,     \* kind and parameters of the hook
  memory,    \* the first instruction of the function, the two words of each stub
  patcher,   \* where the thread that hooks and unhooks is
  hooked,    \* the hooks that are put in
  cpu        \* registers of each kernel thread

hookVars == <<shape, memory, patcher, hooked, cpu>>

First == <<"first", 0>>                          \* the instruction of the kernel
Nop == <<"nop", 0>>
Branch(from, to) == <<"b", to - from>>           \* MAKE_JUMP
BranchLink(from, to) == <<"bl", to - from>>      \* MAKE_CALL
NoSaved == [s0 |-> Nop, s1 |-> Nop]
SlotAddr(h) == Stub[h] + SavedAt(shape.kind, shape.n)

NoCall ==
  [pc |-> "idle", at |-> 0, stub |-> 0, first |-> FALSE, link |-> Caller, kept |-> Caller,
   toc |-> "kernel", args |-> TRUE, saved |-> 0, loaded |-> 0, result |-> "none", base |-> 0,
   log |-> <<>>]

HooksInit ==
  /\ shape \in [kind : HookKind, n : NParams]
  /\ memory = [func |-> First, stub |-> <<NoSaved, NoSaved>>]
  /\ patcher = [step |-> "idle", hook |-> 1, inst |-> First]
  /\ hooked = {}
  /\ cpu = [t \in Kernel |-> NoCall]

\* Mutant: the function is changed before the stub is ready.
BeginHookLate(h) ==
  /\ patcher.step = "idle" /\ h \notin hooked
  /\ ~Stacked => hooked = {}
  /\ patcher' = [step |-> "save", hook |-> h, inst |-> memory.func]
  /\ memory' = [memory EXCEPT !.func = Branch(Func, Stub[h])]
  /\ UNCHANGED <<shape, hooked, cpu>>

\* The instruction is read and kept in the stub before the function changes.
BeginHook(h) ==
  /\ patcher.step = "idle" /\ h \notin hooked
  /\ ~Stacked => hooked = {}
  /\ patcher' = [step |-> "save", hook |-> h, inst |-> memory.func]
  /\ UNCHANGED <<shape, memory, hooked, cpu>>

SaveFirst ==
  /\ patcher.step = "save"
  /\ memory' = [memory EXCEPT !.stub[patcher.hook].s0 = patcher.inst]
  /\ patcher' = [patcher EXCEPT !.step = "link"]
  /\ UNCHANGED <<shape, hooked, cpu>>

LinkStub ==
  /\ patcher.step = "link"
  /\ LET from == SlotAddr(patcher.hook) + 1
     IN  memory' = [memory EXCEPT !.stub[patcher.hook].s1 =
           IF shape.kind = "plain" THEN Branch(from, Func + 1) ELSE BranchLink(from, Func + 1)]
  /\ patcher' = [patcher EXCEPT !.step = "change"]
  /\ UNCHANGED <<shape, hooked, cpu>>

\* change_function.
ChangeFunction ==
  /\ patcher.step = "change"
  /\ memory' = [memory EXCEPT !.func = Branch(Func, Stub[patcher.hook])]
  /\ hooked' = hooked \cup {patcher.hook}
  /\ patcher' = [patcher EXCEPT !.step = "idle"]
  /\ UNCHANGED <<shape, cpu>>

\* unhook_function and the others: what the stub kept goes back.
Unhook(h) ==
  /\ patcher.step = "idle" /\ h \in hooked
  /\ memory' = [memory EXCEPT !.func = memory.stub[h].s0]
  /\ hooked' = hooked \ {h}
  /\ UNCHANGED <<shape, patcher, cpu>>

-----------------------------------------------------------------------------
(* A kernel thread calls the function.                                     *)

\* What is run, with what it finds: its arguments, its TOC, its first instruction.
Ran(r, what, result) ==
  [what |-> what, whole |-> r.args /\ (r.first \/ what = "hook"), toc |-> r.toc,
   result |-> result]

\* A body or a hook leaves any parameters and a result behind.
Clobbered(r, what, result) ==
  [r EXCEPT !.args = (shape.n = 0), !.loaded = 0, !.first = FALSE, !.result = result,
            !.log = Append(@, Ran(r, what, result))]

\* What can follow an instruction of two nops that is found at some place.
Continue(r, inst, place) ==
  LET target == place + inst[2]
  IN  CASE inst[1] = "nop" -> {[r EXCEPT !.at = @ + 1]}
        [] inst[1] = "first" -> {[r EXCEPT !.at = @ + 1, !.first = TRUE]}
        [] target = Func + 1 ->
             {[Clobbered(r, "body", x) EXCEPT !.pc = "return",
                 !.link = IF inst[1] = "bl" THEN r.at + 1 ELSE @] : x \in {"ok", "fail"}}
        [] inst[1] = "b" /\ \E h \in 1 .. 2 : target = Stub[h] ->
             {[r EXCEPT !.at = 0, !.stub = CHOOSE h \in 1 .. 2 : target = Stub[h]]}
        [] OTHER -> {[r EXCEPT !.pc = "astray"]}

\* One instruction of a stub.
Execute(r) ==
  LET inst == Code(shape.kind, shape.n)[r.at + 1]
      op == inst[1]
      next == [r EXCEPT !.at = @ + 1]
      here == Stub[r.stub] + r.at
      slots == memory.stub[r.stub]
  IN  CASE op = "std_0" -> {[next EXCEPT !.kept = r.link]}
        [] op = "std" -> {IF r.args THEN [next EXCEPT !.saved = @ + 1] ELSE next}
        [] op = "ld" ->
             LET have == IF r.saved >= inst[2] THEN r.loaded + 1 ELSE r.loaded
             IN  {[next EXCEPT !.loaded = have, !.args = @ \/ have = shape.n]}
        [] op = "bl_next" -> {[next EXCEPT !.link = r.at + 1]}
        [] op = "mflr_2" -> {[next EXCEPT !.base = r.link]}
        [] op = "addi_2" -> {[next EXCEPT !.base = @ + inst[2]]}
        [] op = "add_2" -> {[next EXCEPT !.toc = IF r.base = 0 THEN "payload" ELSE "wrong"]}
        [] op = "ld_2" -> {[next EXCEPT !.toc = "kernel"]}
        [] op = "bl_hook" ->
             {[Clobbered(next, "hook", x) EXCEPT !.link = r.at + 1] : x \in {"postcall", "ok", "fail"}}
             \* The hook calls the function through the descriptor it was given.
             \cup {[next EXCEPT !.log = Append(@, Ran(r, "hook", "none")), !.toc = "kernel",
                                !.at = SavedAt("plain", 0), !.link = InHook] :
                     k \in {shape.kind} \cap {"plain"}}
        [] op = "bne" ->
             {IF r.result = (IF shape.kind = "precall_success" THEN "ok" ELSE "postcall")
              THEN next ELSE [r EXCEPT !.at = @ + inst[2]]}
        [] op = "slot0" -> Continue(r, slots.s0, here)
        [] op = "slot1" -> Continue(r, slots.s1, here)
        [] op = "mtlr" -> {[next EXCEPT !.link = r.kept]}
        [] op = "blr" -> {[r EXCEPT !.pc = "return"]}
        [] OTHER -> {next}

\* The call reaches the first word of the function: the function or a branch.
Enter(t) ==
  /\ cpu[t].pc = "idle"
  /\ \E r \in IF memory.func = First
              THEN {[Clobbered([NoCall EXCEPT !.first = TRUE], "body", x) EXCEPT !.pc = "return"] :
                      x \in {"ok", "fail"}}
              ELSE Continue([NoCall EXCEPT !.pc = "stub"], memory.func, Func) :
       cpu' = [cpu EXCEPT ![t] = r]
  /\ UNCHANGED <<shape, memory, patcher, hooked>>

RunStub(t) ==
  /\ cpu[t].pc = "stub"
  /\ \E r \in Execute(cpu[t]) : cpu' = [cpu EXCEPT ![t] = r]
  /\ UNCHANGED <<shape, memory, patcher, hooked>>

\* blr: to the caller, to the stub, or to the hook that called the function.
ReturnTo(t) ==
  /\ cpu[t].pc = "return"
  /\ cpu' = [cpu EXCEPT ![t] =
       CASE @.link = Caller -> [@ EXCEPT !.pc = "done"]
         [] @.link = InHook -> [@ EXCEPT !.pc = "stub", !.at = 15]
         [] OTHER -> [cpu[t] EXCEPT !.pc = "stub", !.at = cpu[t].link]]
  /\ UNCHANGED <<shape, memory, patcher, hooked>>

NextCall(t) ==
  /\ cpu[t].pc = "done"
  /\ cpu' = [cpu EXCEPT ![t] = NoCall]
  /\ UNCHANGED <<shape, memory, patcher, hooked>>

HooksNext ==
  \/ \E h \in 1 .. 2 : BeginHook(h) \/ Unhook(h)
  \/ SaveFirst \/ LinkStub \/ ChangeFunction
  \/ \E t \in Kernel : Enter(t) \/ RunStub(t) \/ ReturnTo(t) \/ NextCall(t)

HooksSpec == HooksInit /\ [][HooksNext]_hookVars

-----------------------------------------------------------------------------
\* What a call that went through a hook of some kind has to have done: which of
\* body and hook ran, in which order, and whose result the caller gets.
Contract(kind, log, result) ==
  LET ran == [i \in DOMAIN log |-> log[i].what]
      both(order) == ran = order /\ result = log[2].result
  IN  CASE kind = "plain" -> ran \in {<<"hook">>, <<"hook", "body">>}
        [] kind = "precall" -> both(<<"body", "hook">>)
        [] kind = "precall_success" ->
             \/ ran = <<"body">> /\ result = "fail"
             \/ both(<<"body", "hook">>) /\ log[1].result = "ok"
        [] kind = "postcall" -> both(<<"hook", "body">>)
        [] kind = "cond_postcall" ->
             \/ ran = <<"hook">> /\ result \in {"ok", "fail"}
             \/ both(<<"hook", "body">>) /\ log[1].result = "postcall"

\* Whenever a function is hooked or unhooked under the threads that call it, each
\* call runs the body and the hook as the kind of hook says, whole, with the
\* arguments of the caller and the TOC each needs, and no thread runs astray.
CallKeepsContract ==
  \A t \in Kernel : LET r == cpu[t] IN
    /\ r.pc # "astray"
    /\ r.pc = "done" =>
         /\ \A i \in DOMAIN r.log :
              /\ r.log[i].whole
              /\ r.log[i].toc = IF r.log[i].what = "hook" THEN "payload" ELSE "kernel"
         /\ r.toc = "kernel"
         /\ IF r.stub = 0 THEN Len(r.log) = 1 ELSE Contract(shape.kind, r.log, r.result)

\* A function whose hooks are all taken away is the kernel's own again.
UnhookedIsKernels ==
  hooked = {} /\ patcher.step = "idle" => memory.func = First

\* A hook does what its macro promises while it is there, and leaves nothing.
HooksAreSound == CallKeepsContract /\ UnhookedIsKernels
=============================================================================

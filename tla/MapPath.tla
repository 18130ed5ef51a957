------------------------------ MODULE MapPath ------------------------------
(***************************************************************************)
(* The table of path mappings and the hook that redirects the kernel's     *)
(* opens through it (mappath.c).                                           *)
(*                                                                         *)
(* Threads map and unmap paths with map_path and sys_map_paths, and open   *)
(* files through open_path_hook.  The table and the static variables of    *)
(* findMapping are under map_mtx; the hook as a whole is under oph_mtx,    *)
(* except that a file opened by the hook itself enters the hook again.     *)
(*                                                                         *)
(* A path is a sequence of pieces of text longer than 6 characters in all, *)
(* the shortest a lookup takes, and shorter than MAX_PATH.                 *)
(***************************************************************************)
EXTENDS Integers, Sequences, FiniteSets

CONSTANTS
  Thread,
  Ptr,       \* addresses that alloc may return for an entry
  NoThread, NoEntry, NoPath,
  MapJob,    \* arguments of map_path: [old, lead, new, flags, dot]
  MapCall,   \* arguments of sys_map_paths: sequences of jobs
  OpenPath,  \* paths that are opened
  Bdvd,      \* "/dev_bdvd"
  EntrySize, \* bytes of an entry
  MaxTable   \* MAX_TABLE_SIZE

Path == Seq(STRING)
Flag == {"table", "protect", "priority"}

\* The path of a job is not empty; lead: it begins with something that
\* addMapping skips, as the "/" of "//dev_bdvd"; old is what is left.  dot: its
\* new path begins with "/./", which asks for protection.
Job == [old : Path \ {<<>>}, lead : BOOLEAN, new : Path \cup {NoPath}, flags : SUBSET Flag,
        dot : BOOLEAN]

\* at: where it is in the list; tail: what newpath holds behind newpath_len;
\* long: oldpath_len is more than the length of oldpath.
Entry == [old : Path, long : BOOLEAN, new : Path, dot : BOOLEAN, tail : Path,
          flags : SUBSET Flag, at : Nat]
NotListed == [old |-> <<>>, long |-> FALSE, new |-> <<>>, dot |-> FALSE, tail |-> <<>>,
              flags |-> {}, at |-> 0]

ASSUME MapAssumption ==
  /\ NoThread \notin Thread /\ NoEntry \notin Ptr /\ NoPath \notin Path
  /\ MapJob \subseteq Job
  /\ \A c \in MapCall : c \in Seq(Job) /\ \A i \in DOMAIN c : c[i].flags = {"table"}
  /\ \A j \in MapJob : "table" \notin j.flags
  /\ OpenPath \subseteq Path
  /\ EntrySize \in Nat \ {0} /\ MaxTable \in Nat

VARIABLES
  entry,    \* the list: entry[p] is the entry at address p, or NotListed
  size,     \* mapTableByteSize
  apphome,  \* condition_apphome
  found,    \* static variable found of findMapping
  applied,  \* static array mcount, its first count elements
  mapMtx,   \* owner of map_mtx
  ophMtx,   \* owner of oph_mtx
  pc,       \* where each thread is
  jobs,     \* mappings a thread is still to make
  path,     \* the path a thread opens
  outer,    \* the open in whose hook it opens it
  text,     \* tmp_mapping: the path with the mappings applied so far
  rest,     \* what follows newpath_len in tmp_mapping
  param,    \* the entry whose newpath the open is redirected to
  touched,  \* history: threads whose param was written by another since
  starved   \* history: an allocation has failed in findMapping

tableVars == <<entry, size>>
chainVars == <<found, applied, starved>>
openVars == <<path, outer, text, rest, param>>
vars == <<tableVars, apphome, chainVars, mapMtx, ophMtx, pc, jobs, openVars, touched>>

Junk == <<"junk">>

IsPrefix(s, t) == Len(s) <= Len(t) /\ SubSeq(t, 1, Len(s)) = s
After(s, t) == SubSeq(t, Len(s) + 1, Len(t))

Listed == {p \in Ptr : entry[p].old # <<>>}

\* Entries that a comparison over oldpath_len may find: one whose length is too
\* long fits no path.
Findable == {p \in Listed : ~entry[p].long}

\* getMapping.
At(old) == {p \in Findable : entry[p].old = old}

\* The string in newpath.  The length of a new path that began with "/./" is
\* two too long, so what is put behind it is behind its end.
String(new, dot, tail) == IF dot THEN new ELSE new \o tail

\* Where thread t stands, and goes.
Step(t, from, to) == pc[t] = from /\ pc' = [pc EXCEPT ![t] = to]

-----------------------------------------------------------------------------
(* map_path and sys_map_paths                                              *)

StartMap(t) ==
  /\ Step(t, "idle", "map")
  /\ \/ \E j \in MapJob : jobs' = [jobs EXCEPT ![t] = <<j>>]
     \/ \E c \in MapCall : c # <<>> /\ jobs' = [jobs EXCEPT ![t] = c]
  /\ UNCHANGED <<tableVars, apphome, chainVars, mapMtx, ophMtx, openVars, touched>>

\* sys_map_paths(NULL) unmaps what sys_map_paths has mapped.
StartUnmap(t) ==
  /\ Step(t, "idle", "clear")
  /\ UNCHANGED <<tableVars, apphome, chainVars, mapMtx, ophMtx, jobs, openVars, touched>>

\* A job of sys_map_paths that fails ends the call and unmaps.
Succeed(t) ==
  /\ Step(t, pc[t], IF Len(jobs[t]) > 1 THEN "map" ELSE "idle")
  /\ jobs' = [jobs EXCEPT ![t] = Tail(@)]
Fail(t) ==
  /\ Step(t, pc[t], IF "table" \in Head(jobs[t]).flags THEN "clear" ELSE "idle")
  /\ jobs' = [jobs EXCEPT ![t] = <<>>]

\* The paths cannot be copied from the process.
CopyFails(t) ==
  /\ pc[t] = "map" /\ Fail(t)
  /\ UNCHANGED <<tableVars, apphome, chainVars, mapMtx, ophMtx, openVars, touched>>

\* A path mapped to itself is unmapped; the paths are compared as they were given.
NewPath(j) == IF j.new = j.old /\ ~j.dot /\ ~j.lead THEN NoPath ELSE j.new

\* condition_apphome is set before the lock is taken.
MapApphome(t) ==
  /\ Step(t, "map", "add")
  /\ LET j == Head(jobs[t])
     IN  apphome' = IF j.old = Bdvd /\ ~j.lead THEN NewPath(j) # NoPath ELSE apphome
  /\ UNCHANGED <<tableVars, chainVars, mapMtx, ophMtx, jobs, openVars, touched>>

\* addMapping runs under map_mtx, without waiting for anything: one step.
Adding(t, j) ==
  /\ pc[t] = "add"
  /\ mapMtx = NoThread
  /\ UNCHANGED <<apphome, chainVars, mapMtx, ophMtx, openVars>>

\* Whoever was redirected to p and has not opened it yet sees the change.
Touch(p) == touched' = touched \cup {u \in Thread : param[u] = p}

\* Mutant: the path is not looked for, a second entry is added for it.
InsertAnyway(t, j, p) ==
  /\ Adding(t, j)
  /\ NewPath(j) # NoPath
  /\ size + EntrySize <= MaxTable
  /\ p \notin Listed
  /\ entry' = [entry EXCEPT ![p] = [old |-> j.old, long |-> j.lead, new |-> j.new, dot |-> j.dot,
       tail |-> <<>>, flags |-> j.flags \cup (IF j.dot THEN {"protect"} ELSE {}), at |-> size]]
  /\ size' = size + EntrySize
  /\ Succeed(t)
  /\ UNCHANGED touched

\* A new entry goes to the end of the list: entries are in the order of `at`,
\* as mapTableByteSize only ever grows.  Its oldpath_len is the length that the
\* path had before what it begins with was skipped.
Insert(t, j, p) ==
  /\ Adding(t, j)
  /\ At(j.old) = {} /\ NewPath(j) # NoPath
  /\ size + EntrySize <= MaxTable
  /\ p \notin Listed
  /\ entry' = [entry EXCEPT ![p] = [old |-> j.old, long |-> j.lead, new |-> j.new, dot |-> j.dot,
       tail |-> <<>>, flags |-> j.flags \cup (IF j.dot THEN {"protect"} ELSE {}), at |-> size]]
  /\ size' = size + EntrySize
  /\ Succeed(t)
  /\ UNCHANGED touched

\* One of its allocations fails; part of its size stays counted.
InsertFails(t, j) ==
  /\ Adding(t, j)
  /\ At(j.old) = {} /\ NewPath(j) # NoPath
  /\ size + EntrySize <= MaxTable
  /\ \E leak \in 1..EntrySize : size' = size + leak
  /\ Fail(t)
  /\ UNCHANGED <<entry, touched>>

TableFull(t, j) ==
  /\ Adding(t, j)
  /\ At(j.old) = {} /\ NewPath(j) # NoPath
  /\ size + EntrySize > MaxTable
  /\ Fail(t)
  /\ UNCHANGED <<tableVars, touched>>

\* The new path and the flags of an entry are replaced, protected or not.
Update(t, j, p) ==
  /\ Adding(t, j)
  /\ p \in At(j.old) /\ NewPath(j) # NoPath
  /\ entry' = [entry EXCEPT ![p] = [@ EXCEPT !.new = j.new, !.dot = j.dot, !.tail = <<>>,
       !.flags = j.flags \cup (IF j.dot THEN {"protect"} ELSE {})]]
  /\ Touch(p)
  /\ Succeed(t)
  /\ UNCHANGED size

\* Mutant: a protected entry is deleted too.
DeleteProtected(t, j, p) ==
  /\ Adding(t, j)
  /\ p \in At(j.old) /\ NewPath(j) = NoPath
  /\ entry' = [entry EXCEPT ![p] = NotListed] /\ Touch(p) /\ Succeed(t)
  /\ UNCHANGED size

\* deleteMapping; what the entry took of the table is not given back.
Delete(t, j, p) ==
  /\ Adding(t, j)
  /\ p \in At(j.old) /\ NewPath(j) = NoPath
  /\ IF "protect" \in entry[p].flags
       THEN Fail(t) /\ UNCHANGED <<entry, touched>>
       ELSE entry' = [entry EXCEPT ![p] = NotListed] /\ Touch(p) /\ Succeed(t)
  /\ UNCHANGED size

\* Unmapping what is not mapped succeeds.
DeleteNone(t, j) ==
  /\ Adding(t, j)
  /\ At(j.old) = {} /\ NewPath(j) = NoPath
  /\ Succeed(t)
  /\ UNCHANGED <<tableVars, touched>>

AddMapping(t) ==
  LET j == Head(jobs[t])
  IN  \/ InsertFails(t, j) \/ TableFull(t, j) \/ DeleteNone(t, j)
      \/ \E p \in Ptr : Insert(t, j, p) \/ Update(t, j, p) \/ Delete(t, j, p)

\* deleteAllMappings(FLAG_TABLE).
InTable == {p \in Listed : "table" \in entry[p].flags /\ "protect" \notin entry[p].flags}

ClearTable(t) ==
  /\ Step(t, "clear", "idle")
  /\ mapMtx = NoThread
  /\ entry' = [p \in Ptr |-> IF p \in InTable THEN NotListed ELSE entry[p]]
  /\ touched' = touched \cup {u \in Thread : param[u] \in InTable}
  /\ apphome' = (apphome /\ \A p \in InTable : entry[p].old # Bdvd)
  /\ UNCHANGED <<size, chainVars, mapMtx, ophMtx, jobs, openVars>>

-----------------------------------------------------------------------------
(* open_path_hook and the open it redirects                                *)

StartOpen(t, p) ==
  /\ Step(t, "idle", "oph")
  /\ path' = [path EXCEPT ![t] = p]
  /\ UNCHANGED <<tableVars, apphome, chainVars, mapMtx, ophMtx, jobs, outer, text, rest,
                 param, touched>>

\* The thread that has the lock is refused it (EDEADLK), and goes on.
LockOph(t) ==
  /\ Step(t, "oph", "hook")
  /\ \/ ophMtx = NoThread /\ ophMtx' = t
     \/ ophMtx = t /\ UNCHANGED ophMtx
  /\ UNCHANGED <<tableVars, apphome, chainVars, mapMtx, jobs, openVars, touched>>

\* make_rif, check_signin or block_homebrew open a file of their own; bound: one.
OpenInHook(t, p) ==
  /\ Step(t, "hook", "oph")
  /\ outer[t] = NoPath
  /\ outer' = [outer EXCEPT ![t] = path[t]]
  /\ path' = [path EXCEPT ![t] = p]
  /\ UNCHANGED <<tableVars, apphome, chainVars, mapMtx, ophMtx, jobs, text, rest, param,
                 touched>>

\* The open is refused: it is redirected to a file that does not exist.
Block(t) ==
  /\ Step(t, "hook", "release") \/ Step(t, "hooked", "release")
  /\ text' = [text EXCEPT ![t] = NoPath]
  /\ UNCHANGED <<tableVars, apphome, chainVars, mapMtx, ophMtx, jobs, path, outer, rest,
                 param, touched>>

Pass(t) ==
  /\ Step(t, "hook", "find") \/ Step(t, "hooked", "find")
  /\ UNCHANGED <<tableVars, apphome, chainVars, mapMtx, ophMtx, jobs, openVars, touched>>

\* Mutant: findMapping runs without the lock.
LockMapNot(t) ==
  /\ Step(t, "find", "chain")
  /\ mapMtx' = t
  /\ text' = [text EXCEPT ![t] = path[t]]
  /\ rest' = [rest EXCEPT ![t] = Junk]
  /\ touched' = touched \ {t}
  /\ UNCHANGED <<tableVars, apphome, chainVars, ophMtx, jobs, path, outer, param>>

LockMap(t) ==
  /\ Step(t, "find", "chain")
  /\ mapMtx = NoThread
  /\ mapMtx' = t
  /\ text' = [text EXCEPT ![t] = path[t]]
  /\ rest' = [rest EXCEPT ![t] = Junk]
  /\ touched' = touched \ {t}
  /\ UNCHANGED <<tableVars, apphome, chainVars, ophMtx, jobs, path, outer, param>>

LeadsHere(e, s) == IF e.dot THEN s = e.new ELSE IsPrefix(e.new, s)
\* Mutant: mappings in mcount are taken again.
FittingAgain(s) == {p \in Findable : IsPrefix(entry[p].old, s) /\ ~LeadsHere(entry[p], s)}
\* Entries that map the path, were not applied and do not already lead there.
Fitting(s) == {p \in Findable \ applied : IsPrefix(entry[p].old, s) /\ ~LeadsHere(entry[p], s)}
Urgent(s) == {p \in Fitting(s) : "priority" \in entry[p].flags}

\* The one findMapping takes: the first with FLAG_MAX_PRIORITY, or the first.
FirstFit(s) ==
  LET C == IF Urgent(s) # {} THEN Urgent(s) ELSE Fitting(s)
  IN  {p \in C : \A q \in C : entry[p].at <= entry[q].at}

\* One level of findMapping.  A mapping in mcount is not taken again, so found
\* is never the mapping just taken.
Apply(t) ==
  /\ pc[t] = "chain"
  /\ \E p \in FirstFit(text[t]) :
       LET e == entry[p]
       IN  /\ applied' = applied \cup {p}
           /\ found' = p
           /\ rest' = [rest EXCEPT ![t] = After(e.old, text[t])]
           /\ text' = [text EXCEPT ![t] = String(e.new, e.dot, After(e.old, @))]
  /\ UNCHANGED <<tableVars, apphome, starved, mapMtx, ophMtx, pc, jobs, path, outer, param,
                 touched>>

\* tmp_mapping cannot be allocated: the open is not redirected, and the static
\* variables stay as they are.
ApplyFails(t) ==
  /\ Step(t, "chain", "release")
  /\ \E p \in FirstFit(text[t]) : applied' = applied \cup {p}
  /\ starved' = TRUE
  /\ mapMtx' = NoThread
  /\ text' = [text EXCEPT ![t] = path[t]]
  /\ UNCHANGED <<tableVars, apphome, found, ophMtx, jobs, path, outer, rest, param, touched>>

\* Mutant: the mappings applied to this path stay in mcount.
RedirectKeepsCount(t) ==
  /\ Step(t, "chain", "release")
  /\ FirstFit(text[t]) = {}
  /\ mapMtx' = NoThread
  /\ IF found = NoEntry
       THEN UNCHANGED <<param, entry, found, touched>>
       ELSE /\ param' = [param EXCEPT ![t] = found]
            /\ entry' = [entry EXCEPT ![found] = [@ EXCEPT !.tail = rest[t]]]
            /\ found' = NoEntry
            /\ Touch(found)
  /\ UNCHANGED <<size, apphome, applied, starved, ophMtx, jobs, path, outer, text, rest>>

\* No mapping is left.  If there was one, the path is put in its newpath, where
\* the open is redirected to.
Redirect(t) ==
  /\ Step(t, "chain", "release")
  /\ FirstFit(text[t]) = {}
  /\ mapMtx' = NoThread
  /\ IF found = NoEntry \/ Listed = {}
       THEN UNCHANGED <<param, entry, found, applied, touched>>
       ELSE /\ param' = [param EXCEPT ![t] = found]
            /\ entry' = IF found \in Listed
                          THEN [entry EXCEPT ![found] = [@ EXCEPT !.tail = rest[t]]]
                          ELSE entry
            /\ found' = NoEntry
            /\ applied' = {}
            /\ Touch(found)
  /\ UNCHANGED <<size, apphome, starved, ophMtx, jobs, path, outer, text, rest>>

\* Unlocking a mutex that another thread has fails.
Release(t) ==
  /\ Step(t, "release", "open")
  /\ ophMtx' = IF ophMtx = t THEN NoThread ELSE ophMtx
  /\ UNCHANGED <<tableVars, apphome, chainVars, mapMtx, jobs, openVars, touched>>

\* The path that the kernel opens, once the hook is left: newpath is read now.
Opened(t) ==
  IF text[t] = NoPath THEN NoPath
  ELSE IF param[t] = NoEntry THEN path[t]
  ELSE IF param[t] \notin Listed THEN Junk
  ELSE String(entry[param[t]].new, entry[param[t]].dot, entry[param[t]].tail)

\* A file opened by the hook leads back into it.
Open(t) ==
  /\ Step(t, "open", IF outer[t] = NoPath THEN "idle" ELSE "hooked")
  /\ path' = [path EXCEPT ![t] = outer[t]]
  /\ outer' = [outer EXCEPT ![t] = NoPath]
  /\ text' = [text EXCEPT ![t] = NoPath]
  /\ rest' = [rest EXCEPT ![t] = Junk]
  /\ param' = [param EXCEPT ![t] = NoEntry]
  /\ touched' = touched \ {t}
  /\ UNCHANGED <<tableVars, apphome, chainVars, mapMtx, ophMtx, jobs>>

-----------------------------------------------------------------------------
Init ==
  /\ entry = [p \in Ptr |-> NotListed]
  /\ size = 0
  /\ apphome = FALSE
  /\ found = NoEntry
  /\ applied = {}
  /\ mapMtx = NoThread
  /\ ophMtx = NoThread
  /\ pc = [t \in Thread |-> "idle"]
  /\ jobs = [t \in Thread |-> <<>>]
  /\ path = [t \in Thread |-> NoPath]
  /\ outer = [t \in Thread |-> NoPath]
  /\ text = [t \in Thread |-> NoPath]
  /\ rest = [t \in Thread |-> Junk]
  /\ param = [t \in Thread |-> NoEntry]
  /\ touched = {}
  /\ starved = FALSE

Mapping(t) == CopyFails(t) \/ MapApphome(t) \/ AddMapping(t) \/ ClearTable(t)

Opening(t) ==
  \/ LockOph(t) \/ Block(t) \/ Pass(t) \/ LockMap(t) \/ Apply(t) \/ ApplyFails(t)
  \/ Redirect(t) \/ Release(t) \/ Open(t)
  \/ \E p \in OpenPath : OpenInHook(t, p)

Next == \E t \in Thread :
  \/ StartMap(t) \/ StartUnmap(t) \/ (\E p \in OpenPath : StartOpen(t, p))
  \/ Mapping(t) \/ Opening(t)

Spec == Init /\ [][Next]_vars

\* A thread in the code goes on, and gets a mutex that is free again and again.
Fairness == \A t \in Thread :
  /\ WF_vars(Mapping(t) \/ Opening(t))
  /\ SF_vars(LockOph(t))
  /\ SF_vars(LockMap(t) \/ AddMapping(t) \/ ClearTable(t))

LiveSpec == Spec /\ Fairness
=============================================================================

---------------------------- MODULE MapPathProps ----------------------------
(* What the table of path mappings and the hook of opens guarantee.        *)
EXTENDS MapPath

\* However threads map and unmap, no path has two entries that can be found: the
\* one that redirects is the one that is updated and deleted.  An entry that was
\* added with something to skip before its path is never found: it redirects
\* nothing, and there may be many of it.
UniqueOld == \A p, q \in Findable : entry[p].old = entry[q].old => p = q

\* Outside findMapping, and from one open to the next, its static variables are
\* clear; after an allocation has failed they may be stale.
ChainReset == mapMtx = NoThread /\ ~starved => found = NoEntry /\ applied = {}

\* An open is redirected to the path that findMapping made for it, unless
\* another thread has written the entry meanwhile or the static variables are
\* stale.  What the hook itself opens does not disturb the open it is in.
OpensItsMapping ==
  \A t \in Thread : pc[t] = "open" /\ t \notin touched /\ ~starved => Opened(t) = text[t]

\* However many mappings are applied, the file keeps its name in its directory.
Last(s) == s[Len(s)]
TailKept ==
  \A t \in Thread : pc[t] = "open" /\ t \notin touched /\ ~starved /\ text[t] # NoPath =>
    Last(Opened(t)) = Last(path[t])

\* A mapping that is protected stays until its flags have been replaced: no
\* step unmaps it, not even the one that unmaps everything in the table.
ProtectedStays ==
  [][\A p \in Listed : "protect" \in entry[p].flags => p \in Listed']_vars

\* Every open, mapping and unmapping comes to its end.
Completes == \A t \in Thread : pc[t] # "idle" ~> pc[t] = "idle"

-----------------------------------------------------------------------------
(* What comments say and the code does not keep.                           *)

\* The redirected path belongs to this open alone until the kernel has read it.
RedirectedAlone ==
  \A t \in Thread : pc[t] = "open" /\ ~starved => Opened(t) = text[t]

\* A path that is mapped already has its mapping updated, and is not added again.
EveryPathOnce == \A p, q \in Listed : entry[p].old = entry[q].old => p = q

\* mcount holds mappings that were applied to the path that is looked up.
AppliedToThisPath == mapMtx = NoThread => applied = {}

\* The table is full when what is in it takes the room.
FullWhenUsed ==
  [][\A t \in Thread : pc[t] = "add" /\ TableFull(t, Head(jobs[t])) =>
       EntrySize * (Cardinality(Listed) + 1) > MaxTable]_vars

\* condition_apphome says that a game is mounted on /dev_bdvd.
ApphomeMapped ==
  (\A t \in Thread : pc[t] = "idle") => (apphome <=> At(Bdvd) # {})
=============================================================================

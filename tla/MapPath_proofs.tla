--------------------------- MODULE MapPath_proofs ---------------------------
(***************************************************************************)
(* Proofs about MapPath, for any number of threads, paths and mappings.    *)
(***************************************************************************)
EXTENDS MapPathProps, TLAPS

\* The shape of the state, as far as the proofs need it.
Shape ==
  /\ DOMAIN entry = Ptr
  /\ \A p \in Ptr : DOMAIN entry[p] = {"old", "long", "new", "dot", "tail", "flags", "at"}
  /\ found \in Ptr \cup {NoEntry}
  /\ mapMtx \in Thread \cup {NoThread}
  /\ DOMAIN pc = Thread /\ DOMAIN path = Thread /\ DOMAIN outer = Thread
  /\ DOMAIN text = Thread /\ DOMAIN rest = Thread
  /\ param \in [Thread -> Ptr \cup {NoEntry}]

\* map_mtx is with the thread that is in findMapping.
MapLocked == \A t \in Thread : pc[t] = "chain" <=> mapMtx = t

\* Only between the hook and the open that follows it is a thread redirected.
ParamIdle == \A t \in Thread : pc[t] \notin {"release", "open"} => param[t] = NoEntry

\* The path so far is what the last mapping applied makes of the path.
ChainText ==
  \A t \in Thread : pc[t] = "chain" /\ ~starved =>
    IF found = NoEntry THEN text[t] = path[t] /\ applied = {}
    ELSE found \in Listed /\ text[t] = String(entry[found].new, entry[found].dot, rest[t])

\* And it is what its newpath holds until the open.
RedirectText ==
  \A t \in Thread : pc[t] \in {"release", "open"} /\ t \notin touched /\ ~starved =>
    \/ text[t] = NoPath
    \/ param[t] = NoEntry /\ text[t] = path[t]
    \/ /\ param[t] \in Listed
       /\ text[t] = String(entry[param[t]].new, entry[param[t]].dot, entry[param[t]].tail)

MapInv == Shape /\ MapLocked /\ ParamIdle /\ ChainReset /\ ChainText /\ RedirectText
          /\ UniqueOld

\* A step of a thread that is neither in findMapping nor redirected, which leaves
\* the table alone, keeps the invariant.
LEMMA ElsewhereInv ==
  ASSUME MapInv, NEW t \in Thread, NEW from, NEW to, Step(t, from, to),
         from \notin {"chain", "release", "open"}, to \notin {"chain", "release", "open"},
         DOMAIN path' = Thread, \A u \in Thread \ {t} : path'[u] = path[u],
         DOMAIN outer' = Thread,
         UNCHANGED <<entry, chainVars, mapMtx, text, rest, param, touched>>
  PROVE  MapInv'
<1> USE MapAssumption DEF MapInv, Step, chainVars
<1>1. Shape'
  BY DEF Shape
<1>2. MapLocked'
  BY DEF MapLocked, Shape
<1>3. ParamIdle'
  BY DEF ParamIdle, Shape
<1>4. ChainReset'
  BY DEF ChainReset
<1>5. ChainText'
  BY DEF ChainText, Shape, Listed
<1>6. RedirectText'
  BY DEF RedirectText, Shape, Listed
<1>7. UniqueOld'
  BY DEF UniqueOld, Findable, Listed
<1> QED BY <1>1, <1>2, <1>3, <1>4, <1>5, <1>6, <1>7

\* Most steps of map_path and of the way into the hook are such steps.
LEMMA QuietInv ==
  ASSUME MapInv, NEW t \in Thread,
         \/ StartMap(t) \/ StartUnmap(t) \/ CopyFails(t) \/ MapApphome(t)
         \/ LockOph(t) \/ Pass(t)
         \/ \E q \in OpenPath : StartOpen(t, q) \/ OpenInHook(t, q)
         \/ \E j : InsertFails(t, j) \/ TableFull(t, j) \/ DeleteNone(t, j)
  PROVE  MapInv'
<1> USE ElsewhereInv DEF tableVars, openVars
<1>0. DOMAIN path = Thread /\ DOMAIN outer = Thread
  BY DEF MapInv, Shape
<1>1. CASE StartMap(t)
  BY <1>0, <1>1 DEF StartMap
<1>2. CASE StartUnmap(t)
  BY <1>0, <1>2 DEF StartUnmap
<1>3. CASE CopyFails(t)
  BY <1>0, <1>3 DEF CopyFails, Fail, Step
<1>4. CASE MapApphome(t)
  BY <1>0, <1>4 DEF MapApphome
<1>5. CASE LockOph(t)
  BY <1>0, <1>5 DEF LockOph
<1>6. CASE Pass(t)
  BY <1>0, <1>6 DEF Pass
<1>7. ASSUME NEW q \in OpenPath, StartOpen(t, q) PROVE MapInv'
  BY <1>0, <1>7 DEF StartOpen
<1>8. ASSUME NEW q \in OpenPath, OpenInHook(t, q) PROVE MapInv'
  BY <1>0, <1>8 DEF OpenInHook
<1>9. ASSUME NEW j, InsertFails(t, j) \/ TableFull(t, j) PROVE MapInv'
  BY <1>0, <1>9 DEF InsertFails, TableFull, Adding, Fail, Step
<1>10. ASSUME NEW j, DeleteNone(t, j) PROVE MapInv'
  BY <1>0, <1>10 DEF DeleteNone, Adding, Succeed, Step
<1> QED BY <1>1, <1>2, <1>3, <1>4, <1>5, <1>6, <1>7, <1>8, <1>9, <1>10

\* A new entry is for a path that had none.
LEMMA InsertInv ==
  ASSUME MapInv, NEW t \in Thread, NEW j, NEW p \in Ptr, Insert(t, j, p)
  PROVE  MapInv'
<1> USE MapAssumption DEF MapInv, Insert, Step, Adding, Succeed, tableVars, chainVars, openVars
<1>1. Shape'
  BY DEF Shape, MapLocked, Listed, NotListed
<1>2. MapLocked'
  BY DEF MapLocked, Shape, Listed, NotListed
<1>3. ParamIdle'
  BY DEF ParamIdle, Shape, MapLocked, Listed, NotListed
<1>4. ChainReset'
  BY DEF ChainReset, Shape, MapLocked, Listed, NotListed
<1>5. ChainText'
  BY DEF ChainText, Shape, MapLocked, Listed, NotListed, ChainReset
<1>6. RedirectText'
  BY DEF RedirectText, Shape, MapLocked, Listed, NotListed, ParamIdle, ChainReset, ChainText
<1>7. UniqueOld'
  <2>1. \A q \in Ptr \ {p} : entry'[q] = entry[q]
    BY DEF Shape
  <2>2. entry'[p].old = j.old
    BY DEF Shape
  <2>3. \A q \in Findable : entry[q].old # j.old
    BY DEF At, Findable
  <2>4. \A q \in Listed' : q = p \/ (q \in Listed /\ entry'[q] = entry[q])
    BY <2>1 DEF Listed
  <2> QED BY <2>2, <2>3, <2>4 DEF UniqueOld, Findable
<1> QED BY <1>1, <1>2, <1>3, <1>4, <1>5, <1>6, <1>7

\* An entry keeps its path, and whoever is redirected to it is marked.
LEMMA UpdateInv ==
  ASSUME MapInv, NEW t \in Thread, NEW j, NEW p \in Ptr, Update(t, j, p)
  PROVE  MapInv'
<1> USE MapAssumption DEF MapInv, Update, Step, Adding, Succeed, Touch, tableVars, chainVars, openVars
<1>1. Shape'
  BY DEF Shape, MapLocked, Listed, NotListed
<1>2. MapLocked'
  BY DEF MapLocked, Shape, Listed, NotListed
<1>3. ParamIdle'
  BY DEF ParamIdle, Shape, MapLocked, Listed, NotListed
<1>4. ChainReset'
  BY DEF ChainReset, Shape, MapLocked, Listed, NotListed
<1>5. ChainText'
  BY DEF ChainText, Shape, MapLocked, Listed, NotListed, ChainReset
<1>6. RedirectText'
  BY DEF RedirectText, Shape, MapLocked, Listed, NotListed, ParamIdle, ChainReset, ChainText
<1>7. UniqueOld'
  <2>1. \A q \in Ptr : entry'[q].old = entry[q].old /\ entry'[q].long = entry[q].long
    BY DEF Shape
  <2>2. p \in Listed
    BY DEF At, Findable
  <2>3. Listed' \subseteq Listed
    BY <2>2 DEF Listed, Shape
  <2>4. \A q \in Findable' : q \in Findable /\ entry'[q].old = entry[q].old
    BY <2>1, <2>3 DEF Listed, Findable
  <2> QED BY <2>4 DEF UniqueOld, Findable
<1> QED BY <1>1, <1>2, <1>3, <1>4, <1>5, <1>6, <1>7

\* Of what is left no entry is changed.
LEMMA DeleteInv ==
  ASSUME MapInv, NEW t \in Thread, NEW j, NEW p \in Ptr, Delete(t, j, p)
  PROVE  MapInv'
<1> USE MapAssumption DEF MapInv, Delete, Step, Adding, Succeed, Fail, Touch, tableVars, chainVars, openVars
<1>1. Shape'
  BY DEF Shape, MapLocked, Listed, NotListed
<1>2. MapLocked'
  BY DEF MapLocked, Shape, Listed, NotListed
<1>3. ParamIdle'
  BY DEF ParamIdle, Shape, MapLocked, Listed, NotListed
<1>4. ChainReset'
  BY DEF ChainReset, Shape, MapLocked, Listed, NotListed
<1>5. ChainText'
  BY DEF ChainText, Shape, MapLocked, Listed, NotListed, ChainReset
<1>6. RedirectText'
  BY DEF RedirectText, Shape, MapLocked, Listed, NotListed, ParamIdle, ChainReset, ChainText
<1>7. UniqueOld'
  <2>1. \A q \in Ptr : entry'[q] = entry[q] \/ entry'[q] = NotListed
    BY DEF Shape
  <2>2. \A q \in Listed' : q \in Listed /\ entry'[q] = entry[q]
    BY <2>1 DEF Listed, NotListed
  <2> QED BY <2>2 DEF UniqueOld, Findable
<1> QED BY <1>1, <1>2, <1>3, <1>4, <1>5, <1>6, <1>7

\* The same for all that sys_map_paths has mapped.
LEMMA ClearTableInv ==
  ASSUME MapInv, NEW t \in Thread, ClearTable(t)
  PROVE  MapInv'
<1> USE MapAssumption DEF MapInv, ClearTable, Step, InTable, tableVars, chainVars, openVars
<1>1. Shape'
  BY DEF Shape, MapLocked, Listed, NotListed
<1>2. MapLocked'
  BY DEF MapLocked, Shape, Listed, NotListed
<1>3. ParamIdle'
  BY DEF ParamIdle, Shape, MapLocked, Listed, NotListed
<1>4. ChainReset'
  BY DEF ChainReset, Shape, MapLocked, Listed, NotListed
<1>5. ChainText'
  BY DEF ChainText, Shape, MapLocked, Listed, NotListed, ChainReset
<1>6. RedirectText'
  BY DEF RedirectText, Shape, MapLocked, Listed, NotListed, ParamIdle, ChainReset, ChainText
<1>7. UniqueOld'
  BY DEF UniqueOld, Findable, Shape, MapLocked, Listed, NotListed
<1> QED BY <1>1, <1>2, <1>3, <1>4, <1>5, <1>6, <1>7

\* A blocked open is redirected to no entry.
LEMMA BlockInv ==
  ASSUME MapInv, NEW t \in Thread, Block(t)
  PROVE  MapInv'
<1> USE MapAssumption DEF MapInv, Block, Step, tableVars, chainVars, openVars
<1>1. Shape'
  BY DEF Shape, MapLocked, Listed, NotListed
<1>2. MapLocked'
  BY DEF MapLocked, Shape, Listed, NotListed
<1>3. ParamIdle'
  BY DEF ParamIdle, Shape, MapLocked, Listed, NotListed
<1>4. ChainReset'
  BY DEF ChainReset, Shape, MapLocked, Listed, NotListed
<1>5. ChainText'
  BY DEF ChainText, Shape, MapLocked, Listed, NotListed, ChainReset
<1>6. RedirectText'
  BY DEF RedirectText, Shape, MapLocked, Listed, NotListed, ParamIdle, ChainReset, ChainText
<1>7. UniqueOld'
  BY DEF UniqueOld, Findable, Shape, MapLocked, Listed, NotListed
<1> QED BY <1>1, <1>2, <1>3, <1>4, <1>5, <1>6, <1>7

\* findMapping starts with the path itself.
LEMMA LockMapInv ==
  ASSUME MapInv, NEW t \in Thread, LockMap(t)
  PROVE  MapInv'
<1> USE MapAssumption DEF MapInv, LockMap, Step, tableVars, chainVars, openVars
<1>1. Shape'
  BY DEF Shape, MapLocked, Listed, NotListed
<1>2. MapLocked'
  BY DEF MapLocked, Shape, Listed, NotListed
<1>3. ParamIdle'
  BY DEF ParamIdle, Shape, MapLocked, Listed, NotListed
<1>4. ChainReset'
  BY DEF ChainReset, Shape, MapLocked, Listed, NotListed
<1>5. ChainText'
  BY DEF ChainText, Shape, MapLocked, Listed, NotListed, ChainReset
<1>6. RedirectText'
  BY DEF RedirectText, Shape, MapLocked, Listed, NotListed, ParamIdle, ChainReset, ChainText
<1>7. UniqueOld'
  BY DEF UniqueOld, Findable, Shape, MapLocked, Listed, NotListed
<1> QED BY <1>1, <1>2, <1>3, <1>4, <1>5, <1>6, <1>7

\* A mapping that is applied makes the path what its newpath will hold.
LEMMA ApplyInv ==
  ASSUME MapInv, NEW t \in Thread, Apply(t)
  PROVE  MapInv'
<1> USE MapAssumption DEF MapInv, tableVars
<1>1. PICK p \in FirstFit(text[t]) :
        /\ found' = p
        /\ rest' = [rest EXCEPT ![t] = After(entry[p].old, text[t])]
        /\ text' = [text EXCEPT ![t] = String(entry[p].new, entry[p].dot, After(entry[p].old, @))]
  BY DEF Apply
<1>2. /\ UNCHANGED <<entry, pc, mapMtx, path, outer, param, touched, starved>>
      /\ pc[t] = "chain" /\ mapMtx = t
  BY DEF Apply, MapLocked
<1>3. p \in Listed /\ p \in Ptr /\ Listed' = Listed
  BY <1>1, <1>2 DEF FirstFit, Urgent, Fitting, Findable, Listed
<1>4. Shape' /\ MapLocked' /\ ParamIdle' /\ UniqueOld'
  BY <1>1, <1>2, <1>3 DEF Shape, MapLocked, ParamIdle, UniqueOld, Findable
<1>5. ChainReset'
  BY <1>2 DEF ChainReset
<1>6. ChainText'
  <2> SUFFICES ASSUME NEW u \in Thread, pc'[u] = "chain"
               PROVE  found' \in Listed' /\ text'[u] = String(entry'[found'].new, entry'[found'].dot, rest'[u])
    BY <1>1, <1>3 DEF ChainText
  <2>1. u = t
    BY <1>2 DEF MapLocked
  <2>2. rest'[t] = After(entry[p].old, text[t])
    BY <1>1 DEF Shape
  <2>3. text'[t] = String(entry[p].new, entry[p].dot, After(entry[p].old, text[t]))
    BY <1>1 DEF Shape
  <2> QED BY <1>1, <1>2, <1>3, <2>1, <2>2, <2>3
<1>7. RedirectText'
  <2>1. \A u \in Thread : u # t => text'[u] = text[u]
    BY <1>1 DEF Shape
  <2> QED BY <1>2, <1>3, <2>1 DEF RedirectText
<1> QED BY <1>4, <1>5, <1>6, <1>7

\* After a failed allocation nothing is known of the static variables.
LEMMA ApplyFailsInv ==
  ASSUME MapInv, NEW t \in Thread, ApplyFails(t)
  PROVE  MapInv'
<1> USE MapAssumption DEF MapInv, ApplyFails, Step, tableVars, chainVars, openVars
<1>1. Shape'
  BY DEF Shape, MapLocked, Listed, NotListed
<1>2. MapLocked'
  BY DEF MapLocked, Shape, Listed, NotListed
<1>3. ParamIdle'
  BY DEF ParamIdle, Shape, MapLocked, Listed, NotListed
<1>4. ChainReset'
  BY DEF ChainReset, Shape, MapLocked, Listed, NotListed
<1>5. ChainText'
  BY DEF ChainText, Shape, MapLocked, Listed, NotListed, ChainReset
<1>6. RedirectText'
  BY DEF RedirectText, Shape, MapLocked, Listed, NotListed, ParamIdle, ChainReset, ChainText
<1>7. UniqueOld'
  BY DEF UniqueOld, Findable, Shape, MapLocked, Listed, NotListed
<1> QED BY <1>1, <1>2, <1>3, <1>4, <1>5, <1>6, <1>7

\* The path that was made of it is put where the open is redirected to.
LEMMA RedirectInv ==
  ASSUME MapInv, NEW t \in Thread, Redirect(t)
  PROVE  MapInv'
<1> USE MapAssumption DEF MapInv
<1>1. /\ pc[t] = "chain" /\ mapMtx = t /\ mapMtx' = NoThread
      /\ pc' = [pc EXCEPT ![t] = "release"]
      /\ UNCHANGED <<path, outer, text, rest, starved>>
      /\ param[t] = NoEntry
  BY DEF Redirect, Step, MapLocked, ParamIdle
<1>2. MapLocked'
  BY <1>1 DEF MapLocked, Shape
<1>3. \A u \in Thread : pc'[u] # "chain"
  BY <1>1, <1>2 DEF MapLocked
<1>4. ChainText'
  BY <1>3 DEF ChainText
<1>5. CASE found = NoEntry \/ Listed = {}
  <2>1. UNCHANGED <<param, entry, found, applied, touched>>
    BY <1>5 DEF Redirect
  <2>2. Shape' /\ ParamIdle'
    BY <1>1, <2>1 DEF Shape, ParamIdle
  <2>3. UniqueOld' /\ Listed' = Listed
    BY <2>1 DEF UniqueOld, Findable, Listed
  <2>4. ~starved => found = NoEntry /\ applied = {} /\ text[t] = path[t]
    BY <1>1, <1>5 DEF ChainText
  <2>5. ChainReset'
    <3>1. ~starved => found' = NoEntry /\ applied' = {}
      BY <1>1, <2>1, <2>4
    <3> QED BY <1>1, <3>1 DEF ChainReset
  <2>6. RedirectText'
    BY <1>1, <2>1, <2>3, <2>4 DEF RedirectText, Shape
  <2> QED BY <1>2, <1>4, <2>2, <2>3, <2>5, <2>6
<1>6. CASE found # NoEntry /\ Listed # {}
  <2>1. /\ param' = [param EXCEPT ![t] = found] /\ found' = NoEntry /\ applied' = {}
        /\ entry' = IF found \in Listed THEN [entry EXCEPT ![found] = [@ EXCEPT !.tail = rest[t]]]
                    ELSE entry
        /\ touched' = touched \cup {u \in Thread : param[u] = found}
    BY <1>6 DEF Redirect, Touch
  <2>2. /\ Listed' = Listed
        /\ \A q \in Listed : entry'[q].old = entry[q].old
        /\ \A q \in Ptr \ {found} : entry'[q] = entry[q]
    BY <2>1 DEF Listed, Shape
  <2>3. Shape' /\ ParamIdle'
    BY <1>1, <2>1 DEF Shape, ParamIdle
  <2>4. UniqueOld'
    BY <2>1, <2>2 DEF UniqueOld, Findable, Listed, Shape
  <2>5. ChainReset'
    BY <2>1 DEF ChainReset
  <2>6. ~starved => /\ found \in Listed
                    /\ text[t] = String(entry'[found].new, entry'[found].dot, entry'[found].tail)
    <3>1. ~starved => /\ found \in Listed
                      /\ text[t] = String(entry[found].new, entry[found].dot, rest[t])
      BY <1>1, <1>6 DEF ChainText
    <3>2. found \in Listed => /\ entry'[found].new = entry[found].new
                              /\ entry'[found].dot = entry[found].dot
      BY <2>1 DEF Listed, Shape
    <3>3. found \in Listed => entry'[found].tail = rest[t]
      BY <2>1 DEF Listed, Shape
    <3> QED BY <3>1, <3>2, <3>3
  <2>7. RedirectText'
    <3> SUFFICES ASSUME NEW u \in Thread, pc'[u] \in {"release", "open"}, u \notin touched',
                        ~starved, text[u] # NoPath
                 PROVE  \/ param'[u] = NoEntry /\ text[u] = path[u]
                        \/ /\ param'[u] \in Listed'
                           /\ text[u] = String(entry'[param'[u]].new, entry'[param'[u]].dot,
                                               entry'[param'[u]].tail)
      BY <1>1 DEF RedirectText
    <3>1. CASE u = t
      BY <2>1, <2>2, <2>6, <3>1 DEF Shape
    <3>2. CASE u # t
      <4>1. /\ pc[u] \in {"release", "open"} /\ u \notin touched /\ param'[u] = param[u]
            /\ param[u] # found
        BY <1>1, <2>1, <3>2 DEF Shape
      <4>2. param[u] \in Listed => entry'[param[u]] = entry[param[u]]
        BY <2>2, <4>1 DEF Listed
      <4> QED BY <2>2, <4>1, <4>2 DEF RedirectText
    <3> QED BY <3>1, <3>2
  <2> QED BY <1>2, <1>4, <2>3, <2>4, <2>5, <2>7
<1> QED BY <1>5, <1>6

\* The open goes on with what the hook has left it.
LEMMA ReleaseInv ==
  ASSUME MapInv, NEW t \in Thread, Release(t)
  PROVE  MapInv'
<1> USE MapAssumption DEF MapInv, Release, Step, tableVars, chainVars, openVars
<1>1. Shape'
  BY DEF Shape, MapLocked, Listed, NotListed
<1>2. MapLocked'
  BY DEF MapLocked, Shape, Listed, NotListed
<1>3. ParamIdle'
  BY DEF ParamIdle, Shape, MapLocked, Listed, NotListed
<1>4. ChainReset'
  BY DEF ChainReset, Shape, MapLocked, Listed, NotListed
<1>5. ChainText'
  BY DEF ChainText, Shape, MapLocked, Listed, NotListed, ChainReset
<1>6. RedirectText'
  BY DEF RedirectText, Shape, MapLocked, Listed, NotListed, ParamIdle, ChainReset, ChainText
<1>7. UniqueOld'
  BY DEF UniqueOld, Findable, Shape, MapLocked, Listed, NotListed
<1> QED BY <1>1, <1>2, <1>3, <1>4, <1>5, <1>6, <1>7

\* The open is over, and its redirection with it.
LEMMA OpenInv ==
  ASSUME MapInv, NEW t \in Thread, Open(t)
  PROVE  MapInv'
<1> USE MapAssumption DEF MapInv, Open, Step, tableVars, chainVars, openVars
<1>1. Shape'
  BY DEF Shape, MapLocked, Listed, NotListed
<1>2. MapLocked'
  BY DEF MapLocked, Shape, Listed, NotListed
<1>3. ParamIdle'
  BY DEF ParamIdle, Shape, MapLocked, Listed, NotListed
<1>4. ChainReset'
  BY DEF ChainReset, Shape, MapLocked, Listed, NotListed
<1>5. ChainText'
  BY DEF ChainText, Shape, MapLocked, Listed, NotListed, ChainReset
<1>6. RedirectText'
  BY DEF RedirectText, Shape, MapLocked, Listed, NotListed, ParamIdle, ChainReset, ChainText
<1>7. UniqueOld'
  BY DEF UniqueOld, Findable, Shape, MapLocked, Listed, NotListed
<1> QED BY <1>1, <1>2, <1>3, <1>4, <1>5, <1>6, <1>7


\* The table is empty and nothing is applied at first.
LEMMA InitInv == Init => MapInv
<1> SUFFICES ASSUME Init PROVE MapInv
  OBVIOUS
<1> USE MapAssumption DEF Init
<1>1. Shape
  BY DEF Shape, NotListed
<1>2. Listed = {}
  BY DEF Listed, NotListed
<1>3. MapLocked /\ ParamIdle /\ ChainReset /\ ChainText /\ RedirectText
  BY DEF MapLocked, ParamIdle, ChainReset, ChainText, RedirectText
<1> QED BY <1>1, <1>2, <1>3 DEF MapInv, UniqueOld, Findable

\* The steps of addMapping, with what it adds.
LEMMA AddMappingInv ==
  ASSUME MapInv, NEW t \in Thread, AddMapping(t)
  PROVE  MapInv'
<1> DEFINE j == Head(jobs[t])
<1>1. CASE InsertFails(t, j) \/ TableFull(t, j) \/ DeleteNone(t, j)
  BY <1>1, QuietInv
<1>2. ASSUME NEW p \in Ptr, Insert(t, j, p) \/ Update(t, j, p) \/ Delete(t, j, p)
      PROVE  MapInv'
  BY <1>2, InsertInv, UpdateInv, DeleteInv
<1> HIDE DEF j
<1>3. \/ InsertFails(t, j) \/ TableFull(t, j) \/ DeleteNone(t, j)
      \/ \E p \in Ptr : Insert(t, j, p) \/ Update(t, j, p) \/ Delete(t, j, p)
  BY DEF AddMapping, j
<1> QED BY <1>1, <1>2, <1>3

\* Every step keeps the invariant.
LEMMA NextInv == MapInv /\ [Next]_vars => MapInv'
<1> SUFFICES ASSUME MapInv, [Next]_vars PROVE MapInv'
  OBVIOUS
<1>1. ASSUME NEW t \in Thread,
             StartMap(t) \/ StartUnmap(t) \/ (\E q \in OpenPath : StartOpen(t, q))
      PROVE  MapInv'
  BY <1>1, QuietInv
<1>2. ASSUME NEW t \in Thread, Mapping(t)
      PROVE  MapInv'
  BY <1>2, QuietInv, AddMappingInv, ClearTableInv DEF Mapping
<1>3. ASSUME NEW t \in Thread, Opening(t)
      PROVE  MapInv'
  BY <1>3, QuietInv, BlockInv, LockMapInv, ApplyInv, ApplyFailsInv,
     RedirectInv, ReleaseInv, OpenInv DEF Opening
<1>4. CASE UNCHANGED vars
  <2> USE <1>4 DEF vars, tableVars, chainVars, openVars
  <2>1. Shape' /\ UniqueOld' /\ Listed' = Listed
    BY DEF MapInv, Shape, UniqueOld, Findable, Listed
  <2>2. MapLocked' /\ ParamIdle' /\ ChainReset'
    BY DEF MapInv, MapLocked, ParamIdle, ChainReset
  <2>3. ChainText' /\ RedirectText'
    BY <2>1 DEF MapInv, ChainText, RedirectText
  <2> QED BY <2>1, <2>2, <2>3 DEF MapInv
<1> QED BY <1>1, <1>2, <1>3, <1>4 DEF Next

\* The invariant holds in every reachable state.
THEOREM MapInvariance == Spec => []MapInv
<1> QED BY InitInv, NextInv, PTL DEF Spec

\* However threads map and unmap, no path has two entries (addMapping).
THEOREM OneEntryEach == Spec => []UniqueOld
<1>1. MapInv => UniqueOld
  BY DEF MapInv
<1> QED BY MapInvariance, <1>1, PTL

\* The static variables of findMapping never reach from one open to another,
\* unless an allocation has failed.
THEOREM ChainsSeparate == Spec => []ChainReset
<1>1. MapInv => ChainReset
  BY DEF MapInv
<1> QED BY MapInvariance, <1>1, PTL

\* An open goes where findMapping sent it, unless another thread has written the
\* entry meanwhile (open_path_hook).
THEOREM OpensAsMapped == Spec => []OpensItsMapping
<1>1. MapInv => OpensItsMapping
  <2> SUFFICES ASSUME MapInv, NEW t \in Thread, pc[t] = "open", t \notin touched, ~starved
               PROVE  Opened(t) = text[t]
    BY DEF OpensItsMapping
  <2>1. CASE text[t] = NoPath
    BY <2>1 DEF Opened
  <2>2. CASE param[t] = NoEntry /\ text[t] = path[t]
    BY <2>2 DEF Opened
  <2>3. CASE /\ param[t] \in Listed
             /\ text[t] = String(entry[param[t]].new, entry[param[t]].dot, entry[param[t]].tail)
    BY <2>3, MapAssumption DEF Opened, Listed
  <2> QED BY <2>1, <2>2, <2>3 DEF MapInv, RedirectText
<1> QED BY MapInvariance, <1>1, PTL

\* No step unmaps a mapping that is protected (deleteMapping, deleteAllMappings).
THEOREM ProtectionHolds == Spec => ProtectedStays
<1>1. MapInv /\ [Next]_vars =>
        \A p \in Listed : "protect" \in entry[p].flags => p \in Listed'
  <2> SUFFICES ASSUME MapInv, [Next]_vars, NEW p \in Listed, "protect" \in entry[p].flags
               PROVE  p \in Listed'
    OBVIOUS
  <2> USE DEF Listed
  <2>1. CASE UNCHANGED entry
    BY <2>1
  <2>2. ASSUME NEW t \in Thread, NEW j, NEW q \in Ptr,
             Insert(t, j, q) \/ Update(t, j, q) \/ Delete(t, j, q)
        PROVE  p \in Listed'
    <3>1. entry'[p] = entry[p] \/ (p = q /\ entry'[p].old = entry[p].old)
      BY <2>2 DEF Insert, Update, Delete, At, Findable, MapInv, Shape
    <3> QED BY <3>1
  <2>3. ASSUME NEW t \in Thread, ClearTable(t)
        PROVE  p \in Listed'
    BY <2>3 DEF ClearTable, InTable
  <2>4. ASSUME NEW t \in Thread, Redirect(t)
        PROVE  p \in Listed'
    <3>1. entry'[p].old = entry[p].old
      BY <2>4 DEF Redirect, MapInv, Shape
    <3> QED BY <3>1
  <2>5. ASSUME NEW t \in Thread, Mapping(t)
        PROVE  p \in Listed'
    <3>1. CASE CopyFails(t) \/ MapApphome(t)
      BY <2>1, <3>1 DEF CopyFails, MapApphome, tableVars
    <3>2. CASE AddMapping(t)
      BY <2>1, <2>2, <3>2 DEF AddMapping, InsertFails, TableFull, DeleteNone, tableVars
    <3> QED BY <2>3, <2>5, <3>1, <3>2 DEF Mapping
  <2>6. ASSUME NEW t \in Thread, Opening(t)
        PROVE  p \in Listed'
    BY <2>1, <2>4, <2>6 DEF Opening, LockOph, OpenInHook, Block, Pass, LockMap, Apply, ApplyFails,
       Release, Open, tableVars
  <2>7. ASSUME NEW t \in Thread,
             StartMap(t) \/ StartUnmap(t) \/ (\E q \in OpenPath : StartOpen(t, q))
        PROVE  p \in Listed'
    BY <2>1, <2>7 DEF StartMap, StartUnmap, StartOpen, tableVars
  <2>8. CASE UNCHANGED vars
    BY <2>1, <2>8 DEF vars, tableVars
  <2> QED BY <2>5, <2>6, <2>7, <2>8 DEF Next
<1> QED BY MapInvariance, <1>1, PTL DEF Spec, ProtectedStays
=============================================================================

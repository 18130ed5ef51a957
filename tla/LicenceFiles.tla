---------------------------- MODULE LicenceFiles ----------------------------
(* make_rif: when VSH opens a licence file (.rif) of a user, the hook of   *)
(* cellFsOpen makes it first, from the activation key of the content (the  *)
(* RAP) and the activation of the user (act.dat).  The RAP is kept in a    *)
(* static buffer, with the content it was looked up for.  make_rif runs    *)
(* under oph_mtx only until it opens a file itself: the hook of that open  *)
(* releases the mutex, so that two threads may make licences at once.  A   *)
(* step goes from one open to the next.                                    *)
EXTENDS FiniteSets, Naturals

CONSTANTS
  Content,      \* content ids
  Launcher,     \* those of the launchers of PS2 and PSP, with a RAP in the code
  User,         \* user accounts of the console
  WithId,       \* those whose account id is set in the registry
  WithBackup,   \* those that have act.bak
  OpenThread,   \* threads that open licence files
  NoRifThread,
  MaxActs       \* bound: RAPs stored and licence files opened

ASSUME LicenceAssumption ==
  /\ Launcher \subseteq Content /\ WithId \subseteq User /\ WithBackup \subseteq User
  /\ NoRifThread \notin OpenThread
  /\ "none" \notin Content /\ MaxActs \in Nat

VARIABLES
  stored,       \* where the RAP of a content is: "none", "bin", "file", or a cut file
  actdat,       \* act.dat of a user: its own, made with the account id that was read
                \* ("fake"), made without one ("blind") or with one that another open may
                \* have changed ("met"), or none
  account,      \* account_id: the user whose account id was read last
  rif,          \* the licence file that was just written: its path, what it holds
  cached,       \* cached_content_id and cached_rap
  buffer,       \* make_rif_buf: the content id and the user of act_dat
  rifMutex,     \* the owner of oph_mtx
  rpc,          \* where a thread is
  wanted,       \* the user and the content of the path it opens
  acts,         \* how many of these there were
  met,          \* history: threads that make a licence and met another that does
  doubt         \* history: why the cached RAP may not be that of the cached content:
                \* "launcher", "cut" or "met"

licenceVars ==
  <<stored, actdat, account, rif, cached, buffer, rifMutex, rpc, wanted,
    acts, met, doubt>>

NoRif == <<>>
NoPath == <<>>
Act(kind, user) == [kind |-> kind, account |-> user]
NoAct == Act("none", "zeroes")
NoBuffer == [content |-> "none", user |-> "none", act |-> NoAct]

LicenceInit ==
  /\ stored = [c \in Content |-> "none"]
  /\ \E own \in SUBSET User :
       actdat = [u \in User |-> IF u \in own THEN Act("own", u) ELSE NoAct]
  /\ account = "zeroes"
  /\ rif = NoRif
  /\ cached = [id |-> "none", rap |-> "zeroes"]
  /\ buffer = NoBuffer
  /\ rifMutex = NoRifThread
  /\ rpc = [t \in OpenThread |-> "idle"]
  /\ wanted = [t \in OpenThread |-> NoPath]
  /\ acts = 0 /\ met = {} /\ doubt = {}

\* The user copies a RAP into rap.bin or as a file of its own, or takes it away.
StoreRap ==
  /\ \E c \in Content \ Launcher :
       \E where \in {"none", "bin", "file", "cut"} :
         stored' = [stored EXCEPT ![c] = where]
  /\ acts < MaxActs /\ acts' = acts + 1
  /\ UNCHANGED <<actdat, account, rif, cached, buffer, rifMutex, rpc, wanted, met, doubt>>

-----------------------------------------------------------------------------
GoRif(t, from, to) == rpc[t] = from /\ rpc' = [rpc EXCEPT ![t] = to]
\* The hook of an open that make_rif does itself releases the mutex.
NestedOpen(t) == rifMutex' = IF rifMutex = t THEN NoRifThread ELSE rifMutex

\* It goes on without the mutex: whoever opens a licence file meets those that do.
\* When there are none, nothing of the last open is read again in the buffer.
Busy == {t \in OpenThread : rpc[t] # "idle"}

OpenRif(t) ==
  /\ GoRif(t, "idle", "look")
  /\ rifMutex = NoRifThread /\ rifMutex' = t
  /\ acts < MaxActs /\ acts' = acts + 1
  /\ \E u \in User, c \in Content :
       /\ wanted' = [wanted EXCEPT ![t] = [user |-> u, content |-> c]]
       /\ buffer' = [IF Busy = {} THEN NoBuffer ELSE buffer EXCEPT !.content = c]
  /\ met' = IF Busy = {} THEN {} ELSE Busy \cup {t}
  /\ doubt' = IF Busy = {} THEN doubt ELSE doubt \cup {"met"}
  /\ UNCHANGED <<stored, actdat, account, rif, cached>>

\* A launcher: its RAP is put where the cached one was.
LookLauncher(t) ==
  /\ GoRif(t, "look", "act")
  /\ buffer.content \in Launcher
  /\ cached' = [cached EXCEPT !.rap = "launcher"]
  /\ doubt' = doubt \cup {"launcher"}
  /\ UNCHANGED <<stored, actdat, account, rif, buffer, rifMutex, wanted, acts, met>>

LookCache(t) ==
  /\ rpc[t] = "look"
  /\ buffer.content \notin Launcher
  /\ IF cached.id = buffer.content THEN GoRif(t, "look", "act") ELSE GoRif(t, "look", "bin")
  /\ UNCHANGED <<stored, actdat, account, rif, cached, buffer, rifMutex, wanted, acts, met, doubt>>

\* What is doubtful of a RAP that was read just now.
DoubtOf(t, cut) == (IF t \in met THEN {"met"} ELSE {}) \cup IF cut THEN {"cut"} ELSE {}

\* Mutant: the id of the content is kept before its RAP is found.
ReadRapBinEarly(t) ==
  LET found == stored[buffer.content] = "bin" IN
  /\ rpc[t] = "bin"
  /\ IF found THEN GoRif(t, "bin", "act") ELSE GoRif(t, "bin", "file")
  /\ cached' = [id |-> buffer.content, rap |-> IF found THEN buffer.content ELSE cached.rap]
  /\ doubt' = DoubtOf(t, FALSE)
  /\ NestedOpen(t)
  /\ UNCHANGED <<stored, actdat, account, rif, buffer, wanted, acts, met>>

\* The four places of rap.bin.
ReadRapBin(t) ==
  /\ rpc[t] = "bin"
  /\ IF stored[buffer.content] = "bin"
     THEN /\ GoRif(t, "bin", "act")
          /\ cached' = [id |-> buffer.content, rap |-> buffer.content]
          /\ doubt' = DoubtOf(t, FALSE)
     ELSE GoRif(t, "bin", "file") /\ UNCHANGED <<cached, doubt>>
  /\ NestedOpen(t)
  /\ UNCHANGED <<stored, actdat, account, rif, buffer, wanted, acts, met>>

\* The six places and names of a RAP file.  How much was read is not looked at:
\* of an empty file the RAP stays what it was, under another id.
ReadRapFile(t) ==
  /\ rpc[t] = "file"
  /\ CASE stored[buffer.content] = "file" ->
            /\ GoRif(t, "file", "act")
            /\ cached' = [id |-> buffer.content, rap |-> buffer.content]
            /\ doubt' = DoubtOf(t, FALSE)
       [] stored[buffer.content] = "cut" ->
            /\ GoRif(t, "file", "act")
            /\ cached' = [cached EXCEPT !.id = buffer.content]
            /\ doubt' = DoubtOf(t, TRUE)
       [] OTHER -> GoRif(t, "file", "end") /\ UNCHANGED <<cached, doubt>>
  /\ NestedOpen(t)
  /\ UNCHANGED <<stored, actdat, account, rif, buffer, wanted, acts, met>>

\* Nothing is made for a user without act.dat when another has one; when nobody
\* has, one is made for the user.
CheckActDat(t) ==
  LET u == wanted[t].user IN
  /\ rpc[t] = "act"
  /\ CASE actdat[u] # NoAct -> GoRif(t, "act", "read")
       [] actdat[u] = NoAct /\ (\E v \in User : actdat[v] # NoAct) -> GoRif(t, "act", "end")
       [] OTHER -> GoRif(t, "act", "registry")
  /\ NestedOpen(t)
  /\ UNCHANGED <<stored, actdat, account, rif, cached, buffer, wanted, acts, met, doubt>>

\* xreg_data: the account id of the user, which may be empty.  When the registry
\* cannot be read it returns -1, which counts as an id: account_id is what it was.
ReadRegistry(t) ==
  LET u == wanted[t].user IN
  /\ \/ GoRif(t, "registry", "blind") /\ UNCHANGED account
     \/ GoRif(t, "registry", "create") /\ u \in WithId /\ account' = u
     \/ GoRif(t, "registry", "read") /\ u \notin WithId /\ account' = "zeroes"
  /\ NestedOpen(t)
  /\ UNCHANGED <<stored, actdat, rif, cached, buffer, wanted, acts, met, doubt>>

\* create_act_dat: without memory or when the file cannot be opened there is none.
CreateActDat(t) ==
  LET kind == IF rpc[t] = "blind" THEN "blind" ELSE IF t \in met THEN "met" ELSE "fake" IN
  /\ GoRif(t, "create", "read") \/ GoRif(t, "blind", "read")
  /\ actdat' \in {actdat, [actdat EXCEPT ![wanted[t].user] = Act(kind, account)]}
  /\ NestedOpen(t)
  /\ UNCHANGED <<stored, account, rif, cached, buffer, wanted, acts, met, doubt>>

\* henplugin, at its start: act.bak is linked as act.dat when there is none.
RestoreActDat ==
  /\ \E u \in WithBackup : actdat[u] = NoAct /\ actdat' = [actdat EXCEPT ![u] = Act("own", u)]
  /\ UNCHANGED <<stored, account, rif, cached, buffer, rifMutex, rpc, wanted, acts, met, doubt>>

ReadActDat(t) ==
  LET u == wanted[t].user IN
  /\ rpc[t] = "read"
  /\ IF actdat[u] = NoAct
     THEN GoRif(t, "read", "end") /\ UNCHANGED buffer
     ELSE GoRif(t, "read", "write") /\ buffer' = [buffer EXCEPT !.user = u, !.act = actdat[u]]
  /\ NestedOpen(t)
  /\ UNCHANGED <<stored, actdat, account, rif, cached, wanted, acts, met, doubt>>

\* Whatever was there is made anew: skip_existing_rif is never set.
WriteRif(t) ==
  /\ GoRif(t, "write", "end")
  /\ rif' \in {rif, [path |-> wanted[t], content |-> buffer.content, rap |-> cached.rap,
                    user |-> buffer.user, act |-> buffer.act,
                    met |-> t \in met, doubt |-> doubt]}
  /\ NestedOpen(t)
  /\ UNCHANGED <<stored, actdat, account, cached, buffer, wanted, acts, met, doubt>>

EndRif(t) ==
  /\ GoRif(t, "end", "idle")
  /\ NestedOpen(t)
  /\ wanted' = [wanted EXCEPT ![t] = NoPath] /\ rif' = NoRif /\ met' = met \ {t}
  /\ UNCHANGED <<stored, actdat, account, cached, buffer, acts, doubt>>

LicenceNext ==
  \/ StoreRap \/ RestoreActDat
  \/ \E t \in OpenThread :
       \/ OpenRif(t) \/ LookLauncher(t) \/ LookCache(t) \/ ReadRapBin(t)
       \/ ReadRapFile(t) \/ CheckActDat(t) \/ ReadRegistry(t) \/ CreateActDat(t)
       \/ ReadActDat(t) \/ WriteRif(t) \/ EndRif(t)

LicenceSpec == LicenceInit /\ [][LicenceNext]_licenceVars

-----------------------------------------------------------------------------
\* The RAP of a content: all the launchers have the same.
RapOf(c) == IF c \in Launcher THEN "launcher" ELSE c

\* A licence made while no other is names the content it is the licence of, is made
\* from the act.dat of its user, bears the account of that user (unless the registry
\* could not be read, or act.dat was made while another licence was) and holds the RAP
\* of its content: a third one only when the cached RAP is of a cut file or of opens
\* that met, that of the launchers when one was opened since the RAP was cached.
RifOfItsContent ==
  rif # NoRif /\ ~rif.met =>
    /\ rif.content = rif.path.content /\ rif.user = rif.path.user
    /\ rif.act.kind \notin {"blind", "met"} => rif.act.account = rif.user
    /\ \/ rif.rap = RapOf(rif.path.content)
       \/ "launcher" \in rif.doubt /\ rif.rap = "launcher"
       \/ rif.path.content \notin Launcher /\ rif.doubt \cap {"cut", "met"} # {}

\* By hand: whatever happens, a licence is of its content.  Not so after a cut file
\* (make_rif.c 359), nor when two are made at once.
RifAlwaysOfItsContent ==
  rif # NoRif =>
    /\ rif.content = rif.path.content /\ rif.user = rif.path.user
    /\ rif.rap \in {rif.path.content, "launcher"}

\* The cached RAP is that of the cached content (make_rif.c, "cache content_id for
\* current value in cached_rap").  Not so after a launcher was opened.
CachedRapIsOfId == cached.id # "none" => cached.rap = cached.id

\* By hand: act.dat is only made with an account id that was read for its user.
ActDatHasAccount == \A u \in User : actdat[u] # NoAct => actdat[u].account = u

\* By hand: who has act.bak gets it back.  Not so after a licence was opened first.
BackupComesBack == \A u \in WithBackup : actdat[u].kind \in {"none", "own"}
=============================================================================

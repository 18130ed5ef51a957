------------------------------- MODULE PspUmd -------------------------------
(* The UMD image of the PSP emulator (psp.c).  A client in VSH chooses the *)
(* file; threads of the emulator read its header and then its sectors.     *)
(* Reads share one file descriptor, and a mutex that the first of them     *)
(* opens or makes.                                                          *)
EXTENDS Naturals

CONSTANTS
  Umd,          \* images
  NoUmd,
  Reader,       \* threads of the emulator
  Setter,       \* the client that chooses the image
  Sector,       \* sectors that are read
  MaxMutexes,   \* bound: mutexes made by the payload
  MaxRuns       \* bound: times the emulator is started

Free == "free"
Gone == "gone"

ASSUME UmdAssumption ==
  /\ NoUmd \notin Umd /\ Setter \notin Reader
  /\ {Free, Gone} \cap Reader = {}
  /\ Sector \subseteq Nat
  /\ MaxMutexes \in Nat /\ MaxRuns \in Nat \ {0}

VARIABLES
  umd_file,     \* the chosen image
  psp_id,       \* the image whose id was set last
  umd_fd,       \* what the open descriptor reads, and where
  mutex,        \* the mutex of reads, NoMutex when NULL
  user_mutex,   \* it is the emulator's own
  owner,        \* who holds each mutex
  made,         \* mutexes made by the payload
  run,          \* which start of the emulator this is
  upc,          \* where each thread is
  read,         \* sector a reader asked for, mutex it locked, what it got
  header,       \* what the last header said, size and id, and to which start
  mixed         \* history: two mutexes in use, or the mutex was taken away in a read

umdVars == <<umd_file, psp_id, umd_fd, mutex, user_mutex, owner, made,
             run, upc, read, header, mixed>>

\* The emulator's mutex is another object in each run; those the payload makes
\* are numbered.
NoMutex == <<"none", 0>>
UserMutex(r) == <<"user", r>>
OwnMutex(n) == <<"own", n>>
Mutexes == {UserMutex(r) : r \in 1 .. MaxRuns} \cup {OwnMutex(n) : n \in 1 .. MaxMutexes}
UmdThread == Reader \cup {Setter}
NoRead == [sector |-> 0, lock |-> NoMutex, got |-> <<>>]

UmdInit ==
  /\ umd_file = NoUmd /\ psp_id = NoUmd
  /\ umd_fd = [image |-> NoUmd, pos |-> 0]
  /\ mutex = NoMutex /\ user_mutex = FALSE
  /\ owner = [m \in Mutexes |-> Free] /\ made = 0
  /\ run = 1
  /\ upc = [t \in UmdThread |-> "idle"]
  /\ read = [t \in Reader |-> NoRead]
  /\ header = [size |-> NoUmd, id |-> NoUmd, run |-> 0]
  /\ mixed = FALSE

-----------------------------------------------------------------------------
UmdGo(t, place) == upc' = [upc EXCEPT ![t] = place]
Reading == {t \in Reader : upc[t] # "idle"}

\* sys_psp_set_umdfile with a file: the id is copied first, and stays when it
\* has a wrong length or when there is no memory for the path.
SetId ==
  /\ upc[Setter] = "idle"
  /\ \E u \in Umd : psp_id' = u
  /\ \/ UmdGo(Setter, "file")
     \/ UNCHANGED upc  \* EINVAL
  /\ UNCHANGED <<umd_file, umd_fd, mutex, user_mutex, owner, made, run, read,
                 header, mixed>>

SetFile ==
  /\ upc[Setter] = "file"
  /\ \/ umd_file' = psp_id
     \/ UNCHANGED <<umd_file>>
  /\ UmdGo(Setter, "idle")
  /\ UNCHANGED <<psp_id, umd_fd, mutex, user_mutex, owner, made, run, read,
                 header, mixed>>

\* sys_psp_set_umdfile without a file.  The descriptor stays open.
ClearFile ==
  /\ upc[Setter] = "idle"
  /\ umd_file' = NoUmd
  /\ mutex' = NoMutex /\ user_mutex' = FALSE
  /\ owner' = IF mutex # NoMutex /\ ~user_mutex
              THEN [owner EXCEPT ![mutex] = Gone]  \* mutex_destroy
              ELSE owner
  /\ mixed' = (mixed \/ Reading # {})
  /\ UNCHANGED <<psp_id, umd_fd, made, run, upc, read, header>>

\* Mutant: the emulator's mutex of an earlier run is kept.
ReadHeaderKeepsMutex(t) ==
  /\ t \in Reader /\ upc[t] = "idle"
  /\ umd_file # NoUmd
  /\ umd_fd' = [image |-> umd_file, pos |-> 0]
  /\ header' = [size |-> umd_file, id |-> psp_id, run |-> run]
  /\ mixed' = (mixed \/ Reading # {})
  /\ UNCHANGED <<umd_file, psp_id, mutex, user_mutex, owner, made, run, upc, read>>

\* sys_psp_read_header.  Its open makes a new descriptor, and the one before is
\* never closed; the emulator's mutex of an earlier run is forgotten.  A header
\* that fails changes none of this.
ReadHeader(t) ==
  /\ t \in Reader /\ upc[t] = "idle"
  /\ umd_file # NoUmd
  /\ umd_fd' = [image |-> umd_file, pos |-> 0]
  /\ header' = [size |-> umd_file, id |-> psp_id, run |-> run]
  /\ IF mutex # NoMutex /\ user_mutex
     THEN mutex' = NoMutex /\ user_mutex' = FALSE
     ELSE UNCHANGED <<mutex, user_mutex>>
  /\ mixed' = (mixed \/ Reading # {})
  /\ UNCHANGED <<umd_file, psp_id, owner, made, run, upc, read>>

-----------------------------------------------------------------------------
\* sys_psp_read_umd: the mutex is looked at without a lock.
StartUmdRead(t) ==
  /\ t \in Reader /\ upc[t] = "idle"
  /\ header.run = run  \* a disc is recognised before it is read
  /\ \E s \in Sector :
       read' = [read EXCEPT ![t] = [NoRead EXCEPT !.sector = s]]
  /\ UmdGo(t, IF mutex = NoMutex THEN "open" ELSE "lock")
  /\ UNCHANGED <<umd_file, psp_id, umd_fd, mutex, user_mutex, owner, made, run,
                 header, mixed>>

\* The emulator's mutex is opened, or if that fails an own one is made; another
\* reader may have done so in between.
OpenMutex(t) ==
  /\ upc[t] = "open"
  /\ \/ mutex' = UserMutex(run) /\ user_mutex' = TRUE /\ UNCHANGED made
     \/ /\ made < MaxMutexes
        /\ mutex' = OwnMutex(made + 1) /\ user_mutex' = FALSE /\ made' = made + 1
  /\ mixed' = (mixed \/ mutex \notin {NoMutex, mutex'})
  /\ UmdGo(t, "lock")
  /\ UNCHANGED <<umd_file, psp_id, umd_fd, owner, run, read, header>>

\* mutex_lock of what the pointer names now; NULL and a dead object fail, and
\* the result is ignored.
LockUmd(t) ==
  /\ upc[t] = "lock"
  /\ \/ /\ mutex # NoMutex /\ owner[mutex] = Free
        /\ owner' = [owner EXCEPT ![mutex] = t]
        /\ read' = [read EXCEPT ![t].lock = mutex]
     \/ /\ mutex # NoMutex => owner[mutex] = Gone
        /\ UNCHANGED <<owner, read>>
  /\ UmdGo(t, "seek")
  /\ UNCHANGED <<umd_file, psp_id, umd_fd, mutex, user_mutex, made, run, header,
                 mixed>>

\* mutex_unlock of what the pointer names by then: only the owner can.
UnlockUmd(t) ==
  owner' = IF mutex # NoMutex /\ owner[mutex] = t
           THEN [owner EXCEPT ![mutex] = Free] ELSE owner

SeekUmd(t) ==
  /\ upc[t] = "seek"
  /\ \/ /\ umd_fd' = [umd_fd EXCEPT !.pos = read[t].sector]
        /\ UmdGo(t, "read") /\ UNCHANGED <<owner, read>>
     \/ /\ UnlockUmd(t) /\ UmdGo(t, "idle")
        /\ read' = [read EXCEPT ![t] = NoRead]
        /\ UNCHANGED umd_fd
  /\ UNCHANGED <<umd_file, psp_id, mutex, user_mutex, made, run, header, mixed>>

ReadUmd(t) ==
  /\ upc[t] = "read"
  /\ read' = [read EXCEPT ![t].got = <<umd_fd.image, umd_fd.pos>>]
  /\ umd_fd' = [umd_fd EXCEPT !.pos = @ + 1]
  /\ UmdGo(t, "unlock")
  /\ UNCHANGED <<umd_file, psp_id, mutex, user_mutex, owner, made, run, header,
                 mixed>>

EndUmdRead(t) ==
  /\ upc[t] = "unlock"
  /\ UnlockUmd(t)
  /\ UmdGo(t, "idle")
  /\ read' = [read EXCEPT ![t] = NoRead]
  /\ UNCHANGED <<umd_file, psp_id, umd_fd, mutex, user_mutex, made, run, header,
                 mixed>>

\* The emulator ends and is started again; its objects are gone.
RestartEmulator ==
  /\ run < MaxRuns /\ Reading = {}
  /\ run' = run + 1
  /\ owner' = [owner EXCEPT ![UserMutex(run)] = Gone]
  /\ UNCHANGED <<umd_file, psp_id, umd_fd, mutex, user_mutex, made, upc, read, header,
                 mixed>>

UmdNext ==
  \/ SetId \/ SetFile \/ ClearFile \/ RestartEmulator
  \/ \E t \in Reader :
       ReadHeader(t) \/ StartUmdRead(t) \/ OpenMutex(t)
       \/ LockUmd(t) \/ SeekUmd(t) \/ ReadUmd(t) \/ EndUmdRead(t)

UmdSpec == UmdInit /\ [][UmdNext]_umdVars

-----------------------------------------------------------------------------
\* A read delivers the sector it was asked for, of the image whose header the
\* emulator has seen: seek and read of the shared descriptor are not torn
\* apart, unless the mutex was made twice or taken away (psp.c 172, 153, 240).
UmdDelivered ==
  ~mixed => \A t \in Reader :
    upc[t] = "unlock" => read[t].got = <<header.size, read[t].sector>>

\* Whoever works on the descriptor holds a mutex that exists; the one of an
\* emulator that has ended is never locked (psp.c 149).
HoldsLiveMutex ==
  ~mixed => \A t \in Reader :
    upc[t] \in {"seek", "read", "unlock"} =>
      read[t].lock # NoMutex /\ owner[read[t].lock] = t

\* Reads of the image of a UMD are whole, one after the other.
UmdReadsAreWhole == UmdDelivered /\ HoldsLiveMutex

\* By hand: what does not hold.
AlwaysDelivered ==
  \A t \in Reader : upc[t] = "unlock" => read[t].got = <<header.size, read[t].sector>>
HeaderIsOfImage == header.size = header.id
=============================================================================

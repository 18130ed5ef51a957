----------------------------- MODULE Media_proofs -----------------------------
(* Proofs about the services for media: the reboot into an emulator of     *)
(* PS2 (Ps2Boot), the reads of UMD images (PspUmd), the authentication of  *)
(* discs (DiscAuth), the type of a disc in the drive (RealDisc), the       *)
(* commands of the emulated drive (DriveCommands), licences (LicenceFiles) *)
(* and their keys (RifKey); at the end, the instance MCMedia.              *)
EXTENDS MCMedia, SequenceTheorems, WellFoundedInduction, TLAPS

\* Every nonempty set of natural numbers has a least element.
LEMMA LeastNumber ==
  ASSUME NEW S \in SUBSET Nat, S # {}
  PROVE  \E m \in S : \A n \in S : m <= n
<1>1. PICK m \in S : \A n \in S : ~(<<n, m>> \in OpToRel(<, Nat))
  BY NatLessThanWellFounded, WFMin
<1>2. \A n \in S : <<n, m>> \in Nat \X Nat
  OBVIOUS
<1>3. \A n \in S : ~(n < m)
  BY <1>1, <1>2 DEF OpToRel
<1> QED BY <1>3

\* Every bounded nonempty set of natural numbers has a greatest element.
LEMMA GreatestNumber ==
  ASSUME NEW S \in SUBSET Nat, S # {}, NEW b \in Nat, \A n \in S : n <= b
  PROVE  \E m \in S : \A n \in S : n <= m
<1> DEFINE Bounds == {u \in Nat : \A n \in S : n <= u}
<1>1. PICK u \in Bounds : \A v \in Bounds : u <= v
  <2>1. Bounds \in SUBSET Nat /\ b \in Bounds
    OBVIOUS
  <2> QED BY <2>1, LeastNumber
<1>2. u \in Nat /\ \A n \in S : n <= u
  OBVIOUS
<1>3. CASE u \in S
  BY <1>2, <1>3
<1>4. CASE u \notin S
  <2>1. \A m \in S : m \in Nat /\ m < u
    BY <1>2, <1>4
  <2>2. PICK n \in S : TRUE
    OBVIOUS
  <2>3. u - 1 \in Nat /\ \A m \in S : m <= u - 1
    BY <1>2, <2>1, <2>2
  <2>4. u - 1 \in Bounds
    BY <2>3
  <2>5. u <= u - 1
    BY <1>1, <2>4
  <2> QED BY <1>2, <2>5
<1> QED BY <1>3, <1>4

-----------------------------------------------------------------------------
(* Ps2Boot.  A reboot decides alone what the emulator finds, but for       *)
(* discfile_cd, which is that of the mounted image unless it is an orphan. *)

\* discfile_cd belongs to what is mounted.
CdFileInv ==
  ~orphan => /\ mounted \in Ps2Image => cdfile = CdFileOf(mounted)
             /\ mounted = "none" => cdfile = "none"
BootInv == CdFileInv /\ BootsWhatIsMounted

\* Preparing the file for a reboot: what was written is of this reboot.
LEMMA PreparedIsMounted ==
  ASSUME NEW missing, Prepare(missing), launch'.image = mounted
  PROVE  launch'.wrote =>
           IF launch'.image \in Ps2Image THEN cfg' = ConfigOf(launch'.image, cdfile)
           ELSE cfg'.is # "image"
<1>1. CASE cfg' = PreparedConfig
  BY <1>1 DEF PreparedConfig, EmuPs2, Missing, EmptyFile
<1>2. CASE ~launch'.wrote
  BY <1>2
<1> QED BY <1>1, <1>2 DEF Prepare

\* A launch is of what is mounted when it begins, and leaves nothing mounted.
LEMMA RebootSays ==
  ASSUME NEW what, NEW there, Reboot(what, there)
  PROVE  /\ launch'.what = what /\ launch'.image = mounted /\ launch'.there = there
         /\ launch'.orphan = orphan
         /\ mounted' = "none" /\ cdfile' = "none"
  BY DEF Reboot

\* What is written for the mounted image while CdFileInv holds.
LEMMA PreparedForMounted ==
  ASSUME CdFileInv, NEW missing, Prepare(missing), launch'.image = mounted,
         launch'.orphan = orphan
  PROVE  launch'.wrote =>
           IF launch'.image \in Ps2Image
           THEN launch'.orphan \/ cfg' = ConfigOf(launch'.image, CdFileOf(launch'.image))
           ELSE cfg'.is # "image"
  BY PreparedIsMounted DEF CdFileInv

\* Every mount leaves the discfile_cd of what is mounted, or an orphan.
LEMMA MountStep == ASSUME BootInv, MountImage PROVE BootInv'
<1>1. BootsWhatIsMounted'
  <2>1. UNCHANGED <<cfg, params, system, launch>>
    BY DEF MountImage, RefuseImage, MountFile, MountCd, UnmountImage
  <2> QED BY <2>1 DEF BootInv, BootsWhatIsMounted
<1>2. ASSUME RefuseImage PROVE CdFileInv'
  BY <1>2, BootAssumption DEF RefuseImage, Kept, Left, BootInv, CdFileInv
<1>3. ASSUME UnmountImage PROVE CdFileInv'
  BY <1>3, BootAssumption DEF UnmountImage, BootInv, CdFileInv
<1>4. ASSUME NEW i \in (Ps2Image \ Raw) \cup {"other"}, MountFile(i) PROVE CdFileInv'
  <2>1. mounted' = i /\ cdfile' = Kept /\ orphan' = Left
    BY <1>4 DEF MountFile
  <2>2. ~orphan' => cdfile' = "none"
    BY <2>1 DEF Kept, Left, BootInv, CdFileInv
  <2>3. i \in Ps2Image => CdFileOf(i) = "none"
    BY <1>4, BootAssumption DEF CdFileOf
  <2> QED BY <2>1, <2>2, <2>3, BootAssumption DEF CdFileInv
<1>5. ASSUME NEW i \in Raw \cup {"other"}, MountCd(i) PROVE CdFileInv'
  <2>1. cdfile' = i /\ (mounted' = i \/ orphan')
    BY <1>5 DEF MountCd
  <2>2. i \in Raw => CdFileOf(i) = i
    BY DEF CdFileOf
  <2> QED BY <1>5, <2>1, <2>2, BootAssumption DEF CdFileInv
<1> QED BY <1>1, <1>2, <1>3, <1>4, <1>5 DEF MountImage, BootInv

\* Every step of a boot keeps what is booted that of the disc.
LEMMA BootStep == BootInv /\ [BootNext]_bootVars => BootInv'
<1> SUFFICES ASSUME BootInv, [BootNext]_bootVars PROVE BootInv'
  OBVIOUS
<1>0. CdFileInv /\ BootsWhatIsMounted
  BY DEF BootInv
\* With nothing mounted and no discfile_cd there is nothing to keep.
<1>1. ASSUME mounted' = "none", cdfile' = "none" PROVE CdFileInv'
  BY <1>1, BootAssumption DEF CdFileInv
<1>2. CASE RebootPs2
  <2>1. Reboot("disc", {}) /\ Prepare(cfg)
    BY <1>2 DEF RebootPs2
  <2>2. launch'.what = "disc" /\ launch'.image = mounted /\ launch'.orphan = orphan
    BY <2>1, RebootSays
  <2>3. BootsWhatIsMounted'
    BY <1>0, <2>1, <2>2, PreparedForMounted DEF BootsWhatIsMounted
  <2> QED BY <1>1, <2>1, <2>3, RebootSays DEF BootInv
<1>3. CASE RebootNetemuGame
  <2>1. Reboot("npdrm", {})
    BY <1>3 DEF RebootNetemuGame
  <2>2. launch'.what = "npdrm" /\ launch'.image = mounted /\ launch'.orphan = orphan
    BY <2>1, RebootSays
  <2>3. CASE EmuPs2
    <3>1. Prepare(Missing)
      BY <1>3, <2>3 DEF RebootNetemuGame
    <3>2. BootsWhatIsMounted'
      BY <1>0, <2>2, <3>1, PreparedForMounted DEF BootsWhatIsMounted
    <3> QED BY <1>1, <2>1, <3>2, RebootSays DEF BootInv
  <2>4. CASE ~EmuPs2
    <3>1. cfg' = Missing
      BY <1>3, <2>4 DEF RebootNetemuGame
    <3>2. BootsWhatIsMounted'
      BY <2>2, <2>4, <3>1 DEF EmuPs2, BootsWhatIsMounted, Missing
    <3> QED BY <1>1, <2>1, <3>2, RebootSays DEF BootInv
  <2> QED BY <2>3, <2>4
<1>4. CASE RebootNetemuImage
  <2>1. PICK there \in SUBSET Slots : Reboot("soft", there) /\ SaveParams(there)
    BY <1>4 DEF RebootNetemuImage
  <2>2. /\ launch'.what = "soft" /\ launch'.image = mounted /\ launch'.there = there
        /\ launch'.orphan = orphan
    BY <2>1, RebootSays
  <2>3. Prepare(ForNetemu)
    BY <1>4 DEF RebootNetemuImage
  <2>4. launch'.named => params' = Params(launch'.there)
    BY <2>1, <2>2 DEF SaveParams
  <2>5. BootsWhatIsMounted'
    BY <1>0, <2>2, <2>3, <2>4, PreparedForMounted DEF BootsWhatIsMounted
  <2> QED BY <1>1, <2>1, <2>5, RebootSays DEF BootInv
<1>5. CASE RebootNetemuDisc
  <2>1. CASE system' = "panic" /\ UNCHANGED imageVars
    BY <1>0, <2>1 DEF BootInv, BootsWhatIsMounted, CdFileInv, imageVars
  <2>2. CASE Reboot("soft", {})
    <3>1. launch'.what = "soft" /\ launch'.image = mounted
      BY <2>2, RebootSays
    <3>2. BootsWhatIsMounted'
      BY <1>5, <3>1 DEF RebootNetemuDisc, EmuPs2, BootsWhatIsMounted
    <3> QED BY <1>1, <2>2, <3>2, RebootSays DEF BootInv
  <2> QED BY <1>5, <2>1, <2>2 DEF RebootNetemuDisc, imageVars
<1>6. CASE RebootPs3System
  <2>1. BootsWhatIsMounted'
    BY <1>6 DEF RebootPs3System, BootsWhatIsMounted
  <2>2. mounted' = "none" /\ cdfile' = "none"
    BY <1>6 DEF RebootPs3System
  <2> QED BY <1>1, <2>1, <2>2 DEF BootInv
<1>7. CASE SwapDisc \/ UNCHANGED bootVars
  <2>1. UNCHANGED <<imageVars, cfg, params, system, launch>>
    BY <1>7 DEF SwapDisc, bootVars
  <2> QED BY <1>0, <2>1 DEF BootInv, BootsWhatIsMounted, CdFileInv, imageVars
<1> QED BY <1>2, <1>3, <1>4, <1>5, <1>6, <1>7, MountStep DEF BootNext

\* The emulator of PS2 finds the image that is mounted, or none, whatever earlier
\* mounts and reboots have left, but for the discfile_cd of a mount that failed
\* (storage_ext.c 3403-3446, 3727).
THEOREM EmulatorFindsMounted == BootSpec => []BootsWhatIsMounted
<1>1. BootInit => BootInv
  BY DEF BootInit, BootInv, CdFileInv, CdFileOf, BootsWhatIsMounted
<1>2. BootInv => BootsWhatIsMounted
  BY DEF BootInv
<1> QED BY <1>1, <1>2, BootStep, PTL DEF BootSpec

-----------------------------------------------------------------------------
(* DiscAuth.  Who holds the mutex is at a place where it will release it,  *)
(* and while the flag is set somebody is on the way to clear it.           *)

Holding == {"insert", "look", "reauth", "command", "unlock"}
Clearing == {"test", "set", "clear"}
AuthOrder ==
  /\ apc \in [DiscThread -> {"idle", "auth", "lock"} \cup Holding \cup Clearing]
  /\ nested \in [DiscThread -> Nat]
  /\ inloop \in BOOLEAN
  /\ holder \in DiscThread \cup {NoOwner}
  /\ holder # NoOwner => apc[holder] \in Holding
  /\ inloop => \E t \in DiscThread : apc[t] \in Clearing

\* At the start nothing is held.
LEMMA AuthOrderAtInit == AuthInit => AuthOrder
<1> SUFFICES ASSUME AuthInit PROVE AuthOrder
  OBVIOUS
<1>1. /\ apc \in [DiscThread -> {"idle", "auth", "lock"} \cup Holding \cup Clearing]
      /\ nested \in [DiscThread -> Nat]
  BY DEF AuthInit
<1>2. /\ inloop \in BOOLEAN /\ ~inloop
      /\ holder \in DiscThread \cup {NoOwner} /\ holder = NoOwner
  BY DEF AuthInit
<1> QED BY <1>1, <1>2 DEF AuthOrder

\* Every step keeps the order in which locks are held.
LEMMA AuthStep == AuthOrder /\ [AuthNext]_authVars => AuthOrder'
<1> SUFFICES ASSUME AuthOrder, [AuthNext]_authVars PROVE AuthOrder'
  OBVIOUS
<1> USE DEF AuthOrder, Holding, Clearing, Go, At, DiscThread
<1>1. CASE ChangeDisc
  BY <1>1 DEF ChangeDisc
<1>2. CASE BeginEvent
  BY <1>2, AuthAssumption DEF BeginEvent
<1>3. CASE BeginMountHdd0
  BY <1>3, AuthAssumption DEF BeginMountHdd0
<1>4. CASE LookForDisc
  BY <1>4, AuthAssumption DEF LookForDisc
<1>5. ASSUME NEW t \in AuthThread,
             CallAuth(t) \/ TestLoop(t) \/ SetLoop(t) \/ ClearLoop(t) \/ EndAuth(t)
               \/ BeginReauth(t) \/ Reauth(t)
      PROVE  AuthOrder'
  <2>1. CASE CallAuth(t)
    BY <2>1 DEF CallAuth
  <2>2. CASE TestLoop(t)
    BY <2>2 DEF TestLoop
  <2>3. CASE SetLoop(t)
    BY <2>3 DEF SetLoop
  <2>4. CASE ClearLoop(t)
    BY <2>4 DEF ClearLoop
  <2>5. CASE EndAuth(t)
    BY <2>5 DEF EndAuth
  <2>6. CASE BeginReauth(t)
    BY <2>6 DEF BeginReauth
  <2>7. CASE Reauth(t)
    BY <2>7 DEF Reauth
  <2> QED BY <1>5, <2>1, <2>2, <2>3, <2>4, <2>5, <2>6, <2>7
<1>6. ASSUME NEW t \in DiscThread, Lock(t) \/ Insert(t) \/ Unlock(t) \/ SendCommand(t)
      PROVE  AuthOrder'
  <2>1. CASE Lock(t)
    BY <2>1, AuthAssumption DEF Lock
  <2>2. CASE Insert(t)
    BY <2>2 DEF Insert
  <2>3. CASE Unlock(t)
    BY <2>3 DEF Unlock
  <2>4. CASE SendCommand(t)
    BY <2>4 DEF SendCommand
  <2> QED BY <1>6, <2>1, <2>2, <2>3, <2>4
<1>7. CASE UNCHANGED authVars
  BY <1>7 DEF authVars
<1> QED BY <1>1, <1>2, <1>3, <1>4, <1>5, <1>6, <1>7 DEF AuthNext

\* However authentications, events and searches for a disc overlap, they leave the
\* flag clear and the mutex free (storage_ext.c 2890, 2970).
THEOREM AuthLeavesNothingHeld == AuthSpec => []NothingHeldAtRest
<1>1. AuthOrder => NothingHeldAtRest
  BY DEF AuthOrder, NothingHeldAtRest, At, Holding, Clearing
<1> QED BY <1>1, AuthOrderAtInit, AuthStep, PTL DEF AuthSpec

-----------------------------------------------------------------------------
(* PspUmd.  Which mutex there is: the emulator's of this start, one that   *)
(* the payload has made, or, as long as no header was read since a start,  *)
(* the emulator's of an earlier one.                                       *)

Places == {"idle", "open", "lock", "seek", "read", "unlock"}
Critical == {"seek", "read", "unlock"}

UmdType ==
  /\ umd_file \in Umd \cup {NoUmd} /\ psp_id \in Umd \cup {NoUmd}
  /\ upc \in [UmdThread -> Places \cup {"file"}]
  /\ umd_fd \in [image : Umd \cup {NoUmd}, pos : Nat]
  /\ mutex \in Mutexes \cup {NoMutex}
  /\ owner \in [Mutexes -> Reader \cup {Free, Gone}]
  /\ made \in 0 .. MaxMutexes /\ run \in 1 .. MaxRuns
  /\ DOMAIN read = Reader
  /\ \A t \in Reader :
       /\ DOMAIN read[t] = {"sector", "lock", "got"}
       /\ read[t].sector \in Nat
  /\ header.run \in 0 .. run
  /\ header.size = umd_fd.image

MutexOrder ==
  /\ \A r \in 1 .. MaxRuns :
       /\ mutex = UserMutex(r) => user_mutex /\ r <= run /\ (header.run = run => r = run)
       /\ owner[UserMutex(r)] = Gone => r < run
  /\ \A n \in 1 .. MaxMutexes :
       /\ mutex = OwnMutex(n) => ~user_mutex /\ n <= made
       /\ owner[OwnMutex(n)] = Gone => n <= made /\ mutex # OwnMutex(n)

ReadersOrder ==
  ~mixed =>
    /\ \A t \in Reader :
         /\ upc[t] # "idle" => header.run = run
         /\ upc[t] = "lock" => mutex # NoMutex
         /\ upc[t] \in Critical =>
              mutex # NoMutex /\ read[t].lock = mutex /\ owner[mutex] = t
         /\ upc[t] = "read" => umd_fd.pos = read[t].sector
         /\ upc[t] = "unlock" => read[t].got = <<umd_fd.image, read[t].sector>>
    /\ \A m \in Mutexes : owner[m] \in Reader => m = mutex /\ upc[owner[m]] \in Critical

UmdInv == UmdType /\ MutexOrder /\ ReadersOrder

\* The names of mutexes are told apart.
LEMMA MutexNames ==
  /\ \A r, q \in Nat : UserMutex(r) = UserMutex(q) => r = q
  /\ \A n, k \in Nat : OwnMutex(n) = OwnMutex(k) => n = k
  /\ \A r, n \in Nat : UserMutex(r) # OwnMutex(n) /\ UserMutex(r) # NoMutex /\ OwnMutex(n) # NoMutex
  BY DEF UserMutex, OwnMutex, NoMutex

\* The mutex of each run is a mutex.
LEMMA MutexSet ==
  /\ \A r \in 1 .. MaxRuns : UserMutex(r) \in Mutexes
  /\ \A n \in 1 .. MaxMutexes : OwnMutex(n) \in Mutexes
  /\ \A m \in Mutexes : \/ \E r \in 1 .. MaxRuns : m = UserMutex(r)
                        \/ \E n \in 1 .. MaxMutexes : m = OwnMutex(n)
  /\ NoMutex \notin Mutexes
  BY MutexNames DEF Mutexes

\* At the start no reader is at work.
LEMMA UmdAtInit == UmdInit => UmdInv
<1> SUFFICES ASSUME UmdInit PROVE UmdInv
  OBVIOUS
<1>1. UmdType
  BY UmdAssumption DEF UmdInit, UmdType, Places, NoRead
<1>2. MutexOrder
  BY UmdAssumption, MutexNames, MutexSet DEF UmdInit, MutexOrder, Free, Gone
<1>3. ReadersOrder
  BY UmdAssumption DEF UmdInit, ReadersOrder, Critical, UmdThread
<1> QED BY <1>1, <1>2, <1>3 DEF UmdInv

\* Every step keeps the types.
LEMMA UmdTypeStep == UmdType /\ [UmdNext]_umdVars => UmdType'
<1> SUFFICES ASSUME UmdType, [UmdNext]_umdVars PROVE UmdType'
  OBVIOUS
<1> USE UmdAssumption, MutexSet DEF UmdType, Places, UmdGo, UmdThread
<1>1. CASE SetId
  BY <1>1 DEF SetId
<1>2. CASE SetFile
  BY <1>2 DEF SetFile
<1>3. CASE ClearFile
  BY <1>3 DEF ClearFile
<1>4. CASE RestartEmulator
  BY <1>4 DEF RestartEmulator
<1>5. ASSUME NEW t \in Reader,
             ReadHeader(t) \/ StartUmdRead(t) \/ OpenMutex(t)
               \/ LockUmd(t) \/ SeekUmd(t) \/ ReadUmd(t) \/ EndUmdRead(t)
      PROVE  UmdType'
  <2>1. CASE ReadHeader(t)
    BY <2>1 DEF ReadHeader
  <2>2. CASE StartUmdRead(t)
    BY <2>2 DEF StartUmdRead, NoRead
  <2>3. CASE OpenMutex(t)
    BY <2>3 DEF OpenMutex
  <2>4. CASE LockUmd(t)
    BY <2>4 DEF LockUmd
  <2>5. CASE SeekUmd(t)
    <3>1. CASE umd_fd' = [umd_fd EXCEPT !.pos = read[t].sector] /\ UmdGo(t, "read")
                 /\ UNCHANGED <<owner, read>>
      BY <2>5, <3>1 DEF SeekUmd
    <3>2. CASE UnlockUmd(t) /\ UmdGo(t, "idle") /\ read' = [read EXCEPT ![t] = NoRead]
                 /\ UNCHANGED umd_fd
      BY <2>5, <3>2 DEF SeekUmd, UnlockUmd, NoRead
    <3> QED BY <2>5, <3>1, <3>2 DEF SeekUmd
  <2>6. CASE ReadUmd(t)
    BY <2>6 DEF ReadUmd
  <2>7. CASE EndUmdRead(t)
    BY <2>7 DEF EndUmdRead, UnlockUmd, NoRead
  <2> QED BY <1>5, <2>1, <2>2, <2>3, <2>4, <2>5, <2>6, <2>7
<1>6. CASE UNCHANGED umdVars
  BY <1>6 DEF umdVars
<1> QED BY <1>1, <1>2, <1>3, <1>4, <1>5, <1>6 DEF UmdNext

\* Every step keeps the mutex with the reader that took it.
LEMMA MutexStep == UmdType /\ MutexOrder /\ ReadersOrder /\ [UmdNext]_umdVars => MutexOrder'
<1> SUFFICES ASSUME UmdType, MutexOrder, ReadersOrder, [UmdNext]_umdVars PROVE MutexOrder'
  OBVIOUS
<1> USE UmdAssumption, MutexSet, MutexNames DEF UmdType, MutexOrder, UmdGo, Free, Gone
<1>1. CASE SetId
  BY <1>1 DEF SetId
<1>2. CASE SetFile
  BY <1>2 DEF SetFile
<1>3. CASE ClearFile
  BY <1>3 DEF ClearFile, Reading
<1>4. CASE RestartEmulator
  BY <1>4 DEF RestartEmulator, Reading
<1>5. ASSUME NEW t \in Reader,
             ReadHeader(t) \/ StartUmdRead(t) \/ OpenMutex(t)
               \/ LockUmd(t) \/ SeekUmd(t) \/ ReadUmd(t) \/ EndUmdRead(t)
      PROVE  MutexOrder'
  <2>1. CASE ReadHeader(t)
    BY <2>1 DEF ReadHeader, Reading
  <2>2. CASE StartUmdRead(t)
    BY <2>2 DEF StartUmdRead, NoRead
  <2>3. CASE OpenMutex(t)
    BY <2>3 DEF OpenMutex
  <2>4. CASE LockUmd(t)
    BY <2>4 DEF LockUmd
  <2>5. CASE SeekUmd(t)
    BY <2>5 DEF SeekUmd, UnlockUmd, NoRead
  <2>6. CASE ReadUmd(t)
    BY <2>6 DEF ReadUmd
  <2>7. CASE EndUmdRead(t)
    BY <2>7 DEF EndUmdRead, UnlockUmd, NoRead
  <2> QED BY <1>5, <2>1, <2>2, <2>3, <2>4, <2>5, <2>6, <2>7
<1>6. CASE UNCHANGED umdVars
  BY <1>6 DEF umdVars
<1> QED BY <1>1, <1>2, <1>3, <1>4, <1>5, <1>6 DEF UmdNext

\* Every step keeps the readers in their order.
LEMMA ReadersStep == UmdType /\ MutexOrder /\ ReadersOrder /\ [UmdNext]_umdVars => ReadersOrder'
<1> SUFFICES ASSUME UmdType, MutexOrder, ReadersOrder, [UmdNext]_umdVars PROVE ReadersOrder'
  OBVIOUS
<1> USE UmdAssumption, MutexSet, MutexNames DEF UmdType, MutexOrder, ReadersOrder, UmdGo, UmdThread, Places, Critical, Free, Gone
<1>1. CASE SetId
  BY <1>1 DEF SetId
<1>2. CASE SetFile
  BY <1>2 DEF SetFile
<1>3. CASE ClearFile
  <2>1. CASE mixed'
    BY <2>1
  <2>2. CASE ~mixed'
    <3>1. ~mixed /\ \A t \in Reader : upc[t] = "idle"
      BY <1>3, <2>2 DEF ClearFile, Reading
    <3>2. \A m \in Mutexes : owner[m] \notin Reader
      BY <3>1
    <3>3. \A m \in Mutexes : owner'[m] \notin Reader
      BY <1>3, <3>2 DEF ClearFile
    <3> QED BY <1>3, <3>1, <3>3 DEF ClearFile
  <2> QED BY <2>1, <2>2
<1>4. CASE RestartEmulator
  BY <1>4 DEF RestartEmulator, Reading
<1>5. ASSUME NEW t \in Reader,
             ReadHeader(t) \/ StartUmdRead(t) \/ OpenMutex(t)
               \/ LockUmd(t) \/ SeekUmd(t) \/ ReadUmd(t) \/ EndUmdRead(t)
      PROVE  ReadersOrder'
  <2>1. CASE ReadHeader(t)
    BY <2>1 DEF ReadHeader, Reading
  <2>2. CASE StartUmdRead(t)
    BY <2>2 DEF StartUmdRead, NoRead
  <2>3. CASE OpenMutex(t)
    <3>1. CASE mixed'
      BY <3>1
    <3>2. CASE ~mixed'
      <4>1. ~mixed /\ mutex \in {NoMutex, mutex'}
        BY <2>3, <3>2 DEF OpenMutex
      <4>2. mutex' \in Mutexes
        BY <2>3 DEF OpenMutex
      <4>3. /\ upc[t] = "open" /\ upc' = [upc EXCEPT ![t] = "lock"]
            /\ UNCHANGED <<umd_fd, owner, run, read, header>>
        BY <2>3 DEF OpenMutex
      <4> QED BY <4>1, <4>2, <4>3
    <3> QED BY <3>1, <3>2
  <2>4. CASE LockUmd(t)
    BY <2>4 DEF LockUmd
  <2>5. CASE SeekUmd(t)
    BY <2>5 DEF SeekUmd, UnlockUmd, NoRead
  <2>6. CASE ReadUmd(t)
    BY <2>6 DEF ReadUmd
  <2>7. CASE EndUmdRead(t)
    BY <2>7 DEF EndUmdRead, UnlockUmd, NoRead
  <2> QED BY <1>5, <2>1, <2>2, <2>3, <2>4, <2>5, <2>6, <2>7
<1>6. CASE UNCHANGED umdVars
  BY <1>6 DEF umdVars
<1> QED BY <1>1, <1>2, <1>3, <1>4, <1>5, <1>6 DEF UmdNext

\* Reads of a UMD image are whole and of the image that was seen, unless two mutexes
\* were in use or the mutex was taken away in a read (psp.c 149, 160).
THEOREM UmdReadsWhole == UmdSpec => []UmdReadsAreWhole
<1>1. UmdInv => UmdReadsAreWhole
  BY DEF UmdInv, UmdType, ReadersOrder, Critical, UmdReadsAreWhole, UmdDelivered, HoldsLiveMutex
<1>2. UmdInv /\ [UmdNext]_umdVars => UmdInv'
  BY UmdTypeStep, MutexStep, ReadersStep DEF UmdInv
<1> QED BY <1>1, <1>2, UmdAtInit, PTL DEF UmdSpec

-----------------------------------------------------------------------------
(* RealDisc.  What was read is what the disc holds, so that every verdict  *)
(* of is_psx, and what follows from two of them, says what it is.          *)

\* Where an insertion can be, and what is true of its disc there.
CheckFits ==
  /\ real.content = "psx" => real.medium = "cd"
  /\ dstep.check \in {"none", "ps2", "psx", "ps3"}
  /\ dstep.check = "none" <=> dstep = AtRest
  /\ dstep.check # "none" => fake = "none" /\ real.medium \notin {"ps3", "none"}
  /\ dstep.check = "ps2" => real.medium = "cd"
  /\ dstep.check = "psx" => real.medium = "dvd"
  /\ dstep.check = "ps3" /\ ~skipped /\ ~unread =>
       real.medium \notin {"cd", "dvd"} \/ real.content \notin {"psx", "ps2"}
ReadRight ==
  /\ \A sector \in Sectors : SectorRead(sector) => buf = Holds(real.content, sector)
  /\ dstep.sector \in {"sector1", "sector1_read"} => dstep.check = "ps3" /\ real.content # "volume"
  /\ dstep.sector = "sector1" => buf \in {"mark", Holds(real.content, "volume")}
  /\ dstep.sector \in {"directory", "directory_read", "cnf", "cnf_read"} =>
       dstep.check = "ps2" /\ real.content \in {"psx", "ps2"}
SaysRight ==
  /\ dstep.sector = "said_ps3" => dstep.check = "ps3" /\ real.content \in {"volume", "sector1"}
  /\ dstep.sector = "said_ps2" => dstep.check = "ps2" /\ real.content = "ps2"
  /\ dstep.sector = "said_psx" =>
       /\ dstep.check \in {"ps2", "psx"}
       /\ dstep.check = "psx" => real.content = "ps2"
       /\ dstep.check = "ps2" /\ ~skipped => real.content = "psx"
  /\ dstep.sector = "said_no" /\ ~skipped /\ ~unread =>
       IF dstep.check = "ps3" THEN real.content \notin {"volume", "sector1"}
       ELSE real.content \notin {"psx", "ps2"}
StepRecord == dstep = [check |-> dstep.check, sector |-> dstep.sector]
ContentKnown ==
  /\ real.content \in {"psx", "ps2", "volume", "sector1", "plain"}
  /\ real.medium \in {"none", "cd", "dvd", "ps3", "other"}
RealDiscInv == StepRecord /\ ContentKnown /\ CheckFits /\ ReadRight /\ SaysRight /\ RealDiscsAreKnown

\* Before the first disc.
LEMMA InitRealDisc == RealDiscInit => RealDiscInv
BY DEF RealDiscInit, RealDiscInv, StepRecord, ContentKnown, CheckFits, ReadRight, SaysRight,
   RealDiscsAreKnown, RealDiscKnown, NeverMistaken, TypeOfContent, NoDiscIn, AtRest, SectorRead, ReadOf, Sectors

\* A disc is put in.
LEMMA InsertRealInv ==
  ASSUME RealDiscInv, InsertReal
  PROVE  RealDiscInv'
<1> USE DEF InsertReal, AtRest, FirstCheck
<1>1. PICK m \in Medium, c \in Recorded :
        /\ c = "psx" => m = "cd"
        /\ real' = [medium |-> m, content |-> c]
        /\ unread' = FALSE /\ fake' = "none" /\ buf' = "old"
        /\ m = "ps3" => UNCHANGED dstep
        /\ m # "ps3" => \E sector \in {"volume", "said_no"} :
             /\ dstep' = [check |-> FirstCheck(m), sector |-> sector]
             /\ sector = "said_no" => skipped'
  BY DEF AtRest
<1>2. m \in {"cd", "dvd", "ps3", "other"} /\ c \in {"psx", "ps2", "volume", "sector1", "plain"}
  BY RealDiscAssumption
<1>3. real'.medium = m /\ real'.content = c
  BY <1>1
<1>4. ContentKnown' /\ CheckFits'
  BY <1>1, <1>2, <1>3 DEF ContentKnown, CheckFits
<1>5. ReadRight'
  BY <1>1, <1>2, <1>3 DEF ReadRight, SectorRead, ReadOf, Sectors
<1>6. SaysRight'
  BY <1>1, <1>2, <1>3 DEF SaysRight
<1>7. RealDiscsAreKnown'
  <2>1. CASE m = "ps3"
    <3>1. fake' = "none" /\ real'.medium = "ps3"
      BY <1>1, <1>3, <2>1
    <3>2. TypeOfContent' = "none"
      BY <3>1 DEF TypeOfContent
    <3> QED BY <3>1, <3>2 DEF RealDiscsAreKnown, RealDiscKnown, NeverMistaken, TypeOfContent
  <2>2. CASE m # "ps3"
    <3>1. dstep'.check # "none"
      BY <1>1, <1>2, <2>2
    <3>2. dstep' # AtRest
      BY <3>1
    <3> QED BY <3>2 DEF RealDiscsAreKnown, RealDiscKnown, NeverMistaken
  <2> QED BY <2>1, <2>2
<1>8. StepRecord'
  BY <1>1 DEF StepRecord, RealDiscInv
<1> QED BY <1>4, <1>5, <1>6, <1>7, <1>8 DEF RealDiscInv

\* A sector is read, or is not: the mark is no sector.
LEMMA ReadAttemptInv ==
  ASSUME RealDiscInv, ReadAttempt
  PROVE  RealDiscInv'
<1> DEFINE s == dstep.sector
<1>1. /\ s \in Sectors /\ UNCHANGED <<real, fake, unread, skipped>>
      /\ \/ buf' = Holds(real.content, s) /\ dstep' = [dstep EXCEPT !.sector = ReadOf[@]]
         \/ buf' \in {"mark", buf} /\ dstep' = dstep
  <2>1. PICK got \in ReadDisc(s) :
          /\ buf' = got.buf
          /\ IF ReadSucceeds(got) THEN dstep' = [dstep EXCEPT !.sector = ReadOf[@]] ELSE dstep' = dstep
    BY DEF ReadAttempt
  <2>2. got.buf = Holds(real.content, s) \/ got.buf = "mark" \/ (~got.ok /\ got.buf = buf)
    BY DEF ReadDisc
  <2>3. Holds(real.content, s) # "mark"
    BY DEF Holds
  <2>4. ReadSucceeds(got) => got.buf = Holds(real.content, s)
    BY <2>2 DEF ReadSucceeds
  <2>5. ~ReadSucceeds(got) => got.buf \in {"mark", buf}
    <3>1. ASSUME got.buf = Holds(real.content, s), ~ReadSucceeds(got) PROVE got.buf \in {"mark", buf}
      BY <2>3, <3>1 DEF ReadSucceeds, ReadDisc
    <3> QED BY <2>2, <3>1
  <2> QED BY <2>1, <2>4, <2>5 DEF ReadAttempt
<1>2. s \in {"volume", "sector1", "directory", "cnf"}
  BY <1>1 DEF Sectors, ReadOf
<1>3. dstep # AtRest /\ dstep.check # "none"
  BY <1>2 DEF RealDiscInv, CheckFits, AtRest
<1>4. /\ dstep'.check = dstep.check /\ dstep' # AtRest /\ StepRecord'
      /\ \/ dstep'.sector = ReadOf[s] /\ buf' = Holds(real.content, s)
         \/ dstep'.sector = s /\ buf' \in {"mark", buf}
  <2>1. CASE dstep' = dstep /\ buf' \in {"mark", buf}
    BY <1>3, <2>1 DEF RealDiscInv, StepRecord
  <2>2. CASE dstep' = [dstep EXCEPT !.sector = ReadOf[@]] /\ buf' = Holds(real.content, s)
    <3>1. dstep' = [check |-> dstep.check, sector |-> ReadOf[s]]
      BY <2>2 DEF RealDiscInv, StepRecord
    <3>2. dstep'.check = dstep.check /\ dstep'.sector = ReadOf[s] /\ StepRecord'
      BY <3>1 DEF StepRecord
    <3>3. dstep' # AtRest
      BY <1>3, <3>2 DEF AtRest
    <3> QED BY <2>2, <3>2, <3>3
  <2> QED BY <1>1, <2>1, <2>2
<1>5. ContentKnown' /\ CheckFits' /\ RealDiscsAreKnown'
  BY <1>1, <1>3, <1>4 DEF RealDiscInv, ContentKnown, CheckFits, RealDiscsAreKnown, RealDiscKnown, NeverMistaken
<1>6. ReadRight'
  BY <1>1, <1>2, <1>4 DEF RealDiscInv, ReadRight, SectorRead, Sectors, ReadOf, Holds
<1>7. SaysRight'
  BY <1>1, <1>2, <1>4 DEF SaysRight, ReadOf
<1> QED BY <1>4, <1>5, <1>6, <1>7 DEF RealDiscInv

\* The volume descriptor: what it says, or what is read next.
LEMMA VolumeReadInv ==
  ASSUME RealDiscInv, VolumeRead
  PROVE  RealDiscInv'
<1>1. /\ dstep.sector = "volume_read" /\ buf = Holds(real.content, "volume")
      /\ UNCHANGED <<real, buf, fake, unread, skipped>>
  BY DEF VolumeRead, RealDiscInv, ReadRight, SectorRead, ReadOf, Sectors
<1>2. dstep.check \in {"ps2", "psx", "ps3"} /\ dstep # AtRest
  BY <1>1 DEF RealDiscInv, CheckFits, AtRest
<1>3. /\ dstep'.check = dstep.check /\ dstep' # AtRest /\ StepRecord'
      /\ dstep'.sector =
           CASE dstep.check = "ps3" -> IF buf = "ps3volume" THEN "said_ps3" ELSE "sector1"
             [] dstep.check = "psx" -> IF buf = "playstation" THEN "said_psx" ELSE "said_no"
             [] OTHER -> IF buf = "playstation" THEN "directory" ELSE "said_no"
  BY <1>2 DEF VolumeRead, Says, ReadNext, AtRest, StepRecord, RealDiscInv
<1>4. ContentKnown' /\ CheckFits' /\ RealDiscsAreKnown'
  BY <1>1, <1>2, <1>3 DEF RealDiscInv, ContentKnown, CheckFits, RealDiscsAreKnown, RealDiscKnown, NeverMistaken
<1>5. ReadRight'
  BY <1>1, <1>2, <1>3 DEF RealDiscInv, ContentKnown, ReadRight, SectorRead, Sectors, ReadOf, Holds
<1>6. SaysRight'
  BY <1>1, <1>2, <1>3 DEF RealDiscInv, ContentKnown, CheckFits, SaysRight, Holds
<1> QED BY <1>3, <1>4, <1>5, <1>6 DEF RealDiscInv

\* No more attempts at the volume descriptor: the disc is marked.
LEMMA VolumeNotReadInv ==
  ASSUME RealDiscInv, VolumeNotRead
  PROVE  RealDiscInv'
<1>1. /\ dstep.sector = "volume" /\ unread' = TRUE
      /\ UNCHANGED <<real, buf, fake, skipped>>
  BY DEF VolumeNotRead, GivenUp
<1>2. dstep.check \in {"ps2", "psx", "ps3"} /\ dstep # AtRest
  BY <1>1 DEF RealDiscInv, CheckFits, AtRest
<1>3. dstep'.check = dstep.check /\ dstep' # AtRest /\ dstep'.sector = "said_no" /\ StepRecord'
  BY <1>2 DEF VolumeNotRead, Says, AtRest, StepRecord, RealDiscInv
<1>4. ContentKnown' /\ CheckFits' /\ RealDiscsAreKnown'
  BY <1>1, <1>2, <1>3 DEF RealDiscInv, ContentKnown, CheckFits, RealDiscsAreKnown, RealDiscKnown, NeverMistaken
<1>5. ReadRight' /\ SaysRight'
  BY <1>1, <1>2, <1>3 DEF ReadRight, SectorRead, Sectors, ReadOf, SaysRight
<1> QED BY <1>3, <1>4, <1>5 DEF RealDiscInv

\* Sector 1, read or not, decides the last question.
LEMMA Sector1Inv ==
  ASSUME RealDiscInv, Sector1
  PROVE  RealDiscInv'
<1>1. /\ UNCHANGED <<real, buf, fake, unread>>
      /\ \/ dstep.sector = "sector1_read" /\ buf = Holds(real.content, "sector1") /\ (skipped => skipped')
         \/ dstep.sector = "sector1" /\ skipped' /\ buf \in {"mark", Holds(real.content, "volume")}
  BY DEF Sector1, GivenUp, RealDiscInv, ReadRight, SectorRead, ReadOf, Sectors
<1>2. dstep.check = "ps3" /\ real.content # "volume" /\ dstep # AtRest
  BY <1>1 DEF RealDiscInv, ReadRight, CheckFits, AtRest
<1>3. /\ dstep'.check = dstep.check /\ dstep' # AtRest /\ StepRecord'
      /\ dstep'.sector = IF buf = "playstation3" THEN "said_ps3" ELSE "said_no"
  BY <1>2 DEF Sector1, Says, AtRest, StepRecord, RealDiscInv
<1>4. ContentKnown' /\ CheckFits' /\ RealDiscsAreKnown'
  BY <1>1, <1>2, <1>3 DEF RealDiscInv, ContentKnown, CheckFits, RealDiscsAreKnown, RealDiscKnown, NeverMistaken
<1>5. ReadRight'
  BY <1>1, <1>3 DEF ReadRight, SectorRead, Sectors, ReadOf
<1>6. SaysRight'
  BY <1>1, <1>2, <1>3 DEF RealDiscInv, ContentKnown, SaysRight, Holds
<1> QED BY <1>3, <1>4, <1>5, <1>6 DEF RealDiscInv

\* SYSTEM.CNF is found, read, or given up.
LEMMA CnfInv ==
  ASSUME RealDiscInv, DirectoryRead \/ CnfRead \/ TakenForPsx
  PROVE  RealDiscInv'
<1>1. /\ UNCHANGED <<real, buf, fake, unread>> /\ (skipped => skipped')
      /\ dstep.check = "ps2" /\ real.content \in {"psx", "ps2"} /\ dstep # AtRest
  BY DEF DirectoryRead, CnfRead, TakenForPsx, GivenUp, RealDiscInv, ReadRight, SectorRead, ReadOf, CheckFits,
     AtRest
<1>2. /\ dstep'.check = "ps2" /\ dstep' # AtRest /\ StepRecord'
      /\ \/ dstep'.sector = "cnf"
         \/ dstep'.sector = "said_psx" /\ (skipped' \/ real.content = "psx")
         \/ dstep'.sector = "said_ps2" /\ real.content = "ps2"
  <2>1. CASE DirectoryRead
    BY <1>1, <2>1 DEF DirectoryRead, ReadNext, AtRest, StepRecord, RealDiscInv
  <2>2. CASE CnfRead
    <3>1. buf = Holds(real.content, "cnf")
      BY <2>2 DEF CnfRead, SectorRead, ReadOf, Sectors, RealDiscInv, ReadRight
    <3> QED BY <1>1, <2>2, <3>1 DEF CnfRead, Says, Holds, AtRest, StepRecord, RealDiscInv
  <2>3. CASE TakenForPsx
    BY <1>1, <2>3 DEF TakenForPsx, Says, AtRest, StepRecord, RealDiscInv
  <2> QED BY <2>1, <2>2, <2>3
<1>3. ContentKnown' /\ CheckFits' /\ RealDiscsAreKnown'
  BY <1>1, <1>2 DEF RealDiscInv, ContentKnown, CheckFits, RealDiscsAreKnown, RealDiscKnown, NeverMistaken
<1>4. ReadRight' /\ SaysRight'
  BY <1>1, <1>2 DEF ReadRight, SectorRead, Sectors, ReadOf, SaysRight
<1> QED BY <1>2, <1>3, <1>4 DEF RealDiscInv

\* What is made of it, or the second question.
LEMMA DecideTypeInv ==
  ASSUME RealDiscInv, DecideType
  PROVE  RealDiscInv'
<1>1. /\ UNCHANGED <<real, buf, unread>> /\ dstep # AtRest /\ fake = "none"
      /\ dstep.sector \in {"said_no", "said_psx", "said_ps2", "said_ps3"}
      /\ dstep.check \in {"ps2", "psx", "ps3"}
  BY DEF DecideType, RealDiscInv, CheckFits, AtRest
<1>2. CASE dstep.sector = "said_no" /\ dstep.check # "ps3"
  <2>1. fake' = "none" /\ BeginCheck("ps3")
    BY <1>1, <1>2 DEF DecideType
  <2>2. /\ dstep'.check = "ps3" /\ dstep' # AtRest /\ StepRecord'
        /\ \/ dstep'.sector = "volume" /\ skipped' = skipped
           \/ dstep'.sector = "said_no" /\ skipped'
    BY <2>1 DEF BeginCheck, AtRest, StepRecord
  <2>3. ContentKnown' /\ CheckFits' /\ RealDiscsAreKnown'
    BY <1>1, <1>2, <2>1, <2>2 DEF RealDiscInv, ContentKnown, CheckFits, SaysRight, RealDiscsAreKnown,
       RealDiscKnown, NeverMistaken
  <2>4. ReadRight' /\ SaysRight'
    BY <1>1, <2>2 DEF ReadRight, SectorRead, Sectors, ReadOf, SaysRight
  <2> QED BY <2>2, <2>3, <2>4 DEF RealDiscInv
<1>3. CASE dstep.sector # "said_no" \/ dstep.check = "ps3"
  <2>1. /\ dstep' = AtRest /\ skipped' = skipped
        /\ fake' = CASE dstep.sector = "said_no" -> "none"
                     [] dstep.sector = "said_psx" -> IF dstep.check = "psx" THEN "ps2" ELSE "psx"
                     [] dstep.sector = "said_ps2" -> "ps2"
                     [] OTHER -> "ps3"
    BY <1>1, <1>3 DEF DecideType
  <2>2. dstep'.check = "none" /\ dstep'.sector = "none" /\ StepRecord'
    BY <2>1 DEF AtRest, StepRecord
  <2>3. ContentKnown' /\ CheckFits' /\ ReadRight' /\ SaysRight'
    BY <1>1, <2>1, <2>2 DEF RealDiscInv, ContentKnown, CheckFits, ReadRight, SectorRead, Sectors, ReadOf, SaysRight
  <2>4. RealDiscsAreKnown'
    <3>1. CASE dstep.sector = "said_no"
      BY <1>1, <1>3, <2>1, <3>1 DEF RealDiscInv, ContentKnown, CheckFits, SaysRight, RealDiscsAreKnown,
         RealDiscKnown, NeverMistaken, TypeOfContent
    <3>2. CASE dstep.sector = "said_psx"
      BY <1>1, <2>1, <3>2 DEF RealDiscInv, ContentKnown, CheckFits, SaysRight, RealDiscsAreKnown,
         RealDiscKnown, NeverMistaken, TypeOfContent
    <3>3. CASE dstep.sector = "said_ps2"
      BY <1>1, <2>1, <3>3 DEF RealDiscInv, ContentKnown, CheckFits, SaysRight, RealDiscsAreKnown,
         RealDiscKnown, NeverMistaken, TypeOfContent
    <3>4. CASE dstep.sector = "said_ps3"
      BY <1>1, <2>1, <3>4 DEF RealDiscInv, ContentKnown, CheckFits, SaysRight, RealDiscsAreKnown,
         RealDiscKnown, NeverMistaken, TypeOfContent
    <3> QED BY <1>1, <3>1, <3>2, <3>3, <3>4
  <2> QED BY <2>2, <2>3, <2>4 DEF RealDiscInv
<1> QED BY <1>2, <1>3

\* A disc without an image is given out as what it holds, or is looked at again: for
\* every disc, and any number of attempts that fail.
THEOREM DiscsTakenForWhatTheyAre == RealDiscSpec => []RealDiscsAreKnown
<1>1. RealDiscInv /\ [RealDiscNext]_realDiscVars => RealDiscInv'
  <2> SUFFICES ASSUME RealDiscInv, [RealDiscNext]_realDiscVars PROVE RealDiscInv'
    OBVIOUS
  <2>1. CASE UNCHANGED realDiscVars
    BY <2>1 DEF realDiscVars, RealDiscInv, StepRecord, ContentKnown, CheckFits, ReadRight, SectorRead,
       SaysRight, RealDiscsAreKnown, RealDiscKnown, NeverMistaken, TypeOfContent
  <2> QED BY <2>1, InsertRealInv, ReadAttemptInv, VolumeReadInv, VolumeNotReadInv, Sector1Inv, CnfInv,
             DecideTypeInv DEF RealDiscNext
<1>2. RealDiscInv => RealDiscsAreKnown
  BY DEF RealDiscInv
<1> QED BY <1>1, <1>2, InitRealDisc, PTL DEF RealDiscSpec

-----------------------------------------------------------------------------
(* DriveCommands.  The answers are facts of the image that is mounted, and *)
(* what is read is inside of it.                                           *)

\* What was told since the image was mounted is true of it.
ToldRight ==
  /\ DOMAIN told = {"leadout", "size", "start", "length"}
  /\ told.size \in {-1, media.sectors} /\ told.leadout \in {-1, media.sectors}
  /\ told.start # <<>> =>
       told.leadout = media.sectors /\ told.start = (IF Is2048 THEN <<0>> ELSE media.tracks)
  /\ told.length \in Seq(Int)
  /\ told.length # <<>> => ~Is2048 /\ media \in Disc /\ Len(told.length) <= Len(media.tracks)
  /\ \A i \in DOMAIN told.length : told.length[i] = TrackSize(i)

\* The LibCrypt file that is open is the one whose table is kept.
SubqRight == subq = NoSubq \/ (subq.of \in Disc /\ subq.of.lsd # <<>> /\ subq.table = LsdTable(subq.of.lsd))

SubchannelRight(q) ==
  IF \E i \in DOMAIN subq.of.lsd : subq.of.lsd[i] = q.lba
  THEN q.of = "lsd" /\ subq.table[q.n] = q.lba
  ELSE q.of = "track" /\ q.n \in Track(media) /\ media.tracks[q.n] <= q.lba
         /\ \A i \in Track(media) : media.tracks[i] <= q.lba => i <= q.n
Entry == [of : {"lsd", "track"}, lba : Nat, n : Nat]
\* A read stays inside of the image.
ReadInside ==
  reading.active =>
    /\ DOMAIN reading = {"active", "lba", "left", "user", "sub", "paged", "q"}
    /\ media \in Disc
    /\ reading.lba \in Nat /\ reading.left \in Nat /\ reading.lba + reading.left <= media.sectors
    /\ reading.q \in Seq(Entry)
    /\ \A k \in DOMAIN reading.q : SubchannelRight(reading.q[k])

DriveInv ==
  media \in Disc \cup {Empty} /\ ToldRight /\ SubqRight /\ ReadInside

\* A sum over a sequence is the one function that begins at 0 and adds each element.
LEMMA RunningSum ==
  ASSUME NEW n \in Nat, NEW step, NEW f, f = [i \in 0 .. n |-> IF i = 0 THEN 0 ELSE f[i - 1] + step[i]]
  PROVE  (CHOOSE g : g = [i \in 0 .. n |-> IF i = 0 THEN 0 ELSE g[i - 1] + step[i]]) = f
<1> DEFINE g == CHOOSE h : h = [i \in 0 .. n |-> IF i = 0 THEN 0 ELSE h[i - 1] + step[i]]
           Differ == {i \in 0 .. n : g[i] # f[i]}
<1>1. g = [i \in 0 .. n |-> IF i = 0 THEN 0 ELSE g[i - 1] + step[i]]
  OBVIOUS
<1> HIDE DEF g
<1>2. Differ = {}
  <2> SUFFICES ASSUME Differ # {} PROVE FALSE
    OBVIOUS
  <2>1. Differ \in SUBSET Nat
    OBVIOUS
  <2>2. PICK m \in Differ : \A i \in Differ : m <= i
    <3> HIDE DEF Differ
    <3> QED BY <2>1, LeastNumber
  <2>3. m \in 0 .. n /\ g[m] # f[m]
    OBVIOUS
  <2>4. CASE m = 0
    BY <1>1, <2>3, <2>4
  <2>5. CASE m # 0
    <3>1. m - 1 \in 0 .. n /\ ~(m <= m - 1)
      BY <2>3, <2>5
    <3>2. g[m - 1] = f[m - 1]
      BY <2>2, <3>1
    <3>3. g[m] = g[m - 1] + step[m] /\ f[m] = f[m - 1] + step[m]
      BY <1>1, <2>3, <2>5
    <3> QED BY <2>3, <3>2, <3>3
  <2> QED BY <2>4, <2>5
<1>3. \A i \in 0 .. n : g[i] = f[i]
  BY <1>2
<1>4. g = [i \in 0 .. n |-> g[i]] /\ f = [i \in 0 .. n |-> f[i]]
  <2>1. DOMAIN g = 0 .. n /\ DOMAIN f = 0 .. n
    BY <1>1
  <2> QED BY <1>1, <2>1
<1> QED BY <1>3, <1>4 DEF g

\* The tracks that were described end where the next begin.
LEMMA EndsOfTracks ==
  ASSUME DriveInv
  PROVE  TocDescribesDisc
<1> DEFINE n == Len(told.length)
           last == Len(media.tracks)
           end == [i \in 0 .. n |-> IF i < last THEN media.tracks[i + 1] ELSE media.sectors]
           ends[i \in 0 .. n] == IF i = 0 THEN 0 ELSE ends[i - 1] + told.length[i]
<1>1. told.size # -1 /\ told.leadout # -1 => told.size = told.leadout
  BY DEF DriveInv, ToldRight
<1>2. ASSUME told.start # <<>>
      PROVE  /\ \A i \in DOMAIN told.length : told.start[i] = ends[i - 1]
             /\ Len(told.length) = Len(told.start) => ends[Len(told.start)] = told.leadout
  <2>1. n \in Nat /\ DOMAIN told.length = 1 .. n
    BY DEF DriveInv, ToldRight
  <2>2. CASE told.length = <<>>
    <3>1. n = 0 /\ DOMAIN told.length = {}
      BY <2>1, <2>2
    <3>2. Len(told.start) # 0
      <4>1. told.start = <<0>> \/ told.start = media.tracks
        BY <1>2 DEF DriveInv, ToldRight
      <4>2. told.start \in Seq(Nat)
        <5>0. <<0>> \in Seq(Nat) /\ <<>> \in Seq(Nat)
          OBVIOUS
        <5>1. CASE media \in Disc
          <6>1. media.tracks \in Seq(Nat)
            BY <5>1, DriveAssumption
          <6> QED BY <4>1, <5>0, <6>1
        <5>2. CASE media = Empty
          <6>1. media.tracks = <<>>
            BY <5>2 DEF Empty
          <6> QED BY <4>1, <5>0, <6>1
        <5> QED BY <5>1, <5>2 DEF DriveInv
      <4> QED BY <1>2, <4>2
    <3> QED BY <3>1, <3>2
  <2>3. CASE told.length # <<>>
    <3>1. /\ media \in Disc /\ ~Is2048 /\ n <= last /\ told.start = media.tracks
          /\ told.leadout = media.sectors /\ n > 0
      BY <1>2, <2>1, <2>3 DEF DriveInv, ToldRight
    <3>2. /\ media.tracks \in Seq(Nat) /\ last \in Nat /\ media.tracks[1] = 0
          /\ media.sectors \in Nat /\ \A i \in 1 .. last : media.tracks[i] \in Nat
      BY <3>1, DriveAssumption
    <3>3. \A i \in 1 .. n : told.length[i] =
            IF i = last THEN media.sectors - media.tracks[i] ELSE media.tracks[i + 1] - media.tracks[i]
      BY <2>1, <3>1 DEF DriveInv, ToldRight, TrackSize, NumTracks
    <3> HIDE DEF n, last
    <3>4. end = [i \in 0 .. n |-> IF i = 0 THEN 0 ELSE end[i - 1] + told.length[i]]
      <4>1. ASSUME NEW i \in 0 .. n
            PROVE  end[i] = IF i = 0 THEN 0 ELSE end[i - 1] + told.length[i]
        <5>1. CASE i = 0
          BY <2>1, <3>1, <3>2, <5>1
        <5>2. CASE i # 0
          <6>1. i \in 1 .. n /\ i - 1 \in 0 .. n /\ i - 1 < last
            BY <2>1, <3>1, <3>2, <5>2
          <6>2. end[i - 1] = media.tracks[i]
            BY <2>1, <3>2, <6>1
          <6>3. CASE i = last
            BY <2>1, <3>2, <3>3, <6>1, <6>2, <6>3
          <6>4. CASE i < last
            <7>1. media.tracks[i] \in Nat /\ media.tracks[i + 1] \in Nat
              BY <2>1, <3>2, <6>1, <6>4
            <7> QED BY <2>1, <3>2, <3>3, <6>1, <6>2, <6>4, <7>1
          <6> QED BY <2>1, <3>1, <3>2, <6>1, <6>3, <6>4
        <5> QED BY <5>1, <5>2
      <4> HIDE DEF end
      <4>2. end = [i \in 0 .. n |-> end[i]]
        BY DEF end
      <4> QED BY <4>1, <4>2
    <3>5. ends = end
      <4> HIDE DEF end
      <4> QED BY <2>1, <3>4, RunningSum
    <3> HIDE DEF ends
    <3>6. \A i \in 1 .. n : media.tracks[i] = end[i - 1]
      BY <2>1, <3>1, <3>2
    <3>7. n = last => end[n] = media.sectors
      BY <2>1, <3>2
    <3> QED BY <2>1, <3>1, <3>5, <3>6, <3>7 DEF n, last
  <2> QED BY <2>2, <2>3
<1> QED BY <1>1, <1>2 DEF TocDescribesDisc

-----------------------------------------------------------------------------
\* The table of a LibCrypt file is ordered, and has what the file has.
LEMMA TableOrdered ==
  ASSUME NEW d \in Disc, d.lsd # <<>>
  PROVE  LET T == LsdTable(d.lsd) IN
         /\ \A n \in 1 .. 2 * LcHalf : T[n] \in Nat
         /\ \A i, j \in 1 .. 2 * LcHalf : i <= j => T[i] <= T[j]
         /\ \A n \in 1 .. 2 * LcHalf : \E i \in DOMAIN d.lsd : d.lsd[i] = T[n]
         /\ \A i \in DOMAIN d.lsd : i \in 1 .. 2 * LcHalf /\ T[i] = d.lsd[i]
<1> DEFINE L == Len(d.lsd)
           T == LsdTable(d.lsd)
           K == 2 * LcHalf
<1>1. /\ d.lsd \in Seq(Nat) /\ L <= K /\ LcHalf \in Nat
      /\ \A i, j \in DOMAIN d.lsd : i < j => d.lsd[i] < d.lsd[j]
  BY DriveAssumption
<1>2. L \in Nat /\ L > 0 /\ DOMAIN d.lsd = 1 .. L /\ K \in Nat
  BY <1>1
<1>3. \A i \in 1 .. L : d.lsd[i] \in Nat
  BY <1>1
<1>4. T = [n \in 1 .. K |-> IF n <= L THEN d.lsd[n] ELSE d.lsd[L]]
  BY DEF LsdTable
<1> HIDE DEF L, T, K
<1>5. \A n \in 1 .. K : T[n] \in Nat
  BY <1>2, <1>3, <1>4
<1>6. ASSUME NEW i \in 1 .. K, NEW j \in 1 .. K, i <= j
      PROVE  T[i] <= T[j]
  <2> DEFINE p == IF i <= L THEN i ELSE L
             q == IF j <= L THEN j ELSE L
  <2>1. T[i] = d.lsd[p] /\ T[j] = d.lsd[q]
    BY <1>4
  <2>2. p \in 1 .. L /\ q \in 1 .. L /\ p <= q
    BY <1>2, <1>6
  <2> HIDE DEF p, q
  <2>3. d.lsd[p] \in Nat /\ d.lsd[q] \in Nat /\ (p = q \/ d.lsd[p] < d.lsd[q])
    <3>1. p = q \/ p < q
      BY <1>2, <2>2
    <3>2. d.lsd[p] \in Nat /\ d.lsd[q] \in Nat
      BY <1>3, <2>2
    <3> QED BY <1>1, <1>2, <2>2, <3>1, <3>2
  <2> QED BY <2>1, <2>3
<1>7. ASSUME NEW n \in 1 .. K PROVE \E i \in DOMAIN d.lsd : d.lsd[i] = T[n]
  <2>1. CASE n <= L
    BY <1>2, <1>4, <2>1
  <2>2. CASE ~(n <= L)
    BY <1>2, <1>4, <2>2
  <2> QED BY <2>1, <2>2
<1>8. \A i \in DOMAIN d.lsd : i \in 1 .. K /\ T[i] = d.lsd[i]
  BY <1>1, <1>2, <1>4
<1> QED BY <1>5, <1>6, <1>7, <1>8 DEF T, K

\* The search finds a sector exactly when the table names it.
LEMMA SearchFinds ==
  ASSUME NEW lba \in Nat, subq.of \in Disc, subq.of.lsd # <<>>, subq.table = LsdTable(subq.of.lsd)
  PROVE  /\ \A n \in FoundFrom(lba) : subq.table[n] = lba
         /\ FoundFrom(lba) # {} <=> \E i \in DOMAIN subq.of.lsd : subq.of.lsd[i] = lba
         /\ FoundFrom(lba) \subseteq Nat
<1> DEFINE T == subq.table
           H == LcHalf
           R == IF T[1] <= lba /\ lba <= T[H] THEN 1 .. H
                ELSE IF T[H + 1] <= lba /\ lba <= T[2 * H] THEN H + 1 .. 2 * H ELSE {}
<1>1. /\ \A n \in 1 .. 2 * H : T[n] \in Nat
      /\ \A i, j \in 1 .. 2 * H : i <= j => T[i] <= T[j]
      /\ \A n \in 1 .. 2 * H : \E i \in DOMAIN subq.of.lsd : subq.of.lsd[i] = T[n]
      /\ \A i \in DOMAIN subq.of.lsd : i \in 1 .. 2 * H /\ T[i] = subq.of.lsd[i]
  BY TableOrdered
<1>2. H \in Nat /\ H > 0
  BY DriveAssumption
<1>3. FoundFrom(lba) = {n \in R : T[n] = lba /\ \A k \in R : k < n => T[k] < lba}
  BY DEF FoundFrom
<1> HIDE DEF T, H
<1>4. \A n \in R : n \in 1 .. 2 * H /\ n \in Nat
  BY <1>2
<1>5. ASSUME NEW m \in 1 .. 2 * H, T[m] = lba PROVE \E n \in R : T[n] = lba
  <2>1. CASE T[1] <= lba /\ lba <= T[H]
    <3>1. CASE m <= H
      BY <1>2, <1>5, <2>1, <3>1
    <3>2. CASE ~(m <= H)
      <4>1. T[H] <= T[m] /\ T[H] \in Nat /\ H \in 1 .. H
        BY <1>1, <1>2, <3>2
      <4>2. T[H] = lba
        BY <1>5, <2>1, <4>1
      <4> QED BY <2>1, <4>1, <4>2
    <3> QED BY <3>1, <3>2
  <2>2. CASE ~(T[1] <= lba /\ lba <= T[H])
    <3>1. ~(m <= H)
      <4>1. ASSUME m <= H PROVE FALSE
        BY <1>1, <1>2, <1>5, <2>2, <4>1
      <4> QED BY <4>1
    <3>2. m \in H + 1 .. 2 * H
      BY <1>2, <3>1
    <3>3. T[H + 1] <= T[m] /\ T[m] <= T[2 * H]
      BY <1>1, <1>2, <3>2
    <3> QED BY <1>5, <2>2, <3>2, <3>3
  <2> QED BY <2>1, <2>2
<1> HIDE DEF R
<1>6. ASSUME NEW m \in R, T[m] = lba PROVE FoundFrom(lba) # {}
  <2> DEFINE Same == {n \in R : T[n] = lba}
  <2>1. Same \in SUBSET Nat /\ m \in Same
    BY <1>4, <1>6
  <2>2. PICK n \in Same : \A k \in Same : n <= k
    <3> HIDE DEF Same
    <3> QED BY <2>1, LeastNumber
  <2>3. n \in R /\ T[n] = lba /\ n \in 1 .. 2 * H /\ n \in Nat
    BY <1>4
  <2>4. ASSUME NEW k \in R, k < n PROVE T[k] < lba
    <3>1. k \in 1 .. 2 * H /\ k \in Nat
      BY <1>4
    <3>2. T[k] <= T[n] /\ T[k] \in Nat
      BY <1>1, <2>3, <2>4, <3>1
    <3>3. T[k] # lba
      BY <2>2, <2>3, <2>4, <3>1
    <3> QED BY <2>3, <3>2, <3>3
  <2>5. n \in FoundFrom(lba)
    BY <1>3, <2>3, <2>4
  <2> QED BY <2>5
<1>7. \A n \in FoundFrom(lba) : n \in R /\ T[n] = lba
  BY <1>3
<1>8. FoundFrom(lba) # {} => \E i \in DOMAIN subq.of.lsd : subq.of.lsd[i] = lba
  BY <1>1, <1>4, <1>7
<1>9. (\E i \in DOMAIN subq.of.lsd : subq.of.lsd[i] = lba) => FoundFrom(lba) # {}
  BY <1>1, <1>5, <1>6
<1> QED BY <1>4, <1>7, <1>8, <1>9 DEF T

\* Every sector of an image is of a track, the last one that begins before it.
LEMMA TrackFound ==
  ASSUME NEW lba \in Nat, media \in Disc, lba < media.sectors
  PROVE  /\ TrackOfSector(lba) \in Track(media) /\ TrackOfSector(lba) \in Nat
         /\ media.tracks[TrackOfSector(lba)] <= lba
         /\ \A i \in Track(media) : media.tracks[i] <= lba => i <= TrackOfSector(lba)
<1> DEFINE L == Len(media.tracks)
           Before == {i \in Track(media) : media.tracks[i] <= lba}
           within == {i \in Track(media) :
                       /\ media.tracks[i] <= lba
                       /\ lba < IF i = L THEN media.sectors ELSE media.tracks[i + 1]}
<1>1. /\ media.tracks \in Seq(Nat) /\ media.tracks # <<>> /\ media.tracks[1] = 0
      /\ \A i, j \in Track(media) : i < j => media.tracks[i] < media.tracks[j]
  BY DriveAssumption
<1>2. L \in Nat /\ L > 0 /\ Track(media) = 1 .. L /\ \A i \in 1 .. L : media.tracks[i] \in Nat
  BY <1>1 DEF Track
<1> HIDE DEF L
<1>3. PICK m \in Before : \A i \in Before : i <= m
  <2>1. Before \in SUBSET Nat /\ 1 \in Before /\ \A i \in Before : i <= L
    BY <1>1, <1>2
  <2> HIDE DEF Before
  <2> QED BY <1>2, <2>1, GreatestNumber
<1>4. m \in 1 .. L /\ media.tracks[m] <= lba /\ \A i \in 1 .. L : media.tracks[i] <= lba => i <= m
  BY <1>2, <1>3
<1>5. m \in within
  <2>1. CASE m = L
    BY <1>2, <1>4, <2>1
  <2>2. CASE m # L
    <3>1. m + 1 \in 1 .. L /\ ~(m + 1 <= m)
      BY <1>2, <1>4, <2>2
    <3>2. lba < media.tracks[m + 1]
      BY <1>2, <1>4, <3>1
    <3> QED BY <1>2, <1>4, <2>2, <3>2
  <2> QED BY <2>1, <2>2
<1>6. ASSUME NEW i \in within PROVE i = m
  <2>1. i \in 1 .. L /\ media.tracks[i] <= lba /\ i <= m
    BY <1>2, <1>4
  <2>2. CASE i < m
    <3>1. i # L /\ lba < media.tracks[i + 1] /\ i + 1 \in 1 .. L
      BY <1>2, <1>4, <2>1, <2>2
    <3>2. media.tracks[i + 1] <= media.tracks[m]
      <4>1. i + 1 = m \/ i + 1 < m
        BY <1>2, <1>4, <2>1, <2>2
      <4> QED BY <1>1, <1>2, <1>4, <3>1, <4>1
    <3> QED BY <1>2, <1>4, <3>1, <3>2
  <2> QED BY <1>2, <1>4, <2>1, <2>2
<1>7. TrackOfSector(lba) = m
  BY <1>5, <1>6 DEF TrackOfSector, L
<1> QED BY <1>2, <1>4, <1>7

\* At first no image is mounted and nothing was told.
LEMMA InitDrive == DriveInit => DriveInv
BY DEF DriveInit, DriveInv, ToldRight, SubqRight, ReadInside, Empty, NothingTold, NotReading

\* Another image, of which nothing was told, while no read is under way.
LEMMA ChangeMediaInv ==
  ASSUME DriveInv, ChangeMedia
  PROVE  DriveInv'
<1>1. /\ ~reading'.active /\ media' \in Disc \cup {Empty} /\ told' = NothingTold
      /\ subq' = subq \/ subq' = NoSubq
         \/ (media' \in Disc /\ media'.lsd # <<>> /\ subq' = [of |-> media', table |-> LsdTable(media'.lsd)])
  BY DEF ChangeMedia, Idle, ReadLibcrypt
<1>2. ToldRight' /\ ReadInside'
  BY <1>1 DEF ToldRight, ReadInside, NothingTold
<1>3. SubqRight'
  <2>1. CASE subq' = subq \/ subq' = NoSubq
    BY <2>1 DEF DriveInv, SubqRight, NoSubq, LsdTable
  <2>2. CASE media' \in Disc /\ media'.lsd # <<>> /\ subq' = [of |-> media', table |-> LsdTable(media'.lsd)]
    <3>1. subq'.of = media' /\ subq'.table = LsdTable(media'.lsd)
      BY <2>2
    <3> QED BY <2>2, <3>1 DEF SubqRight, LsdTable
  <2> QED BY <1>1, <2>1, <2>2
<1> QED BY <1>1, <1>2, <1>3 DEF DriveInv

\* What is said of the image changes nothing else.
LEMMA TellInv ==
  ASSUME DriveInv, UNCHANGED <<media, subq, reading>>, ToldRight'
  PROVE  DriveInv'
BY DEF DriveInv, SubqRight, ReadInside, SubchannelRight, Track

\* The commands that answer.
LEMMA AnswerInv ==
  ASSUME DriveInv,
         GetDeviceSize \/ ReadToc \/ ReadDiscInformation \/ OtherCommand
           \/ \E n \in 0 .. NumTracks + 1 : ReadTrackInformation(n)
  PROVE  DriveInv'
<1>1. UNCHANGED <<media, subq, reading>>
  BY DEF GetDeviceSize, ReadToc, ReadDiscInformation, OtherCommand, ReadTrackInformation, PassOn, Refuse,
     Say, Done
<1>2. ToldRight /\ (media \in Disc \cup {Empty})
  BY DEF DriveInv
<1>3. CASE told' = told
  <2>1. ToldRight'
    BY <1>1, <1>2, <1>3 DEF ToldRight, Is2048, TrackSize, NumTracks
  <2> QED BY <1>1, <2>1, TellInv
<1>4. CASE told' = [told EXCEPT !.size = media.sectors]
  <2>1. ToldRight'
    BY <1>1, <1>2, <1>4 DEF ToldRight, Is2048, TrackSize, NumTracks
  <2> QED BY <1>1, <2>1, TellInv
<1>5. CASE told' = [told EXCEPT !.start = IF Is2048 THEN <<0>> ELSE media.tracks, !.leadout = media.sectors]
  <2>1. ToldRight'
    BY <1>1, <1>2, <1>5 DEF ToldRight, Is2048, TrackSize, NumTracks
  <2> QED BY <1>1, <2>1, TellInv
<1>6. ASSUME NEW n \in 0 .. NumTracks + 1, ReadTrackInformation(n), told' # told
      PROVE  DriveInv'
  <2> DEFINE l == told.length
  <2>1. /\ ScsiImage /\ ~Is2048 /\ n # 0 /\ ~(n > NumTracks) /\ n = Len(l) + 1
        /\ told' = [told EXCEPT !.length = Append(@, TrackSize(n))]
    BY <1>6 DEF ReadTrackInformation, Refuse, Say
  <2>2. media \in Disc
    BY <1>2, <2>1 DEF ScsiImage, RawKinds, Empty
  <2>3. /\ NumTracks = Len(media.tracks) /\ NumTracks \in Nat /\ media.sectors \in Nat
        /\ \A i \in 1 .. NumTracks : media.tracks[i] \in Nat
    <3>1. media.tracks \in Seq(Nat) /\ media.sectors \in Nat
      BY <2>2, DriveAssumption
    <3> QED BY <2>1, <3>1 DEF NumTracks
  <2>4. l \in Seq(Int) /\ Len(l) \in Nat /\ DOMAIN l = 1 .. Len(l)
    BY <1>2 DEF ToldRight
  <2>5. n \in 1 .. NumTracks /\ n <= Len(media.tracks)
    BY <2>1, <2>3, <2>4
  <2>6. TrackSize(n) \in Int
    <3>1. media.tracks[n] \in Nat
      BY <2>3, <2>5
    <3>2. n # NumTracks => media.tracks[n + 1] \in Nat
      BY <2>3, <2>5
    <3> QED BY <2>3, <3>1, <3>2 DEF TrackSize
  <2>7. /\ told'.length = Append(l, TrackSize(n)) /\ DOMAIN told' = DOMAIN told
        /\ told'.size = told.size /\ told'.leadout = told.leadout /\ told'.start = told.start
    BY <1>2, <2>1 DEF ToldRight
  <2>8. \A i : TrackSize(i)' = TrackSize(i)
    BY <1>1 DEF TrackSize, NumTracks, Is2048
  <2>9. told'.length \in Seq(Int) /\ Len(told'.length) <= Len(media.tracks)
    BY <2>1, <2>4, <2>5, <2>6, <2>7
  <2>10. \A i \in DOMAIN told'.length : told'.length[i] = TrackSize(i)
    <3>1. ASSUME NEW i \in DOMAIN told'.length PROVE told'.length[i] = TrackSize(i)
      <4>1. i \in 1 .. n /\ DOMAIN Append(l, TrackSize(n)) = 1 .. n
        BY <2>1, <2>4, <2>6, <2>7
      <4>2. CASE i = n
        BY <2>1, <2>4, <2>6, <2>7, <4>2
      <4>3. CASE i # n
        <5>1. i \in DOMAIN l
          BY <2>1, <2>4, <4>1, <4>3
        <5>2. Append(l, TrackSize(n))[i] = l[i]
          BY <2>4, <2>6, <5>1
        <5> QED BY <1>2, <2>7, <5>1, <5>2 DEF ToldRight
      <4> QED BY <4>2, <4>3
    <3> QED BY <3>1
  <2>11. ToldRight'
    <3>1. told'.length # <<>> => (~Is2048 /\ media \in Disc /\ Len(told.length) <= Len(media.tracks))'
      BY <1>1, <2>1, <2>2, <2>9 DEF Is2048
    <3>2. \A i \in DOMAIN told'.length : told'.length[i] = TrackSize(i)'
      BY <2>8, <2>10
    <3> QED BY <1>1, <1>2, <2>7, <2>9, <3>1, <3>2 DEF ToldRight, Is2048
  <2> QED BY <1>1, <2>11, TellInv
<1>7. \/ told' = told \/ told' = [told EXCEPT !.size = media.sectors]
      \/ told' = [told EXCEPT !.start = IF Is2048 THEN <<0>> ELSE media.tracks, !.leadout = media.sectors]
      \/ \E n \in 0 .. NumTracks + 1 : ReadTrackInformation(n)
  BY DEF GetDeviceSize, ReadToc, ReadDiscInformation, OtherCommand, PassOn, Refuse, Say
<1> QED BY <1>3, <1>4, <1>5, <1>6, <1>7

\* A read begins inside of the image, or passes a sector, or ends.
LEMMA ReadInv ==
  ASSUME DriveInv,
         \/ \E lba \in 0 .. media.sectors - 1, length \in 1 .. MaxLength, user, sub \in BOOLEAN :
              lba + length <= media.sectors /\ ReadCd(lba, length, user, sub)
         \/ FailRead \/ ReadAll \/ ReadSector \/ EndReadCd
  PROVE  DriveInv'
<1>1. UNCHANGED <<media, told, subq>> \/ (UNCHANGED <<media, told, subq>> /\ reading' = reading)
  BY DEF ReadCd, FailRead, ReadAll, ReadSector, EndReadCd, PassOn, Refuse, Done
<1>2. ToldRight' /\ SubqRight' /\ media' \in Disc \cup {Empty}
  BY <1>1 DEF DriveInv, ToldRight, SubqRight, Is2048, TrackSize, NumTracks
<1>3. \A q : SubchannelRight(q)' <=> SubchannelRight(q)
  BY <1>1 DEF SubchannelRight, Track
<1>4. CASE reading' = reading \/ reading' = NotReading
  <2>1. ReadInside'
    BY <1>1, <1>3, <1>4 DEF DriveInv, ReadInside, NotReading
  <2> QED BY <1>2, <2>1 DEF DriveInv
<1>5. ASSUME NEW lba \in 0 .. media.sectors - 1, NEW length \in 1 .. MaxLength,
             NEW user \in BOOLEAN, NEW sub \in BOOLEAN,
             lba + length <= media.sectors, ReadCd(lba, length, user, sub), reading' # reading
      PROVE  ReadInside'
  <2>1. /\ ScsiImage
        /\ \E paged \in BOOLEAN :
             reading' = [active |-> TRUE, lba |-> lba, left |-> length, user |-> user,
                         sub |-> sub, paged |-> paged, q |-> <<>>]
    BY <1>5 DEF ReadCd, PassOn, Refuse, Done
  <2>2. media \in Disc
    BY <2>1 DEF DriveInv, ScsiImage, RawKinds, Empty
  <2>3. media.sectors \in Nat /\ MaxLength \in Nat
    BY <2>2, DriveAssumption
  <2>4. lba \in Nat /\ length \in Nat
    BY <2>3
  <2>5. /\ DOMAIN reading' = {"active", "lba", "left", "user", "sub", "paged", "q"}
        /\ reading'.lba = lba /\ reading'.left = length /\ reading'.q = <<>>
    BY <2>1
  <2> QED BY <1>1, <1>5, <2>2, <2>4, <2>5 DEF ReadInside
<1>6. ASSUME ReadAll PROVE ReadInside'
  <2>1. /\ DOMAIN reading' = DOMAIN reading /\ reading.active /\ reading'.lba = reading.lba
        /\ reading'.left = 0 /\ reading'.q = reading.q
    BY <1>6 DEF ReadAll, DriveInv, ReadInside
  <2>2. media \in Disc /\ media.sectors \in Nat
    BY <2>1, DriveAssumption DEF DriveInv, ReadInside
  <2>3. \A k \in DOMAIN reading.q : SubchannelRight(reading.q[k])
    BY <2>1 DEF DriveInv, ReadInside
  <2>4. \A k \in DOMAIN reading'.q : SubchannelRight(reading.q[k])'
    BY <1>1, <2>1, <2>3 DEF SubchannelRight, Track
  <2>5. /\ DOMAIN reading' = {"active", "lba", "left", "user", "sub", "paged", "q"}
        /\ reading'.q \in Seq(Entry) /\ reading'.lba \in Nat /\ reading.left \in Nat
        /\ reading'.lba + reading.left <= media.sectors
    BY <2>1 DEF DriveInv, ReadInside
  <2>6. reading'.left \in Nat /\ reading'.lba + reading'.left <= media.sectors
    BY <2>1, <2>2, <2>5
  <2>7. media' \in Disc /\ media'.sectors = media.sectors
    BY <1>1, <2>2
  <2> QED BY <2>4, <2>5, <2>6, <2>7 DEF ReadInside
<1>7. ASSUME ReadSector PROVE ReadInside'
  <2> DEFINE lba == reading.lba
  <2>1. /\ reading.active /\ DOMAIN reading = {"active", "lba", "left", "user", "sub", "paged", "q"}
        /\ media \in Disc /\ lba \in Nat /\ reading.left \in Nat /\ reading.left > 0
        /\ lba + reading.left <= media.sectors /\ reading.q \in Seq(Entry)
        /\ \A k \in DOMAIN reading.q : SubchannelRight(reading.q[k])
    BY <1>7 DEF ReadSector, DriveInv, ReadInside
  <2>2. media.sectors \in Nat /\ lba < media.sectors
    <3>1. media.sectors \in Nat
      BY <2>1, DriveAssumption
    <3> QED BY <2>1, <3>1
  <2>3. PICK e \in IF subq.table # <<>> /\ FoundFrom(lba) # {}
                   THEN {[of |-> "lsd", lba |-> lba, n |-> n] : n \in FoundFrom(lba)}
                   ELSE {[of |-> "track", lba |-> lba, n |-> TrackOfSector(lba)]} :
          reading' = [reading EXCEPT !.lba = @ + 1, !.left = @ - 1, !.q = Append(@, e)]
    BY <1>7 DEF ReadSector
  <2>4. e \in Entry /\ SubchannelRight(e)
    <3>1. CASE subq = NoSubq
      <4>1. subq.table = <<>> /\ DOMAIN subq.of.lsd = {}
        BY <3>1 DEF NoSubq, Empty
      <4>2. e = [of |-> "track", lba |-> lba, n |-> TrackOfSector(lba)]
        BY <2>3, <4>1
      <4> QED BY <2>1, <2>2, <4>1, <4>2, TrackFound DEF Entry, SubchannelRight
    <3>2. CASE subq # NoSubq
      <4>1. subq.of \in Disc /\ subq.of.lsd # <<>> /\ subq.table = LsdTable(subq.of.lsd)
        BY <3>2 DEF DriveInv, SubqRight
      <4>2. /\ \A n \in FoundFrom(lba) : subq.table[n] = lba /\ n \in Nat
            /\ FoundFrom(lba) # {} <=> \E i \in DOMAIN subq.of.lsd : subq.of.lsd[i] = lba
        BY <2>1, <4>1, SearchFinds
      <4>3. subq.table # <<>>
        <5>1. 1 \in 1 .. 2 * LcHalf
          BY DriveAssumption
        <5>2. DOMAIN subq.table = 1 .. 2 * LcHalf
          BY <4>1 DEF LsdTable
        <5>3. DOMAIN <<>> = {}
          OBVIOUS
        <5> QED BY <5>1, <5>2, <5>3
      <4>4. CASE FoundFrom(lba) # {}
        <5>1. PICK n \in FoundFrom(lba) : e = [of |-> "lsd", lba |-> lba, n |-> n]
          BY <2>3, <4>3, <4>4
        <5> QED BY <2>1, <4>2, <4>4, <5>1 DEF Entry, SubchannelRight
      <4>5. CASE FoundFrom(lba) = {}
        <5>1. e = [of |-> "track", lba |-> lba, n |-> TrackOfSector(lba)]
          BY <2>3, <4>5
        <5> QED BY <2>1, <2>2, <4>2, <4>5, <5>1, TrackFound DEF Entry, SubchannelRight
      <4> QED BY <4>4, <4>5
    <3> QED BY <3>1, <3>2
  <2>5. /\ DOMAIN reading' = DOMAIN reading /\ reading'.lba = lba + 1
        /\ reading'.left = reading.left - 1 /\ reading'.q = Append(reading.q, e)
    BY <2>1, <2>3
  <2>6. /\ reading'.q \in Seq(Entry)
        /\ \A k \in DOMAIN reading'.q : reading'.q[k] = e \/ \E i \in DOMAIN reading.q : reading'.q[k] = reading.q[i]
    BY <2>1, <2>4, <2>5
  <2>7. \A k \in DOMAIN reading'.q : SubchannelRight(reading'.q[k])
    BY <2>1, <2>4, <2>6
  <2>8. lba + 1 \in Nat /\ reading.left - 1 \in Nat /\ (lba + 1) + (reading.left - 1) <= media.sectors
    BY <2>1, <2>2
  <2>9. \A k \in DOMAIN reading'.q : SubchannelRight(reading.q[k])'
    BY <1>1, <2>7 DEF SubchannelRight, Track
  <2>10. /\ DOMAIN reading' = {"active", "lba", "left", "user", "sub", "paged", "q"}
         /\ media' \in Disc /\ media'.sectors = media.sectors
    BY <1>1, <2>1, <2>5
  <2>11. reading'.lba \in Nat /\ reading'.left \in Nat /\ reading'.lba + reading'.left <= media.sectors
    BY <2>5, <2>8
  <2> QED BY <2>6, <2>9, <2>10, <2>11 DEF ReadInside
<1>8. DriveInv' \/ ReadInside'
  <2>1. CASE \E lba \in 0 .. media.sectors - 1, length \in 1 .. MaxLength, user, sub \in BOOLEAN :
              lba + length <= media.sectors /\ ReadCd(lba, length, user, sub)
    BY <1>4, <1>5, <2>1
  <2>2. CASE FailRead \/ EndReadCd
    BY <1>4, <2>2 DEF FailRead, EndReadCd
  <2> QED BY <1>6, <1>7, <2>1, <2>2
<1> QED BY <1>2, <1>8 DEF DriveInv

\* What the commands of the drive tell of an image, and the sub-channel that is served
\* with a sector, are those of the image: for every image, and any LibCrypt file.
THEOREM AnswersFitImage == DriveSpec => []AnswersDescribeImage
<1>1. DriveInv /\ [DriveNext]_driveVars => DriveInv'
  <2> SUFFICES ASSUME DriveInv, [DriveNext]_driveVars PROVE DriveInv'
    OBVIOUS
  <2>1. CASE UNCHANGED driveVars
    BY <2>1 DEF driveVars, DriveInv, ToldRight, SubqRight, ReadInside, SubchannelRight, Is2048, TrackSize,
       NumTracks, Track
  <2> QED BY <2>1, ChangeMediaInv, AnswerInv, ReadInv DEF DriveNext
<1>2. DriveInv => AnswersDescribeImage
  <2>1. DriveInv => SubchannelOfSector
    BY DEF DriveInv, ReadInside, SubchannelRight, SubchannelOfSector
  <2> QED BY <2>1, EndsOfTracks DEF AnswersDescribeImage
<1> QED BY <1>1, <1>2, InitDrive, PTL DEF DriveSpec

-----------------------------------------------------------------------------
(* LicenceFiles.  A thread that met no other is the only one that makes a   *)
(* licence, and what it makes it of is of the path that is open, from the  *)
(* step that sets it to the one that writes the file.                      *)

LicenceTypeOK ==
  /\ rpc \in [OpenThread -> {"idle", "look", "bin", "file", "act", "registry", "blind",
                             "create", "read", "write", "end"}]
  /\ wanted \in [OpenThread -> [user : User, content : Content] \cup {NoPath}]
  /\ \A t \in OpenThread : rpc[t] # "idle" => wanted[t] \in [user : User, content : Content]
  /\ stored \in [Content -> {"none", "bin", "file", "cut"}]
  /\ DOMAIN actdat = User
  /\ DOMAIN buffer = {"content", "user", "act"} /\ DOMAIN cached = {"id", "rap"}
  /\ met \subseteq OpenThread

\* Who makes a licence while another does has met it.
AllMet == \A t, u \in Busy : t # u => t \in met

\* A RAP, cached or in a licence, is that of a content, or there is a reason why not.
RapFor(rap, c, why) ==
  \/ rap = RapOf(c)
  \/ "launcher" \in why /\ rap = "launcher"
  \/ c \notin Launcher /\ why \cap {"cut", "met"} # {}

\* The cached RAP is that of the cached content, or it is in doubt.
CachedOwn ==
  doubt \cap {"cut", "met"} = {} /\ cached.id \in Content =>
    cached.rap = cached.id \/ ("launcher" \in doubt /\ cached.rap = "launcher")

\* An act.dat bears the account of its user, unless it tells why it may not.
ActOwn ==
  \A u \in User : actdat[u] # NoAct /\ actdat[u].kind \notin {"blind", "met"} => actdat[u].account = u

Making == {"act", "registry", "blind", "create", "read", "write"}
\* What a thread has so far is of the path it opens.
OwnParts(t) ==
  /\ buffer.content = wanted[t].content
  /\ rpc[t] \in {"bin", "file"} => buffer.content \notin Launcher
  /\ rpc[t] \in Making => RapFor(cached.rap, buffer.content, doubt)
  /\ rpc[t] = "create" => account = wanted[t].user
  /\ rpc[t] = "write" =>
       /\ buffer.user = wanted[t].user
       /\ buffer.act.kind \notin {"blind", "met"} => buffer.act.account = buffer.user
PartsOwn == \A t \in Busy : t \notin met => OwnParts(t)

LicenceInv == LicenceTypeOK /\ AllMet /\ CachedOwn /\ ActOwn /\ PartsOwn /\ RifOfItsContent

\* Nothing is made yet.
LEMMA InitLicence == LicenceInit => LicenceInv
<1> SUFFICES ASSUME LicenceInit PROVE LicenceInv
  OBVIOUS
<1>1. LicenceTypeOK /\ ActOwn
  BY DEF LicenceInit, LicenceTypeOK, ActOwn, Act, NoAct, NoBuffer
<1>2. CachedOwn
  BY LicenceAssumption DEF LicenceInit, CachedOwn
<1>3. AllMet /\ PartsOwn /\ RifOfItsContent
  BY DEF LicenceInit, AllMet, PartsOwn, Busy, RifOfItsContent
<1> QED BY <1>1, <1>2, <1>3 DEF LicenceInv

\* Steps that are not of a thread.
LEMMA StoreInv ==
  ASSUME LicenceInv, StoreRap \/ RestoreActDat
  PROVE  LicenceInv'
<1>1. UNCHANGED <<account, rif, cached, buffer, rifMutex, rpc, wanted, met, doubt>>
  BY DEF StoreRap, RestoreActDat
<1>2. LicenceTypeOK' /\ ActOwn'
  <2>1. CASE StoreRap
    BY <1>1, <2>1 DEF StoreRap, LicenceInv, LicenceTypeOK, ActOwn
  <2>2. CASE RestoreActDat
    <3>1. PICK u \in User : actdat' = [actdat EXCEPT ![u] = Act("own", u)]
      BY <2>2, LicenceAssumption DEF RestoreActDat, LicenceInv, LicenceTypeOK, NoAct
    <3> QED BY <1>1, <2>2, <3>1 DEF RestoreActDat, LicenceInv, LicenceTypeOK, ActOwn, Act
  <2> QED BY <2>1, <2>2
<1>3. AllMet' /\ CachedOwn' /\ PartsOwn' /\ RifOfItsContent'
  BY <1>1 DEF LicenceInv, AllMet, CachedOwn, PartsOwn, OwnParts, Busy, RifOfItsContent
<1> QED BY <1>2, <1>3 DEF LicenceInv

\* A step of a thread that makes a licence leaves only its own parts to look at: who
\* makes one besides has met it.
LEMMA OthersMet ==
  ASSUME LicenceInv, NEW t \in OpenThread, NEW here, rpc[t] # "idle",
         rpc' = [rpc EXCEPT ![t] = here], met' = met,
         t \notin met => OwnParts(t)'
  PROVE  AllMet' /\ PartsOwn'
<1> USE DEF LicenceInv, LicenceTypeOK, Busy
<1>1. Busy' \subseteq Busy /\ t \in Busy
  OBVIOUS
<1>2. AllMet'
  BY <1>1 DEF AllMet
<1>3. ASSUME NEW u \in Busy', u \notin met' PROVE OwnParts(u)'
  <2>1. u = t
    BY <1>1, <1>3 DEF AllMet
  <2> QED BY <1>3, <2>1
<1> QED BY <1>2, <1>3 DEF PartsOwn

\* The path is opened, and the RAP looked for.
LEMMA OpenRifInv ==
  ASSUME LicenceInv, NEW t \in OpenThread, OpenRif(t)
  PROVE  LicenceInv'
<1> USE DEF LicenceInv, LicenceTypeOK
<1>1. PICK user \in User, c \in Content :
        /\ wanted' = [wanted EXCEPT ![t] = [user |-> user, content |-> c]]
        /\ buffer' = [IF Busy = {} THEN NoBuffer ELSE buffer EXCEPT !.content = c]
  BY DEF OpenRif
<1>2. /\ rpc[t] = "idle" /\ rpc' = [rpc EXCEPT ![t] = "look"]
      /\ met' = (IF Busy = {} THEN {} ELSE Busy \cup {t})
      /\ doubt' = (IF Busy = {} THEN doubt ELSE doubt \cup {"met"})
      /\ UNCHANGED <<stored, actdat, account, rif, cached>>
  BY DEF OpenRif, GoRif
<1>3. Busy' = Busy \cup {t} /\ Busy \subseteq OpenThread
  BY <1>2 DEF Busy
<1>4. LicenceTypeOK'
  BY <1>1, <1>2, <1>3 DEF NoBuffer
<1>5. AllMet' /\ CachedOwn' /\ ActOwn' /\ RifOfItsContent'
  BY <1>2, <1>3 DEF AllMet, CachedOwn, ActOwn, RifOfItsContent
<1>6. ASSUME NEW u \in Busy', u \notin met' PROVE OwnParts(u)'
  <2>1. u = t /\ Busy = {}
    BY <1>2, <1>3, <1>6
  <2> QED BY <1>1, <1>2, <2>1 DEF OwnParts, NoBuffer, Making
<1> QED BY <1>4, <1>5, <1>6 DEF PartsOwn

\* A RAP that is read is that of the content, unless that is in doubt.
LEMMA RapRead ==
  ASSUME LicenceInv, NEW t \in OpenThread, NEW cut \in BOOLEAN, rpc[t] \in {"bin", "file"},
         cached'.id = buffer.content, cut \/ cached'.rap = buffer.content,
         doubt' = DoubtOf(t, cut)
  PROVE  /\ CachedOwn'
         /\ t \notin met => RapFor(cached'.rap, buffer.content, doubt')
<1>1. t \in met \/ buffer.content \notin Launcher
  BY DEF LicenceInv, PartsOwn, OwnParts, Busy
<1> QED BY <1>1 DEF CachedOwn, DoubtOf, RapFor, RapOf

LEMMA LookInv ==
  ASSUME LicenceInv, NEW t \in OpenThread,
         LookLauncher(t) \/ LookCache(t) \/ ReadRapBin(t) \/ ReadRapFile(t)
  PROVE  LicenceInv'
<1> USE DEF LicenceInv, LicenceTypeOK, GoRif
<1>1. /\ UNCHANGED <<stored, actdat, account, rif, buffer, wanted, met>>
      /\ ActOwn' /\ RifOfItsContent' /\ rpc[t] # "idle" /\ t \in Busy
  BY DEF LookLauncher, LookCache, ReadRapBin, ReadRapFile, ActOwn, RifOfItsContent, Busy
<1>2. t \notin met => OwnParts(t)
  BY <1>1 DEF PartsOwn
<1>3. CASE LookLauncher(t)
  <2>1. /\ rpc' = [rpc EXCEPT ![t] = "act"] /\ buffer.content \in Launcher
        /\ cached' = [cached EXCEPT !.rap = "launcher"] /\ doubt' = doubt \cup {"launcher"}
    BY <1>3 DEF LookLauncher
  <2>2. LicenceTypeOK' /\ CachedOwn'
    BY <1>1, <2>1 DEF CachedOwn
  <2>3. t \notin met => OwnParts(t)'
    BY <1>1, <1>2, <2>1 DEF OwnParts, RapFor, RapOf
  <2> QED BY <1>1, <2>1, <2>2, <2>3, OthersMet
<1>4. CASE LookCache(t)
  <2>1. /\ rpc[t] = "look" /\ cached' = cached /\ doubt' = doubt /\ buffer.content \notin Launcher
        /\ \/ rpc' = [rpc EXCEPT ![t] = "act"] /\ cached.id = buffer.content
           \/ rpc' = [rpc EXCEPT ![t] = "bin"]
    BY <1>4 DEF LookCache
  <2>2. LicenceTypeOK' /\ CachedOwn'
    BY <1>1, <2>1 DEF CachedOwn
  <2>3. t \notin met => OwnParts(t)'
    <3> SUFFICES ASSUME t \notin met PROVE OwnParts(t)'
      OBVIOUS
    <3>1. buffer.content \in Content
      BY <1>1, <1>2 DEF OwnParts
    <3>2. cached.id = buffer.content => RapFor(cached.rap, buffer.content, doubt)
      BY <2>1, <3>1 DEF CachedOwn, RapFor, RapOf
    <3> QED BY <1>1, <1>2, <2>1, <3>2 DEF OwnParts, Making, RapFor
  <2> QED BY <1>1, <2>1, <2>2, <2>3, OthersMet
<1>5. ASSUME ReadRapBin(t) \/ ReadRapFile(t),
             NEW here \in {"file", "end"}, rpc' = [rpc EXCEPT ![t] = here],
             UNCHANGED <<cached, doubt>>, rpc[t] \in {"bin", "file"}
      PROVE  LicenceInv'
  <2>1. LicenceTypeOK' /\ CachedOwn'
    BY <1>1, <1>5 DEF CachedOwn
  <2>2. t \notin met => OwnParts(t)'
    BY <1>1, <1>2, <1>5 DEF OwnParts, Making
  <2> QED BY <1>1, <1>5, <2>1, <2>2, OthersMet
<1>6. ASSUME ReadRapBin(t) \/ ReadRapFile(t), rpc[t] \in {"bin", "file"},
             rpc' = [rpc EXCEPT ![t] = "act"], NEW cut \in BOOLEAN, DOMAIN cached' = {"id", "rap"},
             cached'.id = buffer.content, cut \/ cached'.rap = buffer.content,
             doubt' = DoubtOf(t, cut)
      PROVE  LicenceInv'
  <2>1. LicenceTypeOK'
    BY <1>1, <1>6
  <2>2. CachedOwn' /\ (t \notin met => RapFor(cached'.rap, buffer.content, doubt'))
    BY <1>6, RapRead
  <2>3. t \notin met => OwnParts(t)'
    BY <1>1, <1>2, <1>6, <2>2 DEF OwnParts, RapFor
  <2> QED BY <1>1, <1>6, <2>1, <2>2, <2>3, OthersMet
<1>7. CASE ReadRapBin(t)
  <2>1. CASE stored[buffer.content] = "bin"
    <3>1. /\ rpc[t] = "bin" /\ rpc' = [rpc EXCEPT ![t] = "act"] /\ doubt' = DoubtOf(t, FALSE)
          /\ cached' = [id |-> buffer.content, rap |-> buffer.content]
      BY <1>7, <2>1 DEF ReadRapBin
    <3> QED BY <1>6, <1>7, <3>1
  <2>2. CASE stored[buffer.content] # "bin"
    <3>1. rpc[t] = "bin" /\ rpc' = [rpc EXCEPT ![t] = "file"] /\ UNCHANGED <<cached, doubt>>
      BY <1>7, <2>2 DEF ReadRapBin
    <3> QED BY <1>5, <1>7, <3>1
  <2> QED BY <2>1, <2>2
<1>8. CASE ReadRapFile(t)
  <2>1. CASE stored[buffer.content] = "file"
    <3>1. /\ rpc[t] = "file" /\ rpc' = [rpc EXCEPT ![t] = "act"] /\ doubt' = DoubtOf(t, FALSE)
          /\ cached' = [id |-> buffer.content, rap |-> buffer.content]
      BY <1>8, <2>1 DEF ReadRapFile
    <3> QED BY <1>6, <1>8, <3>1
  <2>2. CASE stored[buffer.content] = "cut"
    <3>1. /\ rpc[t] = "file" /\ rpc' = [rpc EXCEPT ![t] = "act"] /\ doubt' = DoubtOf(t, TRUE)
          /\ cached'.id = buffer.content /\ DOMAIN cached' = {"id", "rap"}
      BY <1>8, <2>2 DEF ReadRapFile
    <3> QED BY <1>6, <1>8, <3>1
  <2>3. CASE stored[buffer.content] \notin {"file", "cut"}
    <3>1. rpc[t] = "file" /\ rpc' = [rpc EXCEPT ![t] = "end"] /\ UNCHANGED <<cached, doubt>>
      BY <1>8, <2>3 DEF ReadRapFile
    <3> QED BY <1>5, <1>8, <3>1
  <2> QED BY <2>1, <2>2, <2>3
<1> QED BY <1>3, <1>4, <1>7, <1>8

\* The activation of the user, and the licence.
LEMMA MakeInv ==
  ASSUME LicenceInv, NEW t \in OpenThread,
         CheckActDat(t) \/ ReadRegistry(t) \/ CreateActDat(t) \/ ReadActDat(t) \/ WriteRif(t)
  PROVE  LicenceInv'
<1> USE DEF LicenceInv, LicenceTypeOK, GoRif
<1>1. /\ UNCHANGED <<stored, cached, doubt, wanted, met>> /\ CachedOwn'
      /\ rpc[t] \in Making /\ rpc[t] # "idle" /\ t \in Busy
      /\ buffer'.content = buffer.content /\ wanted[t].user \in User
  BY DEF CheckActDat, ReadRegistry, CreateActDat, ReadActDat, WriteRif, CachedOwn, Busy, Making
<1>2. t \notin met => OwnParts(t) /\ RapFor(cached.rap, buffer.content, doubt)
  BY <1>1 DEF PartsOwn, OwnParts
<1>3. CASE CheckActDat(t)
  <2>1. PICK here \in {"read", "end", "registry"} : rpc' = [rpc EXCEPT ![t] = here]
    BY <1>3 DEF CheckActDat
  <2>2. UNCHANGED <<actdat, account, rif, buffer>>
    BY <1>3 DEF CheckActDat
  <2>3. LicenceTypeOK' /\ ActOwn' /\ RifOfItsContent'
    BY <1>1, <2>1, <2>2 DEF ActOwn, RifOfItsContent
  <2>4. t \notin met => OwnParts(t)'
    BY <1>1, <1>2, <2>1, <2>2 DEF OwnParts, RapFor
  <2> QED BY <1>1, <2>1, <2>3, <2>4, OthersMet
<1>4. CASE ReadRegistry(t)
  <2>1. PICK here \in {"read", "blind", "create"} :
          rpc' = [rpc EXCEPT ![t] = here] /\ (here = "create" => account' = wanted[t].user)
    BY <1>4 DEF ReadRegistry
  <2>2. UNCHANGED <<actdat, rif, buffer>>
    BY <1>4 DEF ReadRegistry
  <2>3. LicenceTypeOK' /\ ActOwn' /\ RifOfItsContent'
    BY <1>1, <2>1, <2>2 DEF ActOwn, RifOfItsContent
  <2>4. t \notin met => OwnParts(t)'
    BY <1>1, <1>2, <2>1, <2>2 DEF OwnParts, RapFor
  <2> QED BY <1>1, <2>1, <2>3, <2>4, OthersMet
<1>5. CASE CreateActDat(t)
  <2> DEFINE u == wanted[t].user
             kind == IF rpc[t] = "blind" THEN "blind" ELSE IF t \in met THEN "met" ELSE "fake"
  <2>1. /\ rpc' = [rpc EXCEPT ![t] = "read"] /\ UNCHANGED <<account, rif, buffer>>
        /\ actdat' = actdat \/ actdat' = [actdat EXCEPT ![u] = Act(kind, account)]
    BY <1>5 DEF CreateActDat
  <2>2. kind = "fake" => account = u
    BY <1>2, <1>5 DEF CreateActDat, OwnParts
  <2>3. ActOwn'
    BY <1>1, <2>1, <2>2 DEF ActOwn, Act
  <2>4. LicenceTypeOK' /\ RifOfItsContent'
    BY <1>1, <2>1 DEF RifOfItsContent
  <2>5. t \notin met => OwnParts(t)'
    BY <1>1, <1>2, <2>1 DEF OwnParts, RapFor
  <2> QED BY <1>1, <2>1, <2>3, <2>4, <2>5, OthersMet
<1>6. CASE ReadActDat(t)
  <2> DEFINE u == wanted[t].user
  <2>1. UNCHANGED <<actdat, account, rif>>
    BY <1>6 DEF ReadActDat
  <2>2. ActOwn' /\ RifOfItsContent'
    BY <2>1 DEF ActOwn, RifOfItsContent
  <2>3. CASE actdat[u] = NoAct
    <3>1. rpc' = [rpc EXCEPT ![t] = "end"] /\ buffer' = buffer
      BY <1>6, <2>3 DEF ReadActDat
    <3>2. t \notin met => OwnParts(t)'
      BY <1>1, <1>2, <3>1 DEF OwnParts, RapFor, Making
    <3> QED BY <1>1, <2>1, <2>2, <3>1, <3>2, OthersMet
  <2>4. CASE actdat[u] # NoAct
    <3>1. /\ rpc' = [rpc EXCEPT ![t] = "write"]
          /\ buffer'.user = u /\ buffer'.act = actdat[u]
          /\ DOMAIN buffer' = {"content", "user", "act"}
      BY <1>6, <2>4 DEF ReadActDat
    <3>2. buffer'.act.kind \notin {"blind", "met"} => buffer'.act.account = u
      BY <1>1, <2>4, <3>1 DEF ActOwn
    <3>3. t \notin met => OwnParts(t)'
      BY <1>1, <1>2, <3>1, <3>2 DEF OwnParts, RapFor
    <3> QED BY <1>1, <2>1, <2>2, <3>1, <3>3, OthersMet
  <2> QED BY <2>3, <2>4
<1>7. CASE WriteRif(t)
  <2> DEFINE licence == [path |-> wanted[t], content |-> buffer.content, rap |-> cached.rap,
                      user |-> buffer.user, act |-> buffer.act,
                      met |-> t \in met, doubt |-> doubt]
  <2>1. /\ rpc[t] = "write" /\ rpc' = [rpc EXCEPT ![t] = "end"]
        /\ UNCHANGED <<actdat, account, buffer>> /\ (rif' = rif \/ rif' = licence)
    BY <1>7 DEF WriteRif
  <2>2. t \notin met => RapFor(licence.rap, licence.path.content, licence.doubt)
    BY <1>2 DEF OwnParts
  <2>3. RifOfItsContent'
    <3>1. CASE rif' = rif
      BY <3>1 DEF RifOfItsContent
    <3>2. CASE rif' = licence
      BY <1>2, <2>1, <2>2, <3>2 DEF RifOfItsContent, OwnParts, RapFor
    <3> QED BY <2>1, <3>1, <3>2
  <2>4. LicenceTypeOK' /\ ActOwn'
    BY <1>1, <2>1 DEF ActOwn
  <2>5. t \notin met => OwnParts(t)'
    BY <1>1, <1>2, <2>1 DEF OwnParts, RapFor, Making
  <2> QED BY <1>1, <2>1, <2>3, <2>4, <2>5, OthersMet
<1> QED BY <1>3, <1>4, <1>5, <1>6, <1>7

LEMMA EndRifInv ==
  ASSUME LicenceInv, NEW t \in OpenThread, EndRif(t)
  PROVE  LicenceInv'
<1> USE DEF LicenceInv, LicenceTypeOK
<1>1. /\ rpc' = [rpc EXCEPT ![t] = "idle"] /\ wanted' = [wanted EXCEPT ![t] = NoPath]
      /\ met' = met \ {t} /\ rif' = NoRif
      /\ UNCHANGED <<stored, actdat, account, cached, buffer, doubt>>
  BY DEF EndRif, GoRif
<1>2. LicenceTypeOK' /\ CachedOwn' /\ ActOwn' /\ RifOfItsContent'
  BY <1>1 DEF CachedOwn, ActOwn, RifOfItsContent
<1>3. Busy' = Busy \ {t}
  BY <1>1 DEF Busy
<1>4. AllMet'
  BY <1>1, <1>3 DEF AllMet
<1>5. ASSUME NEW u \in Busy', u \notin met' PROVE OwnParts(u)'
  <2>1. u \in Busy /\ u # t /\ u \notin met /\ u \in OpenThread
    BY <1>1, <1>3, <1>5 DEF Busy
  <2>2. OwnParts(u)
    BY <2>1 DEF PartsOwn
  <2> QED BY <1>1, <2>1, <2>2 DEF OwnParts, RapFor
<1> QED BY <1>2, <1>4, <1>5 DEF PartsOwn

\* A licence that is licence while no other is, is of the content and the user of its path,
\* for all contents, users, activations and threads: its RAP is another's only when the
\* cached one is of a cut file, of opens that met, or of a launcher.
THEOREM LicencesOwn == LicenceSpec => []RifOfItsContent
<1>1. LicenceInv /\ [LicenceNext]_licenceVars => LicenceInv'
  <2> SUFFICES ASSUME LicenceInv, [LicenceNext]_licenceVars PROVE LicenceInv'
    OBVIOUS
  <2>1. CASE UNCHANGED licenceVars
    BY <2>1 DEF licenceVars, LicenceInv, LicenceTypeOK, AllMet, CachedOwn, ActOwn, PartsOwn, OwnParts,
       Busy, RifOfItsContent
  <2> QED BY <2>1, StoreInv, OpenRifInv, LookInv, MakeInv, EndRifInv DEF LicenceNext
<1>2. LicenceInv => RifOfItsContent
  BY DEF LicenceInv
<1> QED BY <1>1, <1>2, InitLicence, PTL DEF LicenceSpec

-----------------------------------------------------------------------------
(* RifKey.  The last loop of a round is a subtraction with borrows, which  *)
(* the addition with the same carries undoes.                              *)

\* Of a sum of two bytes and a carry: its digit and its carry.
LEMMA DigitAndCarry ==
  ASSUME NEW B \in Nat \ {0}, NEW d \in 0 .. B - 1, NEW c \in {0, 1}
  PROVE  (d + B * c) % B = d /\ (d + B * c) \div B = c
<1>1. CASE c = 0
  <2>1. d + B * c = d
    BY <1>1
  <2>2. d % B = d /\ d \div B = 0
    OBVIOUS
  <2> QED BY <1>1, <2>1, <2>2
<1>2. CASE c = 1
  <2>1. d + B * c = d + B
    BY <1>2
  <2>2. (d + B) % B = d /\ (d + B) \div B = 1
    OBVIOUS
  <2> QED BY <1>2, <2>1, <2>2
<1> QED BY <1>1, <1>2

\* A byte less a byte and a borrow: what is left, and the next borrow.
LessBorrow(k, b) == (k + Base - b) % Base
LessByte(k, e, b) == (LessBorrow(k, b) + Base - e) % Base
NextBorrow(k, e, b) ==
  IF b # 1 \/ LessBorrow(k, b) # Base - 1 THEN IF LessBorrow(k, b) < e THEN 1 ELSE 0 ELSE b

\* A byte less a byte and a borrow: the digit and the borrow it leaves.
LEMMA DigitAndBorrow ==
  ASSUME NEW k \in Byte, NEW e \in Byte, NEW b \in {0, 1}
  PROVE  /\ LessByte(k, e, b) \in Byte /\ NextBorrow(k, e, b) \in {0, 1}
         /\ LessByte(k, e, b) + e + b = k + Base * NextBorrow(k, e, b)
<1> DEFINE B == Base
           kc == LessBorrow(k, b)
           r == LessByte(k, e, b)
           o == NextBorrow(k, e, b)
<1>0. /\ B \in Nat \ {0, 1} /\ k \in 0 .. B - 1 /\ e \in 0 .. B - 1
      /\ kc = (k + B - b) % B /\ r = (kc + B - e) % B
      /\ o = IF b # 1 \/ kc # B - 1 THEN IF kc < e THEN 1 ELSE 0 ELSE b
  BY RifKeyAssumption DEF Byte, LessBorrow, LessByte, NextBorrow
<1> HIDE DEF B, kc, r, o
<1>1. kc = IF k < b THEN B - 1 ELSE k - b
  <2>1. CASE k < b
    <3>1. k + B - b = (B - 1) + B * 0 /\ B - 1 \in 0 .. B - 1
      BY <1>0, <2>1
    <3> QED BY <1>0, <2>1, <3>1, DigitAndCarry
  <2>2. CASE ~(k < b)
    <3>1. k + B - b = (k - b) + B * 1 /\ k - b \in 0 .. B - 1
      BY <1>0, <2>2
    <3> QED BY <1>0, <2>2, <3>1, DigitAndCarry
  <2> QED BY <2>1, <2>2
<1>2. kc \in 0 .. B - 1
  BY <1>0, <1>1
<1>3. r = IF kc < e THEN kc - e + B ELSE kc - e
  <2>1. CASE kc < e
    <3>1. kc + B - e = (kc - e + B) + B * 0 /\ kc - e + B \in 0 .. B - 1
      BY <1>0, <1>2, <2>1
    <3> QED BY <1>0, <2>1, <3>1, DigitAndCarry
  <2>2. CASE ~(kc < e)
    <3>1. kc + B - e = (kc - e) + B * 1 /\ kc - e \in 0 .. B - 1
      BY <1>0, <1>2, <2>2
    <3> QED BY <1>0, <2>2, <3>1, DigitAndCarry
  <2> QED BY <2>1, <2>2
<1>4. o \in {0, 1} /\ B * o = IF o = 1 THEN B ELSE 0
  <2>1. o \in {0, 1}
    BY <1>0
  <2> QED BY <1>0, <2>1
<1>5. r \in 0 .. B - 1 /\ o \in {0, 1} /\ r + e + b = k + B * o
  BY <1>0, <1>1, <1>2, <1>3, <1>4
<1> QED BY <1>5 DEF B, r, o, Byte

Started == digit # -1 \/ round > 0
Top == IF digit = -1 THEN KeySize ELSE digit

\* The borrows of the bytes below a place: each byte that is left, with what was taken
\* from it and from the byte before, is the byte there was and what it borrowed.
Borrows(c, n) ==
  /\ c \in [0 .. KeySize -> {0, 1}] /\ c[0] = 0
  /\ \A i \in Place : i < n =>
       LET p == RapPbox[i]
       IN  key[p] + e2[p] + c[i] = before.loop[p] + Base * c[i + 1]

RifKeyType ==
  /\ key \in Keys /\ e2 \in Keys /\ before.round \in Keys /\ before.loop \in Keys
  /\ before = [round |-> before.round, loop |-> before.loop]
  /\ round \in Nat /\ digit \in -1 .. KeySize /\ borrow \in {0, 1}

SubtractionGoes ==
  Started =>
    /\ before.loop = Mixed(before.round)
    /\ \E c \in [0 .. KeySize -> {0, 1}] : Borrows(c, Top) /\ (digit # -1 => c[digit] = borrow)
    /\ digit # -1 => \A i \in Place : i >= digit => key[RapPbox[i]] = before.loop[RapPbox[i]]

RifKeyInv == RifKeyType /\ SubtractionGoes

\* The permutation and its inverse.
LEMMA TurnOfPlace ==
  /\ \A p \in Place : Turn(p) \in Place /\ RapPbox[Turn(p)] = p
  /\ \A i \in Place : RapPbox[i] \in Place /\ Turn(RapPbox[i]) = i
<1>1. /\ RapPbox \in [Place -> Place]
      /\ \A i, j \in Place : RapPbox[i] = RapPbox[j] => i = j
      /\ \A p \in Place : \E i \in Place : RapPbox[i] = p
  BY RifKeyAssumption
<1>2. ASSUME NEW p \in Place PROVE Turn(p) \in Place /\ RapPbox[Turn(p)] = p
  <2>1. \E i \in Place : RapPbox[i] = p
    BY <1>1
  <2> QED BY <2>1 DEF Turn
<1>3. ASSUME NEW i \in Place PROVE RapPbox[i] \in Place /\ Turn(RapPbox[i]) = i
  <2>1. RapPbox[i] \in Place
    BY <1>1
  <2>2. Turn(RapPbox[i]) \in Place /\ RapPbox[Turn(RapPbox[i])] = RapPbox[i]
    BY <1>2, <2>1
  <2> QED BY <1>1, <2>1, <2>2
<1> QED BY <1>2, <1>3

\* The exclusive or of bytes is a byte, and undoes itself.
LEMMA XorOfBytes ==
  \A a, b \in Byte : Xor[a][b] \in Byte /\ Xor[Xor[a][b]][b] = a
<1>1. Xor \in [Byte -> [Byte -> Byte]] /\ \A a, b \in Byte : Xor[Xor[a][b]][b] = a
  BY RifKeyAssumption
<1> QED BY <1>1

\* What the first two loops make of a key is a key.
LEMMA MixedIsKey ==
  ASSUME NEW k \in Keys
  PROVE  Masked(k) \in Keys /\ Mixed(k) \in Keys
<1>1. Masked(k) \in Keys
  <2>1. RapE1 \in Keys
    BY RifKeyAssumption
  <2> QED BY <2>1, XorOfBytes DEF Masked, Keys
<1>2. ASSUME NEW p \in Place
      PROVE  Mixed(k)[p] \in Byte
  <2>1. Masked(k)[p] \in Byte
    BY <1>1 DEF Keys
  <2>2. CASE Turn(p) = 0
    BY <2>1, <2>2 DEF Mixed
  <2>3. CASE Turn(p) # 0
    <3>1. Turn(p) - 1 \in Place
      <4>1. Turn(p) \in Place /\ KeySize \in Nat
        BY TurnOfPlace, RifKeyAssumption
      <4> QED BY <2>3, <4>1 DEF Place
    <3>2. Masked(k)[RapPbox[Turn(p) - 1]] \in Byte
      BY <1>1, <3>1, TurnOfPlace DEF Keys
    <3>3. Mixed(k)[p] = Xor[Masked(k)[p]][Masked(k)[RapPbox[Turn(p) - 1]]]
      BY <2>3 DEF Mixed
    <3> QED BY <2>1, <3>2, <3>3, XorOfBytes
  <2> QED BY <2>2, <2>3
<1>3. Mixed(k) = [p \in Place |-> Mixed(k)[p]]
  BY DEF Mixed
<1> QED BY <1>1, <1>2, <1>3 DEF Keys

\* The first key, and the start of a round.
LEMMA RifKeyAtInit == RifKeyInit => RifKeyInv
<1> SUFFICES ASSUME RifKeyInit PROVE RifKeyInv
  OBVIOUS
<1>1. KeySize \in Nat \ {0} /\ RapE2 \subseteq Keys
  BY RifKeyAssumption
<1>2. RifKeyType
  BY <1>1 DEF RifKeyInit, RifKeyType
<1>3. ~Started
  BY DEF RifKeyInit, Started
<1> QED BY <1>2, <1>3 DEF RifKeyInv, SubtractionGoes

\* A round that begins keeps the invariant.
LEMMA BeginRoundInv ==
  ASSUME RifKeyInv, BeginRound
  PROVE  RifKeyInv'
<1>0. KeySize \in Nat \ {0}
  BY RifKeyAssumption
<1>1. Mixed(key) \in Keys
  BY MixedIsKey DEF RifKeyInv, RifKeyType
<1>2. RifKeyType'
  BY <1>0, <1>1 DEF RifKeyInv, RifKeyType, BeginRound
<1>3. before'.loop = Mixed(before'.round) /\ key' = before'.loop /\ Top' = 0 /\ digit' = 0
  BY DEF BeginRound, Top
<1> DEFINE c == [i \in 0 .. KeySize |-> 0]
<1>4. c \in [0 .. KeySize -> {0, 1}] /\ c[0] = 0 /\ Borrows(c, 0)'
  BY <1>0 DEF Borrows, Place
<1>5. c[digit'] = borrow'
  BY <1>0 DEF BeginRound
<1>6. SubtractionGoes'
  BY <1>3, <1>4, <1>5 DEF SubtractionGoes
<1> QED BY <1>2, <1>6 DEF RifKeyInv

\* One byte: its borrow joins those below.
LEMMA SubtractByteInv ==
  ASSUME RifKeyInv, SubtractByte
  PROVE  RifKeyInv'
<1> DEFINE p == RapPbox[digit]
           r == LessByte(key[p], e2[p], borrow)
<1>0. KeySize \in Nat \ {0} /\ Base \in Nat \ {0, 1}
  BY RifKeyAssumption
<1>1. digit \in Place /\ p \in Place /\ key[p] \in Byte /\ e2[p] \in Byte /\ borrow \in {0, 1}
  BY TurnOfPlace DEF SubtractByte, RifKeyInv, RifKeyType, Keys
<1>2. /\ borrow' = NextBorrow(key[p], e2[p], borrow)
      /\ key' = [key EXCEPT ![p] = r] /\ digit' = digit + 1
      /\ UNCHANGED <<e2, before, round>>
  BY DEF SubtractByte, LessBorrow, LessByte, NextBorrow
<1> HIDE DEF p, r
<1>3. r \in Byte /\ borrow' \in {0, 1} /\ r + e2[p] + borrow = key[p] + Base * borrow'
  BY <1>1, <1>2, DigitAndBorrow DEF r
<1>4. RifKeyType'
  BY <1>0, <1>1, <1>2, <1>3 DEF RifKeyInv, RifKeyType, Keys, Place
<1>5. Started /\ Top = digit /\ Started' /\ Top' = digit + 1 /\ digit' # -1 /\ digit # -1
  BY <1>0, <1>1, <1>2 DEF Started, Top, Place
<1>6. PICK c \in [0 .. KeySize -> {0, 1}] : Borrows(c, digit) /\ c[digit] = borrow
  BY <1>5 DEF RifKeyInv, SubtractionGoes
<1>7. /\ before.loop = Mixed(before.round)
      /\ \A i \in Place : i >= digit => key[RapPbox[i]] = before.loop[RapPbox[i]]
  BY <1>5 DEF RifKeyInv, SubtractionGoes
<1>13. PICK d : d = [c EXCEPT ![digit + 1] = borrow']
  OBVIOUS
<1>8. /\ digit \in 0 .. KeySize - 1 /\ d \in [0 .. KeySize -> {0, 1}] /\ d[0] = 0
      /\ d[digit + 1] = borrow' /\ \A i \in 0 .. digit : d[i] = c[i]
  BY <1>0, <1>1, <1>3, <1>6, <1>13 DEF Place, Borrows
<1>9. ASSUME NEW i \in Place, i < digit + 1
      PROVE  LET q == RapPbox[i]
             IN  key'[q] + e2[q] + d[i] = before.loop[q] + Base * d[i + 1]
  <2>0. i \in 0 .. KeySize - 1 /\ RapPbox[i] \in Place
    BY TurnOfPlace DEF Place
  <2>1. CASE i = digit
    <3>1. key'[p] = r /\ key[p] = before.loop[p] /\ RapPbox[i] = p
      BY <1>0, <1>1, <1>2, <1>7, <1>8, <2>0, <2>1 DEF RifKeyInv, RifKeyType, Keys, p
    <3>2. d[i] = borrow /\ d[i + 1] = borrow'
      BY <1>6, <1>8, <2>0, <2>1
    <3> QED BY <1>3, <3>1, <3>2
  <2>2. CASE i # digit
    <3>1. i < digit /\ d[i] = c[i] /\ d[i + 1] = c[i + 1]
      BY <1>8, <1>9, <2>0, <2>2
    <3>2. RapPbox[i] # p
      BY <1>1, <2>2, RifKeyAssumption DEF p
    <3>3. key'[RapPbox[i]] = key[RapPbox[i]]
      BY <1>2, <2>0, <3>2 DEF RifKeyInv, RifKeyType, Keys
    <3> QED BY <1>6, <3>1, <3>3 DEF Borrows
  <2> QED BY <2>1, <2>2
<1>10. ASSUME NEW i \in Place, i >= digit + 1
       PROVE  key'[RapPbox[i]] = before.loop[RapPbox[i]]
  <2>0. i \in 0 .. KeySize - 1 /\ RapPbox[i] \in Place
    BY TurnOfPlace DEF Place
  <2>1. i # digit /\ i >= digit
    BY <1>8, <1>10, <2>0
  <2>2. RapPbox[i] # p
    BY <1>1, <2>1, RifKeyAssumption DEF p
  <2>3. key'[RapPbox[i]] = key[RapPbox[i]]
    BY <1>2, <2>0, <2>2 DEF RifKeyInv, RifKeyType, Keys
  <2> QED BY <1>7, <2>1, <2>3
<1>12. SubtractionGoes'
  <2>1. before' = before /\ before'.loop = Mixed(before'.round)
    BY <1>2, <1>7
  <2>2. Borrows(d, Top)'
    BY <1>2, <1>5, <1>8, <1>9 DEF Borrows
  <2>3. d[digit'] = borrow'
    BY <1>2, <1>8
  <2>4. \A i \in Place : i >= digit' => key'[RapPbox[i]] = before'.loop[RapPbox[i]]
    BY <1>2, <1>10, <2>1
  <2> QED BY <1>8, <2>1, <2>2, <2>3, <2>4 DEF SubtractionGoes
<1> QED BY <1>4, <1>12 DEF RifKeyInv

\* So does one that ends.
LEMMA EndRoundInv ==
  ASSUME RifKeyInv, EndRound
  PROVE  RifKeyInv'
<1>0. KeySize \in Nat \ {0}
  BY RifKeyAssumption
<1>1. /\ digit = KeySize /\ digit' = -1 /\ round' = round + 1
      /\ UNCHANGED <<key, e2, before, borrow>>
  BY DEF EndRound
<1>2. RifKeyType'
  BY <1>0, <1>1 DEF RifKeyInv, RifKeyType
<1>3. Started /\ Top = KeySize /\ Top' = KeySize
  BY <1>0, <1>1 DEF Started, Top
<1>4. PICK c \in [0 .. KeySize -> {0, 1}] : Borrows(c, KeySize)
  BY <1>3 DEF RifKeyInv, SubtractionGoes
<1>5. Borrows(c, Top)'
  BY <1>1, <1>3, <1>4 DEF Borrows
<1>6. before'.loop = Mixed(before'.round)
  BY <1>1, <1>3 DEF RifKeyInv, SubtractionGoes
<1>7. SubtractionGoes'
  BY <1>1, <1>5, <1>6 DEF SubtractionGoes
<1> QED BY <1>2, <1>7 DEF RifKeyInv

-----------------------------------------------------------------------------
\* Numbers that each follow from the one before are there.
LEMMA Recurrence ==
  ASSUME NEW N \in Nat, NEW a \in Int, NEW z \in Int, NEW s \in [0 .. N - 1 -> Int]
  PROVE  \E f \in [0 .. N -> Int] : f[0] = z /\ \A i \in 1 .. N : f[i] = a * f[i - 1] + s[i - 1]
<1> DEFINE Up(f, m) == f[0] = z /\ \A i \in 1 .. m : f[i] = a * f[i - 1] + s[i - 1]
           Bad == {m \in 0 .. N : ~ \E f \in [0 .. m -> Int] : Up(f, m)}
<1>1. Bad = {} => \E f \in [0 .. N -> Int] : Up(f, N)
  <2>1. N \in 0 .. N
    OBVIOUS
  <2> HIDE DEF Up
  <2> QED BY <2>1
<1>2. SUFFICES ASSUME Bad # {} PROVE FALSE
  BY <1>1
<1>3. PICK m \in Bad : \A i \in Bad : m <= i
  <2>1. Bad \in SUBSET Nat
    OBVIOUS
  <2> HIDE DEF Bad
  <2> QED BY <1>2, <2>1, LeastNumber
<1>4. m \in 0 .. N /\ ~ \E f \in [0 .. m -> Int] : Up(f, m)
  OBVIOUS
<1>5. CASE m = 0
  <2> DEFINE g == [i \in 0 .. 0 |-> z]
  <2>1. g \in [0 .. 0 -> Int] /\ Up(g, 0)
    OBVIOUS
  <2> QED BY <1>4, <1>5, <2>1
<1>6. CASE m # 0
  <2>1. m - 1 \in 0 .. N /\ m - 1 \notin Bad
    <3>1. m - 1 \in 0 .. N /\ ~(m <= m - 1)
      BY <1>4, <1>6
    <3> HIDE DEF Bad
    <3> QED BY <1>3, <3>1
  <2>2. PICK f \in [0 .. m - 1 -> Int] : Up(f, m - 1)
    BY <2>1
  <2> DEFINE g == [i \in 0 .. m |-> IF i = m THEN a * f[m - 1] + s[m - 1] ELSE f[i]]
  <2>3. s[m - 1] \in Int /\ f[m - 1] \in Int
    BY <1>4, <1>6
  <2>4. a * f[m - 1] + s[m - 1] \in Int
    BY <2>3
  <2>5. g \in [0 .. m -> Int]
    BY <1>4, <1>6, <2>2, <2>4
  <2>6. g[0] = z
    BY <1>4, <1>6, <2>2
  <2>7. ASSUME NEW i \in 1 .. m
        PROVE  g[i] = a * g[i - 1] + s[i - 1]
    <3>1. g[i - 1] = f[i - 1]
      BY <1>4, <1>6
    <3>2. CASE i = m
      BY <1>4, <3>1, <3>2
    <3>3. CASE i # m
      <4>1. i \in 1 .. m - 1 /\ g[i] = f[i]
        BY <1>4, <3>3
      <4> HIDE DEF g
      <4> QED BY <2>2, <3>1, <4>1
    <3> QED BY <3>2, <3>3
  <2> HIDE DEF g
  <2>8. Up(g, m)
    BY <2>6, <2>7
  <2> QED BY <1>4, <2>5, <2>8
<1> QED BY <1>5, <1>6

\* The weights of the digits.
LEMMA WeightOfDigit ==
  /\ \A i \in 0 .. KeySize : Weight[i] \in Int
  /\ Weight[0] = 1 /\ \A i \in 1 .. KeySize : Weight[i] = Base * Weight[i - 1]
<1> DEFINE s == [i \in 0 .. KeySize - 1 |-> 0]
<1>1. /\ KeySize \in Nat /\ Base \in Int /\ 1 \in Int
      /\ s \in [0 .. KeySize - 1 -> Int] /\ \A i \in 0 .. KeySize - 1 : s[i] = 0
  BY RifKeyAssumption
<1> HIDE DEF s
<1>2. PICK f \in [0 .. KeySize -> Int] :
        f[0] = 1 /\ \A i \in 1 .. KeySize : f[i] = Base * f[i - 1] + s[i - 1]
  <2>1. PICK z \in Int : z = 1
    OBVIOUS
  <2>2. PICK a \in Int, N \in Nat : a = Base /\ N = KeySize
    BY <1>1
  <2>3. s \in [0 .. N - 1 -> Int]
    BY <1>1, <2>2
  <2>4. \E f \in [0 .. N -> Int] : f[0] = z /\ \A i \in 1 .. N : f[i] = a * f[i - 1] + s[i - 1]
    BY <2>3, Recurrence
  <2> QED BY <2>1, <2>2, <2>4
<1>3. \A i \in 1 .. KeySize : f[i] = Base * f[i - 1]
  <2> SUFFICES ASSUME NEW i \in 1 .. KeySize PROVE f[i] = Base * f[i - 1]
    OBVIOUS
  <2>1. s[i - 1] = 0 /\ f[i - 1] \in Int /\ Base * f[i - 1] \in Int
    <3>1. i - 1 \in 0 .. KeySize - 1 /\ i - 1 \in 0 .. KeySize
      BY <1>1
    <3> QED BY <1>1, <3>1
  <2> QED BY <1>2, <2>1
<1>4. f = [i \in 0 .. KeySize |-> IF i = 0 THEN 1 ELSE Base * f[i - 1]]
  BY <1>1, <1>2, <1>3
<1>5. Weight = [i \in 0 .. KeySize |-> IF i = 0 THEN 1 ELSE Base * Weight[i - 1]]
  BY <1>4 DEF Weight
<1> DEFINE Bad == {i \in 0 .. KeySize : Weight[i] # f[i]}
<1>6. Bad = {}
  <2> SUFFICES ASSUME Bad # {} PROVE FALSE
    OBVIOUS
  <2>1. PICK m \in Bad : \A i \in Bad : m <= i
    <3>1. Bad \in SUBSET Nat
      OBVIOUS
    <3> HIDE DEF Bad
    <3> QED BY <3>1, LeastNumber
  <2>2. CASE m = 0
    BY <1>1, <1>2, <1>5, <2>2
  <2>3. CASE m # 0
    <3>1. m - 1 \in 0 .. KeySize /\ m \in 1 .. KeySize /\ Weight[m - 1] = f[m - 1]
      BY <1>1, <2>1, <2>3
    <3> QED BY <1>3, <1>5, <2>1, <2>3, <3>1
  <2> QED BY <2>2, <2>3
<1>7. \A i \in 0 .. KeySize : Weight[i] = f[i]
  BY <1>6
<1> HIDE DEF Bad
<1>8. Weight[0] = 1 /\ \A i \in 0 .. KeySize : Weight[i] \in Int
  BY <1>1, <1>2, <1>7
<1>9. \A i \in 1 .. KeySize : Weight[i] = Base * Weight[i - 1]
  BY <1>1, <1>3, <1>7
<1> QED BY <1>8, <1>9

\* A number goes up by its digits.
LEMMA NumberOfDigits ==
  ASSUME NEW k \in Keys, NEW n \in 0 .. KeySize
  PROVE  \E f \in [0 .. n -> Int] :
           /\ f[0] = 0 /\ Number(k, n) = f[n]
           /\ \A i \in 1 .. n : f[i] = f[i - 1] + k[RapPbox[i - 1]] * Weight[i - 1]
<1> DEFINE s == [i \in 0 .. n - 1 |-> k[RapPbox[i]] * Weight[i]]
           sum[i \in 0 .. n] == IF i = 0 THEN 0 ELSE sum[i - 1] + k[RapPbox[i - 1]] * Weight[i - 1]
<1>0. KeySize \in Nat /\ Base \in Nat /\ n \in Nat
  BY RifKeyAssumption
<1>1. \A i \in 0 .. n - 1 : k[RapPbox[i]] \in Int /\ Weight[i] \in Int
  <2> SUFFICES ASSUME NEW i \in 0 .. n - 1 PROVE k[RapPbox[i]] \in Int /\ Weight[i] \in Int
    OBVIOUS
  <2>1. i \in Place /\ i \in 0 .. KeySize
    BY <1>0 DEF Place
  <2>2. k[RapPbox[i]] \in Byte
    BY <2>1, TurnOfPlace DEF Keys
  <2> QED BY <1>0, <2>1, <2>2, WeightOfDigit DEF Byte
<1>2. s \in [0 .. n - 1 -> Int]
  BY <1>1
<1>3. PICK f \in [0 .. n -> Int] : f[0] = 0 /\ \A i \in 1 .. n : f[i] = 1 * f[i - 1] + s[i - 1]
  <2> HIDE DEF s
  <2>1. PICK a \in Int, z \in Int : a = 1 /\ z = 0
    OBVIOUS
  <2>2. PICK N \in Nat : N = n
    BY <1>0
  <2>4. PICK add \in [0 .. N - 1 -> Int] : add = s
    BY <1>2, <2>2
  <2>3. \E f \in [0 .. N -> Int] : f[0] = z /\ \A i \in 1 .. N : f[i] = a * f[i - 1] + add[i - 1]
    BY Recurrence
  <2> QED BY <2>1, <2>2, <2>3, <2>4
<1>4. \A i \in 1 .. n : f[i] = f[i - 1] + k[RapPbox[i - 1]] * Weight[i - 1]
  <2> SUFFICES ASSUME NEW i \in 1 .. n
               PROVE  f[i] = f[i - 1] + k[RapPbox[i - 1]] * Weight[i - 1]
    OBVIOUS
  <2>1. s[i - 1] = k[RapPbox[i - 1]] * Weight[i - 1] /\ f[i - 1] \in Int
    BY <1>0
  <2> HIDE DEF s
  <2> QED BY <1>3, <2>1
<1> HIDE DEF s
<1>5. f = [i \in 0 .. n |-> IF i = 0 THEN 0 ELSE f[i - 1] + k[RapPbox[i - 1]] * Weight[i - 1]]
  BY <1>0, <1>3, <1>4
<1>6. sum = [i \in 0 .. n |-> IF i = 0 THEN 0 ELSE sum[i - 1] + k[RapPbox[i - 1]] * Weight[i - 1]]
  BY <1>5
<1>7. Number(k, n) = sum[n]
  BY DEF Number
<1> HIDE DEF sum
<1> DEFINE Bad == {i \in 0 .. n : sum[i] # f[i]}
<1>8. Bad = {}
  <2> SUFFICES ASSUME Bad # {} PROVE FALSE
    OBVIOUS
  <2>1. PICK m \in Bad : \A i \in Bad : m <= i
    <3>1. Bad \in SUBSET Nat
      OBVIOUS
    <3> HIDE DEF Bad
    <3> QED BY <3>1, LeastNumber
  <2>2. CASE m = 0
    BY <1>0, <1>3, <1>6, <2>2
  <2>3. CASE m # 0
    <3>1. m - 1 \in 0 .. n /\ m \in 1 .. n /\ sum[m - 1] = f[m - 1]
      BY <1>0, <2>1, <2>3
    <3> QED BY <1>4, <1>6, <2>1, <2>3, <3>1
  <2> QED BY <2>2, <2>3
<1>9. sum[n] = f[n]
  BY <1>0, <1>8
<1> QED BY <1>3, <1>4, <1>7, <1>9

\* One digit more of the subtraction.
LEMMA DigitMore ==
  ASSUME NEW fk \in Int, NEW fe \in Int, NEW fl \in Int, NEW k \in Int, NEW e \in Int, NEW l \in Int,
         NEW w \in Int, NEW b \in Int, NEW c \in Int, NEW d \in Int,
         fk + fe = fl + c * w, k + e + c = l + b * d
  PROVE  (fk + k * w) + (fe + e * w) = (fl + l * w) + d * (b * w)
<1>1. (k + e + c) * w = (l + b * d) * w
  OBVIOUS
<1>2. (k + e + c) * w = k * w + e * w + c * w
  OBVIOUS
<1>3. (l + b * d) * w = l * w + d * (b * w)
  OBVIOUS
<1> QED BY <1>1, <1>2, <1>3

\* The subtraction of the numbers, from that of their bytes.
LEMMA NumbersSubtracted ==
  ASSUME RifKeyInv
  PROVE  SubtractsNumbers
<1> SUFFICES ASSUME digit # -1
             PROVE  Number(key, digit) - borrow * Weight[digit]
                      = Number(before.loop, digit) - Number(e2, digit)
  BY DEF SubtractsNumbers
<1>0. KeySize \in Nat /\ Base \in Nat
  BY RifKeyAssumption
<1>1. digit \in 0 .. KeySize /\ digit \in Nat /\ key \in Keys /\ e2 \in Keys /\ before.loop \in Keys
  BY <1>0 DEF RifKeyInv, RifKeyType
<1>2. PICK c \in [0 .. KeySize -> {0, 1}] : Borrows(c, digit) /\ c[digit] = borrow
  BY DEF RifKeyInv, SubtractionGoes, Started, Top
<1>3. PICK fk \in [0 .. digit -> Int] :
        /\ fk[0] = 0 /\ Number(key, digit) = fk[digit]
        /\ \A i \in 1 .. digit : fk[i] = fk[i - 1] + key[RapPbox[i - 1]] * Weight[i - 1]
  BY <1>1, NumberOfDigits
<1>4. PICK fe \in [0 .. digit -> Int] :
        /\ fe[0] = 0 /\ Number(e2, digit) = fe[digit]
        /\ \A i \in 1 .. digit : fe[i] = fe[i - 1] + e2[RapPbox[i - 1]] * Weight[i - 1]
  BY <1>1, NumberOfDigits
<1>5. PICK fl \in [0 .. digit -> Int] :
        /\ fl[0] = 0 /\ Number(before.loop, digit) = fl[digit]
        /\ \A i \in 1 .. digit : fl[i] = fl[i - 1] + before.loop[RapPbox[i - 1]] * Weight[i - 1]
  BY <1>1, NumberOfDigits
<1> DEFINE Bad == {i \in 0 .. digit : ~(fk[i] + fe[i] = fl[i] + c[i] * Weight[i])}
<1>6. Bad = {}
  <2> SUFFICES ASSUME Bad # {} PROVE FALSE
    OBVIOUS
  <2>1. PICK m \in Bad : \A i \in Bad : m <= i
    <3>1. Bad \in SUBSET Nat
      BY <1>1
    <3> HIDE DEF Bad
    <3> QED BY <3>1, LeastNumber
  <2>2. m \in 0 .. digit /\ ~(fk[m] + fe[m] = fl[m] + c[m] * Weight[m])
    OBVIOUS
  <2>3. CASE m = 0
    <3>1. c[0] = 0 /\ Weight[0] = 1
      BY <1>2, WeightOfDigit DEF Borrows
    <3> QED BY <1>3, <1>4, <1>5, <2>2, <2>3, <3>1
  <2>4. CASE m # 0
    <3> DEFINE j == m - 1
               p == RapPbox[j]
    <3>1. j \in 0 .. digit /\ m \in 1 .. digit /\ j \in Place /\ j < digit /\ m \in 1 .. KeySize /\ j + 1 = m
      BY <1>0, <1>1, <2>2, <2>4 DEF Place
    <3>2. j \notin Bad
      BY <1>1, <2>1, <2>2, <2>4, <3>1
    <3>3. fk[j] + fe[j] = fl[j] + c[j] * Weight[j]
      BY <3>1, <3>2
    <3>4. /\ fk[m] = fk[j] + key[p] * Weight[j] /\ fe[m] = fe[j] + e2[p] * Weight[j]
          /\ fl[m] = fl[j] + before.loop[p] * Weight[j]
      BY <1>3, <1>4, <1>5, <3>1
    <3>5. Weight[m] = Base * Weight[j] /\ Weight[j] \in Int
      BY <1>0, <3>1, WeightOfDigit
    <3>6. key[p] + e2[p] + c[j] = before.loop[p] + Base * c[m]
      BY <1>2, <3>1 DEF Borrows
    <3>7. p \in Place /\ key[p] \in Byte /\ e2[p] \in Byte /\ before.loop[p] \in Byte
      BY <1>1, <3>1, TurnOfPlace DEF Keys
    <3>8. key[p] \in Int /\ e2[p] \in Int /\ before.loop[p] \in Int
      <4>1. \A x \in Byte : x \in Int
        BY <1>0 DEF Byte
      <4> QED BY <3>7, <4>1
    <3>9. c[j] \in Int /\ c[m] \in Int /\ fk[j] \in Int /\ fe[j] \in Int /\ fl[j] \in Int
      <4>1. j \in 0 .. KeySize /\ m \in 0 .. KeySize
        BY <1>0, <3>1 DEF Place
      <4>2. c[j] \in {0, 1} /\ c[m] \in {0, 1}
        BY <4>1
      <4>3. fk[j] \in Int /\ fe[j] \in Int /\ fl[j] \in Int
        BY <3>1
      <4> QED BY <4>2, <4>3
    <3> HIDE DEF Bad, j, p
    <3>10. (fk[j] + key[p] * Weight[j]) + (fe[j] + e2[p] * Weight[j])
             = (fl[j] + before.loop[p] * Weight[j]) + c[m] * (Base * Weight[j])
      <4>1. Base \in Int
        BY <1>0
      <4>2. PICK xk \in Int, xe \in Int, xl \in Int : xk = fk[j] /\ xe = fe[j] /\ xl = fl[j]
        BY <3>9
      <4>3. PICK k \in Int, e \in Int, l \in Int : k = key[p] /\ e = e2[p] /\ l = before.loop[p]
        BY <3>8
      <4>4. PICK x \in Int, y \in Int, w \in Int, b \in Int :
              x = c[j] /\ y = c[m] /\ w = Weight[j] /\ b = Base
        BY <3>5, <3>9, <4>1
      <4>5. xk + xe = xl + x * w /\ k + e + x = l + b * y
        BY <3>3, <3>6, <4>2, <4>3, <4>4
      <4>6. (xk + k * w) + (xe + e * w) = (xl + l * w) + y * (b * w)
        BY <4>5, DigitMore
      <4> QED BY <4>2, <4>3, <4>4, <4>6
    <3> QED BY <2>2, <3>4, <3>5, <3>10
  <2> QED BY <2>3, <2>4
<1>7. fk[digit] + fe[digit] = fl[digit] + c[digit] * Weight[digit]
  <2>1. \A i \in 0 .. digit : fk[i] + fe[i] = fl[i] + c[i] * Weight[i]
    BY <1>6
  <2> HIDE DEF Bad
  <2> QED BY <1>1, <2>1
<1>8. /\ fk[digit] \in Int /\ fe[digit] \in Int /\ fl[digit] \in Int /\ borrow \in Int
      /\ Weight[digit] \in Int
  BY <1>1, <1>2, WeightOfDigit DEF RifKeyInv, RifKeyType
<1>9. PICK w \in Int : w = borrow * Weight[digit]
  BY <1>8
<1>10. fk[digit] + fe[digit] = fl[digit] + w
  BY <1>2, <1>7, <1>9
<1>11. fk[digit] - w = fl[digit] - fe[digit]
  <2>1. \A x, y, z \in Int : x + y = z + w => x - w = z - y
    OBVIOUS
  <2> QED BY <1>8, <1>10, <2>1
<1> QED BY <1>3, <1>4, <1>5, <1>9, <1>11

\* What a round began with comes back: the carries are the borrows there were.
LEMMA RoundUndone ==
  ASSUME RifKeyInv
  PROVE  RoundLosesNothing
<1> SUFFICES ASSUME digit = -1, round > 0 PROVE RoundLosesNothing
  BY DEF RoundLosesNothing
<1> DEFINE carry[i \in 0 .. KeySize] ==
             IF i = 0 THEN 0
             ELSE (key[RapPbox[i - 1]] + e2[RapPbox[i - 1]] + carry[i - 1]) \div Base
           loop[i \in Place] == (key[RapPbox[i]] + e2[RapPbox[i]] + carry[i]) % Base
           masked[i \in Place] == IF i = 0 THEN loop[0] ELSE Xor[loop[i]][masked[i - 1]]
           x == Masked(before.round)
<1>0. KeySize \in Nat \ {0} /\ Base \in Nat \ {0} /\ RapE1 \in Keys
  BY RifKeyAssumption
<1>1. key \in Keys /\ e2 \in Keys /\ before.loop \in Keys /\ before.round \in Keys
  BY DEF RifKeyInv, RifKeyType
<1>2. before.loop = Mixed(before.round) /\ x \in Keys
  BY <1>1, MixedIsKey DEF RifKeyInv, SubtractionGoes, Started
<1>3. PICK c \in [0 .. KeySize -> {0, 1}] : Borrows(c, KeySize)
  BY DEF RifKeyInv, SubtractionGoes, Started, Top
<1>4. ASSUME NEW i \in Place
      PROVE  LET p == RapPbox[i]
             IN  /\ p \in Place /\ i + 1 \in 1 .. KeySize /\ i \in 0 .. KeySize
                 /\ (key[p] + e2[p] + c[i]) % Base = before.loop[p]
                 /\ (key[p] + e2[p] + c[i]) \div Base = c[i + 1]
  <2> DEFINE p == RapPbox[i]
  <2>1. p \in Place /\ i < KeySize /\ i + 1 \in 1 .. KeySize /\ i \in 0 .. KeySize
    BY <1>0, TurnOfPlace DEF Place
  <2>2. before.loop[p] \in 0 .. Base - 1 /\ c[i + 1] \in {0, 1}
    <3>1. before.loop[p] \in Byte
      BY <1>1, <2>1 DEF Keys
    <3> QED BY <2>1, <3>1 DEF Byte
  <2>3. key[p] + e2[p] + c[i] = before.loop[p] + Base * c[i + 1]
    BY <1>3, <2>1 DEF Borrows
  <2> HIDE DEF p
  <2>4. /\ (before.loop[p] + Base * c[i + 1]) % Base = before.loop[p]
        /\ (before.loop[p] + Base * c[i + 1]) \div Base = c[i + 1]
    BY <1>0, <2>2, DigitAndCarry
  <2> QED BY <2>1, <2>3, <2>4 DEF p
<1>5. carry = [i \in 0 .. KeySize |->
                 IF i = 0 THEN 0
                 ELSE (key[RapPbox[i - 1]] + e2[RapPbox[i - 1]] + carry[i - 1]) \div Base]
  <2>1. ASSUME NEW i \in 0 .. KeySize
        PROVE  c[i] = IF i = 0 THEN 0
                      ELSE (key[RapPbox[i - 1]] + e2[RapPbox[i - 1]] + c[i - 1]) \div Base
    <3>1. CASE i = 0
      BY <1>3, <3>1 DEF Borrows
    <3>2. CASE i # 0
      <4>1. i - 1 \in Place /\ (i - 1) + 1 = i
        BY <1>0, <3>2 DEF Place
      <4> QED BY <1>4, <3>2, <4>1
    <3> QED BY <3>1, <3>2
  <2>2. c = [i \in 0 .. KeySize |-> c[i]]
    OBVIOUS
  <2>3. c = [i \in 0 .. KeySize |->
               IF i = 0 THEN 0
               ELSE (key[RapPbox[i - 1]] + e2[RapPbox[i - 1]] + c[i - 1]) \div Base]
    BY <2>1, <2>2
  <2> QED BY <2>3
<1>6. \A i \in 0 .. KeySize : carry[i] = c[i]
  <2> HIDE DEF carry
  <2> DEFINE Bad == {i \in 0 .. KeySize : carry[i] # c[i]}
  <2> SUFFICES ASSUME Bad # {} PROVE FALSE
    OBVIOUS
  <2>1. PICK m \in Bad : \A i \in Bad : m <= i
    <3>1. Bad \in SUBSET Nat
      OBVIOUS
    <3> HIDE DEF Bad
    <3> QED BY <3>1, LeastNumber
  <2>2. CASE m = 0
    BY <1>0, <1>3, <1>5, <2>2 DEF Borrows
  <2>3. CASE m # 0
    <3>1. m - 1 \in 0 .. KeySize /\ m - 1 \in Place /\ (m - 1) + 1 = m /\ ~(m <= m - 1)
      BY <1>0, <2>3 DEF Place
    <3>2. carry[m - 1] = c[m - 1]
      BY <2>1, <3>1
    <3>3. carry[m] = (key[RapPbox[m - 1]] + e2[RapPbox[m - 1]] + c[m - 1]) \div Base
      BY <1>5, <2>3, <3>2
    <3> QED BY <1>4, <3>1, <3>3
  <2> QED BY <2>2, <2>3
<1> HIDE DEF carry
<1>7. \A i \in Place : loop[i] = before.loop[RapPbox[i]]
  BY <1>4, <1>6
<1> HIDE DEF loop
<1>8. ASSUME NEW i \in Place
      PROVE  /\ x[RapPbox[i]] \in Byte
             /\ i = 0 => loop[i] = x[RapPbox[i]]
             /\ i # 0 => /\ i - 1 \in Place
                         /\ loop[i] = Xor[x[RapPbox[i]]][x[RapPbox[i - 1]]]
                         /\ Xor[loop[i]][x[RapPbox[i - 1]]] = x[RapPbox[i]]
  <2>1. RapPbox[i] \in Place /\ Turn(RapPbox[i]) = i
    BY TurnOfPlace
  <2>2. x[RapPbox[i]] \in Byte
    BY <1>2, <2>1 DEF Keys
  <2>3. loop[i] = IF i = 0 THEN x[RapPbox[i]] ELSE Xor[x[RapPbox[i]]][x[RapPbox[i - 1]]]
    BY <1>2, <1>7, <2>1 DEF Mixed
  <2>4. ASSUME i # 0 PROVE i - 1 \in Place /\ x[RapPbox[i - 1]] \in Byte
    <3>1. i - 1 \in Place
      BY <1>0, <2>4 DEF Place
    <3>2. RapPbox[i - 1] \in Place
      BY <3>1, TurnOfPlace
    <3> QED BY <1>2, <3>1, <3>2 DEF Keys
  <2> HIDE DEF x
  <2> QED BY <2>2, <2>3, <2>4, XorOfBytes
<1>9. masked = [i \in Place |-> IF i = 0 THEN loop[0] ELSE Xor[loop[i]][masked[i - 1]]]
  <2> DEFINE m == [i \in Place |-> x[RapPbox[i]]]
  <2>1. \A i \in Place : m[i] = IF i = 0 THEN loop[0] ELSE Xor[loop[i]][m[i - 1]]
    <3> HIDE DEF x
    <3> QED BY <1>8
  <2>2. m = [i \in Place |-> m[i]]
    OBVIOUS
  <2> HIDE DEF m
  <2>3. m = [i \in Place |-> IF i = 0 THEN loop[0] ELSE Xor[loop[i]][m[i - 1]]]
    BY <2>1, <2>2
  <2> QED BY <2>3
<1>10. \A i \in Place : masked[i] = x[RapPbox[i]]
  <2> HIDE DEF masked, x
  <2> DEFINE Bad == {i \in Place : masked[i] # x[RapPbox[i]]}
  <2> SUFFICES ASSUME Bad # {} PROVE FALSE
    OBVIOUS
  <2>1. PICK m \in Bad : \A i \in Bad : m <= i
    <3>1. Bad \in SUBSET Nat
      BY <1>0 DEF Place
    <3> HIDE DEF Bad
    <3> QED BY <3>1, LeastNumber
  <2>2. CASE m = 0
    BY <1>8, <1>9, <2>2
  <2>3. CASE m # 0
    <3>1. m - 1 \in Place /\ ~(m <= m - 1)
      BY <1>0, <2>3 DEF Place
    <3>2. masked[m - 1] = x[RapPbox[m - 1]]
      BY <2>1, <3>1
    <3>3. masked[m] = Xor[loop[m]][x[RapPbox[m - 1]]]
      BY <1>9, <2>3, <3>2
    <3> QED BY <1>8, <2>3, <3>3
  <2> QED BY <2>2, <2>3
<1> HIDE DEF masked
<1>11. ASSUME NEW p \in Place
       PROVE  before.round[p] = Xor[masked[Turn(p)]][RapE1[p]]
  <2>1. Turn(p) \in Place /\ RapPbox[Turn(p)] = p
    BY TurnOfPlace
  <2>2. masked[Turn(p)] = x[p]
    BY <1>10, <2>1
  <2>3. x[p] = Xor[before.round[p]][RapE1[p]]
    BY DEF Masked
  <2>4. before.round[p] \in Byte /\ RapE1[p] \in Byte
    BY <1>0, <1>1 DEF Keys
  <2> HIDE DEF x
  <2> QED BY <2>2, <2>3, <2>4, XorOfBytes
<1>12. before.round = [p \in Place |-> before.round[p]]
  BY <1>1 DEF Keys
<1>13. before.round = [p \in Place |-> Xor[masked[Turn(p)]][RapE1[p]]]
  BY <1>11, <1>12
<1> QED BY <1>13 DEF RoundLosesNothing, carry, loop, masked

\* The key of a licence: the last loop of a round subtracts, and no round loses what
\* tells two activation keys apart (get_rif_key).
THEOREM KeysLoseNothing == RifKeySpec => []RifKeyIsWhole
<1>1. RifKeyInv /\ [RifKeyNext]_rifKeyVars => RifKeyInv'
  <2> SUFFICES ASSUME RifKeyInv, [RifKeyNext]_rifKeyVars PROVE RifKeyInv'
    OBVIOUS
  <2>1. CASE BeginRound
    BY <2>1, BeginRoundInv
  <2>2. CASE SubtractByte
    BY <2>2, SubtractByteInv
  <2>3. CASE EndRound
    BY <2>3, EndRoundInv
  <2>4. CASE UNCHANGED rifKeyVars
    BY <2>4 DEF rifKeyVars, RifKeyInv, RifKeyType, SubtractionGoes, Started, Top, Borrows
  <2> QED BY <2>1, <2>2, <2>3, <2>4 DEF RifKeyNext
<1>2. RifKeyInv => RifKeyIsWhole
  BY NumbersSubtracted, RoundUndone DEF RifKeyIsWhole
<1> QED BY <1>1, <1>2, RifKeyAtInit, PTL DEF RifKeySpec

-----------------------------------------------------------------------------
(* The instance: one component at a time.                                  *)

\* Whatever the payload does with discs, what it knows of the one in the drive is what
\* that disc is, and nothing is held when no thread is at work on it.
THEOREM DiscsKnown == MediaSpec => []DiscsAreKnown
<1>1. MediaInit => AuthInit /\ RealDiscInit
  BY DEF MediaInit
<1>2. [MediaNext]_media_vars => [AuthNext]_authVars /\ [RealDiscNext]_realDiscVars
  BY DEF MediaNext, media_vars
<1>3. MediaSpec => AuthSpec /\ RealDiscSpec
  BY <1>1, <1>2, PTL DEF MediaSpec, AuthSpec, RealDiscSpec
<1>4. MediaSpec => []NothingHeldAtRest /\ []RealDiscsAreKnown
  BY <1>3, AuthLeavesNothingHeld, DiscsTakenForWhatTheyAre
<1>5. NothingHeldAtRest /\ RealDiscsAreKnown => DiscsAreKnown
  BY DEF DiscsAreKnown
<1> QED BY <1>4, <1>5, PTL

\* A licence that is made while no other is, is of its content and its user, and its key
\* tells activation keys apart.
THEOREM LicencesRight == MediaSpec => []LicencesAreRight
<1>1. MediaInit => LicenceInit /\ RifKeyInit
  BY DEF MediaInit
<1>2. [MediaNext]_media_vars => [LicenceNext]_licenceVars /\ [RifKeyNext]_rifKeyVars
  BY DEF MediaNext, media_vars
<1>3. MediaSpec => LicenceSpec /\ RifKeySpec
  BY <1>1, <1>2, PTL DEF MediaSpec, LicenceSpec, RifKeySpec
<1>4. MediaSpec => []RifOfItsContent /\ []RifKeyIsWhole
  BY <1>3, LicencesOwn, KeysLoseNothing
<1>5. RifOfItsContent /\ RifKeyIsWhole => LicencesAreRight
  BY DEF LicencesAreRight
<1> QED BY <1>4, <1>5, PTL
=============================================================================

-------------------------- MODULE DiscMount_proofs --------------------------
(***************************************************************************)
(* Proofs about DiscMount and PsxVideo, for any images, sector sizes and   *)
(* modes.  MountInv is inductive; its types are proved apart from the rest, *)
(* because the rest needs the types of the next state too.  With the video *)
(* mode mounts and device events do what DiscMount says they do, so that its *)
(* theorems hold there as well; and the patch of VSH is remembered until it *)
(* is taken back.                                                          *)
(***************************************************************************)
EXTENDS PsxVideo, DiscMountProps, TLAPS

\* MInv with the two properties that need nothing else of it.
MountInv == MInv /\ TypesAgree /\ SectorSizeOfImage

\* Nothing is mounted when the payload starts.
LEMMA InitMountInv == Init => MountInv
<1> SUFFICES ASSUME Init PROVE MountInv
  OBVIOUS
<1> USE ImageAssumption DEF Init
<1>1. TypeOK
  BY DEF TypeOK, ImageTypeOK, DriveTypeOK, FlagTypeOK, Emu
<1>2. NothingLeftBehind /\ Allocated /\ Offsets /\ ProxyHasPort /\ OffsetOfImage
  BY DEF NothingLeftBehind, Allocated, Offsets, ProxyHasPort, OffsetOfImage
<1>3. TypesAgree /\ SectorSizeOfImage
  BY DEF TypesAgree, SectorSizeOfImage
<1> QED BY <1>1, <1>2, <1>3 DEF MountInv, MInv

\* Every critical section keeps the types.
LEMMA NextTypeOK == TypeOK /\ [Next]_mountVars => TypeOK'
<1> SUFFICES ASSUME TypeOK, [Next]_mountVars PROVE TypeOK'
  OBVIOUS
<1> USE ImageAssumption DEF TypeOK, imageVars, typeVars, historyVars
<1>1. CASE \E e \in FileEmu, i \in Image : MountFile(e, i)
  <2>1. PICK e \in FileEmu, i \in Image : MountFile(e, i)
    BY <1>1
  <2>2. ImageTypeOK'
    BY <2>1 DEF ImageTypeOK, MountFile, Emulate, Refused, Emu, FileEmu, CdEmu
  <2>3. DriveTypeOK'
    BY <2>1 DEF DriveTypeOK, MountFile
  <2>4. /\ shifted' \in BOOLEAN /\ orphan' \in BOOLEAN /\ resized' \in BOOLEAN /\ stale' \in BOOLEAN
        /\ total' \in BOOLEAN /\ proxy' \in BOOLEAN /\ rec' \in BOOLEAN /\ mounting' \in BOOLEAN
    <3>1. shifted' = (i \in Png) /\ UNCHANGED <<orphan, resized, proxy, rec, mounting>>
      BY <2>1 DEF MountFile
    <3>2. CASE Emulate(e, i) /\ stale' = FALSE
      <4>1. total' \in BOOLEAN
        BY <3>2 DEF Emulate
      <4>2. shifted' \in BOOLEAN
        <5>1. CASE i \in Png
          BY <3>1, <5>1
        <5>2. CASE i \notin Png
          BY <3>1, <5>2
        <5> QED BY <5>1, <5>2
      <4>3. stale' \in BOOLEAN
        BY <3>2
      <4> QED BY <3>1, <4>1, <4>2, <4>3 DEF FlagTypeOK
    <3>3. CASE Refused /\ stale' = (i \in Png)
      BY <3>1, <3>3 DEF FlagTypeOK, Refused
    <3> QED BY <2>1, <3>2, <3>3 DEF MountFile
  <2> QED BY <2>2, <2>3, <2>4 DEF FlagTypeOK
<1>2. CASE MountNoFile
  <2>1. ImageTypeOK'
    BY <1>2 DEF ImageTypeOK, MountNoFile
  <2>2. DriveTypeOK'
    BY <1>2 DEF DriveTypeOK, MountNoFile
  <2>3. FlagTypeOK'
    BY <1>2 DEF FlagTypeOK, MountNoFile
  <2> QED BY <2>1, <2>2, <2>3
<1>3. CASE \E e \in CdEmu, i \in Image, size \in SectorSize : MountCd(e, i, size)
  <2>1. PICK e \in CdEmu, i \in Image, size \in SectorSize : MountCd(e, i, size)
    BY <1>3
  <2>2. PICK detected \in SectorSize, opened \in BOOLEAN :
          /\ sectorSize' = detected
          /\ cd' = [image |-> i, size |-> detected,
                    sectors |-> IF size = Raw /\ i \in Protected THEN "libcrypt" ELSE "image"]
          /\ IF opened THEN Emulate(e, i) ELSE Refused
          /\ orphan' = ~opened
          /\ resized' = FALSE
          /\ stale' = (stale \/ (~opened /\ i \in Png))
    BY <2>1 DEF MountCd
  <2>3. ImageTypeOK'
    BY <2>1, <2>2 DEF ImageTypeOK, MountCd, Emulate, Refused, CdFile, Emu, FileEmu, CdEmu
  <2>4. DriveTypeOK'
    BY <2>1 DEF DriveTypeOK, MountCd
  <2>5. /\ shifted' \in BOOLEAN /\ orphan' \in BOOLEAN /\ resized' \in BOOLEAN /\ stale' \in BOOLEAN
        /\ total' \in BOOLEAN /\ proxy' \in BOOLEAN /\ rec' \in BOOLEAN /\ mounting' \in BOOLEAN
    BY <2>1, <2>2 DEF FlagTypeOK, MountCd, Emulate, Refused
  <2> QED BY <2>3, <2>4, <2>5 DEF FlagTypeOK
<1>4. CASE \E size \in SectorSize : MountCdBadFile(size)
  <2>1. ImageTypeOK'
    BY <1>4 DEF ImageTypeOK, MountCdBadFile
  <2>2. DriveTypeOK'
    BY <1>4 DEF DriveTypeOK, MountCdBadFile
  <2>3. FlagTypeOK'
    BY <1>4 DEF FlagTypeOK, MountCdBadFile
  <2> QED BY <2>1, <2>2, <2>3
<1>5. CASE \E size \in SectorSize : MountProxyBusy(size)
  <2>1. ImageTypeOK'
    BY <1>5 DEF ImageTypeOK, MountProxyBusy
  <2>2. DriveTypeOK'
    BY <1>5 DEF DriveTypeOK, MountProxyBusy
  <2>3. FlagTypeOK'
    BY <1>5 DEF FlagTypeOK, MountProxyBusy
  <2> QED BY <2>1, <2>2, <2>3
<1>6. CASE \E size \in SectorSize : MountProxyFails(size)
  <2>1. ImageTypeOK'
    BY <1>6 DEF ImageTypeOK, MountProxyFails
  <2>2. DriveTypeOK'
    BY <1>6 DEF DriveTypeOK, MountProxyFails
  <2>3. FlagTypeOK'
    BY <1>6 DEF FlagTypeOK, MountProxyFails
  <2> QED BY <2>1, <2>2, <2>3
<1>7. CASE \E e \in ProxyEmu, size \in SectorSize : MountProxy(e, size)
  <2>1. ImageTypeOK'
    BY <1>7 DEF ImageTypeOK, MountProxy, Emulate, ProxyEmu, Emu, FileEmu, CdEmu
  <2>2. DriveTypeOK'
    BY <1>7 DEF DriveTypeOK, MountProxy
  <2>3. FlagTypeOK'
    BY <1>7 DEF FlagTypeOK, MountProxy, Emulate
  <2> QED BY <2>1, <2>2, <2>3
<1>8. CASE Umount
  <2>1. ImageTypeOK'
    BY <1>8 DEF ImageTypeOK, Umount, Emu, FileEmu, CdEmu
  <2>2. DriveTypeOK'
    BY <1>8 DEF DriveTypeOK, Umount
  <2>3. FlagTypeOK'
    BY <1>8 DEF FlagTypeOK, Umount
  <2> QED BY <2>1, <2>2, <2>3
<1>9. CASE Read
  <2>1. ImageTypeOK'
    BY <1>9 DEF ImageTypeOK, Read, Served, CdFile
  <2>2. DriveTypeOK'
    BY <1>9 DEF DriveTypeOK, Read
  <2>3. FlagTypeOK'
    BY <1>9 DEF FlagTypeOK, Read
  <2> QED BY <2>1, <2>2, <2>3
<1>10. CASE FindLibCrypt
  <2>1. ImageTypeOK'
    BY <1>10 DEF ImageTypeOK, FindLibCrypt, Served, CdFile
  <2>2. DriveTypeOK'
    BY <1>10 DEF DriveTypeOK, FindLibCrypt
  <2>3. FlagTypeOK'
    BY <1>10 DEF FlagTypeOK, FindLibCrypt
  <2> QED BY <2>1, <2>2, <2>3
<1>11. CASE \E t \in DiscType \cup {None} : Insert(t)
  <2>1. PICK t \in DiscType \cup {None} : Insert(t)
    BY <1>11
  <2>2. Contents(t) \subseteq DiscType \cup {None}
    BY DEF Contents, DiscType
  <2>3. ASSUME emu # "off" PROVE TypeFor(emu) \in DiscType
    BY <2>3 DEF ImageTypeOK, Emu, FileEmu, CdEmu, TypeFor, DiscType
  <2>4. PICK found \in IF emu = "off" THEN Contents(t) ELSE {TypeFor(emu)} :
          /\ effective' = found
          /\ fake' = IF found = t THEN None ELSE found
          /\ rec' = (emu = "off" /\ found = "ps3" /\ t # "ps3")
    BY <2>1 DEF Insert
  <2>5. found \in DiscType \cup {None} /\ real' \in DiscType \cup {None}
    BY <2>1, <2>2, <2>3, <2>4 DEF Insert
  <2>6. ImageTypeOK'
    BY <2>1 DEF ImageTypeOK, Insert
  <2>7. DriveTypeOK'
    BY <2>1, <2>4, <2>5 DEF DriveTypeOK, Insert
  <2>8. FlagTypeOK'
    BY <2>1, <2>4 DEF FlagTypeOK, Insert
  <2> QED BY <2>6, <2>7, <2>8
<1>12. CASE Eject
  <2>1. ImageTypeOK'
    BY <1>12 DEF ImageTypeOK, Eject
  <2>2. DriveTypeOK'
    BY <1>12 DEF DriveTypeOK, Eject
  <2>3. FlagTypeOK'
    BY <1>12 DEF FlagTypeOK, Eject
  <2> QED BY <2>1, <2>2, <2>3
<1>13. CASE \E b \in BOOLEAN : OtherEvent(b)
  <2>1. ImageTypeOK'
    BY <1>13 DEF ImageTypeOK, OtherEvent
  <2>2. DriveTypeOK'
    BY <1>13 DEF DriveTypeOK, OtherEvent
  <2>3. FlagTypeOK'
    BY <1>13 DEF FlagTypeOK, OtherEvent
  <2> QED BY <2>1, <2>2, <2>3
<1>14. CASE UNCHANGED mountVars
  BY <1>14 DEF mountVars, ImageTypeOK, DriveTypeOK, FlagTypeOK
<1> QED BY <1>1, <1>2, <1>3, <1>4, <1>5, <1>6, <1>7, <1>8,
           <1>9, <1>10, <1>11, <1>12, <1>13, <1>14 DEF Next, Mount, Event

\* Every critical section keeps the rest of the invariant.
LEMMA NextMountInv == MountInv /\ [Next]_mountVars => MountInv'
<1> SUFFICES ASSUME MountInv, [Next]_mountVars PROVE MountInv'
  OBVIOUS
<1>0. TypeOK /\ TypeOK'
  BY NextTypeOK DEF MountInv, MInv
<1> DEFINE Rest == /\ NothingLeftBehind /\ Allocated /\ Offsets /\ ProxyHasPort
                  /\ OffsetOfImage /\ TypesAgree /\ SectorSizeOfImage
<1>r. Rest
  BY DEF MountInv, MInv
<1> SUFFICES Rest'
  BY <1>0 DEF MountInv, MInv
<1> USE ImageAssumption
    DEF NothingLeftBehind, Allocated, Offsets, ProxyHasPort, OffsetOfImage, TypesAgree,
        SectorSizeOfImage, imageVars, typeVars, historyVars
<1>1. CASE \E e \in FileEmu, i \in Image : MountFile(e, i)
  <2>1. (NothingLeftBehind /\ ProxyHasPort)'
    BY <1>1, <1>0, <1>r DEF MountFile, Emulate, Refused, FileEmu, TypeOK, ImageTypeOK
  <2>2. Allocated'
    BY <1>1, <1>0, <1>r DEF MountFile, Emulate, Refused, FileEmu, TypeOK, ImageTypeOK
  <2>3. (Offsets /\ OffsetOfImage)'
    BY <1>1, <1>0, <1>r DEF MountFile, Emulate, Refused, FileEmu, TypeOK, ImageTypeOK
  <2>4. TypesAgree'
    BY <1>1, <1>0, <1>r DEF MountFile, Emulate, Refused, FileEmu, TypeOK, ImageTypeOK
  <2>5. SectorSizeOfImage'
    BY <1>1, <1>0, <1>r DEF MountFile, Emulate, Refused, FileEmu, TypeOK, ImageTypeOK
  <2> QED BY <2>1, <2>2, <2>3, <2>4, <2>5
<1>2. CASE MountNoFile
  <2>1. (NothingLeftBehind /\ ProxyHasPort)'
    BY <1>2, <1>0, <1>r DEF MountNoFile, TypeOK, ImageTypeOK
  <2>2. Allocated'
    BY <1>2, <1>0, <1>r DEF MountNoFile, TypeOK, ImageTypeOK
  <2>3. (Offsets /\ OffsetOfImage)'
    BY <1>2, <1>0, <1>r DEF MountNoFile, TypeOK, ImageTypeOK
  <2>4. TypesAgree'
    BY <1>2, <1>0, <1>r DEF MountNoFile, TypeOK, ImageTypeOK
  <2>5. SectorSizeOfImage'
    BY <1>2, <1>0, <1>r DEF MountNoFile, TypeOK, ImageTypeOK
  <2> QED BY <2>1, <2>2, <2>3, <2>4, <2>5
<1>3. CASE \E e \in CdEmu, i \in Image, size \in SectorSize : MountCd(e, i, size)
  <2>1. PICK e \in CdEmu, i \in Image, size \in SectorSize : MountCd(e, i, size)
    BY <1>3
  <2>2. PICK detected \in SectorSize, opened \in BOOLEAN :
          /\ sectorSize' = detected
          /\ cd' = [image |-> i, size |-> detected,
                    sectors |-> IF size = Raw /\ i \in Protected THEN "libcrypt" ELSE "image"]
          /\ IF opened THEN Emulate(e, i) ELSE Refused
          /\ orphan' = ~opened
          /\ resized' = FALSE
          /\ stale' = (stale \/ (~opened /\ i \in Png))
    BY <2>1 DEF MountCd
  <2>3. /\ emu = "off" /\ file = None /\ ~proxy /\ file' = None /\ ~proxy' /\ port' = port
        /\ shifted' = (shifted \/ i \in Png) /\ discfd' = None /\ discfd = None
        /\ UNCHANGED <<real, effective, fake>>
    BY <2>1, <1>r DEF MountCd
  <2>4. cd' # None /\ cd'.image = i /\ cd'.size = detected
    BY <2>2 DEF CdFile
  <2>5. IF opened THEN emu' = e /\ current' = i ELSE emu' = "off" /\ current' = None /\ total' = total
    BY <2>2, <2>3, <1>r DEF Emulate, Refused
  <2>6. e # "off"
    BY DEF CdEmu
  <2>7. (NothingLeftBehind /\ ProxyHasPort)'
    BY <2>2, <2>3, <2>4, <2>5, <2>6, <1>r
  <2>8. Allocated'
    BY <2>2, <2>3, <2>4, <2>5, <2>6, <1>r
  <2>9. (Offsets /\ OffsetOfImage)'
    BY <2>2, <2>3, <2>4, <2>5, <2>6, <1>r
  <2>10. TypesAgree'
    BY <2>2, <2>3, <2>4, <2>5, <2>6, <1>r
  <2>11. SectorSizeOfImage'
    BY <2>2, <2>3, <2>4, <2>5, <2>6, <1>r
  <2> QED BY <2>7, <2>8, <2>9, <2>10, <2>11
<1>4. CASE \E size \in SectorSize : MountCdBadFile(size)
  <2>1. (NothingLeftBehind /\ ProxyHasPort)'
    BY <1>4, <1>0, <1>r DEF MountCdBadFile, TypeOK, ImageTypeOK
  <2>2. Allocated'
    BY <1>4, <1>0, <1>r DEF MountCdBadFile, TypeOK, ImageTypeOK
  <2>3. (Offsets /\ OffsetOfImage)'
    BY <1>4, <1>0, <1>r DEF MountCdBadFile, TypeOK, ImageTypeOK
  <2>4. TypesAgree'
    BY <1>4, <1>0, <1>r DEF MountCdBadFile, TypeOK, ImageTypeOK
  <2>5. SectorSizeOfImage'
    BY <1>4, <1>0, <1>r DEF MountCdBadFile, TypeOK, ImageTypeOK
  <2> QED BY <2>1, <2>2, <2>3, <2>4, <2>5
<1>5. CASE \E size \in SectorSize : MountProxyBusy(size)
  <2>1. (NothingLeftBehind /\ ProxyHasPort)'
    BY <1>5, <1>0, <1>r DEF MountProxyBusy, TypeOK, ImageTypeOK
  <2>2. Allocated'
    BY <1>5, <1>0, <1>r DEF MountProxyBusy, TypeOK, ImageTypeOK
  <2>3. (Offsets /\ OffsetOfImage)'
    BY <1>5, <1>0, <1>r DEF MountProxyBusy, TypeOK, ImageTypeOK
  <2>4. TypesAgree'
    BY <1>5, <1>0, <1>r DEF MountProxyBusy, TypeOK, ImageTypeOK
  <2>5. SectorSizeOfImage'
    BY <1>5, <1>0, <1>r DEF MountProxyBusy, TypeOK, ImageTypeOK
  <2> QED BY <2>1, <2>2, <2>3, <2>4, <2>5
<1>6. CASE \E size \in SectorSize : MountProxyFails(size)
  <2>1. (NothingLeftBehind /\ ProxyHasPort)'
    BY <1>6, <1>0, <1>r DEF MountProxyFails, TypeOK, ImageTypeOK
  <2>2. Allocated'
    BY <1>6, <1>0, <1>r DEF MountProxyFails, TypeOK, ImageTypeOK
  <2>3. (Offsets /\ OffsetOfImage)'
    BY <1>6, <1>0, <1>r DEF MountProxyFails, TypeOK, ImageTypeOK
  <2>4. TypesAgree'
    BY <1>6, <1>0, <1>r DEF MountProxyFails, TypeOK, ImageTypeOK
  <2>5. SectorSizeOfImage'
    BY <1>6, <1>0, <1>r DEF MountProxyFails, TypeOK, ImageTypeOK
  <2> QED BY <2>1, <2>2, <2>3, <2>4, <2>5
<1>7. CASE \E e \in ProxyEmu, size \in SectorSize : MountProxy(e, size)
  <2>1. (NothingLeftBehind /\ ProxyHasPort)'
    BY <1>7, <1>0, <1>r DEF MountProxy, Emulate, ProxyEmu, TypeOK, ImageTypeOK
  <2>2. Allocated'
    BY <1>7, <1>0, <1>r DEF MountProxy, Emulate, ProxyEmu, TypeOK, ImageTypeOK
  <2>3. (Offsets /\ OffsetOfImage)'
    BY <1>7, <1>0, <1>r DEF MountProxy, Emulate, ProxyEmu, TypeOK, ImageTypeOK
  <2>4. TypesAgree'
    BY <1>7, <1>0, <1>r DEF MountProxy, Emulate, ProxyEmu, TypeOK, ImageTypeOK
  <2>5. SectorSizeOfImage'
    BY <1>7, <1>0, <1>r DEF MountProxy, Emulate, ProxyEmu, TypeOK, ImageTypeOK
  <2> QED BY <2>1, <2>2, <2>3, <2>4, <2>5
<1>8. CASE Umount
  <2>1. (NothingLeftBehind /\ ProxyHasPort)'
    BY <1>8, <1>0, <1>r DEF Umount, TypeOK, ImageTypeOK
  <2>2. Allocated'
    BY <1>8, <1>0, <1>r DEF Umount, TypeOK, ImageTypeOK
  <2>3. (Offsets /\ OffsetOfImage)'
    BY <1>8, <1>0, <1>r DEF Umount, TypeOK, ImageTypeOK
  <2>4. TypesAgree'
    BY <1>8, <1>0, <1>r DEF Umount, TypeOK, ImageTypeOK
  <2>5. SectorSizeOfImage'
    BY <1>8, <1>0, <1>r DEF Umount, TypeOK, ImageTypeOK
  <2> QED BY <2>1, <2>2, <2>3, <2>4, <2>5
<1>9. CASE Read
  <2>1. (NothingLeftBehind /\ ProxyHasPort)'
    BY <1>9, <1>0, <1>r DEF Read, Served, TypeOK, ImageTypeOK
  <2>2. Allocated'
    BY <1>9, <1>0, <1>r DEF Read, Served, TypeOK, ImageTypeOK
  <2>3. (Offsets /\ OffsetOfImage)'
    BY <1>9, <1>0, <1>r DEF Read, Served, TypeOK, ImageTypeOK
  <2>4. TypesAgree'
    BY <1>9, <1>0, <1>r DEF Read, Served, TypeOK, ImageTypeOK
  <2>5. SectorSizeOfImage'
    BY <1>9, <1>0, <1>r DEF Read, Served, TypeOK, ImageTypeOK
  <2> QED BY <2>1, <2>2, <2>3, <2>4, <2>5
<1>10. CASE FindLibCrypt
  <2>1. (NothingLeftBehind /\ ProxyHasPort)'
    BY <1>10, <1>0, <1>r DEF FindLibCrypt, TypeOK, ImageTypeOK
  <2>2. Allocated'
    BY <1>10, <1>0, <1>r DEF FindLibCrypt, TypeOK, ImageTypeOK
  <2>3. (Offsets /\ OffsetOfImage)'
    BY <1>10, <1>0, <1>r DEF FindLibCrypt, TypeOK, ImageTypeOK
  <2>4. TypesAgree'
    BY <1>10, <1>0, <1>r DEF FindLibCrypt, TypeOK, ImageTypeOK
  <2>5. SectorSizeOfImage'
    BY <1>10, <1>0, <1>r DEF FindLibCrypt, TypeOK, ImageTypeOK
  <2> QED BY <2>1, <2>2, <2>3, <2>4, <2>5
<1>11. CASE \E t \in DiscType \cup {None} : Insert(t)
  <2>1. (NothingLeftBehind /\ ProxyHasPort)'
    BY <1>11, <1>r DEF Insert
  <2>2. Allocated'
    BY <1>11, <1>r DEF Insert
  <2>3. (Offsets /\ OffsetOfImage)'
    BY <1>11, <1>r DEF Insert
  <2>4. TypesAgree'
    <3>1. PICK t \in DiscType \cup {None} : Insert(t)
      BY <1>11
    <3>2. PICK found : /\ found = None => t = None
                       /\ effective' = found
                       /\ fake' = IF found = t THEN None ELSE found
      <4>1. \A found \in Contents(t) : found = None => t = None
        BY ImageAssumption DEF Contents, DiscType
      <4>2. ASSUME emu # "off" PROVE TypeFor(emu) \in DiscType
        BY <4>2, <1>0 DEF TypeOK, ImageTypeOK, Emu, FileEmu, CdEmu, TypeFor, DiscType
      <4>3. TypeFor(emu) # None \/ emu = "off"
        BY <4>2, ImageAssumption
      <4> QED BY <3>1, <4>1, <4>3 DEF Insert
    <3> QED BY <3>1, <3>2 DEF Insert
  <2>5. SectorSizeOfImage'
    BY <1>11, <1>r DEF Insert
  <2> QED BY <2>1, <2>2, <2>3, <2>4, <2>5
<1>12. CASE Eject
  <2>1. (NothingLeftBehind /\ ProxyHasPort)'
    BY <1>12, <1>0, <1>r DEF Eject, TypeOK, ImageTypeOK
  <2>2. Allocated'
    BY <1>12, <1>0, <1>r DEF Eject, TypeOK, ImageTypeOK
  <2>3. (Offsets /\ OffsetOfImage)'
    BY <1>12, <1>0, <1>r DEF Eject, TypeOK, ImageTypeOK
  <2>4. TypesAgree'
    BY <1>12, <1>0, <1>r DEF Eject, TypeOK, ImageTypeOK
  <2>5. SectorSizeOfImage'
    BY <1>12, <1>0, <1>r DEF Eject, TypeOK, ImageTypeOK
  <2> QED BY <2>1, <2>2, <2>3, <2>4, <2>5
<1>13. CASE \E b \in BOOLEAN : OtherEvent(b)
  <2>1. (NothingLeftBehind /\ ProxyHasPort)'
    BY <1>13, <1>0, <1>r DEF OtherEvent, TypeOK, ImageTypeOK
  <2>2. Allocated'
    BY <1>13, <1>0, <1>r DEF OtherEvent, TypeOK, ImageTypeOK
  <2>3. (Offsets /\ OffsetOfImage)'
    BY <1>13, <1>0, <1>r DEF OtherEvent, TypeOK, ImageTypeOK
  <2>4. TypesAgree'
    BY <1>13, <1>0, <1>r DEF OtherEvent, TypeOK, ImageTypeOK
  <2>5. SectorSizeOfImage'
    BY <1>13, <1>0, <1>r DEF OtherEvent, TypeOK, ImageTypeOK
  <2> QED BY <2>1, <2>2, <2>3, <2>4, <2>5
<1>14. CASE UNCHANGED mountVars
  BY <1>14, <1>r DEF mountVars
<1> QED BY <1>1, <1>2, <1>3, <1>4, <1>5, <1>6, <1>7, <1>8,
           <1>9, <1>10, <1>11, <1>12, <1>13, <1>14 DEF Next, Mount, Event

\* The invariant holds in every reachable state.
THEOREM MountInvariance == Spec => []MountInv
BY InitMountInv, NextMountInv, PTL DEF Spec

\* Every read is served from the image mounted last, unless a failed CD
\* mount left its DiscFileCD behind.
THEOREM OwnImageRead == Spec => []ReadsOwnImage
<1>1. MountInv => ReadsOwnImage
  BY ImageAssumption DEF MountInv, MInv, TypeOK, Allocated, OffsetOfImage, ReadsOwnImage, Served
<1> QED BY <1>1, MountInvariance, PTL

\* base_offset fits the image, up to what a failed .PNG mount left behind.
THEOREM OwnOffset == Spec => []OffsetOfImage
<1>1. MountInv => OffsetOfImage
  BY DEF MountInv, MInv
<1> QED BY <1>1, MountInvariance, PTL

\* The proxy port is open exactly while a proxy image is mounted.
THEOREM OwnPort == Spec => []ProxyHasPort
<1>1. MountInv => ProxyHasPort
  BY DEF MountInv, MInv
<1> QED BY <1>1, MountInvariance, PTL

\* Nothing but an orphaned DiscFileCD outlives an unmount.
THEOREM CleanUnmount == Spec => []NothingLeftBehind
<1>1. MountInv => NothingLeftBehind
  BY DEF MountInv, MInv
<1> QED BY <1>1, MountInvariance, PTL

\* The sector size is the one the image was mounted with, unless a refused
\* proxy mount changed it.
THEOREM OwnSectorSize == Spec => []SectorSizeOfImage
<1>1. MountInv => SectorSizeOfImage
  BY DEF MountInv
<1> QED BY <1>1, MountInvariance, PTL

\* Offset and sector size are those of the mounted image, whatever mounts that
\* failed or were refused have left.
THEOREM OwnAddress == Spec => []AddressedByImage
BY OwnOffset, OwnSectorSize, PTL DEF AddressedByImage

\* The disc type in storage events and the faked device type never disagree.
THEOREM TypesInStep == Spec => []TypesAgree
<1>1. MountInv => TypesAgree
  BY DEF MountInv
<1> QED BY <1>1, MountInvariance, PTL

-----------------------------------------------------------------------------
(* With the video mode.                                                      *)

\* Asking for the size of the device mounts nothing: at most it finds the
\* LibCrypt file of a game.
LEMMA SizeMountsNothing == DeviceSize => FindLibCrypt \/ UNCHANGED mountVars
BY DEF DeviceSize, Selected, Detect

\* Every step of PsxVideo is a step of DiscMount, or leaves all of it alone.
LEMMA VideoStepMounts == [VideoNext]_psxVars => [Next]_mountVars
<1> SUFFICES ASSUME [VideoNext]_psxVars PROVE [Next]_mountVars
  OBVIOUS
<1>1. CASE \E e \in CdEmu, i \in Image, size \in SectorSize : VideoMountCd(e, i, size)
  BY <1>1 DEF VideoMountCd, Next, Mount
<1>2. CASE VideoUmount
  BY <1>2 DEF VideoUmount, Next
<1>3. CASE \E t \in DiscType \cup {None} : VideoInsert(t)
  BY <1>3 DEF VideoInsert, Next, Event
<1>4. CASE VideoEject
  BY <1>4 DEF VideoEject, Next, Event
<1>5. CASE DeviceSize
  BY <1>5, SizeMountsNothing DEF Next
<1>6. CASE ForceVideoMode
  BY <1>6 DEF ForceVideoMode
<1>7. CASE NotVideo
  BY <1>7 DEF NotVideo, Next, Mount, Event
<1>8. CASE UNCHANGED psxVars
  BY <1>8 DEF psxVars
<1> QED BY <1>1, <1>2, <1>3, <1>4, <1>5, <1>6, <1>7, <1>8 DEF VideoNext

\* The payload with the video mode implements the one without it.
THEOREM ImplementsMount == VideoSpec => Spec
<1>1. VideoInit => Init
  BY DEF VideoInit
<1> QED BY <1>1, VideoStepMounts, PTL DEF VideoSpec, Spec

\* Whatever VSH asks for meanwhile, reads come from the image mounted last,
\* from its offset; no port, file or descriptor is left over; and the disc
\* types agree.
THEOREM MountedWithVideo ==
  VideoSpec => [](ReadsOwnImage /\ OffsetOfImage /\ ProxyHasPort /\ NothingLeftBehind
                  /\ SectorSizeOfImage /\ TypesAgree)
BY ImplementsMount, OwnImageRead, OwnOffset, OwnPort, CleanUnmount, OwnSectorSize, TypesInStep, PTL

-----------------------------------------------------------------------------
\* The modes there are, and that a patch is remembered until it is undone.
Modes == videoMode \in -2..2 /\ forced \in 0..2
Remembered == patch # None => videoMode \in {2, -1}

PatchInv == Modes /\ Remembered /\ PatchTakenBack

\* What do_video_mode_patch selects is a mode; for a disc that is no PSX disc
\* it never patches, and takes back the patch there is.
LEMMA SelectedMode ==
  ASSUME Modes, NEW mode \in -2..2, Selected(mode)
  PROVE  /\ forced' \in 0..2
         /\ effective' = effective
         /\ effective # "psx" => mode \in {-2, -1} /\ (videoMode \in {2, -1} => mode = -1)
         /\ mode = -2 => videoMode = -2
         /\ mode = 2 => videoMode = 2
<1>1. FindLibCrypt \/ UNCHANGED mountVars => effective' = effective
  BY DEF FindLibCrypt, mountVars, typeVars
<1>2. CASE effective # "psx"
  BY <1>1, <1>2 DEF Selected, Modes
<1>3. CASE effective = "psx"
  BY <1>1, <1>3 DEF Selected, Detect, Modes
<1> QED BY <1>2, <1>3

\* A size asked for keeps the invariant.
LEMMA SizeKeepsPatch == PatchInv /\ DeviceSize => PatchInv'
<1> SUFFICES ASSUME PatchInv, DeviceSize PROVE PatchInv'
  OBVIOUS
<1>1. PICK mode \in -2..2 :
        /\ Selected(mode)
        /\ patch' = CASE mode \in {0, 1} -> mode [] mode = -1 -> None [] OTHER -> patch
        /\ videoMode' = CASE mode \in {0, 1} -> 2 [] mode = -1 -> -2 [] OTHER -> mode
  BY DEF DeviceSize
<1>2. /\ forced' \in 0..2
      /\ effective' = effective
      /\ effective # "psx" => mode \in {-2, -1} /\ (videoMode \in {2, -1} => mode = -1)
      /\ mode = -2 => videoMode = -2
      /\ mode = 2 => videoMode = 2
  BY <1>1, SelectedMode DEF PatchInv
<1>3. CASE mode \in {0, 1}
  BY <1>1, <1>2, <1>3 DEF PatchInv, Modes, Remembered, PatchTakenBack
<1>4. CASE mode = -1
  BY <1>1, <1>2, <1>4 DEF PatchInv, Modes, Remembered, PatchTakenBack
<1>5. CASE mode \in {-2, 2}
  BY <1>1, <1>2, <1>5 DEF PatchInv, Modes, Remembered, PatchTakenBack
<1> QED BY <1>1, <1>3, <1>4, <1>5

\* No step forgets a patch.
LEMMA NextPatchInv == PatchInv /\ [VideoNext]_psxVars => PatchInv'
<1> SUFFICES ASSUME PatchInv, [VideoNext]_psxVars PROVE PatchInv'
  OBVIOUS
<1> USE ModeAssumption DEF PatchInv, Modes, Remembered, PatchTakenBack
<1>1. ASSUME NEW e \in CdEmu, NEW i \in Image, NEW size \in SectorSize, VideoMountCd(e, i, size)
      PROVE  PatchInv'
  <2>1. NameMode[i] \in 0..2
    OBVIOUS
  <2> QED BY <1>1, <2>1 DEF VideoMountCd, MountCd, typeVars
<1>2. CASE VideoUmount
  BY <1>2 DEF VideoUmount, Umount, typeVars
<1>3. CASE \E t \in DiscType \cup {None} : VideoInsert(t)
  BY <1>3 DEF VideoInsert
<1>4. CASE VideoEject
  BY <1>4 DEF VideoEject, Eject
<1>5. CASE DeviceSize
  BY <1>5, SizeKeepsPatch
<1>6. CASE ForceVideoMode
  BY <1>6 DEF ForceVideoMode, mountVars, typeVars
<1>7. CASE NotVideo /\ UNCHANGED videoVars
  <2>1. effective' = effective
    BY <1>7 DEF NotVideo, MountFile, MountNoFile, MountCdBadFile, MountProxyBusy, MountProxyFails,
                MountProxy, Read, OtherEvent, typeVars
  <2> QED BY <1>7, <2>1 DEF videoVars
<1>8. CASE UNCHANGED psxVars
  BY <1>8 DEF psxVars, mountVars, typeVars, videoVars
<1> QED BY <1>1, <1>2, <1>3, <1>4, <1>5, <1>6, <1>7, <1>8 DEF VideoNext

\* When VSH has asked for the size of a disc that is no PSX disc, its code is
\* as it was.
THEOREM PatchAlwaysTakenBack == VideoSpec => []PatchTakenBack
<1>1. VideoInit => PatchInv
  BY DEF VideoInit, PatchInv, Modes, Remembered, PatchTakenBack
<1>2. PatchInv => PatchTakenBack
  BY DEF PatchInv
<1> QED BY <1>1, <1>2, NextPatchInv, PTL DEF VideoSpec
=============================================================================

----------------------------- MODULE DiscMount -----------------------------
(***************************************************************************)
(* What is mounted: disc_emulation and the globals of storage_ext.c that   *)
(* describe the image, as the mount and unmount syscalls, reads and device *)
(* events leave them.  Every action is one critical section of the global  *)
(* mutex (DiscDispatch shows that they exclude each other), except that a  *)
(* proxy mount sets cd_sector_size before it locks.                        *)
(*                                                                         *)
(* An image is a model value; which bytes a read returns is in IsoRead and *)
(* CdCache, here only which image they come from.                          *)
(***************************************************************************)
EXTENDS Naturals

CONSTANTS
  Image,      \* disc images
  Png,        \* images in a .PNG file, whose data begins after 64 KB
  Protected,  \* images with a .lsd or .sbi file of the same name
  Proxy,      \* stands for an image that VSH reads for the payload
  Drive,      \* stands for the real disc
  None,       \* NULL, UNDEFINED or no disc
  SectorSize, \* sector sizes a client may name or the detection may find
  Raw         \* 2352

DiscType == {"cd", "dvd", "bd", "bdmr", "ps3", "psx", "ps2_cd", "ps2_dvd"}

CdFile == [image : Image, size : SectorSize, sectors : {"image", "libcrypt"}]

ASSUME ImageAssumption ==
  /\ Png \subseteq Image
  /\ Protected \subseteq Image
  /\ Proxy \notin Image
  /\ Drive \notin Image \cup {Proxy}
  /\ None \notin Image \cup {Proxy, Drive}
  /\ Raw \in SectorSize
  /\ None \notin DiscType \cup CdFile

VARIABLES
  emu,        \* disc_emulation
  total,      \* total_emulation
  file,       \* discfile: its image
  cd,         \* discfile_cd: its image, sector size of its cache, source of num_sectors
  proxy,      \* discfile_proxy # NULL
  port,       \* proxy_command_port: null, open or destroyed
  discfd,     \* the image discfd is open on
  shifted,    \* base_offset is 64 KB
  sectorSize, \* cd_sector_size
  subq,       \* the image whose LibCrypt file subqfd is open on
  real,       \* real_disctype
  effective,  \* effective_disctype
  fake,       \* fake_disctype
  rec,        \* emu_ps3_rec
  mounting,   \* disc_being_mounted
  current,    \* history: the image mounted last, if it still is
  orphan,     \* history: a mount failed after it had allocated discfile_cd
  stale,      \* history: a mount failed after it had set base_offset
  resized     \* history: a refused proxy mount has set cd_sector_size

imageVars == <<file, cd, proxy, discfd, shifted, sectorSize>>
typeVars == <<real, effective, fake, mounting>>
historyVars == <<current, orphan, stale, resized>>
mountVars == <<emu, total, imageVars, port, subq, typeVars, rec, historyVars>>

FileEmu == {"ps3", "dvd", "bd", "ps2_dvd", "ps2_cd"}   \* may use discfile
CdEmu == {"psx", "ps2_cd"}                             \* may use discfile_cd
ProxyEmu == {"ps3", "dvd", "bd", "psx"}
Emu == {"off"} \cup FileEmu \cup CdEmu

\* What process_disc_insert makes of a disc while e is emulated.
TypeFor(e) == IF e = "bd" THEN "bdmr" ELSE e

-----------------------------------------------------------------------------
(* Mounting.                                                               *)

\* The last step of every mount that succeeds.
Emulate(e, i) ==
  /\ emu' = e
  /\ total' = (~mounting /\ real = None)
  /\ current' = i

Refused == UNCHANGED <<emu, total, current>>

\* Mutant: the DiscFile is kept when the file cannot be used.
MountFileKeepsBad(e, i) ==
  /\ emu = "off"
  /\ shifted' = (i \in Png)
  /\ \/ Emulate(e, i) /\ file' = i /\ stale' = FALSE
     \/ Refused /\ file' = i /\ stale' = (i \in Png)
  /\ UNCHANGED <<cd, proxy, discfd, sectorSize, port, subq, typeVars, rec, orphan, resized>>

\* mount_common of a file of image i: base_offset is set first, and stays
\* when the file cannot be used.
MountFile(e, i) ==
  /\ emu = "off"
  /\ shifted' = (i \in Png)
  /\ \/ Emulate(e, i) /\ file' = i /\ stale' = FALSE
     \/ Refused /\ file' = None /\ stale' = (i \in Png)
  /\ UNCHANGED <<cd, proxy, discfd, sectorSize, port, subq, typeVars, rec, orphan, resized>>

\* mount_common with no file, too many or names of a bad length.
MountNoFile ==
  /\ emu = "off"
  /\ shifted' = FALSE
  /\ stale' = FALSE
  /\ UNCHANGED <<emu, total, file, cd, proxy, discfd, sectorSize, port, subq, typeVars, rec,
                 current, orphan, resized>>

\* mount_ps_cd refuses a file that is missing or too small, a long name or
\* too many tracks, but has set the sector size the client named.
MountCdBadFile(size) ==
  /\ emu = "off"
  /\ sectorSize' = size
  /\ UNCHANGED <<emu, total, file, cd, proxy, discfd, shifted, port, subq, typeVars, rec,
                 historyVars>>

\* mount_ps_cd of a usable file.  base_offset is only ever set here; the
\* LibCrypt file is looked for beside a raw image, and its stat is what
\* num_sectors is computed from when there is one.  A failing cellFsOpen is
\* reported, but discfile_cd has been allocated.
MountCd(e, i, size) ==
  /\ emu = "off"
  /\ shifted' = (shifted \/ i \in Png)
  /\ \E detected \in IF size = Raw THEN SectorSize ELSE {size}, opened \in BOOLEAN :
       /\ size # Raw => opened
       /\ ~opened => detected = size
       /\ sectorSize' = detected
       /\ cd' = [image |-> i, size |-> detected,
                 sectors |-> IF size = Raw /\ i \in Protected THEN "libcrypt" ELSE "image"]
       /\ IF opened THEN Emulate(e, i) ELSE Refused
       /\ orphan' = ~opened
       /\ resized' = FALSE
       /\ stale' = (stale \/ (~opened /\ i \in Png))
  \* read_libcrypt_sectors: opened, not opened, or closed again.
  /\ subq' \in IF size = Raw /\ i \in Protected THEN {i, subq, None} ELSE {subq}
  /\ discfd' = IF size = Raw THEN None ELSE discfd
  /\ UNCHANGED <<file, proxy, port, typeVars, rec>>

\* sys_storage_ext_mount_discfile_proxy refuses while something is mounted,
\* but has set the sector size by then.
MountProxyBusy(size) ==
  /\ emu # "off"
  /\ sectorSize' = size
  /\ resized' = TRUE
  /\ UNCHANGED <<emu, total, file, cd, proxy, discfd, shifted, port, subq, typeVars, rec,
                 current, orphan, stale>>

\* The ports cannot be opened, or not be connected: the command port that was
\* created is destroyed, its pointer is kept.
MountProxyFails(size) ==
  /\ emu = "off"
  /\ sectorSize' = size
  /\ port' \in {port, "destroyed"}
  /\ UNCHANGED <<emu, total, file, cd, proxy, discfd, shifted, subq, typeVars, rec, historyVars>>

MountProxy(e, size) ==
  /\ emu = "off"
  /\ sectorSize' = size
  /\ port' = "open"
  /\ proxy' = TRUE
  /\ Emulate(e, Proxy)
  /\ UNCHANGED <<file, cd, discfd, shifted, subq, typeVars, rec, orphan, stale, resized>>

\* Mutant: base_offset is not cleared.
UmountKeepsOffset ==
  /\ emu # "off"
  /\ emu' = "off"
  /\ total' = FALSE
  /\ rec' = FALSE
  /\ shifted' = shifted
  /\ discfd' = None
  /\ file' = None
  /\ cd' = None
  /\ proxy' = FALSE
  /\ port' = IF proxy THEN "null" ELSE port
  /\ current' = None
  /\ orphan' = FALSE
  /\ stale' = FALSE
  /\ resized' = FALSE
  /\ UNCHANGED <<sectorSize, subq, typeVars>>

\* Mutant: discfd is not closed.
UmountKeepsDescriptor ==
  /\ emu # "off"
  /\ emu' = "off"
  /\ total' = FALSE
  /\ rec' = FALSE
  /\ shifted' = FALSE
  /\ discfd' = discfd
  /\ file' = None
  /\ cd' = None
  /\ proxy' = FALSE
  /\ port' = IF proxy THEN "null" ELSE port
  /\ current' = None
  /\ orphan' = FALSE
  /\ stale' = FALSE
  /\ resized' = FALSE
  /\ UNCHANGED <<sectorSize, subq, typeVars>>

\* Mutant: the command port is not destroyed.
UmountKeepsPort ==
  /\ emu # "off"
  /\ emu' = "off"
  /\ total' = FALSE
  /\ rec' = FALSE
  /\ shifted' = FALSE
  /\ discfd' = None
  /\ file' = None
  /\ cd' = None
  /\ proxy' = FALSE
  /\ port' = port
  /\ current' = None
  /\ orphan' = FALSE
  /\ stale' = FALSE
  /\ resized' = FALSE
  /\ UNCHANGED <<sectorSize, subq, typeVars>>

\* do_umount_discfile; umount_discfile does nothing while nothing is mounted.
Umount ==
  /\ emu # "off"
  /\ emu' = "off"
  /\ total' = FALSE
  /\ rec' = FALSE
  /\ shifted' = FALSE
  /\ discfd' = None
  /\ file' = None
  /\ cd' = None
  /\ proxy' = FALSE
  /\ port' = IF proxy THEN "null" ELSE port
  /\ current' = None
  /\ orphan' = FALSE
  /\ stale' = FALSE
  /\ resized' = FALSE
  /\ UNCHANGED <<sectorSize, subq, typeVars>>

-----------------------------------------------------------------------------
(* Reading.                                                                *)

\* dispatch_thread_entry looks at the proxy first, then at discfile_cd; both
\* readers of a file use discfd if it is open.
Served ==
  IF proxy THEN Proxy
  ELSE IF discfd # None THEN discfd
  ELSE IF cd # None THEN cd.image
  ELSE file

\* The first read of a file opens it, or fails.
Read ==
  /\ emu # "off"
  /\ ~proxy
  /\ discfd' = Served
  /\ UNCHANGED <<emu, total, file, cd, proxy, shifted, sectorSize, port, subq, typeVars, rec,
                 historyVars>>

\* process_get_psx_video_mode looks for the LibCrypt file of the game in
\* /dev_hdd0/tmp, if none is open; it does not open the image itself.
FindLibCrypt ==
  /\ effective = "psx"
  /\ subq = None
  /\ \/ emu = "off" /\ subq' = Drive
     \/ emu # "off" /\ (proxy \/ discfd # None) /\ subq' = Served
  /\ UNCHANGED <<emu, total, imageVars, port, typeVars, rec, historyVars>>

-----------------------------------------------------------------------------
(* Device events.                                                          *)

\* What read_real_disc_sector may find on a disc that is reported as type t; without
\* a type it is not read.
Contents(t) ==
  CASE t = "cd" -> {t, "psx", "ps2_cd", "ps3"}
    [] t = "dvd" -> {t, "ps2_dvd", "ps3"}
    [] t \in {"ps3", None} -> {t}
    [] OTHER -> {t, "ps3"}

\* Event 3: process_disc_insert.  The drive may name no type.
Insert(t) ==
  /\ real' = t
  /\ mounting' = FALSE
  /\ \E found \in IF emu = "off" THEN Contents(t) ELSE {TypeFor(emu)} :
       /\ effective' = found
       /\ fake' = IF found = t THEN None ELSE found
       /\ rec' = (emu = "off" /\ found = "ps3" /\ t # "ps3")
  /\ UNCHANGED <<emu, total, imageVars, port, subq, historyVars>>

\* Mutant: an ejection keeps the faked type.
EjectKeepsFake ==
  /\ real' = None
  /\ effective' = None
  /\ mounting' = FALSE
  /\ UNCHANGED <<emu, total, imageVars, port, subq, fake, rec, historyVars>>

\* Event 4.
Eject ==
  /\ real' = None
  /\ effective' = None
  /\ fake' = None
  /\ mounting' = FALSE
  /\ UNCHANGED <<emu, total, imageVars, port, subq, rec, historyVars>>

\* Events 7 (a disc is being mounted) and 8.
OtherEvent(isMounting) ==
  /\ mounting' = isMounting
  /\ UNCHANGED <<emu, total, imageVars, port, subq, real, effective, fake, rec, historyVars>>

-----------------------------------------------------------------------------
Init ==
  /\ emu = "off"
  /\ total = FALSE
  /\ file = None
  /\ cd = None
  /\ proxy = FALSE
  /\ port = "null"
  /\ discfd = None
  /\ shifted = FALSE
  /\ sectorSize = Raw
  /\ subq = None
  /\ real = None
  /\ effective = None
  /\ fake = None
  /\ rec = FALSE
  /\ mounting = FALSE
  /\ current = None
  /\ orphan = FALSE
  /\ stale = FALSE
  /\ resized = FALSE

Mount ==
  \/ \E e \in FileEmu, i \in Image : MountFile(e, i)
  \/ MountNoFile
  \/ \E e \in CdEmu, i \in Image, size \in SectorSize : MountCd(e, i, size)
  \/ \E size \in SectorSize : MountCdBadFile(size) \/ MountProxyBusy(size) \/ MountProxyFails(size)
  \/ \E e \in ProxyEmu, size \in SectorSize : MountProxy(e, size)

Event ==
  \/ \E t \in DiscType \cup {None} : Insert(t)
  \/ Eject
  \/ \E b \in BOOLEAN : OtherEvent(b)

Next == Mount \/ Umount \/ Read \/ FindLibCrypt \/ Event

Spec == Init /\ [][Next]_mountVars
=============================================================================

--------------------------- MODULE DiscMountProps ---------------------------
(***************************************************************************)
(* Properties of DiscMount.                                                *)
(***************************************************************************)
EXTENDS DiscMount

\* What is mounted.
ImageTypeOK ==
  /\ emu \in Emu
  /\ file \in Image \cup {None}
  /\ cd \in CdFile \cup {None}
  /\ discfd \in Image \cup {None}
  /\ sectorSize \in SectorSize
  /\ subq \in Image \cup {Proxy, Drive, None}
  /\ current \in Image \cup {Proxy, None}
  /\ port \in {"null", "open", "destroyed"}

\* The disc in the drive.
DriveTypeOK ==
  /\ real \in DiscType \cup {None}
  /\ effective \in DiscType \cup {None}
  /\ fake \in DiscType \cup {None}

FlagTypeOK == {total, proxy, shifted, rec, mounting, orphan, stale, resized} \subseteq BOOLEAN

TypeOK == ImageTypeOK /\ DriveTypeOK /\ FlagTypeOK

\* A read returns data of the image that was mounted last, whatever was
\* mounted, refused and unmounted before; the exception is a mount of a CD
\* image that failed in cellFsOpen and left its discfile_cd behind, which
\* dispatch_thread_entry prefers to the discfile of the next mount.
ReadsOwnImage ==
  emu # "off" => Served = current \/ (orphan /\ ~proxy /\ Served = cd.image)

\* base_offset fits the mounted image; mount_ps_cd never clears it, so a
\* failed mount of a .PNG file can shift the CD image mounted next.
OffsetOfImage ==
  emu # "off" /\ ~proxy /\ ~orphan =>
    /\ current \in Png => shifted
    /\ shifted /\ current \notin Png => cd # None /\ stale

\* The command port of a mounted proxy is connected, and that of none is not:
\* do_umount_discfile never destroys a port twice and loses no open one.
ProxyHasPort == proxy <=> port = "open"

\* While nothing is mounted no descriptor, file list or proxy is left over,
\* so that the next mount starts afresh; discfile_cd may be (see above).
NothingLeftBehind ==
  emu = "off" => /\ file = None /\ ~proxy /\ discfd = None /\ ~total /\ current = None
                 /\ cd # None => orphan

\* The device type that GET_DEVICE_TYPE fakes and the one in the storage event
\* agree, and without a fake it is the type of the real disc.
TypesAgree == effective = IF fake = None THEN real ELSE fake

\* The size by which sectors of the mounted CD image are addressed, and for
\* which its cache was allocated, is the one the mount found; a proxy mount
\* that is refused changes it all the same.
SectorSizeOfImage ==
  emu # "off" /\ cd # None /\ ~orphan => sectorSize = cd.size \/ resized

\* Offset and sector size by which the mounted image is addressed are its own,
\* whatever other mounts have left.
AddressedByImage == OffsetOfImage /\ SectorSizeOfImage

-----------------------------------------------------------------------------
\* The inductive invariant: what is allocated, by the kind of the mount.
Allocated ==
  /\ emu # "off" => \/ file # None /\ ~proxy /\ current = file /\ (cd # None => orphan)
                    \/ file = None /\ ~proxy /\ cd # None /\ current = cd.image
                    \/ file = None /\ proxy /\ current = Proxy /\ (cd # None => orphan)
  /\ discfd # None => emu # "off" /\ ~proxy /\ discfd = (IF cd # None THEN cd.image ELSE file)

Offsets ==
  /\ emu = "off" /\ shifted => stale
  /\ emu # "off" /\ file # None => (shifted <=> file \in Png)

MInv == TypeOK /\ NothingLeftBehind /\ Allocated /\ Offsets /\ ProxyHasPort /\ OffsetOfImage

-----------------------------------------------------------------------------
(* What the documentation says and the code does not do.                   *)

\* README: LibCrypt files are supported for PS1 games.  A raw image with such
\* a file should be as long as the image; num_sectors is computed from the
\* stat of the LibCrypt file, and sectors from there on read as zeroes.
LibCryptGameKeepsItsSize == cd # None => cd.sectors = "image"

\* "Open LSD (LibCrypt Subchannel Data) for protected PAL games": a game
\* without such a file should not get the subchannel data of another one.
SubchannelOnlyForProtected ==
  emu = "psx" /\ current \in Image \ Protected => subq \in {None, current}
=============================================================================

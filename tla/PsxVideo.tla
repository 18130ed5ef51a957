------------------------------ MODULE PsxVideo ------------------------------
(***************************************************************************)
(* The video mode of PSX discs: do_video_mode_patch, which VSH triggers by *)
(* asking for the size of the device, patches VSH for an NTSC or PAL disc  *)
(* and takes the patch back for other discs.  Extends DiscMount with       *)
(* forced_video_mode, video_mode and the patched instruction of VSH.       *)
(***************************************************************************)
EXTENDS DiscMount, Integers

CONSTANTS
  ModeOf,    \* ModeOf[i]: 0 when the game of image i is NTSC, 1 when it is PAL
  NameMode,  \* NameMode[i]: 1 or 2 when the path of image i has "NTSC" or "PAL" in it, else 0
  UserMode   \* modes a client forces by system call

ASSUME ModeAssumption ==
  /\ ModeOf \in [Image -> {0, 1}]
  /\ NameMode \in [Image -> 0..2]
  /\ UserMode \subseteq 0..2

VARIABLES
  forced,     \* forced_video_mode: 0 detect, 1 NTSC, 2 PAL
  videoMode,  \* video_mode: 0/1 to patch, 2 patched, -1 to restore, -2 nothing to do
  patch,      \* what the patched instruction of VSH selects: 0, 1 or None
  driveMode,  \* the mode of the real disc
  asked       \* history: the size was asked for since the last insertion or ejection

videoVars == <<forced, videoMode, patch, driveMode, asked>>
psxVars == <<mountVars, videoVars>>

VideoMountCd(e, i, size) ==
  /\ MountCd(e, i, size)
  /\ forced' = IF size = Raw /\ NameMode[i] # 0 THEN NameMode[i] ELSE forced
  /\ UNCHANGED <<videoMode, patch, driveMode, asked>>

VideoUmount ==
  /\ Umount
  /\ forced' = 0
  /\ UNCHANGED <<videoMode, patch, driveMode, asked>>

VideoInsert(t) ==
  /\ Insert(t)
  /\ driveMode' \in {0, 1}
  /\ asked' = FALSE
  /\ UNCHANGED <<forced, videoMode, patch>>

VideoEject ==
  /\ Eject
  /\ videoMode' = IF effective = "psx" THEN -1 ELSE videoMode
  /\ asked' = FALSE
  /\ UNCHANGED <<forced, patch, driveMode>>

\* The disc that process_get_psx_video_mode reads, if it can read one.
PlayedMode ==
  IF emu = "off" THEN driveMode
  ELSE IF ~proxy /\ discfd # None THEN ModeOf[discfd]
  ELSE -1

\* process_get_psx_video_mode: -1 when the game is not recognised; the result
\* is kept in forced_video_mode.
Detect(mode) ==
  /\ mode \in IF emu # "off" /\ proxy THEN {-1, 0, 1} ELSE {-1, PlayedMode}
  /\ forced' = mode + 1
  /\ FindLibCrypt \/ UNCHANGED mountVars

\* Mutant: another disc does not undo the patch.
SelectedKeepsPatch(mode) ==
  IF effective # "psx" \/ videoMode = 2
  THEN mode = videoMode /\ UNCHANGED <<forced, mountVars>>
  ELSE IF forced # 0 THEN mode = forced - 1 /\ UNCHANGED <<forced, mountVars>>
  ELSE \E d \in {-1, 0, 1} : Detect(d) /\ mode = IF d >= 0 THEN d ELSE videoMode

\* The mode to patch for, or a negative number; detected once per patch.
Selected(mode) ==
  IF effective # "psx"
  THEN /\ mode = IF videoMode >= 0 THEN -1 ELSE videoMode
       /\ UNCHANGED <<forced, mountVars>>
  ELSE IF videoMode = 2 THEN mode = 2 /\ UNCHANGED <<forced, mountVars>>
  ELSE IF forced # 0 THEN mode = forced - 1 /\ UNCHANGED <<forced, mountVars>>
  ELSE \E d \in {-1, 0, 1} : Detect(d) /\ mode = IF d >= 0 THEN d ELSE videoMode

\* do_video_mode_patch in VSH.
DeviceSize ==
  \E mode \in -2..2 :
    /\ Selected(mode)
    /\ patch' = CASE mode \in {0, 1} -> mode [] mode = -1 -> None [] OTHER -> patch
    /\ videoMode' = CASE mode \in {0, 1} -> 2 [] mode = -1 -> -2 [] OTHER -> mode
    /\ asked' = TRUE
    /\ UNCHANGED driveMode

\* SYSCALL8_OPCODE_FORCE_VIDEO_MODE.
ForceVideoMode ==
  /\ forced' \in UserMode
  /\ UNCHANGED <<mountVars, videoMode, patch, driveMode, asked>>

VideoInit ==
  /\ Init
  /\ forced = 0
  /\ videoMode = -2
  /\ patch = None
  /\ driveMode = 0
  /\ asked = FALSE

\* What leaves the video mode alone.
NotVideo ==
  \/ \E e \in FileEmu, i \in Image : MountFile(e, i)
  \/ MountNoFile
  \/ \E size \in SectorSize : MountCdBadFile(size) \/ MountProxyBusy(size) \/ MountProxyFails(size)
  \/ \E e \in ProxyEmu, size \in SectorSize : MountProxy(e, size)
  \/ Read
  \/ \E b \in BOOLEAN : OtherEvent(b)

VideoNext ==
  \/ \E e \in CdEmu, i \in Image, size \in SectorSize : VideoMountCd(e, i, size)
  \/ VideoUmount
  \/ \E t \in DiscType \cup {None} : VideoInsert(t)
  \/ VideoEject
  \/ DeviceSize
  \/ ForceVideoMode
  \/ NotVideo /\ UNCHANGED videoVars

VideoSpec == VideoInit /\ [][VideoNext]_psxVars

-----------------------------------------------------------------------------
\* Whenever VSH has asked for the size of a disc that is not a PSX disc, its
\* code is as it was, in whatever order discs were inserted, ejected and
\* mounted before.
PatchTakenBack == asked /\ effective # "psx" => patch = None

\* "0 = Detect": when nobody forces a mode, VSH is patched for the disc that
\* is played.
PatchedForPlayedDisc ==
  [][DeviceSize /\ patch' # None /\ patch' # patch /\ ~proxy /\ ~orphan => patch' = PlayedMode]_psxVars
=============================================================================

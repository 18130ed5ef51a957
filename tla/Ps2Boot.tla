------------------------------ MODULE Ps2Boot ------------------------------
(* The image of a PS2 disc across the reboot into an emulator of PS2: the  *)
(* hook shutdown_copy_params_patched writes what is mounted into a file,   *)
(* which the emulator, another system, finds when it starts.  The file     *)
(* outlives the reboot, what is mounted does not.  An image is mounted     *)
(* either as a DiscFile or as a DiscFileCD, which a mount that fails may   *)
(* leave behind (DiscMount).                                               *)
EXTENDS FiniteSets, Naturals

CONSTANTS
  Ps2Image,    \* images of PS2 discs
  OnCd,        \* those of CDs
  Raw,         \* those with raw sectors, which are mounted as a DiscFileCD
  Slots        \* slots of controllers

ASSUME BootAssumption ==
  Raw \subseteq OnCd /\ OnCd \subseteq Ps2Image /\ {"none", "other"} \cap Ps2Image = {}

VARIABLES
  console,   \* ps2emu_type: what of the hardware of a PS2 the console has
  mounted,   \* the PS2 image that is mounted; another image; or nothing
  cdfile,    \* discfile_cd: the image of which it has name and tracks
  orphan,    \* history: a mount failed after it had allocated discfile_cd
  disc,      \* real_disctype: a PS2 disc, a burned one, another one, or none
  cfg,       \* PS2EMU_CONFIG_FILE: missing, empty, cut off, or the image it names
  stage2,    \* the emulator of which PS2EMU_STAGE2_FILE is the second stage, or cut off
  params,    \* ps2bootparam.dat: how many controllers it names, in which slots
  system,    \* the system that runs: PS3, an emulator, or a panic
  launch     \* what the reboot was for, and whether the files were written

imageVars == <<mounted, cdfile, orphan>>
bootVars == <<console, imageVars, disc, cfg, stage2, params, system, launch>>

Missing == [is |-> "missing"]
EmptyFile == [is |-> "empty"]
CutFile == [is |-> "cut"]
\* What is written for image i while discfile_cd is of image c: c's name and
\* tracks if there is one, but the kind of disc of i.
ConfigOf(i, c) ==
  [is |-> "image", image |-> IF c = "none" THEN i ELSE c, cd |-> i \in OnCd, tracks |-> c]
\* discfile_cd of a mounted image.
CdFileOf(i) == IF i \in Raw THEN i ELSE "none"
Params(there) == [count |-> Cardinality(there), slots |-> there]
NoLaunch == [what |-> "none", image |-> "none", orphan |-> FALSE, wrote |-> TRUE,
             there |-> {}, named |-> TRUE]
EmuPs2 == mounted \in Ps2Image

BootInit ==
  /\ console \in {"hw", "gx", "sw"}
  /\ mounted = "none" /\ cdfile = "none" /\ orphan = FALSE /\ disc = "none"
  /\ cfg = Missing /\ stage2 = "none" /\ params = Params({})
  /\ system = "ps3" /\ launch = NoLaunch

-----------------------------------------------------------------------------
(* Mounting: what is mounted is unmounted first, which frees discfile_cd,  *)
(* and nothing is done where nothing is mounted.                           *)

Kept == IF mounted = "none" THEN cdfile ELSE "none"
Left == mounted = "none" /\ orphan

\* A mount that ends before discfile_cd is allocated.
RefuseImage ==
  /\ system = "ps3"
  /\ mounted' = "none" /\ cdfile' = Kept /\ orphan' = Left
  /\ UNCHANGED <<console, disc, cfg, stage2, params, system, launch>>

\* As a DiscFile: discfile_cd stays what it is.
MountFile(i) ==
  /\ system = "ps3"
  /\ mounted' = i /\ cdfile' = Kept /\ orphan' = Left
  /\ UNCHANGED <<console, disc, cfg, stage2, params, system, launch>>

\* As a DiscFileCD; when the image cannot be opened, it stays allocated.
MountCd(i) ==
  /\ system = "ps3"
  /\ cdfile' = i
  /\ \/ mounted' = i /\ orphan' = FALSE
     \/ mounted' = "none" /\ orphan' = TRUE
  /\ UNCHANGED <<console, disc, cfg, stage2, params, system, launch>>

UnmountImage ==
  /\ system = "ps3" /\ mounted # "none"
  /\ mounted' = "none" /\ cdfile' = "none" /\ orphan' = FALSE
  /\ UNCHANGED <<console, disc, cfg, stage2, params, system, launch>>

MountImage ==
  \/ RefuseImage \/ UnmountImage
  \/ \E i \in (Ps2Image \ Raw) \cup {"other"} : MountFile(i)
  \/ \E i \in Raw \cup {"other"} : MountCd(i)

SwapDisc ==
  /\ system = "ps3"
  /\ disc' \in {"none", "ps2", "burned", "other"}
  /\ UNCHANGED <<console, imageVars, cfg, stage2, params, system, launch>>

-----------------------------------------------------------------------------
(* The reboot into an emulator.                                            *)

\* What the file holds after it was opened: the image; nothing, for a burned
\* disc; and for an original disc it is taken away again.
PreparedConfig ==
  IF EmuPs2 THEN ConfigOf(mounted, cdfile) ELSE IF disc = "ps2" THEN Missing ELSE EmptyFile

\* load_ps2emu_stage2, on a console that has one: both files can be opened or not,
\* and what is written is cut off when the disk is full.
LoadStage2 == stage2' \in IF console = "sw" THEN {stage2} ELSE {stage2, console, "cut"}

\* The file is written unless it cannot be opened, which leaves it as it was, or
\* the image cannot be written to it, which leaves it empty or cut off.
Prepare(before) ==
  /\ \/ cfg' = PreparedConfig /\ launch'.wrote
     \/ cfg' = before /\ ~launch'.wrote
     \/ EmuPs2 /\ cfg' \in {EmptyFile, CutFile} /\ ~launch'.wrote
  /\ LoadStage2

Reboot(what, there) ==
  /\ system = "ps3" /\ system' = "emulator"
  /\ mounted' = "none" /\ cdfile' = "none" /\ orphan' = FALSE
  /\ launch' \in [what : {what}, image : {mounted}, orphan : {orphan}, wrote : BOOLEAN,
                   there : {there}, named : BOOLEAN]
  /\ UNCHANGED <<console, disc>>

\* 0x8202: ps2_emu, ps2_gxemu or ps2_softemu.
RebootPs2 == Reboot("disc", {}) /\ Prepare(cfg) /\ launch'.named /\ UNCHANGED params

\* 0x8204, ps2_netemu: on a console with hardware of a PS2 the file is deleted.
ForNetemu == IF console = "sw" THEN cfg ELSE Missing

\* Mutant: the file is left to the game.
RebootNetemuGameKeeps ==
  /\ Reboot("npdrm", {}) /\ launch'.named
  /\ IF EmuPs2 THEN Prepare(Missing) ELSE cfg' = ForNetemu /\ launch'.wrote /\ UNCHANGED stage2
  /\ UNCHANGED params

\* The arguments are those of a game of the store.
RebootNetemuGame ==
  /\ Reboot("npdrm", {}) /\ launch'.named
  /\ IF EmuPs2 THEN Prepare(Missing) ELSE cfg' = Missing /\ launch'.wrote /\ UNCHANGED stage2
  /\ UNCHANGED params

\* build_netemu_params makes the arguments of ps2_netemu from those of ps2_softemu;
\* the controllers that are there go to a file, unless it cannot be opened.
SaveParams(there) ==
  \/ launch'.named /\ params' = Params(there)
  \/ ~launch'.named /\ UNCHANGED params

\* The arguments are those of ps2_softemu.
RebootNetemuImage ==
  /\ EmuPs2
  /\ \E there \in SUBSET Slots : Reboot("soft", there) /\ SaveParams(there)
  /\ Prepare(ForNetemu)

\* The same without an image: with a disc in the drive the system panics, else
\* it goes on, with the file of an earlier reboot.
RebootNetemuDisc ==
  /\ ~EmuPs2
  /\ IF mounted = "none" /\ disc \in {"ps2", "burned"}
     THEN /\ system = "ps3" /\ system' = "panic" /\ cfg' = ForNetemu
          /\ UNCHANGED <<console, imageVars, disc, stage2, launch>>
     ELSE /\ Reboot("soft", {}) /\ cfg' = ForNetemu /\ launch'.wrote /\ launch'.named
          /\ UNCHANGED stage2
  /\ UNCHANGED params

\* Back to the PS3; the disc may have been changed meanwhile.
RebootPs3System ==
  /\ system # "ps3" /\ system' = "ps3"
  /\ mounted' = "none" /\ cdfile' = "none" /\ orphan' = FALSE /\ launch' = NoLaunch
  /\ disc' \in {"none", "ps2", "burned", "other"}
  /\ UNCHANGED <<console, cfg, stage2, params>>

BootNext ==
  \/ MountImage \/ SwapDisc \/ RebootPs2 \/ RebootNetemuGame \/ RebootNetemuImage \/ RebootNetemuDisc
  \/ RebootPs3System

BootSpec == BootInit /\ [][BootNext]_bootVars

-----------------------------------------------------------------------------
\* Unless the file could not be written, the emulator finds the image that was
\* mounted, with the tracks of that image, and after a reboot for a disc or a game
\* without one it finds no image, whatever an earlier mount or reboot has left.
\* The exception is the discfile_cd of a mount that failed, which the next image
\* does not replace if it is no raw one.  ps2_netemu finds the controllers of now.
BootsWhatIsMounted ==
  system = "emulator" =>
    /\ launch.wrote =>
         IF launch.image \in Ps2Image
         THEN launch.orphan \/ cfg = ConfigOf(launch.image, CdFileOf(launch.image))
         ELSE launch.what \in {"disc", "npdrm"} => cfg.is # "image"
    /\ launch.what = "soft" /\ launch.image \in Ps2Image /\ launch.named =>
         params = Params(launch.there)

\* The same of the image alone, orphan or not.  Not so: after a CD image that could
\* not be opened, a PS2 image of a DVD is mounted and its emulator boots the first.
BootsMountedImage ==
  system = "emulator" /\ launch.wrote /\ launch.image \in Ps2Image =>
    cfg.image = launch.image

\* The same without exception.  Not so: a disc that is removed while ps2_netemu is
\* started on a console without the hardware leaves it the image of last time.
NeverStaleImage ==
  system = "emulator" /\ launch.wrote /\ launch.image \notin Ps2Image => cfg.is # "image"
=============================================================================

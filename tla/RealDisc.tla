------------------------------ MODULE RealDisc ------------------------------
(* What the payload makes of a disc that is put into the drive while no    *)
(* image is mounted (process_disc_insert, is_psx): sectors are read behind *)
(* the back of lv2, with retries, and what they hold decides the type the  *)
(* disc is given out as.  The drive may report success and deliver         *)
(* nothing, which is told from a mark that the buffer of the hypervisor    *)
(* was filled with.                                                        *)
EXTENDS Naturals

CONSTANTS
  Medium,      \* what the drive says: "cd", "dvd", "ps3", "other"
  Recorded,     \* what is on it: "psx", "ps2", burned PS3 of two kinds, "plain"
  MaxFailed    \* bound: attempts that fail, of one insertion

ASSUME RealDiscAssumption ==
  /\ Medium \subseteq {"cd", "dvd", "ps3", "other"}
  /\ Recorded \subseteq {"psx", "ps2", "volume", "sector1", "plain"}
  /\ MaxFailed \in Nat

VARIABLES
  real,        \* the disc: real_disctype and what is on it
  dstep,       \* where the insertion is: the call of is_psx, the sector it reads
  tries,       \* attempts left for this sector
  buf,         \* what the buffer of is_psx holds
  fake,        \* fake_disctype
  unread,      \* could_not_read_disc
  failed,      \* attempts that failed, of this insertion
  skipped      \* history: a read after the first failed for good, or no memory

realDiscVars == <<real, dstep, tries, buf, fake, unread, failed, skipped>>

NoDiscIn == [medium |-> "none", content |-> "plain"]
AtRest == [check |-> "none", sector |-> "none"]
Tries(sector) == IF sector \in {"volume", "sector1"} THEN 3 ELSE 2

RealDiscInit ==
  /\ real = NoDiscIn /\ dstep = AtRest /\ tries = 0 /\ buf = "old"
  /\ fake = "none" /\ unread = FALSE /\ failed = 0 /\ skipped = FALSE

-----------------------------------------------------------------------------
\* What a sector of a disc says, if it was read.
Holds(content, sector) ==
  CASE sector = "volume" ->
         IF content \in {"psx", "ps2"} THEN "playstation"
         ELSE IF content = "volume" THEN "ps3volume" ELSE "else"
    [] sector = "sector1" -> IF content = "sector1" THEN "playstation3" ELSE "else"
    [] sector = "directory" -> "system.cnf"
    [] OTHER -> IF content = "ps2" THEN "boot2" ELSE "boot"

\* Calls of is_psx: 1 for a CD, 0 for a DVD, and 3 for what is not taken yet.
FirstCheck(medium) == CASE medium = "cd" -> "ps2" [] medium = "dvd" -> "psx" [] OTHER -> "ps3"

\* is_psx asks for a sector, unless there is no page for its buffer: then it says
\* no, and does not say that the disc could not be read.
BeginCheck(check) ==
  \/ /\ dstep' = [check |-> check, sector |-> "volume"] /\ tries' = Tries("volume")
     /\ UNCHANGED skipped
  \/ /\ dstep' = [check |-> check, sector |-> "said_no"] /\ tries' = 0
     /\ skipped' = TRUE
ReadNext(sector) ==
  dstep' = [dstep EXCEPT !.sector = sector] /\ tries' = Tries(sector)
Says(what) == dstep' = [dstep EXCEPT !.sector = what] /\ tries' = 0

\* process_disc_insert, without an image.
InsertReal ==
  /\ dstep = AtRest
  /\ \E m \in Medium, c \in Recorded :
       /\ c = "psx" => m = "cd"
       /\ real' = [medium |-> m, content |-> c]
       /\ unread' = FALSE /\ fake' = "none" /\ failed' = 0 /\ buf' = "old"
       /\ IF m = "ps3" THEN UNCHANGED <<dstep, tries>> /\ skipped' = FALSE
          ELSE \E memory \in BOOLEAN :
                 /\ dstep' = [check |-> FirstCheck(m),
                              sector |-> IF memory THEN "volume" ELSE "said_no"]
                 /\ tries' = IF memory THEN 3 ELSE 0
                 /\ skipped' = ~memory

\* The sectors is_psx reads, and where it is once it has them.
ReadOf == [volume |-> "volume_read", sector1 |-> "sector1_read",
           directory |-> "directory_read", cnf |-> "cnf_read"]
Sectors == DOMAIN ReadOf

\* process_read_disc_cmd, once: the sector; the mark, when the hypervisor reports
\* success for nothing; or an error, before the buffer is touched.
ReadDisc(sector) ==
  {[ok |-> TRUE, buf |-> Holds(real.content, sector)]} \cup
    IF failed < MaxFailed
    THEN {[ok |-> TRUE, buf |-> "mark"], [ok |-> FALSE, buf |-> buf]} ELSE {}

\* Mutant (by hand): success is believed.
ReadBelieved(got) == got.ok

\* The mark is not a sector.
ReadSucceeds(got) == got.ok /\ got.buf # "mark"

\* One attempt of read_real_disc_sector, of the tries that its caller gives it.
ReadAttempt ==
  /\ dstep.sector \in Sectors /\ tries > 0
  /\ \E got \in ReadDisc(dstep.sector) :
       /\ buf' = got.buf
       /\ failed' = IF ReadSucceeds(got) THEN failed ELSE failed + 1
       /\ IF ReadSucceeds(got) THEN tries' = 0 /\ dstep' = [dstep EXCEPT !.sector = ReadOf[@]]
          ELSE tries' = tries - 1 /\ UNCHANGED dstep
  /\ UNCHANGED <<real, fake, unread, skipped>>

SectorRead(sector) == dstep.sector = ReadOf[sector]
GivenUp(sector) == dstep.sector = sector /\ tries = 0

VolumeRead ==
  /\ SectorRead("volume")
  /\ CASE dstep.check = "ps3" -> IF buf = "ps3volume" THEN Says("said_ps3") ELSE ReadNext("sector1")
       [] dstep.check = "psx" -> Says(IF buf = "playstation" THEN "said_psx" ELSE "said_no")
       [] OTHER -> IF buf = "playstation" THEN ReadNext("directory") ELSE Says("said_no")
  /\ UNCHANGED <<real, buf, fake, unread, failed, skipped>>

VolumeNotRead ==
  /\ GivenUp("volume") /\ Says("said_no") /\ unread' = TRUE
  /\ UNCHANGED <<real, buf, fake, failed, skipped>>

\* The result of this read is not looked at, the buffer is.
Sector1 ==
  /\ SectorRead("sector1") \/ GivenUp("sector1")
  /\ Says(IF buf = "playstation3" THEN "said_ps3" ELSE "said_no")
  /\ skipped' = (skipped \/ GivenUp("sector1"))
  /\ UNCHANGED <<real, buf, fake, unread, failed>>

\* SYSTEM.CNF is looked for in the root directory, and read.
DirectoryRead ==
  /\ SectorRead("directory") /\ ReadNext("cnf")
  /\ UNCHANGED <<real, buf, fake, unread, failed, skipped>>

CnfRead ==
  /\ SectorRead("cnf") /\ Says(IF buf = "boot2" THEN "said_ps2" ELSE "said_psx")
  /\ UNCHANGED <<real, buf, fake, unread, failed, skipped>>

\* What cannot be read behind the volume descriptor is taken for a PSX disc.
TakenForPsx ==
  /\ GivenUp("directory") \/ GivenUp("cnf")
  /\ Says("said_psx") /\ skipped' = TRUE
  /\ UNCHANGED <<real, buf, fake, unread, failed>>

\* What process_disc_insert makes of it: a DVD that looks like PSX is of PS2, and
\* what is none of them is asked about again, as a burned PS3 disc.
DecideType ==
  LET said == dstep.sector
  IN  /\ said \in {"said_no", "said_psx", "said_ps2", "said_ps3"}
      /\ IF said = "said_no" /\ dstep.check # "ps3"
         THEN BeginCheck("ps3") /\ UNCHANGED fake
         ELSE /\ dstep' = AtRest /\ tries' = 0 /\ UNCHANGED skipped
              /\ fake' = CASE said = "said_no" -> "none"
                           [] said = "said_psx" ->
                                IF dstep.check = "psx" THEN "ps2" ELSE "psx"
                           [] said = "said_ps2" -> "ps2"
                           [] OTHER -> "ps3"
  /\ UNCHANGED <<real, buf, unread, failed>>

RealDiscNext ==
  \/ InsertReal \/ ReadAttempt \/ VolumeRead \/ VolumeNotRead \/ Sector1 \/ DirectoryRead
  \/ CnfRead \/ TakenForPsx \/ DecideType

RealDiscSpec == RealDiscInit /\ [][RealDiscNext]_realDiscVars

-----------------------------------------------------------------------------
TypeOfContent ==
  IF real.medium \in {"ps3", "none"} \/ real.content = "plain" THEN "none"
  ELSE IF real.content \in {"volume", "sector1"} THEN "ps3"
  ELSE IF real.content = "ps2" /\ real.medium \notin {"cd", "dvd"} THEN "none"
  ELSE real.content

\* A disc is given out as what it holds; or it is not known, and then is marked to
\* be looked at again (could_not_read_disc, emu_disc_auth); unless a page or a later
\* sector could not be had (storage_ext.c 1607, 1618), which is believed.
RealDiscKnown ==
  dstep = AtRest /\ ~skipped => fake = TypeOfContent \/ (fake = "none" /\ unread)

\* The mark of the hypervisor's buffer never decides a type by itself: a disc that
\* is given out as of PS2 or PS3 is one.
NeverMistaken == dstep = AtRest /\ fake \in {"ps2", "ps3"} => fake = TypeOfContent

RealDiscsAreKnown == RealDiscKnown /\ NeverMistaken

\* By hand: a PSX disc is one.  Not so: a PS2 disc with an unreadable directory.
PsxIsPsx == dstep = AtRest /\ fake = "psx" => TypeOfContent = "psx"
\* By hand: a disc that is marked is not known.  Not so: the second call of is_psx
\* may read what the first could not.
MarkedIsUnknown == dstep = AtRest /\ unread => fake = "none"
=============================================================================

------------------------------ MODULE CdFormat ------------------------------
(* The sector size of a CD image: what the caller put beside the number of *)
(* tracks (get_cd_sector_size), shifted by 4 as its comment has it or by   *)
(* 8, and for images of 2352 what the file itself looks like.              *)
EXTENDS Integers

CONSTANTS
  TrackCount,    \* numbers of tracks that are asked for, below 64
  SectorHeader   \* bytes before the data in a sector of an image: 24 when it is raw

ASSUME CdFormatAssumption == TrackCount \subseteq 1 .. 63 /\ SectorHeader \subseteq 0 .. 24

VARIABLES
  asked,         \* what the caller means: size, shift and tracks
  stored,        \* what the file is: size, and bytes before the data of a sector
  format,        \* cd_sector_size and numtracks
  mounting       \* "called", "counted", "mounted"

formatVars == <<asked, stored, format, mounting>>

SectorSize == {2352, 2048, 2328, 2336, 2340, 2368, 2448}
Shift == {4, 8}
Power(shift) == IF shift = 4 THEN 16 ELSE 256

CdFormatInit ==
  /\ asked \in [size : SectorSize, shift : Shift, tracks : TrackCount]
  /\ stored \in [size : {2352, 2048, 2336, 2448}, header : SectorHeader]
  /\ stored.size < 2352 => stored.header # 24
  /\ format = [size |-> 0, tracks |-> 0]
  /\ mounting = "called"

\* trackscount, as the caller makes it: with less than 64 tracks the or is a sum.
TracksCount == asked.size * Power(asked.shift) + asked.tracks

\* Mutant: the size is only looked for behind four bits.
SizeInOnlyFour(count) ==
  LET four == ((count % 16777216) \div 256) * 16
  IN  IF four \in SectorSize THEN four ELSE 2352

\* get_cd_sector_size: the low byte is masked out first, which with a shift of four
\* takes the last digit of the size.
SizeIn(count) ==
  LET bytes == (count % 16777216) \div 256
      size == IF bytes * 16 > 2448 THEN bytes ELSE bytes * 16
  IN  IF size \in SectorSize THEN size ELSE 2352

CountTracks ==
  /\ mounting = "called" /\ mounting' = "counted"
  /\ format' = [size |-> SizeIn(TracksCount), tracks |-> TracksCount % 256]
  /\ UNCHANGED <<asked, stored>>

\* The volume descriptor is in the sector 16 of the file.  It is looked for behind
\* 24 bytes, for each size.
Looks(size) == size * 16 + 24 = stored.size * 16 + stored.header

DetectSize ==
  /\ mounting = "counted" /\ mounting' = "mounted"
  /\ IF format.size = 2352 /\ \E s \in SectorSize : Looks(s)
     THEN format' = [format EXCEPT !.size = CHOOSE s \in SectorSize : Looks(s)]
     ELSE UNCHANGED format
  /\ UNCHANGED <<asked, stored>>

\* Another CD is mounted.
MountNextCd ==
  /\ mounting = "mounted" /\ mounting' = "called"
  /\ format' = [size |-> 0, tracks |-> 0]
  /\ UNCHANGED <<asked, stored>>

CdFormatNext == CountTracks \/ DetectSize \/ MountNextCd
CdFormatSpec == CdFormatInit /\ [][CdFormatNext]_formatVars

-----------------------------------------------------------------------------
\* A size whose last digit is lost in a shift of four.
Loses == asked.shift = 4 /\ asked.size % 16 # 0

\* A CD is mounted with the tracks and the size its caller means; a raw image that is
\* not of the standard size is found out.  Not so for sizes that end in a digit which
\* is masked out (storage_ext.c 1136-1149, 3701-3721).
FormatAsAsked ==
  mounting = "mounted" /\ ~Loses =>
    /\ format.tracks = asked.tracks
    /\ format.size = IF asked.size = 2352 /\ stored.header = 24 THEN stored.size
                     ELSE asked.size

\* By hand: every size can be given as the comment has it, "num_of_tracks |
\* (cd_sector_size<<4)" (storage_ext.c:1139).  Not so: 2328 and 2340.
SizeByComment ==
  mounting = "mounted" /\ asked.shift = 4 /\ stored.header # 24 =>
    format.size = asked.size /\ format.tracks = asked.tracks
=============================================================================

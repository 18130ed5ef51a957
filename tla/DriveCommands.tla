--------------------------- MODULE DriveCommands ---------------------------
(* The commands of the drive while an image is mounted: process_cmd,       *)
(* process_cd_iso_scsi_cmd and process_generic_iso_scsi_cmd, which run     *)
(* under the mutex.  READ CD takes many steps, each a request to the       *)
(* dispatcher; what it reads is in CdCache.  Formats of the answers are    *)
(* left out, what they say of the disc is not.                             *)
EXTENDS Integers, Sequences

CONSTANTS
  Disc,       \* images: kind, first sectors of the tracks, sectors, sectors that
              \* the LibCrypt file beside it names
  LcHalf,     \* LC_SECTORS / 2
  OutSectors, \* bound: the sectors that fit into a caller's buffer
  MaxLength,  \* bound: sectors of one READ CD
  MaxPages    \* bound: buffers that are not given back

Track(d) == DOMAIN d.tracks
RawKinds == {"cd", "proxy"}

ASSUME DriveAssumption ==
  /\ LcHalf \in Nat \ {0} /\ OutSectors \in Nat /\ MaxLength \in Nat
  /\ \A d \in Disc :
       /\ d.kind \in RawKinds \cup {"cd2048", "iso"}
       /\ d.sectors \in Nat /\ d.tracks \in Seq(Nat) /\ d.tracks # <<>> /\ d.tracks[1] = 0
       /\ \A i, j \in Track(d) : i < j => d.tracks[i] < d.tracks[j]
       /\ d.lsd \in Seq(Nat) /\ Len(d.lsd) <= 2 * LcHalf /\ (d.lsd # <<>> => d.kind = "cd")
       /\ \A i, j \in DOMAIN d.lsd : i < j => d.lsd[i] < d.lsd[j]

VARIABLES
  media,     \* the image that is mounted, or no image
  total,     \* total_emulation
  subq,      \* subqfd and lsd: the image whose LibCrypt file is open, and the table
  told,      \* history: what the commands answered since the image was mounted
  reading,   \* the READ CD under way
  pages,     \* buffers that page_allocate_auto gave and page_free did not take
  answer     \* what became of the last command: answered, refused or passed on

driveVars == <<media, total, subq, told, reading, pages, answer>>

Empty == [kind |-> "none", tracks |-> <<>>, sectors |-> 0, lsd |-> <<>>]
NothingTold == [leadout |-> -1, size |-> -1, start |-> <<>>, length |-> <<>>]
NotReading == [active |-> FALSE]
NoSubq == [of |-> Empty, table |-> <<>>]

DriveInit ==
  /\ media = Empty /\ total = FALSE /\ subq = NoSubq /\ told = NothingTold
  /\ reading = NotReading /\ pages = 0 /\ answer = "passed"

Idle == ~reading.active

\* read_libcrypt_sectors: behind the end of a short file the last entry is read
\* again.  A file that cannot be opened leaves the one before, an entry that
\* cannot be read closes it.
LsdTable(file) == [n \in 1 .. 2 * LcHalf |-> IF n <= Len(file) THEN file[n] ELSE file[Len(file)]]
ReadLibcrypt(d) == {subq, NoSubq, [of |-> d, table |-> LsdTable(d.lsd)]}

\* An image is mounted or taken away; the mutex keeps this out of a command.
\* Nothing closes the LibCrypt file of the image before.
ChangeMedia ==
  /\ Idle
  /\ media' \in Disc \cup {Empty}
  /\ total' \in IF media' = Empty THEN {FALSE} ELSE BOOLEAN
  /\ subq' \in IF media' # Empty /\ media'.lsd # <<>> THEN ReadLibcrypt(media') ELSE {subq}
  /\ told' = NothingTold
  /\ UNCHANGED <<reading, pages, answer>>

-----------------------------------------------------------------------------
Done(result) == answer' = result /\ UNCHANGED <<media, total, subq, reading, pages>>
Say(what) == Done("answered") /\ told' = what
Refuse == Done("refused") /\ UNCHANGED told
PassOn == Done("passed") /\ UNCHANGED told

\* process_cmd takes a native command to one of the two handlers, or to neither.
ScsiImage == media.kind \in RawKinds \cup {"cd2048"}
Is2048 == media.kind = "cd2048"
NumTracks == IF Is2048 THEN 1 ELSE Len(media.tracks)

GetDeviceSize ==
  /\ Idle
  /\ IF media = Empty THEN PassOn ELSE Say([told EXCEPT !.size = media.sectors])

\* READ TOC: the table, or one entry of it for the player of audio discs.
ReadToc ==
  /\ Idle /\ ScsiImage
  /\ \/ PassOn      \* another format than the TOC
     \/ Refuse      \* in minutes and seconds, or too short
     \/ Say([told EXCEPT !.start = IF Is2048 THEN <<0>> ELSE media.tracks,
                         !.leadout = media.sectors])
     \/ Say(told)   \* one track only, or only the header

\* Mutant: the last track is measured like the others.
TrackSizeOfNext(n) ==
  IF n = NumTracks THEN media.sectors - media.tracks[1] ELSE media.tracks[n + 1] - media.tracks[n]

TrackSize(n) ==
  IF n = NumTracks THEN media.sectors - media.tracks[n] ELSE media.tracks[n + 1] - media.tracks[n]

ReadTrackInformation(n) ==
  /\ Idle /\ ScsiImage
  /\ IF Is2048 \/ n = 0 \/ n > NumTracks
     THEN Refuse
     ELSE \/ Refuse \* of a session or a sector
          \/ /\ n = Len(told.length) + 1
             /\ Say([told EXCEPT !.length = Append(@, TrackSize(n))])

ReadDiscInformation ==
  /\ Idle /\ media # Empty
  /\ IF ScsiImage THEN Say(told) \/ Refuse ELSE IF total THEN Say(told) ELSE PassOn

\* Every other command; without a disc in the drive it is answered with nothing.
OtherCommand ==
  /\ Idle
  /\ IF media # Empty /\ total THEN Say(told) ELSE PassOn

-----------------------------------------------------------------------------
(* READ CD.                                                                *)

\* What the sub-channel Q of sector lba is made of: the entry of the LibCrypt
\* file, or the track that find_track_by_lba found; 0 stands for NULL.
TrackOfSector(lba) ==
  LET found == {i \in Track(media) :
        /\ media.tracks[i] <= lba
        /\ lba < IF i = Len(media.tracks) THEN media.sectors ELSE media.tracks[i + 1]}
  IN  IF found = {} THEN 0 ELSE CHOOSE i \in found : TRUE

\* The list is looked through from the half the sector can be in.
FoundFrom(lba) ==
  LET l == subq.table
      range == IF l[1] <= lba /\ lba <= l[LcHalf] THEN 1 .. LcHalf
               ELSE IF l[LcHalf + 1] <= lba /\ lba <= l[2 * LcHalf] THEN LcHalf + 1 .. 2 * LcHalf
               ELSE {}
  IN  {n \in range : l[n] = lba /\ \A k \in range : k < n => l[k] < lba}

\* A raw image is read in one request, or sector by sector with the sub-channel.
\* A buffer is allocated when the caller's is too short.
ReadCd(lba, length, user, sub) ==
  /\ Idle /\ ScsiImage /\ pages < MaxPages
  /\ IF Is2048
     THEN PassOn
     ELSE \/ Refuse    \* other fields or sector types, or no memory
          \/ LET paged == (user \/ sub) /\ length > OutSectors
             IN  /\ reading' = [active |-> TRUE, lba |-> lba, left |-> length, user |-> user,
                                sub |-> sub, paged |-> paged, q |-> <<>>]
                 /\ pages' = IF paged THEN pages + 1 ELSE pages
                 /\ answer' = "passed"
                 /\ UNCHANGED <<media, total, subq, told>>

\* The request to the dispatcher fails: the buffer is not given back.
FailRead ==
  /\ reading.active /\ reading.left > 0 /\ (reading.user \/ ~reading.sub)
  /\ reading' = NotReading /\ answer' = "refused"
  /\ UNCHANGED <<media, total, subq, told, pages>>

ReadAll ==
  /\ reading.active /\ ~reading.sub /\ reading.left > 0
  /\ reading' = [reading EXCEPT !.left = 0]
  /\ UNCHANGED <<media, total, subq, told, pages, answer>>

\* One sector: its data, then its sub-channel.  Entries of the LibCrypt file that
\* were found are taken to be readable.
ReadSector ==
  /\ reading.active /\ reading.sub /\ reading.left > 0
  /\ LET lba == reading.lba
         q == IF subq.table # <<>> /\ FoundFrom(lba) # {}
              THEN {[of |-> "lsd", lba |-> lba, n |-> n] : n \in FoundFrom(lba)}
              ELSE {[of |-> "track", lba |-> lba, n |-> TrackOfSector(lba)]}
     IN  \E e \in q : reading' = [reading EXCEPT !.lba = @ + 1, !.left = @ - 1,
                                                 !.q = Append(@, e)]
  /\ UNCHANGED <<media, total, subq, told, pages, answer>>

\* Everything is read: it is copied out of the buffer, which is given back.
EndReadCd ==
  /\ reading.active /\ reading.left = 0
  /\ pages' = IF reading.paged THEN pages - 1 ELSE pages
  /\ reading' = NotReading /\ answer' = "answered"
  /\ UNCHANGED <<media, total, subq, told>>

\* A client reads sectors of the disc.
DriveNext ==
  \/ ChangeMedia \/ GetDeviceSize \/ ReadToc \/ ReadDiscInformation \/ OtherCommand
  \/ \E n \in 0 .. NumTracks + 1 : ReadTrackInformation(n)
  \/ \E lba \in 0 .. media.sectors - 1, length \in 1 .. MaxLength, user, sub \in BOOLEAN :
       lba + length <= media.sectors /\ ReadCd(lba, length, user, sub)
  \/ FailRead \/ ReadAll \/ ReadSector \/ EndReadCd

DriveSpec == DriveInit /\ [][DriveNext]_driveVars

-----------------------------------------------------------------------------
\* The answers fit together: the device is as long as the lead-out says, and each
\* track the commands described begins where the ones before it end, the last one
\* ending at the lead-out.
TocDescribesDisc ==
  LET ends[i \in 0 .. Len(told.length)] == IF i = 0 THEN 0 ELSE ends[i - 1] + told.length[i]
  IN  /\ told.size # -1 /\ told.leadout # -1 => told.size = told.leadout
      /\ told.start # <<>> =>
           /\ \A i \in DOMAIN told.length : told.start[i] = ends[i - 1]
           /\ Len(told.length) = Len(told.start) => ends[Len(told.start)] = told.leadout

\* A sector is served with the sub-channel of the LibCrypt file that is open exactly
\* when that file names it, however short it is (storage_ext.c 1119, 2580), and else
\* with the sub-channel of the track it belongs to.
SubchannelOfSector ==
  reading.active => \A k \in DOMAIN reading.q :
    LET q == reading.q[k]
    IN  IF \E i \in DOMAIN subq.of.lsd : subq.of.lsd[i] = q.lba
        THEN q.of = "lsd" /\ subq.table[q.n] = q.lba
        ELSE q.of = "track" /\ q.n \in Track(media) /\ media.tracks[q.n] <= q.lba
               /\ \A i \in Track(media) : media.tracks[i] <= q.lba => i <= q.n

\* What the commands of the drive tell of an image fits together and fits the image.
AnswersDescribeImage == TocDescribesDisc /\ SubchannelOfSector

\* The open LibCrypt file is that of the image.  Not so: it stays open for the next.
SubchannelOfImage == media # Empty /\ subq # NoSubq => subq.of = media

\* A buffer is given back when the command ends.  Not so when a read fails.
PagesGivenBack == Idle => pages = 0
=============================================================================

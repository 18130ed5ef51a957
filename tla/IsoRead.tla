------------------------------ MODULE IsoRead ------------------------------
(***************************************************************************)
(* Reads of an ISO image by the dispatcher: process_read_iso_cmd, with     *)
(* get_next_read, get_key, prepare_region_info and decrypt_iso_data.       *)
(*                                                                         *)
(* An image is split into parts (files).  The dispatcher keeps one of them *)
(* open between commands, and a copy of the last single sector it read of  *)
(* a PS3 image.  An image may be encrypted: the key is looked for when it  *)
(* is mounted, the regions when its first sector is opened.                *)
(*                                                                         *)
(* Sizes are in sectors.  A sector that is delivered is abstracted to the  *)
(* sector it was read from and how it was decrypted.                       *)
(***************************************************************************)
EXTENDS Integers, Sequences

CONSTANTS
  Image,     \* images
  Bound,     \* Bound[i]: where the parts of image i begin, and where the last one ends
  Searched,  \* images in a PS3ISO folder: a key file is looked for
  KeyFile,   \* images beside which a key file is found
  Header,    \* Header[i][p]: what the first sectors of part p of image i say
  Junk,      \* headers that an uninitialised buffer may hold
  NoImage,
  NoKey,     \* disc_key[0] = 0
  BufSize,   \* READ_BUF_SIZE
  MaxOffset, \* bounds on the offset and the size of a read
  MaxSize

HeaderOK(h) ==
  /\ h.mark \in {"none", "Encrypted", "Decrypted"}   \* at REDUMP_WATERMARK_OFFSET
  /\ h.key \in Image \cup {NoKey}                    \* at REDUMP_KEY_OFFSET
  \* Encrypted sectors, first and last + 1: the first region of a disc is a plain one.
  /\ h.regions \subseteq (Nat \ {0}) \X Nat

ASSUME IsoAssumption ==
  /\ \A i \in Image :
       /\ Bound[i] \in Seq(Nat)
       /\ Len(Bound[i]) > 1
       /\ Bound[i][1] = 0
       /\ \A p, q \in 1..Len(Bound[i]) : p < q => Bound[i][p] < Bound[i][q]
       /\ \A p \in 1 .. (Len(Bound[i]) - 1) : HeaderOK(Header[i][p])
  /\ \A h \in Junk : HeaderOK(h)
  /\ NoImage \notin Image
  /\ NoKey \notin Image
  /\ BufSize \in Nat \ {0}
  /\ MaxOffset \in Nat
  /\ MaxSize \in Nat \ {0}

VARIABLES
  image,      \* the mounted image, or NoImage
  ps3,        \* disc_emulation = EMU_PS3
  fd,         \* discfd: the part it is open on, or 0
  pos,        \* its file position
  active,     \* discfile->activefile, and the local variable while a command runs
  cached,     \* discfile->cached_offset and cached_sector
  key,        \* disc_key: whose key it is
  encrypted,  \* encrypted_iso
  regions,    \* discRegionInfo
  cmd,        \* the command
  status,     \* of the command: idle, reading, ok or failed
  off,        \* the local variable offset
  doseek,     \* the local variable doseek
  buf,        \* what the caller's buffer holds
  examined    \* history: the header of the mounted image decided encrypted_iso

fileVars == <<fd, pos, active>>
keyVars == <<key, encrypted, regions, examined>>
cmdVars == <<cmd, off, doseek, buf, status>>
isoVars == <<image, ps3, fileVars, cached, keyVars, cmdVars>>

\* at: the sector it was read from, -1 for zeroes; key and iv: how it was decrypted.
Cell(at, k, iv) == [at |-> at, key |-> k, iv |-> iv]
Plain(n) == Cell(n, NoKey, 0)
Zeroes == Cell(-1, NoKey, 0)
Undelivered == Cell(-2, NoKey, 0)
Uncached == [offset |-> -1, cell |-> Undelivered]

ReadCmd == [offset : 0..MaxOffset, size : 1..MaxSize, kernel : BOOLEAN]
NoCmd == [offset |-> 0, size |-> 1, kernel |-> TRUE]

Part(i) == 1 .. (Len(Bound[i]) - 1)
Total(i) == Bound[i][Len(Bound[i])]

\* get_next_read: the part that holds sector n; there is one below Total(i).
PartAt(i, n) == CHOOSE p \in Part(i) : Bound[i][p] <= n /\ n < Bound[i][p + 1]

Least(a, b) == IF a < b THEN a ELSE b
Left == cmd.offset + cmd.size - off

\* Mutant: reads into a kernel buffer are split like the others.
RoomBounded == Least(Left, BufSize)

\* What is read at once at most: a kernel buffer is read into directly.
Room == IF cmd.kernel THEN Left ELSE Least(Left, BufSize)

HeaderSize == 2
InImage == off < Total(image)
Here == PartAt(image, off)
FilePos == off - Bound[image][Here]
ReadSize == Least(Room, Bound[image][Here + 1] - off)

-----------------------------------------------------------------------------
(* Mounting and unmounting, as far as reads depend on them.                *)

\* get_key, called for each part: outside a PS3ISO folder it returns before
\* it touches disc_key.
KeyFor(i) == IF i \notin Searched THEN key ELSE IF i \in KeyFile THEN i ELSE NoKey

MountIso(i) ==
  /\ image = NoImage
  /\ image' = i
  /\ ps3' \in BOOLEAN
  /\ active' = 1
  /\ cached' = Uncached
  /\ key' = KeyFor(i)
  /\ examined' = FALSE
  /\ UNCHANGED <<fd, pos, encrypted, regions, cmdVars>>

\* Mutant: discfd stays open.
UmountKeepsFd ==
  /\ image # NoImage
  /\ status = "idle"
  /\ image' = NoImage
  /\ cached' = Uncached
  /\ UNCHANGED <<ps3, fd, active, pos, keyVars, cmdVars>>

UmountIso ==
  /\ image # NoImage
  /\ status = "idle"
  /\ image' = NoImage
  /\ fd' = 0
  /\ cached' = Uncached
  /\ UNCHANGED <<ps3, active, pos, keyVars, cmdVars>>

-----------------------------------------------------------------------------
(* One command.                                                            *)

Cacheable(c) == ps3 /\ c.size = 1

CacheHit(c) == Cacheable(c) /\ cached.offset = c.offset

\* The cached sector is delivered, or dropped and the loop begun; for a buffer
\* of a process page_allocate comes first.
StartRead(c) ==
  /\ image # NoImage
  /\ status = "idle"
  /\ cmd' = c
  /\ off' = c.offset
  /\ doseek' = TRUE
  /\ \/ /\ CacheHit(c)
        /\ buf' = [n \in {c.offset} |-> cached.cell]
        /\ status' = "ok"
        /\ UNCHANGED cached
     \/ /\ ~CacheHit(c)
        /\ buf' = [n \in c.offset .. (c.offset + c.size - 1) |-> Undelivered]
        /\ status' \in IF c.kernel THEN {"reading"} ELSE {"reading", "failed"}
        /\ cached' = Uncached
  /\ UNCHANGED <<image, ps3, fileVars, keyVars>>

Running == status = "reading" /\ Left > 0

\* What header h, with the key found so far, makes of disc_key and of
\* encrypted_iso; prepare_region_info succeeds if there are regions.
Examine(h) ==
  /\ encrypted' = (h.mark # "Decrypted" /\ (h.mark = "Encrypted" \/ key # NoKey)
                   /\ h.regions # {})
  /\ key' = IF h.mark = "Encrypted" /\ key = NoKey THEN h.key ELSE key
  /\ regions' = IF encrypted' THEN h.regions ELSE regions


\* Mutant: after a part is opened no seek is done.
OpenPartNoSeek ==
  /\ Running /\ InImage
  /\ fd = 0 \/ Here # active
  /\ fd' = Here
  /\ active' = Here
  /\ pos' = IF FilePos = 0 THEN HeaderSize ELSE 0
  /\ UNCHANGED <<status, doseek, keyVars, image, ps3, cached, cmd, off, buf>>

\* The part that holds the next sector is opened.  When that is its first
\* sector its header is read too, into a buffer that is not initialised if
\* the read fails; encrypted_iso is cleared if the stat does.
OpenPart ==
  /\ Running /\ InImage
  /\ fd = 0 \/ Here # active
  /\ \/ /\ fd' = Here
        /\ active' = Here
        /\ pos' = IF FilePos = 0 THEN HeaderSize ELSE 0
        /\ doseek' = TRUE
        /\ \/ FilePos # 0 /\ UNCHANGED keyVars
           \/ /\ FilePos = 0
              /\ \E h \in {Header[image][Here]} \cup Junk :
                   Examine(h) /\ examined' = (Here = 1 /\ h = Header[image][1])
           \/ FilePos = 0 /\ encrypted' = FALSE /\ examined' = FALSE /\ UNCHANGED <<key, regions>>
        /\ UNCHANGED status
     \/ fd' = 0 /\ status' = "failed" /\ UNCHANGED <<pos, active, doseek, keyVars>>
  /\ UNCHANGED <<image, ps3, cached, cmd, off, buf>>

\* Mutant: the regions are not looked at.
DecryptingAnything ==
  /\ encrypted
  /\ key # NoKey
  /\ FilePos # 0

\* decrypt_iso_data looks for the region of the first sector only, in the
\* sectors of the part, and decrypts as many as the whole command asks for.
Decrypting ==
  /\ encrypted
  /\ key # NoKey
  /\ FilePos # 0
  /\ \E r \in regions : r[1] <= FilePos /\ FilePos < r[2]

\* Where cellFsRead reads, and the cell it makes of the n-th sector from there.
From == IF doseek THEN FilePos ELSE pos
Fetched(n) ==
  IF Decrypting THEN Cell(Bound[image][fd] + From + n, key, FilePos + n)
  ELSE Plain(Bound[image][fd] + From + n)

Deliver(n, cell(_)) ==
  /\ buf' = [m \in DOMAIN buf |-> IF m \in off .. (off + n - 1) THEN cell(m - off) ELSE buf[m]]
  /\ off' = off + n

\* Seek if a part was opened or the command begins, read as much as the part
\* and the buffer hold, decrypt, copy; each may fail.
ReadPart ==
  /\ Running /\ InImage
  /\ fd # 0 /\ Here = active
  /\ \/ /\ Deliver(ReadSize, Fetched)
        /\ pos' = From + ReadSize
        /\ doseek' = FALSE
        /\ UNCHANGED status
     \/ /\ status' = "failed"
        /\ pos' \in {pos, From, From + ReadSize}
        /\ UNCHANGED <<buf, off, doseek>>
  /\ UNCHANGED <<image, ps3, fd, active, cached, keyVars, cmd>>

\* Beyond the end of the image the sectors are zeroes; the copy may fail.
ReadZeroes ==
  /\ Running /\ ~InImage
  /\ \/ Deliver(Room, LAMBDA n : Zeroes) /\ UNCHANGED status
     \/ ~cmd.kernel /\ status' = "failed" /\ UNCHANGED <<buf, off>>
  /\ UNCHANGED <<image, ps3, fileVars, cached, keyVars, cmd, doseek>>

FinishRead ==
  /\ status = "reading" /\ Left = 0
  /\ status' = "ok"
  /\ cached' = IF Cacheable(cmd) THEN [offset |-> cmd.offset, cell |-> buf[cmd.offset]] ELSE cached
  /\ UNCHANGED <<image, ps3, fileVars, keyVars, cmd, off, doseek, buf>>

\* The caller has its answer; the locals are dead.
EndRead ==
  /\ status \in {"ok", "failed"}
  /\ status' = "idle"
  /\ cmd' = NoCmd
  /\ off' = 0
  /\ doseek' = TRUE
  /\ buf' = <<>>
  /\ UNCHANGED <<image, ps3, fileVars, cached, keyVars>>

-----------------------------------------------------------------------------
IsoInit ==
  /\ image = NoImage
  /\ ps3 = FALSE
  /\ fd = 0
  /\ pos = 0
  /\ active = 1
  /\ cached = Uncached
  /\ key = NoKey
  /\ encrypted = FALSE
  /\ regions = {}
  /\ examined = FALSE
  /\ cmd = NoCmd
  /\ status = "idle"
  /\ off = 0
  /\ doseek = TRUE
  /\ buf = <<>>

IsoNext ==
  \/ \E i \in Image : MountIso(i)
  \/ UmountIso
  \/ \E c \in ReadCmd : StartRead(c)
  \/ OpenPart \/ ReadPart \/ ReadZeroes \/ FinishRead \/ EndRead

IsoSpec == IsoInit /\ [][IsoNext]_isoVars
=============================================================================

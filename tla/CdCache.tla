------------------------------ MODULE CdCache ------------------------------
(***************************************************************************)
(* Reads of a CD image by the dispatcher: process_read_cd_iso2352_cmd with *)
(* its cache of CD_CACHE_SIZE sectors, and process_read_cd_iso2048_cmd.    *)
(*                                                                         *)
(* A sector in a buffer is abstracted to its number in the image; sectors  *)
(* from num_sectors on are zeroes.  num_sectors is the length of the file  *)
(* (DiscMount shows when it is not).                                       *)
(***************************************************************************)
EXTENDS Integers

CONSTANTS
  NumSectors, \* discfile_cd->num_sectors
  CacheSize,  \* CD_CACHE_SIZE
  CdBufSize,    \* READ_BUF_SIZE_SECTORS_PSX
  MaxStart,   \* bounds on the first sector and the number of sectors of a read
  MaxCount

ASSUME CdAssumption ==
  /\ NumSectors \in Nat
  /\ CacheSize \in Nat \ {0}
  /\ CdBufSize \in Nat \ {0}
  /\ MaxStart \in Nat
  /\ MaxCount \in Nat \ {0}

VARIABLES
  open,      \* discfd is open
  cdPos,       \* its file position, in sectors
  cdCached,    \* discfile_cd->cached_sector
  cache,     \* what discfile_cd->cache holds
  cdCmd,       \* the command
  cdStatus,    \* of the command: idle, reading, ok or failed
  sector,    \* the local variables sector, remaining, cache and doseek
  left,
  useCache,
  cdDoseek,
  cdBuf,       \* what the caller's buffer holds, by sector number
  spoiled    \* history: a read into the cache has failed since the mount

fdVars == <<open, cdPos>>
cacheVars == <<cdCached, cache, spoiled>>
localVars == <<cdCmd, cdStatus, sector, left, useCache, cdDoseek, cdBuf>>
cdVars == <<fdVars, cacheVars, localVars>>

CdZeroes == -1
CdJunk == -2       \* uninitialised or freed memory, or sectors of a failed read
Unset == -1      \* 0x80000000 in cached_sector

Content(n) == IF n < NumSectors THEN n ELSE CdZeroes
Slot == 0 .. (CacheSize - 1)

\* raw: 2352-byte sectors; otherwise the 2048 bytes of user data.
CdCmd == [start : 0..MaxStart, count : 1..MaxCount, kernel : BOOLEAN, raw : BOOLEAN]
NoCdCmd == [start |-> 0, count |-> 1, kernel |-> TRUE, raw |-> FALSE]

CdLeast(a, b) == IF a <= b THEN a ELSE b
Asked(c) == c.start .. (c.start + c.count - 1)

-----------------------------------------------------------------------------
\* Another image is mounted: a new cache, which is not initialised.
Remount ==
  /\ cdStatus = "idle"
  /\ open' = FALSE
  /\ cdCached' = Unset
  /\ cache' = [k \in Slot |-> CdJunk]
  /\ spoiled' = FALSE
  /\ UNCHANGED <<cdPos, localVars>>

\* cellFsOpen or page_allocate_auto fails.
Refuse(c) ==
  /\ cdStatus = "idle"
  /\ cdCmd' = c
  /\ cdStatus' = "failed"
  /\ cdBuf' = [n \in Asked(c) |-> CdJunk]
  /\ \/ ~open /\ UNCHANGED open
     \/ open' = TRUE /\ (~c.raw \/ (c.count > CacheSize /\ ~c.kernel))
  /\ UNCHANGED <<cdPos, cacheVars, sector, left, useCache, cdDoseek>>

\* The sectors of the command that the cache holds; it is used when it begins
\* less than CD_CACHE_SIZE before or after the command.
Overlap(c) ==
  IF cdCached = Unset THEN {}
  ELSE {n \in Asked(c) : cdCached <= n /\ n < cdCached + CacheSize}

\* cached_sector is 0x80000000 at first.  For sector 0 the difference is INT_MIN,
\* whose ABS is undefined: the empty cache may pass for one that holds it all.
EmptyHit(c) == cdCached = Unset /\ c.start = 0

Begin(c) ==
  /\ cdStatus = "idle"
  /\ open' = TRUE
  /\ cdCmd' = c
  /\ cdDoseek' = TRUE
  /\ UNCHANGED <<cdPos, cacheVars>>

\* The whole command is in the cache.
ReadCached(c) ==
  /\ Begin(c)
  /\ c.raw /\ c.count <= CacheSize
  /\ \/ /\ Overlap(c) = Asked(c)
        /\ cdBuf' = [n \in Asked(c) |-> cache[n - cdCached]]
     \/ /\ EmptyHit(c)
        /\ cdBuf' = [n \in Asked(c) |-> cache[n]]
  /\ cdStatus' = "ok"
  /\ UNCHANGED <<sector, left, useCache>>

\* Mutant: sector is not advanced past what the cache held.
ReadThroughSameSector(c) ==
  /\ Begin(c)
  /\ c.raw /\ c.count <= CacheSize
  /\ Overlap(c) # Asked(c)
  /\ cdBuf' = [n \in Asked(c) |-> IF n \in Overlap(c) THEN cache[n - cdCached] ELSE CdJunk]
  /\ sector' = c.start
  /\ left' = c.count - (IF Overlap(c) = {} THEN 0
                        ELSE IF cdCached > c.start THEN c.start + c.count - cdCached
                        ELSE cdCached + CacheSize - c.start)
  /\ useCache' = TRUE
  /\ cdStatus' = "reading"

\* None, the last or the first sectors of the command are in the cache, and
\* are copied first; the others are read through it.
ReadThrough(c) ==
  /\ Begin(c)
  /\ c.raw /\ c.count <= CacheSize
  /\ Overlap(c) # Asked(c)
  /\ cdBuf' = [n \in Asked(c) |-> IF n \in Overlap(c) THEN cache[n - cdCached] ELSE CdJunk]
  /\ sector' = IF Overlap(c) # {} /\ cdCached <= c.start THEN cdCached + CacheSize ELSE c.start
  /\ left' = IF Overlap(c) = {} THEN c.count
             ELSE IF cdCached > c.start THEN cdCached - c.start
             ELSE c.start + c.count - sector'
  /\ useCache' = TRUE
  /\ cdStatus' = "reading"

\* A command that is longer than the cache, or for 2048-byte sectors.  In the
\* former the local variable cache is not initialised.
ReadAround(c) ==
  /\ Begin(c)
  /\ c.raw => c.count > CacheSize
  /\ cdBuf' = [n \in Asked(c) |-> CdJunk]
  /\ sector' = c.start
  /\ left' = c.count
  /\ useCache' \in IF c.raw THEN BOOLEAN ELSE {FALSE}
  /\ cdStatus' = "reading"

-----------------------------------------------------------------------------
CdFrom == IF cdDoseek THEN sector ELSE cdPos
Reads == sector < NumSectors    \* beyond that the buffer is only cleared

Seek == cdDoseek' = (cdDoseek /\ ~Reads)

\* What cellFsRead and the memset after it make of the n-th sector read.
CdFetched(n) == IF Reads THEN Content(CdFrom + n) ELSE CdZeroes

\* The cache is filled from the sector on, and the rest of the command is
\* copied from it; what it asks beyond the cache is whatever lies there.
Fill ==
  /\ cdStatus = "reading" /\ useCache
  /\ cache' = [k \in Slot |-> CdFetched(k)]
  /\ cdBuf' = [n \in DOMAIN cdBuf |->
               IF n \in sector .. (sector + left - 1)
               THEN (IF n - sector \in Slot THEN CdFetched(n - sector) ELSE CdJunk)
               ELSE cdBuf[n]]
  /\ cdCached' = sector
  /\ cdPos' = IF Reads THEN CdFrom + CacheSize ELSE cdPos
  /\ Seek
  /\ cdStatus' = "ok"
  /\ UNCHANGED <<open, spoiled, cdCmd, sector, left, useCache>>

\* The seek or the read fails.  cached_sector stays, but the cache may have
\* been read into, and is freed when the caller is a process.
FillFails ==
  /\ cdStatus = "reading" /\ useCache /\ Reads
  /\ \/ cache' = [k \in Slot |-> CdJunk] /\ spoiled' = TRUE
     \/ cdCmd.kernel /\ UNCHANGED <<cache, spoiled>>
  /\ cdStatus' = "failed"
  /\ UNCHANGED <<fdVars, cdCached, cdCmd, sector, left, useCache, cdDoseek, cdBuf>>

\* One pass of the loop that does not use the cache.
CdReadSize == IF cdCmd.raw /\ cdCmd.kernel THEN left ELSE CdLeast(left, CdBufSize)

Chunk ==
  /\ cdStatus = "reading" /\ ~useCache /\ left > 0
  /\ cdBuf' = [n \in DOMAIN cdBuf |->
               IF n \in sector .. (sector + CdReadSize - 1) THEN CdFetched(n - sector)
               ELSE cdBuf[n]]
  /\ cdPos' = IF Reads THEN CdFrom + CdReadSize ELSE cdPos
  /\ Seek
  /\ sector' = sector + CdReadSize
  /\ left' = left - CdReadSize
  /\ UNCHANGED <<open, cacheVars, cdCmd, cdStatus, useCache>>

ChunkFails ==
  /\ cdStatus = "reading" /\ ~useCache /\ left > 0 /\ Reads
  /\ cdStatus' = "failed"
  /\ UNCHANGED <<fdVars, cacheVars, cdCmd, sector, left, useCache, cdDoseek, cdBuf>>

Finish ==
  /\ cdStatus = "reading" /\ ~useCache /\ left = 0
  /\ cdStatus' = "ok"
  /\ UNCHANGED <<fdVars, cacheVars, cdCmd, sector, left, useCache, cdDoseek, cdBuf>>

\* The caller has its answer; the locals are dead.
End ==
  /\ cdStatus \in {"ok", "failed"}
  /\ cdStatus' = "idle"
  /\ cdCmd' = NoCdCmd
  /\ sector' = 0
  /\ left' = 0
  /\ useCache' = FALSE
  /\ cdDoseek' = TRUE
  /\ cdBuf' = <<>>
  /\ UNCHANGED <<fdVars, cacheVars>>

CdInit ==
  /\ open = FALSE
  /\ cdPos = 0
  /\ cdCached = Unset
  /\ cache = [k \in Slot |-> CdJunk]
  /\ spoiled = FALSE
  /\ cdCmd = NoCdCmd
  /\ cdStatus = "idle"
  /\ sector = 0
  /\ left = 0
  /\ useCache = FALSE
  /\ cdDoseek = TRUE
  /\ cdBuf = <<>>

CdNext ==
  \/ Remount
  \/ \E c \in CdCmd : Refuse(c) \/ ReadCached(c) \/ ReadThrough(c) \/ ReadAround(c)
  \/ Fill \/ FillFails \/ Chunk \/ ChunkFails \/ Finish \/ End

CdSpec == CdInit /\ [][CdNext]_cdVars

-----------------------------------------------------------------------------
CdTypeOK ==
  /\ open \in BOOLEAN
  /\ cdPos \in Nat
  /\ cdCached \in Nat \cup {Unset}
  /\ DOMAIN cache = Slot
  /\ cdCmd \in CdCmd
  /\ cdStatus \in {"idle", "reading", "ok", "failed"}
  /\ sector \in Nat
  /\ left \in Nat
  /\ useCache \in BOOLEAN
  /\ cdDoseek \in BOOLEAN
  /\ DOMAIN cdBuf = IF cdStatus = "idle" THEN {} ELSE Asked(cdCmd)
  /\ spoiled \in BOOLEAN

\* A read that is longer than the cache depends on an uninitialised variable.
TooLong == cdCmd.raw /\ cdCmd.count > CacheSize

\* A read that succeeds has delivered the sectors it was asked for, however they
\* overlap what the cache held and whatever failed before it outside the cache.
\* It may not, where C leaves the outcome open, and once a read into the cache
\* has failed.
CdDelivered ==
  cdStatus = "ok" /\ ~spoiled /\ ~TooLong /\ ~(cdCmd.raw /\ EmptyHit(cdCmd)) =>
    \A n \in DOMAIN cdBuf : cdBuf[n] = Content(n)

\* What the cache holds is the image from cached_sector on, unless a read into
\* it has failed; even a read that is too long for it leaves it so.
CacheIsImage ==
  cdCached # Unset /\ ~spoiled => \A k \in Slot : cache[k] = Content(cdCached + k)

\* While a command runs: what it has left ends where it ends, or where the cache
\* took over; all else is delivered; and where the code does not seek because it
\* has already, the file position is that of the next sector.
CdProgress ==
  cdStatus = "reading" =>
    /\ open
    /\ left > 0 /\ useCache /\ ~TooLong => left <= CacheSize
    /\ sector + left <= cdCmd.start + cdCmd.count
    /\ ~spoiled => \A n \in DOMAIN cdBuf :
         n \notin sector .. (sector + left - 1) => cdBuf[n] = Content(n)
    /\ ~cdDoseek /\ sector < NumSectors => cdPos = sector

CdInv == CdTypeOK /\ CdDelivered /\ CacheIsImage /\ CdProgress
=============================================================================

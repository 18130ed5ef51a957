----------------------------- MODULE ProxyRead -----------------------------
(***************************************************************************)
(* Reads of a disc that a client in VSH serves, over a network or from an  *)
(* NTFS drive: process_proxy_cmd, with get_key, prepare_region_info and    *)
(* decrypt_iso_data as it uses them.                                       *)
(*                                                                         *)
(* The key of an encrypted disc is looked for beside the NTFS image whose  *)
(* path open_path_hook saw last; the payload has no other idea of which    *)
(* image the client serves.                                                *)
(*                                                                         *)
(* Sizes are in sectors of 2048 bytes; a delivered sector is abstracted to *)
(* where it comes from and the key it was decrypted with.                  *)
(***************************************************************************)
EXTENDS Integers

CONSTANTS
  Disc,         \* discs a client serves
  Ntfs,         \* those in an image on an NTFS drive, in a folder PS3ISO
  ProxyKeyFile, \* those beside whose image a key file lies
  Region,       \* Region[d]: the encrypted sectors of d its sector 0 lists: first, last + 1;
                \* the first region of a disc is a plain one
  NoDisc, ProxyNoKey,
  ChunkSize,    \* read_size of the client
  ProxyMaxOffset, ProxyMaxSize

ASSUME ProxyAssumption ==
  /\ ProxyKeyFile \subseteq Ntfs /\ Ntfs \subseteq Disc
  /\ \A d \in Disc : Region[d] \subseteq (Nat \ {0}) \X Nat
  /\ NoDisc \notin Disc /\ ProxyNoKey \notin Disc
  /\ ChunkSize \in Nat \ {0}
  /\ ProxyMaxOffset \in Nat /\ ProxyMaxSize \in Nat \ {0}

VARIABLES
  disc,      \* the disc served, or NoDisc
  pxPs3,     \* disc_emulation = EMU_PS3
  pxCached,  \* cached_offset and cached_sector
  path,      \* ntfs_iso_path: the image it names
  pxKey,     \* disc_key
  pxRegions, \* discRegionInfo
  pxCmd,     \* the read
  pxStatus,  \* idle, reading, ok or failed
  pxOff,     \* the local variable offset
  pxBuf,     \* the caller's buffer
  pxSpoiled, \* history: a failed read filled the cache
  sound      \* history: sector 0 of this disc was read, and path named no other one

proxyKeyVars == <<path, pxKey, pxRegions, sound>>
proxyCacheVars == <<pxCached, pxSpoiled>>
proxyCmdVars == <<pxCmd, pxStatus, pxOff, pxBuf>>
proxyVars == <<disc, pxPs3, proxyCacheVars, proxyKeyVars, proxyCmdVars>>

ProxyCell(d, n, k) == [disc |-> d, at |-> n, key |-> k]
ProxyUndelivered == ProxyCell(NoDisc, -1, ProxyNoKey)
ProxyUncached == [offset |-> -1, cell |-> ProxyUndelivered]

\* vsh: VSH reads for itself, straight into its buffer.
ProxyReadCmd == [offset : 0..ProxyMaxOffset, size : 1..ProxyMaxSize, vsh : BOOLEAN]
NoProxyCmd == [offset |-> 0, size |-> 1, vsh |-> FALSE]

ProxyAsked(c) == c.offset .. (c.offset + c.size - 1)
ProxyLeast(a, b) == IF a < b THEN a ELSE b
ProxyLeft == pxCmd.offset + pxCmd.size - pxOff

-----------------------------------------------------------------------------
(* Mounting, unmounting, and opens that go by.                             *)

\* Key and regions are what the discs and image files before have left.
MountProxy(d) ==
  /\ disc = NoDisc
  /\ disc' = d
  /\ pxPs3' \in BOOLEAN
  /\ pxKey' \in {pxKey} \cup ProxyKeyFile \cup {ProxyNoKey}
  /\ pxRegions' \in {pxRegions} \cup {Region[e] : e \in ProxyKeyFile}
  /\ sound' = FALSE
  /\ UNCHANGED <<proxyCacheVars, path, proxyCmdVars>>

UmountProxy ==
  /\ disc # NoDisc /\ pxStatus = "idle"
  /\ disc' = NoDisc
  /\ pxCached' = ProxyUncached
  /\ pxSpoiled' = FALSE
  /\ sound' = FALSE
  /\ UNCHANGED <<pxPs3, path, pxKey, pxRegions, proxyCmdVars>>

\* open_path_hook, in any thread at any time.
OpenNtfs(d) ==
  /\ path' = d
  /\ UNCHANGED <<disc, pxPs3, proxyCacheVars, pxKey, pxRegions, sound, proxyCmdVars>>

-----------------------------------------------------------------------------
(* One command.                                                            *)

ProxyCacheable(c) == pxPs3 /\ c.size = 1 /\ ~c.vsh

ProxyBegin(c) ==
  /\ disc # NoDisc /\ pxStatus = "idle"
  /\ pxCmd' = c
  /\ pxOff' = c.offset
  /\ UNCHANGED <<disc, pxPs3, proxyKeyVars>>

\* VSH is not up.
NoVsh(c) ==
  /\ ProxyBegin(c)
  /\ pxStatus' = "failed"
  /\ pxBuf' = [n \in ProxyAsked(c) |-> ProxyUndelivered]
  /\ UNCHANGED proxyCacheVars

\* VSH gets what its client sends, encrypted or not.
NativeRead(c) ==
  /\ ProxyBegin(c) /\ c.vsh
  /\ \/ pxStatus' = "ok" /\ pxBuf' = [n \in ProxyAsked(c) |-> ProxyCell(disc, n, ProxyNoKey)]
     \/ pxStatus' = "failed" /\ pxBuf' = [n \in ProxyAsked(c) |-> ProxyUndelivered]
  /\ UNCHANGED proxyCacheVars

ProxyReadCached(c) ==
  /\ ProxyBegin(c) /\ ProxyCacheable(c) /\ pxCached.offset = c.offset
  /\ pxStatus' = "ok"
  /\ pxBuf' = [n \in ProxyAsked(c) |-> pxCached.cell]
  /\ UNCHANGED proxyCacheVars

\* The cached sector is dropped before pages are allocated and exported to
\* VSH, which may fail.
ProxyStartRead(c) ==
  /\ ProxyBegin(c) /\ ~c.vsh
  /\ ~(ProxyCacheable(c) /\ pxCached.offset = c.offset)
  /\ pxStatus' \in {"reading", "failed"}
  /\ pxBuf' = [n \in ProxyAsked(c) |-> ProxyUndelivered]
  /\ pxCached' = ProxyUncached
  /\ pxSpoiled' = FALSE

\* After sector 0 is read: get_key forgets the path, and finds no key when it
\* has been forgotten before.
ProxyExamine ==
  /\ path' = NoDisc
  /\ pxKey' = IF path \in ProxyKeyFile THEN path ELSE ProxyNoKey
  /\ pxRegions' = IF path \in ProxyKeyFile THEN Region[disc] ELSE pxRegions
  /\ sound' = (path \in {disc, NoDisc})

\* Mutant: the sector after the region belongs to it.
DecryptingOneMore ==
  pxOff # 0 /\ pxKey # ProxyNoKey /\ \E r \in pxRegions : r[1] <= pxOff /\ pxOff <= r[2]

\* decrypt_iso_data: the region of the first sector, and as many sectors as
\* the whole command has, from here on.
ProxyDecrypting ==
  pxOff # 0 /\ pxKey # ProxyNoKey /\ \E r \in pxRegions : r[1] <= pxOff /\ pxOff < r[2]

\* Mutant: the destination does not advance.
CopiedAtStart(n) ==
  [m \in DOMAIN pxBuf |-> IF m \in pxCmd.offset .. (pxCmd.offset + n - 1)
                        THEN ProxyCell(disc, pxOff + m - pxCmd.offset, ProxyNoKey)
                        ELSE pxBuf[m]]

\* What the client sent, copied to the caller.
Copied(n) ==
  [m \in DOMAIN pxBuf |->
     IF m \in pxOff .. (pxOff + n - 1) THEN ProxyCell(disc, m, ProxyNoKey) ELSE pxBuf[m]]

ProxyChunk ==
  /\ pxStatus = "reading" /\ ProxyLeft > 0
  /\ LET n == ProxyLeast(ProxyLeft, ChunkSize)
     IN  /\ pxBuf' = [m \in DOMAIN pxBuf |-> IF ProxyDecrypting /\ m >= pxOff
                                         THEN [Copied(n)[m] EXCEPT !.key = pxKey]
                                         ELSE Copied(n)[m]]
         /\ pxOff' = pxOff + n
  /\ IF pxOff = 0 THEN ProxyExamine ELSE UNCHANGED proxyKeyVars
  /\ UNCHANGED <<disc, pxPs3, proxyCacheVars, pxCmd, pxStatus>>

\* The buffer is cached, with the offset the loop has reached less a sector.
Cache ==
  pxCached' = IF ProxyCacheable(pxCmd)
              THEN [offset |-> pxOff - 1, cell |-> pxBuf[pxCmd.offset]] ELSE pxCached

\* The client cannot be reached or answers with an error; the sector is cached
\* all the same.
ProxyChunkFails ==
  /\ pxStatus = "reading" /\ ProxyLeft > 0
  /\ pxStatus' = "failed"
  /\ Cache
  /\ pxSpoiled' = ProxyCacheable(pxCmd)
  /\ UNCHANGED <<disc, pxPs3, proxyKeyVars, pxCmd, pxOff, pxBuf>>

ProxyFinish ==
  /\ pxStatus = "reading" /\ ProxyLeft = 0
  /\ pxStatus' = "ok"
  /\ Cache
  /\ UNCHANGED <<disc, pxPs3, pxSpoiled, proxyKeyVars, pxCmd, pxOff, pxBuf>>

\* The caller has its answer; the locals are dead.
ProxyEnd ==
  /\ pxStatus \in {"ok", "failed"}
  /\ pxStatus' = "idle"
  /\ pxCmd' = NoProxyCmd
  /\ pxOff' = 0
  /\ pxBuf' = <<>>
  /\ UNCHANGED <<disc, pxPs3, proxyCacheVars, proxyKeyVars>>

-----------------------------------------------------------------------------
ProxyInit ==
  /\ disc = NoDisc
  /\ pxPs3 = FALSE
  /\ pxCached = ProxyUncached
  /\ path = NoDisc
  /\ pxKey = ProxyNoKey
  /\ pxRegions = {}
  /\ pxCmd = NoProxyCmd
  /\ pxStatus = "idle"
  /\ pxOff = 0
  /\ pxBuf = <<>>
  /\ pxSpoiled = FALSE
  /\ sound = FALSE

ProxyNext ==
  \/ \E d \in Disc : MountProxy(d)
  \/ UmountProxy
  \/ \E d \in Ntfs : OpenNtfs(d)
  \/ \E c \in ProxyReadCmd : NoVsh(c) \/ NativeRead(c) \/ ProxyReadCached(c) \/ ProxyStartRead(c)
  \/ ProxyChunk \/ ProxyChunkFails \/ ProxyFinish \/ ProxyEnd

ProxySpec == ProxyInit /\ [][ProxyNext]_proxyVars

-----------------------------------------------------------------------------
\* A read that succeeds delivers the sectors it was asked for from the disc
\* that is served now, decrypted with that disc's key if with any; the
\* exceptions are a sector that a failed read left in the cache, and keys of
\* other images before sector 0 is read or when another image was opened
\* before that.
ProxyDelivered ==
  pxStatus = "ok" /\ ~pxSpoiled =>
    \A n \in DOMAIN pxBuf :
      /\ pxBuf[n].disc = disc /\ pxBuf[n].at = n
      /\ sound => pxBuf[n].key \in {ProxyNoKey, disc}

\* The cached sector is the one of its offset on the disc that is served now.
ProxyCacheIsDisc ==
  pxCached # ProxyUncached /\ ~pxSpoiled =>
    pxCached.cell.disc = disc /\ pxCached.cell.at = pxCached.offset

ProxyInRegion(n) == \E r \in Region[disc] : r[1] <= n /\ n < r[2]

\* While the key of the disc is known, a read inside its encrypted regions is
\* delivered decrypted and one outside of them as it is, chunk by chunk and
\* from the cache.
ProxyDecoded ==
  pxStatus = "ok" /\ ~pxSpoiled /\ sound /\ pxKey = disc /\ ~pxCmd.vsh =>
    \/ \E m, n \in DOMAIN pxBuf : ProxyInRegion(m) /\ ~ProxyInRegion(n)
    \/ \A n \in DOMAIN pxBuf : pxBuf[n].key = (IF ProxyInRegion(n) THEN disc ELSE ProxyNoKey)

\* What a caller of a proxy read relies on: the sectors it asked for, of the disc
\* that is mounted, decrypted where they are encrypted (storage_ext.c 993-1034).
ProxyServed == ProxyDelivered /\ ProxyDecoded

-----------------------------------------------------------------------------
(* What the documentation says and the code does not do.                   *)

\* README: PS3ISO images are decoded on the fly.  Once the key of a disc was
\* found it should stay known while the disc is served; the second read of
\* sector 0 forgets it.
KeyStays == [][sound /\ pxKey = disc /\ disc' = disc => pxKey' = pxKey]_proxyVars
=============================================================================

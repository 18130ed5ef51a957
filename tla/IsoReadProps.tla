---------------------------- MODULE IsoReadProps ----------------------------
(***************************************************************************)
(* Properties of IsoRead.                                                  *)
(***************************************************************************)
EXTENDS IsoRead

CellOK(c) == c.at \in Int /\ c.key \in Image \cup {NoKey} /\ c.iv \in Nat

IsoTypeOK ==
  /\ image \in Image \cup {NoImage}
  /\ ps3 \in BOOLEAN
  /\ pos \in Nat
  /\ status \in {"idle", "reading", "ok", "failed"}
  /\ key \in Image \cup {NoKey}
  /\ encrypted \in BOOLEAN
  /\ cmd \in ReadCmd
  /\ off \in Nat
  /\ status # "idle" => image # NoImage
  /\ doseek \in BOOLEAN
  /\ DOMAIN buf = IF status = "idle" THEN {} ELSE cmd.offset .. (cmd.offset + cmd.size - 1)

\* What sector n of image i is, apart from its encryption.
Right(i, n, cell) == IF n < Total(i) THEN cell.at = n ELSE cell = Zeroes

\* A read that succeeds has delivered every sector it was asked for, each from
\* its place in the image and zeroes beyond its end, whatever parts the image
\* is split into, wherever the read begins and ends, and whatever failed before.
DeliveredInPlace == status = "ok" => \A n \in DOMAIN buf : Right(image, n, buf[n])

\* The cached sector is one of the image that is mounted now.
CacheInPlace == cached # Uncached => image # NoImage /\ Right(image, cached.offset, cached.cell)

\* discfd is open on the active part of the mounted image or not open, also
\* after a failed open.
OpenOnActivePart == fd # 0 => image # NoImage /\ fd = active /\ active \in Part(image)

\* While a read goes on without seeking, the file position is where the next
\* sector is, and every sector before it is delivered.
PositionFollows ==
  status = "reading" =>
    /\ off \in cmd.offset .. (cmd.offset + cmd.size)
    /\ \A n \in DOMAIN buf : n < off => Right(image, n, buf[n])
    /\ ~doseek => fd # 0 /\ Bound[image][fd] + pos = (IF off < Total(image) THEN off ELSE Total(image))

\* The loop of a command cannot spin: every pass delivers something or fails,
\* at part boundaries and beyond the end too.
ReadAdvances ==
  [][status = "reading" /\ status' = "reading" => off' > off \/ (fd = 0 \/ Here # active)]_isoVars

IsoInv ==
  IsoTypeOK /\ DeliveredInPlace /\ CacheInPlace /\ OpenOnActivePart /\ PositionFollows

-----------------------------------------------------------------------------
(* Encryption.                                                             *)

Sector == cmd.offset .. (cmd.offset + cmd.size - 1)
SinglePart == Len(Bound[image]) = 2
RegionsOf(i) == IF Header[i][1].mark = "Decrypted" THEN {} ELSE Header[i][1].regions
InRegion(i, n) == \E r \in RegionsOf(i) : r[1] <= n /\ n < r[2]

\* What sector n is when it is delivered decrypted.
Decrypted(i, n) ==
  IF n >= Total(i) THEN Zeroes ELSE IF InRegion(i, n) THEN Cell(n, i, n) ELSE Plain(n)

Homogeneous == \A m, n \in Sector : InRegion(image, m) <=> InRegion(image, n)

\* Once the header of an image in one part has been read, a read inside a
\* region is delivered decrypted with the image's own key, and one outside
\* of them as it is; so is the sector in the cache.
DecryptedInRegion ==
  /\ image # NoImage /\ SinglePart /\ examined /\ key = image =>
       /\ status = "ok" /\ Homogeneous => \A n \in DOMAIN buf : buf[n] = Decrypted(image, n)
       /\ cached # Uncached => cached.cell = Decrypted(image, cached.offset)

\* An image that says it is decrypted is left alone once its header was read.
DecryptedLeftAlone ==
  status = "ok" /\ examined /\ Header[image][1].mark = "Decrypted" =>
    \A n \in DOMAIN buf : buf[n].key = NoKey

\* decrypt_iso_data stays inside the buffer, unless the image has several
\* parts or a process reads more than READ_BUF_SIZE at once.
DecryptsInsideBuffer ==
  Running /\ InImage /\ fd # 0 /\ Here = active /\ Decrypting =>
    \/ cmd.size <= Room
    \/ ~SinglePart
    \/ ~cmd.kernel /\ cmd.size > BufSize

\* What comes out of a read is decrypted when, and only when, its image says so, and
\* nothing beside it is (storage_ext.c 304-336).
Decoded == DecryptedInRegion /\ DecryptedLeftAlone /\ DecryptsInsideBuffer

\* Why: the header that was examined decides encrypted_iso and the regions; no
\* sector was delivered before; and the loop reads an image in one part at once.
HeaderDecides ==
  image # NoImage /\ examined =>
    /\ Header[image][1].mark = "Decrypted" => ~encrypted
    /\ SinglePart /\ key = image =>
         (encrypted <=> RegionsOf(image) # {}) /\ (encrypted => regions = RegionsOf(image))

DecodedSoFar ==
  status = "reading" =>
    /\ cached = Uncached
    /\ SinglePart /\ examined /\ key = image /\ Homogeneous =>
         \A n \in DOMAIN buf : n < off => buf[n] = Decrypted(image, n)
    /\ examined /\ Header[image][1].mark = "Decrypted" =>
         \A n \in DOMAIN buf : n < off => buf[n].key = NoKey
    /\ SinglePart /\ InImage /\ Left > 0 /\ (cmd.kernel \/ cmd.size <= BufSize) => off = cmd.offset

CacheLeftAlone ==
  image # NoImage /\ examined /\ Header[image][1].mark = "Decrypted" => cached.cell.key = NoKey

DecodeInv == HeaderDecides /\ DecodedSoFar /\ CacheLeftAlone /\ DecryptedInRegion /\ DecryptedLeftAlone

-----------------------------------------------------------------------------
(* What the documentation says and the code does not do.                   *)

\* README: PS3ISO images are decoded on the fly.  An image whose key was found
\* and whose header was read should be delivered decoded.
EncryptedImageIsDecoded ==
  status = "ok" /\ examined /\ Header[image][1].mark = "Encrypted" /\ key = image =>
    \A n \in DOMAIN buf : buf[n] = Decrypted(image, n)

\* "3k3y/Redump ISOs decryption": an image that is neither, in a folder where
\* no key is looked for, is not decrypted.
PlainImageIsNot ==
  status = "ok" /\ image \notin Searched => \A n \in DOMAIN buf : buf[n].key = NoKey
=============================================================================

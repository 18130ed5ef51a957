---------------------------- MODULE Reads_proofs ----------------------------
(***************************************************************************)
(* Proofs about IsoRead, CdCache, ProxyRead, CdFormat and TextLines: for any *)
(* images, split into any parts, discs, regions and files, and any length of *)
(* image, cache and buffer, what is read is what is stored.                *)
(***************************************************************************)
EXTENDS MCReads, FiniteSetTheorems, SequenceTheorems, WellFoundedInduction, TLAPS

\* Every nonempty set of natural numbers has a least element.
LEMMA LeastNumber ==
  ASSUME NEW S \in SUBSET Nat, S # {}
  PROVE  \E m \in S : \A n \in S : m <= n
<1>1. PICK m \in S : \A n \in S : ~(<<n, m>> \in OpToRel(<, Nat))
  BY NatLessThanWellFounded, WFMin
<1>2. \A n \in S : <<n, m>> \in Nat \X Nat
  OBVIOUS
<1>3. \A n \in S : ~(n < m)
  BY <1>1, <1>2 DEF OpToRel
<1> QED BY <1>3

\* Every bounded nonempty set of natural numbers has a greatest element.
LEMMA GreatestNumber ==
  ASSUME NEW S \in SUBSET Nat, S # {}, NEW b \in Nat, \A n \in S : n <= b
  PROVE  \E m \in S : \A n \in S : n <= m
<1> DEFINE Bounds == {u \in Nat : \A n \in S : n <= u}
<1>1. PICK u \in Bounds : \A v \in Bounds : u <= v
  <2>1. Bounds \in SUBSET Nat /\ b \in Bounds
    OBVIOUS
  <2> QED BY <2>1, LeastNumber
<1>2. u \in Nat /\ \A n \in S : n <= u
  OBVIOUS
<1>3. CASE u \in S
  BY <1>2, <1>3
<1>4. CASE u \notin S
  <2>1. \A m \in S : m \in Nat /\ m < u
    BY <1>2, <1>4
  <2>2. PICK n \in S : TRUE
    OBVIOUS
  <2>3. u - 1 \in Nat /\ \A m \in S : m <= u - 1
    BY <1>2, <2>1, <2>2
  <2>4. u - 1 \in Bounds
    BY <2>3
  <2>5. u <= u - 1
    BY <1>1, <2>4
  <2> QED BY <1>2, <2>5
<1> QED BY <1>3, <1>4

\* CHOOSE finds the least.
LEMMA ChooseLeast ==
  ASSUME NEW S \in SUBSET Nat, NEW f \in S, \A k \in S : f <= k
  PROVE  (CHOOSE k \in S : \A m \in S : k <= m) = f
<1> DEFINE c == CHOOSE k \in S : \A m \in S : k <= m
<1>1. c \in S /\ \A m \in S : c <= m
  OBVIOUS
<1>2. c <= f /\ f <= c /\ c \in Nat /\ f \in Nat
  BY <1>1
<1> QED BY <1>2

\* And the greatest.
LEMMA ChooseGreatest ==
  ASSUME NEW S \in SUBSET Nat, NEW l \in S, \A k \in S : k <= l
  PROVE  (CHOOSE k \in S : \A m \in S : m <= k) = l
<1> DEFINE c == CHOOSE k \in S : \A m \in S : m <= k
<1>1. c \in S /\ \A m \in S : m <= c
  OBVIOUS
<1>2. c <= l /\ l <= c /\ c \in Nat /\ l \in Nat
  BY <1>1
<1> QED BY <1>2

\* The parts of an image are ordered and cover it.
LEMMA PartBounds ==
  ASSUME NEW i \in Image
  PROVE  /\ Len(Bound[i]) \in Nat /\ Len(Bound[i]) > 1
         /\ \A p \in 1..Len(Bound[i]) : Bound[i][p] \in Nat /\ Bound[i][p] <= Total(i)
         /\ Total(i) \in Nat
<1>1. Bound[i] \in Seq(Nat) /\ Len(Bound[i]) > 1
  BY IsoAssumption
<1>2. \A p \in 1..Len(Bound[i]) : Bound[i][p] \in Nat
  BY <1>1
<1>3. \A p \in 1..Len(Bound[i]) : p < Len(Bound[i]) => Bound[i][p] < Bound[i][Len(Bound[i])]
  BY <1>1, IsoAssumption
<1> QED BY <1>1, <1>2, <1>3 DEF Total

\* get_next_read finds the part of every sector of the image.
LEMMA PartOfSector ==
  ASSUME NEW i \in Image, NEW n \in Nat, n < Total(i)
  PROVE  /\ PartAt(i, n) \in Part(i)
         /\ PartAt(i, n) + 1 \in 1..Len(Bound[i])
         /\ Bound[i][PartAt(i, n)] <= n
         /\ n < Bound[i][PartAt(i, n) + 1]
<1> DEFINE After == {q \in 1..Len(Bound[i]) : n < Bound[i][q]}
<1>1. Len(Bound[i]) \in After /\ After \in SUBSET Nat
  BY PartBounds DEF Total
<1>2. PICK q \in After : \A r \in After : q <= r
  BY <1>1, LeastNumber
<1>3. q # 1
  BY <1>2, IsoAssumption
<1>4. q - 1 \in Part(i) /\ q - 1 \notin After
  BY <1>2, <1>3, PartBounds DEF Part
<1>5. Bound[i][q - 1] <= n /\ n < Bound[i][(q - 1) + 1]
  BY <1>2, <1>4, PartBounds DEF Part
<1>6. \E p \in Part(i) : Bound[i][p] <= n /\ n < Bound[i][p + 1]
  BY <1>4, <1>5
<1>7. PartAt(i, n) \in Part(i) /\ Bound[i][PartAt(i, n)] <= n /\ n < Bound[i][PartAt(i, n) + 1]
  BY <1>6 DEF PartAt
<1> QED BY <1>7, PartBounds DEF Part

\* While a command runs inside the image, the next read is inside the part.
LEMMA NextRead ==
  ASSUME IsoTypeOK, PositionFollows, Running, InImage
  PROVE  /\ image \in Image
         /\ Here \in Part(image)
         /\ Here + 1 \in 1..Len(Bound[image])
         /\ FilePos \in Nat
         /\ Bound[image][Here] \in Nat
         /\ Bound[image][Here] + FilePos = off
         /\ ReadSize \in Nat /\ ReadSize > 0
         /\ off + ReadSize <= Bound[image][Here + 1]
         /\ Bound[image][Here + 1] \in Nat
         /\ Bound[image][Here + 1] <= Total(image)
         /\ off + ReadSize <= cmd.offset + cmd.size
<1> USE DEF Running, InImage
<1>1. image \in Image /\ off \in Nat /\ cmd \in ReadCmd
  BY DEF IsoTypeOK
<1>2. /\ Here \in Part(image) /\ Here + 1 \in 1..Len(Bound[image])
      /\ Bound[image][Here] <= off /\ off < Bound[image][Here + 1]
  BY <1>1, PartOfSector DEF Here
<1>3. /\ Bound[image][Here] \in Nat /\ Bound[image][Here + 1] \in Nat
      /\ Bound[image][Here + 1] <= Total(image)
  BY <1>1, <1>2, PartBounds DEF Part
<1>4. Left \in Nat /\ Left > 0 /\ off + Left = cmd.offset + cmd.size
  BY <1>1 DEF Left, ReadCmd, PositionFollows
<1>5. Room \in Nat /\ Room > 0 /\ Room <= Left
  BY <1>1, <1>4, IsoAssumption DEF Room, Least, ReadCmd
<1>6. ReadSize \in Nat /\ ReadSize > 0 /\ ReadSize <= Room /\ off + ReadSize <= Bound[image][Here + 1]
  BY <1>1, <1>2, <1>3, <1>5 DEF ReadSize, Least
<1>7. FilePos \in Nat /\ Bound[image][Here] + FilePos = off
  BY <1>1, <1>2, <1>3 DEF FilePos
<1> QED BY <1>1, <1>2, <1>3, <1>4, <1>5, <1>6, <1>7

\* Beyond the end of the image something is left to deliver too.
LEMMA NextZeroes ==
  ASSUME IsoTypeOK, PositionFollows, Running
  PROVE  Room \in Nat /\ Room > 0 /\ off + Room <= cmd.offset + cmd.size
<1>1. off \in Nat /\ cmd \in ReadCmd
  BY DEF IsoTypeOK
<1>2. Left \in Nat /\ Left > 0 /\ off + Left = cmd.offset + cmd.size
  BY <1>1 DEF Left, ReadCmd, PositionFollows, Running
<1> QED BY <1>1, <1>2, IsoAssumption DEF Room, Least, ReadCmd

\* Nothing is mounted and nothing is read at first.
LEMMA InitIsoInv == IsoInit => IsoInv
<1> SUFFICES ASSUME IsoInit PROVE IsoInv
  OBVIOUS
<1> USE IsoAssumption DEF IsoInit
<1>1. NoCmd \in ReadCmd
  BY DEF NoCmd, ReadCmd
<1>2. IsoTypeOK
  <2>1. DOMAIN buf = {}
    OBVIOUS
  <2> QED BY <1>1, <2>1 DEF IsoTypeOK
<1>3. DeliveredInPlace /\ CacheInPlace /\ OpenOnActivePart /\ PositionFollows
  BY DEF DeliveredInPlace, CacheInPlace, OpenOnActivePart, PositionFollows
<1> QED BY <1>2, <1>3 DEF IsoInv

\* A mount finds discfd closed.
LEMMA MountIsoInv ==
  ASSUME IsoInv, NEW i \in Image, MountIso(i)
  PROVE  IsoInv'
<1> USE IsoAssumption DEF IsoInv, MountIso, cmdVars
<1>1. status = "idle"
  BY DEF IsoTypeOK
<1>2. KeyFor(i) \in Image \cup {NoKey}
  BY DEF KeyFor, IsoTypeOK
<1>3. IsoTypeOK'
  BY <1>2 DEF IsoTypeOK
<1>4. DeliveredInPlace' /\ PositionFollows'
  BY <1>1 DEF DeliveredInPlace, PositionFollows
<1>5. CacheInPlace' /\ OpenOnActivePart'
  BY DEF CacheInPlace, OpenOnActivePart
<1> QED BY <1>3, <1>4, <1>5

\* An unmount closes it.
LEMMA UmountIsoInv ==
  ASSUME IsoInv, UmountIso
  PROVE  IsoInv'
<1> USE DEF IsoInv, UmountIso, cmdVars, keyVars
<1>1. IsoTypeOK'
  BY DEF IsoTypeOK
<1>2. DeliveredInPlace' /\ PositionFollows'
  BY DEF DeliveredInPlace, PositionFollows
<1>3. CacheInPlace' /\ OpenOnActivePart'
  BY DEF CacheInPlace, OpenOnActivePart
<1> QED BY <1>1, <1>2, <1>3

\* A read begins with the cached sector or with an empty buffer.
LEMMA StartReadInv ==
  ASSUME IsoInv, NEW c \in ReadCmd, StartRead(c)
  PROVE  IsoInv'
<1> USE DEF IsoInv, StartRead, keyVars, fileVars
<1>0. c.offset \in Nat /\ c.size \in Nat /\ c.size > 0
  BY IsoAssumption DEF ReadCmd
<1>1. IsoTypeOK'
  <2>1. CASE CacheHit(c)
    BY <1>0, <2>1 DEF IsoTypeOK, CacheHit, Cacheable
  <2>2. CASE ~CacheHit(c)
    BY <1>0, <2>2 DEF IsoTypeOK
  <2> QED BY <2>1, <2>2
<1>2. OpenOnActivePart'
  BY DEF OpenOnActivePart
<1>3. CacheInPlace'
  BY DEF CacheInPlace
<1>4. CASE CacheHit(c)
  <2>1. cached # Uncached
    BY <1>0, <1>4 DEF CacheHit, Uncached
  <2>2. DeliveredInPlace'
    BY <1>4, <2>1 DEF CacheHit, DeliveredInPlace, CacheInPlace, Right
  <2>3. PositionFollows'
    BY <1>4 DEF PositionFollows
  <2> QED BY <1>1, <1>2, <1>3, <2>2, <2>3
<1>5. CASE ~CacheHit(c)
  <2>1. DeliveredInPlace'
    BY <1>5 DEF DeliveredInPlace
  <2>2. PositionFollows'
    BY <1>0, <1>5 DEF PositionFollows
  <2> QED BY <1>1, <1>2, <1>3, <2>1, <2>2
<1> QED BY <1>4, <1>5

\* A part is opened, or the read fails with discfd closed.
LEMMA OpenPartInv ==
  ASSUME IsoInv, OpenPart
  PROVE  IsoInv'
<1> USE DEF IsoInv
<1>1. Here \in Part(image) /\ image \in Image /\ status = "reading"
  BY NextRead DEF OpenPart, Running
<1>2. UNCHANGED <<image, ps3, cached, cmd, off, buf>> /\ (status' = status \/ status' = "failed")
  BY DEF OpenPart
<1>3. IsoTypeOK'
  <2>1. key' \in Image \cup {NoKey} /\ encrypted' \in BOOLEAN
    <3>1. ASSUME NEW h \in {Header[image][Here]} \cup Junk, Examine(h)
          PROVE  key' \in Image \cup {NoKey} /\ encrypted' \in BOOLEAN
      <4>1. h.key \in Image \cup {NoKey}
        BY <1>1, IsoAssumption DEF Part, HeaderOK
      <4>2. key' \in Image \cup {NoKey}
        BY <3>1, <4>1 DEF Examine, IsoTypeOK
      <4>3. encrypted' \in BOOLEAN
        BY <3>1 DEF Examine
      <4> QED BY <4>2, <4>3
    <3> QED BY <3>1 DEF OpenPart, keyVars, IsoTypeOK
  <2>2. pos' \in Nat
    BY DEF OpenPart, HeaderSize, IsoTypeOK
  <2>3. doseek' \in BOOLEAN
    <3>1. doseek' = TRUE \/ doseek' = doseek
      BY DEF OpenPart
    <3> QED BY <3>1 DEF IsoTypeOK
  <2> QED BY <1>1, <1>2, <2>1, <2>2, <2>3 DEF IsoTypeOK
<1>4. OpenOnActivePart'
  BY <1>1, <1>2, IsoAssumption DEF OpenPart, OpenOnActivePart
<1>5. CacheInPlace'
  BY <1>2 DEF CacheInPlace
<1>6. DeliveredInPlace'
  BY <1>1, <1>2 DEF DeliveredInPlace
<1>7. PositionFollows'
  BY <1>1, <1>2 DEF PositionFollows, OpenPart
<1> QED BY <1>3, <1>4, <1>5, <1>6, <1>7

\* A read from the part delivers the sectors that follow.
LEMMA ReadPartInv ==
  ASSUME IsoInv, ReadPart
  PROVE  IsoInv'
<1> USE DEF IsoInv
<1>1. Running /\ InImage /\ fd = Here /\ status = "reading"
  BY DEF ReadPart, OpenOnActivePart, Running
<1>2. /\ image \in Image /\ Bound[image][Here] \in Nat /\ FilePos \in Nat /\ ReadSize \in Nat /\ ReadSize > 0
      /\ Bound[image][Here] + FilePos = off /\ off \in Nat
      /\ off + ReadSize <= Total(image) /\ Total(image) \in Nat
      /\ off + ReadSize <= cmd.offset + cmd.size
      /\ cmd.offset \in Nat /\ cmd.size \in Nat
  <2>1. cmd.offset \in Nat /\ cmd.size \in Nat /\ off \in Nat
    BY IsoAssumption DEF IsoTypeOK, ReadCmd
  <2>2. /\ image \in Image /\ Bound[image][Here] \in Nat /\ FilePos \in Nat
        /\ ReadSize \in Nat /\ ReadSize > 0 /\ Bound[image][Here] + FilePos = off
        /\ off + ReadSize <= Bound[image][Here + 1] /\ Bound[image][Here + 1] \in Nat
        /\ Bound[image][Here + 1] <= Total(image)
        /\ off + ReadSize <= cmd.offset + cmd.size
    BY <1>1, NextRead
  <2>3. Total(image) \in Nat
    BY <2>2, PartBounds
  <2> QED BY <2>1, <2>2, <2>3
<1>3. UNCHANGED <<image, ps3, fd, active, cached, keyVars, cmd>>
  BY DEF ReadPart
<1>4. From \in Nat /\ Bound[image][fd] + From = off
  BY <1>1, <1>2 DEF From, PositionFollows, InImage, IsoTypeOK
<1>5. CacheInPlace' /\ OpenOnActivePart'
  BY <1>3 DEF CacheInPlace, OpenOnActivePart
<1>6. CASE /\ Deliver(ReadSize, Fetched)
           /\ pos' = From + ReadSize
           /\ doseek' = FALSE
           /\ UNCHANGED status
  <2>1. off' = off + ReadSize /\ DOMAIN buf' = DOMAIN buf
    BY <1>6 DEF Deliver
  <2>2. \A n \in DOMAIN buf' : n < off' => Right(image, n, buf'[n])
    <3> SUFFICES ASSUME NEW n \in DOMAIN buf, n < off'
                 PROVE  Right(image, n, buf'[n])
      BY <2>1
    <3>1. n \in Nat
      BY <1>1, <1>2 DEF IsoTypeOK
    <3>2. CASE n \in off .. (off + ReadSize - 1)
      <4>1. buf'[n] = Fetched(n - off)
        BY <1>6, <3>2 DEF Deliver
      <4>2. Fetched(n - off).at = n
        BY <1>4, <1>2, <3>1, <3>2 DEF Fetched, Plain, Cell
      <4> QED BY <4>1, <4>2, <3>2, <1>2 DEF Right
    <3>3. CASE n \notin off .. (off + ReadSize - 1)
      <4>1. n < off
        BY <2>1, <3>1, <3>3, <1>2
      <4>2. buf'[n] = buf[n]
        BY <1>6, <3>3 DEF Deliver
      <4> QED BY <4>1, <4>2, <1>1 DEF PositionFollows
    <3> QED BY <3>2, <3>3
  <2>3. off' < Total(image) \/ off' = Total(image)
    BY <2>1, <1>2
  <2>4. Bound[image][fd] + pos' = off'
    BY <2>1, <1>1, <1>2, <1>4, <1>6
  <2>5. PositionFollows'
    BY <2>1, <2>2, <2>3, <2>4, <1>1, <1>2, <1>3, <1>6 DEF PositionFollows, ReadPart
  <2>6. IsoTypeOK'
    <3>1. off' \in Nat
      BY <2>1, <1>2
    <3>4. doseek' \in BOOLEAN
      BY <1>6
    <3>2. pos' = From + ReadSize
      BY <1>6
    <3>3. pos' \in Nat
      BY <3>2, <1>2, <1>4
    <3> QED BY <3>1, <3>3, <3>4, <2>1, <1>1, <1>3, <1>6 DEF IsoTypeOK, keyVars
  <2>7. DeliveredInPlace'
    BY <1>1, <1>6 DEF DeliveredInPlace
  <2> QED BY <2>5, <2>6, <2>7, <1>5
<1>7. CASE /\ status' = "failed"
           /\ pos' \in {pos, From, From + ReadSize}
           /\ UNCHANGED <<buf, off, doseek>>
  <2>1. IsoTypeOK'
    BY <1>1, <1>2, <1>3, <1>4, <1>7 DEF IsoTypeOK, keyVars
  <2>2. DeliveredInPlace' /\ PositionFollows'
    BY <1>7 DEF DeliveredInPlace, PositionFollows
  <2> QED BY <2>1, <2>2, <1>5
<1> QED BY <1>6, <1>7 DEF ReadPart

\* Beyond the end of the image zeroes are delivered.
LEMMA ReadZeroesInv ==
  ASSUME IsoInv, ReadZeroes
  PROVE  IsoInv'
<1> USE DEF IsoInv
<1>1. Running /\ ~InImage /\ status = "reading"
  BY DEF ReadZeroes, Running
<1>2. /\ image \in Image /\ off \in Nat /\ Total(image) \in Nat /\ Total(image) <= off
      /\ Room \in Nat /\ Room > 0 /\ off + Room <= cmd.offset + cmd.size
      /\ cmd.offset \in Nat /\ cmd.size \in Nat
  BY <1>1, NextZeroes, PartBounds, IsoAssumption DEF IsoTypeOK, ReadCmd, InImage
<1>3. UNCHANGED <<image, ps3, fileVars, cached, keyVars, cmd, doseek>>
  BY DEF ReadZeroes
<1>4. CacheInPlace' /\ OpenOnActivePart'
  BY <1>3 DEF CacheInPlace, OpenOnActivePart, fileVars
<1>5. CASE Deliver(Room, LAMBDA n : Zeroes) /\ UNCHANGED status
  <2>1. /\ off' = off + Room
        /\ buf' = [m \in DOMAIN buf |-> IF m \in off .. (off + Room - 1) THEN Zeroes ELSE buf[m]]
    BY <1>5 DEF Deliver
  <2>2. \A n \in DOMAIN buf' : n < off' => Right(image, n, buf'[n])
    <3> SUFFICES ASSUME NEW n \in DOMAIN buf, n < off'
                 PROVE  Right(image, n, buf'[n])
      BY <2>1
    <3>1. n \in Nat
      BY <1>1, <1>2 DEF IsoTypeOK
    <3>2. CASE n \in off .. (off + Room - 1)
      BY <2>1, <3>1, <3>2, <1>2 DEF Right
    <3>3. CASE n \notin off .. (off + Room - 1)
      <4>1. n < off /\ buf'[n] = buf[n]
        BY <2>1, <3>1, <3>3, <1>2
      <4> QED BY <4>1, <1>1 DEF PositionFollows
    <3> QED BY <3>2, <3>3
  <2>3. PositionFollows'
    BY <2>1, <2>2, <1>1, <1>2, <1>3, <1>5 DEF PositionFollows, fileVars
  <2>4. IsoTypeOK'
    BY <2>1, <1>1, <1>2, <1>3, <1>5 DEF IsoTypeOK, keyVars, fileVars
  <2>5. DeliveredInPlace'
    BY <1>1, <1>5 DEF DeliveredInPlace
  <2> QED BY <2>3, <2>4, <2>5, <1>4
<1>6. CASE status' = "failed" /\ UNCHANGED <<buf, off>>
  <2>1. IsoTypeOK'
    BY <1>1, <1>2, <1>3, <1>6 DEF IsoTypeOK, keyVars, fileVars
  <2>2. DeliveredInPlace' /\ PositionFollows'
    BY <1>6 DEF DeliveredInPlace, PositionFollows
  <2> QED BY <2>1, <2>2, <1>4
<1> QED BY <1>5, <1>6 DEF ReadZeroes

\* A finished read has delivered everything; one sector of it may be cached.
LEMMA FinishReadInv ==
  ASSUME IsoInv, FinishRead
  PROVE  IsoInv'
<1> USE DEF IsoInv, FinishRead, fileVars, keyVars
<1>1. off \in Nat /\ cmd.offset \in Nat /\ cmd.size \in Nat /\ cmd.size > 0 /\ off = cmd.offset + cmd.size
  <2>1. cmd.offset \in Nat /\ cmd.size \in Nat /\ cmd.size > 0 /\ off \in Nat
    BY IsoAssumption DEF IsoTypeOK, ReadCmd
  <2> QED BY <2>1 DEF Left
<1>2. \A n \in DOMAIN buf : Right(image, n, buf[n])
  BY <1>1 DEF PositionFollows, IsoTypeOK
<1>3. cmd.offset \in DOMAIN buf
  BY <1>1 DEF IsoTypeOK
<1>4. CacheInPlace'
  BY <1>2, <1>3 DEF CacheInPlace, IsoTypeOK
<1>5. IsoTypeOK'
  BY DEF IsoTypeOK
<1>6. DeliveredInPlace' /\ PositionFollows' /\ OpenOnActivePart'
  BY <1>2 DEF DeliveredInPlace, PositionFollows, OpenOnActivePart
<1> QED BY <1>4, <1>5, <1>6

\* The end of a command leaves nothing of it.
LEMMA EndReadInv ==
  ASSUME IsoInv, EndRead
  PROVE  IsoInv'
<1> USE DEF IsoInv, EndRead, fileVars, keyVars
<1>1. NoCmd \in ReadCmd
  BY IsoAssumption DEF NoCmd, ReadCmd
<1>2. IsoTypeOK'
  BY <1>1 DEF IsoTypeOK
<1>3. DeliveredInPlace' /\ PositionFollows' /\ CacheInPlace' /\ OpenOnActivePart'
  BY DEF DeliveredInPlace, PositionFollows, CacheInPlace, OpenOnActivePart
<1> QED BY <1>2, <1>3

\* The invariant holds in every reachable state.
THEOREM IsoInvariance == IsoSpec => []IsoInv
<1>1. IsoInv /\ [IsoNext]_isoVars => IsoInv'
  <2> SUFFICES ASSUME IsoInv, [IsoNext]_isoVars PROVE IsoInv'
    OBVIOUS
  <2>1. CASE UNCHANGED isoVars
    BY <2>1 DEF isoVars, fileVars, keyVars, cmdVars, IsoInv, IsoTypeOK, DeliveredInPlace, CacheInPlace,
       OpenOnActivePart, PositionFollows
  <2> QED BY <2>1, MountIsoInv, UmountIsoInv, StartReadInv, OpenPartInv, ReadPartInv, ReadZeroesInv,
             FinishReadInv, EndReadInv DEF IsoNext
<1> QED BY <1>1, InitIsoInv, PTL DEF IsoSpec

\* A read that succeeds has delivered every sector from its place in the
\* image, and zeroes beyond its end.
THEOREM ReadInPlace == IsoSpec => []DeliveredInPlace
<1>1. IsoInv => DeliveredInPlace
  BY DEF IsoInv
<1> QED BY <1>1, IsoInvariance, PTL

\* The cached sector is the one at its offset in the mounted image.
THEOREM CachedInPlace == IsoSpec => []CacheInPlace
<1>1. IsoInv => CacheInPlace
  BY DEF IsoInv
<1> QED BY <1>1, IsoInvariance, PTL

\* discfd and activefile agree.
THEOREM OpenIsActive == IsoSpec => []OpenOnActivePart
<1>1. IsoInv => OpenOnActivePart
  BY DEF IsoInv
<1> QED BY <1>1, IsoInvariance, PTL

\* Every pass of the loop delivers something, opens a part or fails.
THEOREM LoopAdvances == IsoSpec => ReadAdvances
<1>1. ASSUME IsoInv, IsoNext, status = "reading", status' = "reading", fd # 0, Here = active
      PROVE  off' > off
  <2>1. IsoTypeOK /\ PositionFollows
    BY <1>1 DEF IsoInv
  <2>2. CASE ReadPart
    BY <1>1, <2>1, <2>2, NextRead DEF ReadPart, Deliver, IsoTypeOK
  <2>3. CASE ReadZeroes
    BY <1>1, <2>1, <2>3, NextZeroes DEF ReadZeroes, Deliver, IsoTypeOK
  <2> QED BY <1>1, <2>2, <2>3 DEF IsoNext, MountIso, UmountIso, StartRead, OpenPart, FinishRead, EndRead, cmdVars, IsoInv, IsoTypeOK
<1>2. IsoInv /\ [IsoNext]_isoVars =>
        [status = "reading" /\ status' = "reading" => off' > off \/ (fd = 0 \/ Here # active)]_isoVars
  BY <1>1
<1> QED BY <1>2, IsoInvariance, PTL DEF IsoSpec, ReadAdvances

-----------------------------------------------------------------------------
(* Decryption of images.                                                   *)

\* At first no image is mounted.
LEMMA InitDecodeInv == IsoInit => DecodeInv
BY DEF IsoInit, DecodeInv, HeaderDecides, DecodedSoFar, CacheLeftAlone, DecryptedInRegion, DecryptedLeftAlone,
   Uncached, Undelivered, Cell

\* A header that was not examined decides nothing.
LEMMA MountIsoDecode ==
  ASSUME IsoInv, DecodeInv, NEW i \in Image, MountIso(i)
  PROVE  DecodeInv'
<1>1. status = "idle" /\ status' = "idle" /\ ~examined' /\ cached' = Uncached
  BY DEF IsoInv, IsoTypeOK, MountIso, cmdVars
<1> QED BY <1>1 DEF DecodeInv, HeaderDecides, DecodedSoFar, CacheLeftAlone, DecryptedInRegion, DecryptedLeftAlone,
             Uncached, Undelivered, Cell

\* Nothing is read of an image that is not mounted.
LEMMA UmountIsoDecode ==
  ASSUME IsoInv, DecodeInv, UmountIso
  PROVE  DecodeInv'
<1>1. status' = "idle" /\ image' = NoImage
  BY DEF UmountIso, cmdVars
<1> QED BY <1>1 DEF DecodeInv, HeaderDecides, DecodedSoFar, CacheLeftAlone, DecryptedInRegion, DecryptedLeftAlone

\* The cached sector is what a read of it would deliver.
LEMMA StartReadDecode ==
  ASSUME IsoInv, DecodeInv, NEW c \in ReadCmd, StartRead(c)
  PROVE  DecodeInv'
<1> USE DEF DecodeInv
<1>1. UNCHANGED <<image, key, encrypted, regions, examined>> /\ image # NoImage
  BY DEF StartRead, keyVars
<1>2. HeaderDecides'
  BY <1>1 DEF HeaderDecides, SinglePart
<1>3. c.offset \in Nat /\ c.size \in Nat /\ c.size > 0 /\ cmd' = c /\ off' = c.offset
  BY IsoAssumption DEF ReadCmd, StartRead
<1>4. CASE CacheHit(c)
  <2>1. /\ buf' = [n \in {c.offset} |-> cached.cell] /\ status' = "ok" /\ cached' = cached
    BY <1>3, <1>4 DEF StartRead
  <2>2. cached # Uncached /\ cached.offset = c.offset
    BY <1>3, <1>4 DEF CacheHit, Uncached
  <2>3. DecodedSoFar' /\ CacheLeftAlone'
    BY <1>1, <2>1 DEF DecodedSoFar, CacheLeftAlone
  <2>4. DecryptedInRegion'
    BY <1>1, <2>1, <2>2 DEF DecryptedInRegion, SinglePart
  <2>5. DecryptedLeftAlone'
    BY <1>1, <2>1 DEF DecryptedLeftAlone, CacheLeftAlone
  <2> QED BY <1>2, <2>3, <2>4, <2>5
<1>5. CASE ~CacheHit(c)
  <2>1. /\ cached' = Uncached /\ status' \in {"reading", "failed"}
        /\ DOMAIN buf' = c.offset .. (c.offset + c.size - 1)
    BY <1>5 DEF StartRead
  <2>2. DecodedSoFar'
    BY <1>1, <1>3, <2>1 DEF DecodedSoFar
  <2>3. CacheLeftAlone' /\ DecryptedInRegion' /\ DecryptedLeftAlone'
    BY <1>1, <2>1 DEF CacheLeftAlone, DecryptedInRegion, DecryptedLeftAlone, Uncached, Undelivered, Cell
  <2> QED BY <1>2, <2>2, <2>3
<1> QED BY <1>4, <1>5

\* A header is examined before anything of its command is delivered.
LEMMA OpenPartDecode ==
  ASSUME IsoInv, DecodeInv, OpenPart
  PROVE  DecodeInv'
<1> USE DEF DecodeInv
<1>0. /\ status = "reading" /\ cached = Uncached
      /\ UNCHANGED <<image, cached, cmd, off, buf>> /\ status' \in {"reading", "failed"}
  BY DEF OpenPart, Running, DecodedSoFar
<1>1. /\ image \in Image /\ Here \in Part(image) /\ FilePos \in Nat
      /\ Bound[image][Here] + FilePos = off /\ Bound[image][Here] \in Nat
      /\ off \in Nat /\ cmd.offset \in Nat /\ cmd.size \in Nat
      /\ DOMAIN buf = cmd.offset .. (cmd.offset + cmd.size - 1)
  <2>1. Running /\ InImage /\ IsoTypeOK /\ PositionFollows
    BY DEF OpenPart, IsoInv
  <2>2. off \in Nat /\ cmd.offset \in Nat /\ cmd.size \in Nat
    BY <2>1, IsoAssumption DEF IsoTypeOK, ReadCmd
  <2> QED BY <1>0, <2>1, <2>2, NextRead DEF IsoTypeOK
<1>2. CacheLeftAlone'
  BY <1>0, <1>1 DEF CacheLeftAlone, Uncached, Undelivered, Cell
<1>3. CASE UNCHANGED keyVars
  <2>1. HeaderDecides'
    BY <1>0, <1>1, <1>3 DEF HeaderDecides, SinglePart, keyVars
  <2>2. DecodedSoFar'
    BY <1>0, <1>1, <1>3 DEF DecodedSoFar, SinglePart, keyVars, Homogeneous, Sector, InImage, Left
  <2>3. DecryptedInRegion' /\ DecryptedLeftAlone'
    BY <1>0, <1>1, <1>3 DEF DecryptedInRegion, DecryptedLeftAlone
  <2> QED BY <1>2, <2>1, <2>2, <2>3
<1>4. CASE ~examined'
  <2>1. HeaderDecides' /\ DecryptedInRegion' /\ DecryptedLeftAlone'
    BY <1>0, <1>1, <1>4 DEF HeaderDecides, DecryptedInRegion, DecryptedLeftAlone
  <2>2. DecodedSoFar'
    BY <1>0, <1>1, <1>4 DEF DecodedSoFar, SinglePart, InImage, Left
  <2> QED BY <1>2, <2>1, <2>2
<1>5. CASE examined' /\ ~UNCHANGED keyVars
  <2>1. Examine(Header[image][1]) /\ Here = 1 /\ FilePos = 0
    BY <1>5 DEF OpenPart
  <2>2. off = 0
    BY <1>0, <1>1, <2>1, IsoAssumption
  <2>3. HeaderOK(Header[image][1])
    <3>1. 1 \in 1 .. (Len(Bound[image]) - 1)
      BY <1>1, PartBounds
    <3> QED BY <1>1, <3>1, IsoAssumption
  <2>4. HeaderDecides'
    <3>1. Header[image][1].mark = "Decrypted" => ~encrypted'
      BY <2>1 DEF Examine
    <3>2. ASSUME key' = image PROVE encrypted' <=> RegionsOf(image) # {}
      <4> DEFINE h == Header[image][1]
      <4>1. key' # NoKey
        BY <3>2, <1>1, IsoAssumption
      <4>2. h.mark # "Encrypted" => key # NoKey
        BY <2>1, <4>1 DEF Examine
      <4>3. encrypted' <=> h.mark # "Decrypted" /\ (h.mark = "Encrypted" \/ key # NoKey)
                             /\ h.regions # {}
        BY <2>1 DEF Examine
      <4>4. encrypted' <=> h.mark # "Decrypted" /\ h.regions # {}
        BY <4>2, <4>3
      <4> QED BY <4>4 DEF RegionsOf
    <3>3. encrypted' => regions' = RegionsOf(image)
      BY <2>1 DEF Examine, RegionsOf
    <3> QED BY <1>0, <1>1, <3>1, <3>2, <3>3 DEF HeaderDecides
  <2>5. DecodedSoFar'
    BY <1>0, <1>1, <2>2 DEF DecodedSoFar, SinglePart, InImage, Left
  <2>6. DecryptedInRegion' /\ DecryptedLeftAlone'
    BY <1>0, <1>1 DEF DecryptedInRegion, DecryptedLeftAlone
  <2> QED BY <1>2, <2>4, <2>5, <2>6
<1> QED BY <1>3, <1>4, <1>5

\* In an image in one part the position in the part is the sector.
LEMMA OnePart ==
  ASSUME IsoInv, Running, InImage, SinglePart
  PROVE  Here = 1 /\ Bound[image][1] = 0 /\ FilePos = off /\ Bound[image][Here + 1] = Total(image)
<1>1. image \in Image /\ Here \in Part(image) /\ off \in Nat
  BY NextRead DEF IsoInv, IsoTypeOK
<1> QED BY <1>1, IsoAssumption DEF SinglePart, Part, FilePos, Total

\* What is read from the part is decrypted as the examined header says.
LEMMA ReadPartDecode ==
  ASSUME IsoInv, DecodeInv, ReadPart
  PROVE  DecodeInv'
<1> USE DEF DecodeInv
<1>1. /\ UNCHANGED <<image, cached, key, encrypted, regions, examined, cmd>> /\ status = "reading"
      /\ status' \in {"reading", "failed"} /\ image \in Image /\ Running /\ InImage
      /\ fd = Here /\ DOMAIN buf = cmd.offset .. (cmd.offset + cmd.size - 1)
      /\ cached = Uncached
  BY NextRead DEF ReadPart, keyVars, Running, IsoInv, IsoTypeOK, DecodedSoFar, OpenOnActivePart
<1>2. HeaderDecides' /\ CacheLeftAlone' /\ DecryptedInRegion' /\ DecryptedLeftAlone'
  BY <1>1 DEF HeaderDecides, CacheLeftAlone, DecryptedInRegion, DecryptedLeftAlone, SinglePart
<1>3. CASE status' = "failed"
  BY <1>2, <1>3 DEF DecodedSoFar
<1>4. CASE status' = "reading"
  <2>1. /\ ReadSize \in Nat /\ ReadSize > 0 /\ off \in Nat /\ FilePos \in Nat
        /\ Bound[image][Here] \in Nat /\ Bound[image][Here] + FilePos = off
        /\ off + ReadSize <= Total(image) /\ Total(image) \in Nat
        /\ off + ReadSize <= cmd.offset + cmd.size
        /\ cmd.offset \in Nat /\ cmd.size \in Nat
    <3>1. IsoTypeOK /\ PositionFollows
      BY DEF IsoInv
    <3>2. off \in Nat /\ cmd.offset \in Nat /\ cmd.size \in Nat
      BY <3>1, IsoAssumption DEF IsoTypeOK, ReadCmd
    <3> QED BY <3>1, <3>2, <1>1, NextRead, PartBounds
  <2>2. /\ off' = off + ReadSize
        /\ buf' = [m \in DOMAIN buf |->
                     IF m \in off .. (off + ReadSize - 1) THEN Fetched(m - off) ELSE buf[m]]
    BY <1>1, <1>4 DEF ReadPart, Deliver
  <2>3. From \in Nat /\ Bound[image][Here] + From = off
    BY <1>1, <2>1 DEF From, PositionFollows, InImage, IsoInv, IsoTypeOK
  <2>4. ASSUME SinglePart, examined, key = image, Homogeneous, NEW n \in DOMAIN buf, n < off'
        PROVE  buf'[n] = Decrypted(image, n)
    <3>1. n \in Nat
      BY <1>1, <2>1
    <3>2. CASE n < off
      <4>1. buf'[n] = buf[n]
        BY <2>1, <2>2, <3>1, <3>2
      <4> QED BY <2>4, <3>2, <4>1, <1>1 DEF DecodedSoFar
    <3>3. CASE n >= off
      <4>1. buf'[n] = Fetched(n - off)
        BY <2>1, <2>2, <2>4, <3>1, <3>3
      <4>2. Here = 1 /\ Bound[image][1] = 0 /\ FilePos = off
        BY OnePart, <1>1, <2>4
      <4>3. /\ Bound[image][fd] + From + (n - off) = n /\ FilePos + (n - off) = n
        BY <1>1, <2>1, <2>3, <3>1, <4>2
      <4>4. n < Total(image) /\ off \in Sector /\ n \in Sector
        BY <1>1, <2>1, <2>2, <2>4, <3>1, <3>3 DEF Sector, IsoInv, PositionFollows
      <4>5. InRegion(image, n) <=> InRegion(image, off)
        BY <2>4, <4>4 DEF Homogeneous
      <4>6. Decrypting <=> InRegion(image, off)
        <5>1. key # NoKey
          BY <1>1, <2>4, IsoAssumption
        <5>2. \A r \in RegionsOf(image) : r[1] > 0 /\ r[1] \in Nat
          BY <1>1, IsoAssumption DEF RegionsOf, HeaderOK, Part
        <5>3. ASSUME InRegion(image, off) PROVE off # 0 /\ RegionsOf(image) # {}
          BY <5>2, <5>3, <2>1 DEF InRegion
        <5>4. (encrypted <=> RegionsOf(image) # {}) /\ (encrypted => regions = RegionsOf(image))
          BY <1>1, <2>4, IsoAssumption DEF HeaderDecides
        <5>5. CASE RegionsOf(image) = {}
          BY <5>4, <5>5 DEF Decrypting, InRegion
        <5>6. CASE RegionsOf(image) # {}
          <6>1. encrypted /\ regions = RegionsOf(image)
            BY <5>4, <5>6
          <6>2. Decrypting <=> FilePos # 0 /\ InRegion(image, FilePos)
            BY <5>1, <6>1 DEF Decrypting, InRegion
          <6> QED BY <6>2, <5>3, <4>2
        <5> QED BY <5>5, <5>6
      <4>7. Fetched(n - off) = IF Decrypting THEN Cell(n, key, n) ELSE Plain(n)
        BY <4>3 DEF Fetched
      <4>8. Decrypted(image, n) = IF InRegion(image, n) THEN Cell(n, image, n) ELSE Plain(n)
        BY <4>4, <1>1, <2>1, <3>1 DEF Decrypted
      <4> QED BY <4>1, <4>5, <4>6, <4>7, <4>8, <2>4
    <3> QED BY <3>1, <3>2, <3>3, <2>1
  <2>5. ASSUME examined, Header[image][1].mark = "Decrypted", NEW n \in DOMAIN buf, n < off'
        PROVE  buf'[n].key = NoKey
    <3>1. n \in Nat
      BY <1>1, <2>1
    <3>2. CASE n < off
      <4>1. buf'[n] = buf[n]
        BY <2>1, <2>2, <3>1, <3>2
      <4> QED BY <2>5, <3>2, <4>1, <1>1 DEF DecodedSoFar
    <3>3. CASE n >= off
      <4>1. buf'[n] = Fetched(n - off)
        BY <2>1, <2>2, <2>5, <3>1, <3>3
      <4>2. ~Decrypting
        BY <1>1, <2>5, IsoAssumption DEF HeaderDecides, Decrypting
      <4> QED BY <4>1, <4>2 DEF Fetched, Plain, Cell
    <3> QED BY <3>1, <3>2, <3>3, <2>1
  <2>6. ASSUME SinglePart, off' < Total(image), Left' > 0, cmd.kernel \/ cmd.size <= BufSize
        PROVE  off' = cmd.offset
    <3>1. Bound[image][Here + 1] = Total(image)
      BY OnePart, <1>1, <2>6
    <3>2. Left \in Nat /\ off + Left = cmd.offset + cmd.size /\ Left > 0
      <4>1. Left > 0 /\ Left = cmd.offset + cmd.size - off
        BY <1>1 DEF Left, Running
      <4> HIDE DEF Left
      <4> QED BY <2>1, <4>1
    <3>3. Room = Left
      <4>0. cmd.offset <= off
        BY <1>1, <2>1 DEF IsoInv, PositionFollows
      <4>1. cmd.kernel \/ Left <= BufSize
        <5> HIDE DEF Left
        <5>1. Left <= cmd.size
          BY <2>1, <3>2, <4>0
        <5> QED BY <2>1, <2>6, <3>2, <5>1, IsoAssumption
      <4> HIDE DEF Left
      <4> QED BY <3>2, <4>1, IsoAssumption DEF Room, Least
    <3>4. ReadSize = Left \/ off + ReadSize = Total(image)
      BY <3>1, <3>2, <3>3, <2>1 DEF ReadSize, Least
    <3>5. Left' = cmd.offset + cmd.size - (off + ReadSize)
      BY <1>1, <2>2 DEF Left
    <3> QED BY <3>2, <3>4, <3>5, <2>1, <2>2, <2>6
  <2>7. DecodedSoFar'
    <3>1. DOMAIN buf' = DOMAIN buf
      BY <2>2
    <3>2. (SinglePart /\ examined /\ key = image /\ Homogeneous)' => SinglePart /\ examined /\ key = image /\ Homogeneous
      BY <1>1 DEF SinglePart, Homogeneous, Sector
    <3>3. SinglePart' => SinglePart
      BY <1>1 DEF SinglePart
    <3> QED BY <1>1, <3>1, <3>2, <3>3, <2>4, <2>5, <2>6 DEF DecodedSoFar, InImage
  <2> QED BY <1>2, <2>7
<1> QED BY <1>1, <1>3, <1>4

\* Zeroes are not decrypted.
LEMMA ReadZeroesDecode ==
  ASSUME IsoInv, DecodeInv, ReadZeroes
  PROVE  DecodeInv'
<1> USE DEF DecodeInv
<1>1. /\ UNCHANGED <<image, cached, key, encrypted, regions, examined, cmd>> /\ status = "reading"
      /\ status' \in {"reading", "failed"} /\ image \in Image /\ Running /\ ~InImage
      /\ DOMAIN buf = cmd.offset .. (cmd.offset + cmd.size - 1)
      /\ cached = Uncached
  BY DEF ReadZeroes, keyVars, Running, IsoInv, IsoTypeOK, DecodedSoFar
<1>2. HeaderDecides' /\ CacheLeftAlone' /\ DecryptedInRegion' /\ DecryptedLeftAlone'
  BY <1>1 DEF HeaderDecides, CacheLeftAlone, DecryptedInRegion, DecryptedLeftAlone, SinglePart
<1>3. CASE status' = "failed"
  BY <1>2, <1>3 DEF DecodedSoFar
<1>4. CASE status' = "reading"
  <2>1. /\ Room \in Nat /\ Room > 0 /\ off \in Nat /\ Total(image) \in Nat /\ Total(image) <= off
        /\ off + Room <= cmd.offset + cmd.size
        /\ cmd.offset \in Nat /\ cmd.size \in Nat
    BY <1>1, NextZeroes, PartBounds, IsoAssumption DEF IsoInv, IsoTypeOK, ReadCmd, InImage
  <2>2. /\ off' = off + Room
        /\ buf' = [m \in DOMAIN buf |-> IF m \in off .. (off + Room - 1) THEN Zeroes ELSE buf[m]]
    BY <1>1, <1>4 DEF ReadZeroes, Deliver
  <2>3. ASSUME NEW n \in DOMAIN buf, n < off', n >= off
        PROVE  buf'[n] = Zeroes /\ Decrypted(image, n) = Zeroes
    BY <1>1, <2>1, <2>2, <2>3 DEF Decrypted
  <2>4. ASSUME NEW n \in DOMAIN buf, n < off
        PROVE  buf'[n] = buf[n]
    BY <1>1, <2>1, <2>2, <2>4
  <2>5. \A n \in DOMAIN buf : n < off \/ n >= off
    BY <1>1, <2>1
  <2>6. DecodedSoFar'
    <3>1. DOMAIN buf' = DOMAIN buf /\ ~InImage'
      BY <1>1, <2>1, <2>2 DEF InImage
    <3>2. (SinglePart /\ examined /\ key = image /\ Homogeneous)' => SinglePart /\ examined /\ key = image /\ Homogeneous
      BY <1>1 DEF SinglePart, Homogeneous, Sector
    <3>3. Zeroes.key = NoKey
      BY DEF Zeroes, Cell
    <3> QED BY <1>1, <3>1, <3>2, <3>3, <2>3, <2>4, <2>5 DEF DecodedSoFar
  <2> QED BY <1>2, <2>6
<1> QED BY <1>1, <1>3, <1>4

\* Everything was delivered; a single sector is homogeneous, and may be cached.
LEMMA FinishReadDecode ==
  ASSUME IsoInv, DecodeInv, FinishRead
  PROVE  DecodeInv'
<1> USE DEF DecodeInv
<1>1. /\ UNCHANGED <<image, key, encrypted, regions, examined, cmd, buf, off, ps3>>
      /\ status = "reading" /\ status' = "ok" /\ image \in Image /\ cached = Uncached
      /\ DOMAIN buf = cmd.offset .. (cmd.offset + cmd.size - 1)
      /\ cmd.offset \in Nat /\ cmd.size \in Nat /\ cmd.size > 0 /\ off = cmd.offset + cmd.size
  <2>1. cmd.offset \in Nat /\ cmd.size \in Nat /\ cmd.size > 0 /\ off \in Nat
    BY IsoAssumption DEF IsoInv, IsoTypeOK, ReadCmd
  <2> QED BY <2>1 DEF FinishRead, keyVars, fileVars, IsoInv, IsoTypeOK, DecodedSoFar, Left
<1>2. \A n \in DOMAIN buf : n < off
  BY <1>1
<1>3. cached' = cached \/ (cmd.size = 1 /\ cached' = [offset |-> cmd.offset, cell |-> buf[cmd.offset]])
  BY DEF FinishRead, Cacheable
<1>4. cmd.offset \in DOMAIN buf /\ (cmd.size = 1 => Homogeneous)
  BY <1>1 DEF Homogeneous, Sector
<1>5. HeaderDecides' /\ DecodedSoFar'
  BY <1>1 DEF HeaderDecides, DecodedSoFar, SinglePart
<1>6. DecryptedInRegion'
  <2> SUFFICES ASSUME SinglePart, examined, key = image
               PROVE  /\ Homogeneous => \A n \in DOMAIN buf : buf[n] = Decrypted(image, n)
                      /\ cached' # Uncached => cached'.cell = Decrypted(image, cached'.offset)
    BY <1>1 DEF DecryptedInRegion, SinglePart, Homogeneous, Sector
  <2>1. Homogeneous => \A n \in DOMAIN buf : buf[n] = Decrypted(image, n)
    BY <1>1, <1>2 DEF DecodedSoFar
  <2> QED BY <2>1, <1>1, <1>3, <1>4
<1>7. DecryptedLeftAlone' /\ CacheLeftAlone'
  BY <1>1, <1>2, <1>3, <1>4 DEF DecodedSoFar, DecryptedLeftAlone, CacheLeftAlone
<1> QED BY <1>5, <1>6, <1>7

\* The caller has its answer; the cache stays.
LEMMA EndReadDecode ==
  ASSUME IsoInv, DecodeInv, EndRead
  PROVE  DecodeInv'
<1>1. /\ UNCHANGED <<image, key, encrypted, regions, examined, cached>> /\ status' = "idle"
  BY DEF EndRead, keyVars
<1> QED BY <1>1 DEF DecodeInv, HeaderDecides, DecodedSoFar, CacheLeftAlone, DecryptedInRegion, DecryptedLeftAlone,
             SinglePart

\* The invariant of decryption.
THEOREM DecodeInvariance == IsoSpec => []DecodeInv
<1>1. IsoInv /\ DecodeInv /\ [IsoNext]_isoVars => DecodeInv'
  <2> SUFFICES ASSUME IsoInv, DecodeInv, [IsoNext]_isoVars PROVE DecodeInv'
    OBVIOUS
  <2>1. CASE UNCHANGED isoVars
    BY <2>1 DEF isoVars, fileVars, keyVars, cmdVars, DecodeInv, HeaderDecides, DecodedSoFar, CacheLeftAlone,
       DecryptedInRegion, DecryptedLeftAlone, SinglePart, Homogeneous, Sector, InImage, Left
  <2> QED BY <2>1, MountIsoDecode, UmountIsoDecode, StartReadDecode, OpenPartDecode, ReadPartDecode,
             ReadZeroesDecode, FinishReadDecode, EndReadDecode DEF IsoNext
<1> QED BY <1>1, InitDecodeInv, IsoInvariance, PTL DEF IsoSpec

\* What comes out of a read is decrypted when, and only when, its image says so, and
\* nothing outside of the buffer is: for any images, regions and headers.
THEOREM ReadsDecoded == IsoSpec => []Decoded
<1>1. IsoInv /\ DecodeInv => Decoded
  <2> SUFFICES ASSUME IsoInv, DecodeInv PROVE DecryptsInsideBuffer
    BY DEF Decoded, DecodeInv
  <2> SUFFICES ASSUME Running, InImage, SinglePart, cmd.kernel \/ cmd.size <= BufSize
               PROVE  cmd.size <= Room
    <3>1. cmd.kernel \/ cmd.size <= BufSize \/ (~cmd.kernel /\ cmd.size > BufSize)
      BY IsoAssumption DEF IsoInv, IsoTypeOK, ReadCmd
    <3> QED BY <3>1 DEF DecryptsInsideBuffer
  <2>1. off = cmd.offset /\ cmd.size \in Nat /\ cmd.offset \in Nat
    BY IsoAssumption DEF Running, DecodeInv, DecodedSoFar, IsoInv, IsoTypeOK, ReadCmd
  <2>2. Left = cmd.size
    BY <2>1 DEF Left
  <2> QED BY <2>1, <2>2, IsoAssumption DEF Room, Least
<1> QED BY <1>1, IsoInvariance, DecodeInvariance, PTL

-----------------------------------------------------------------------------
(* Reads of CD images through the cache of raw sectors.                      *)

\* A command asks for naturals; what it asks of the cache is in the cache.
LEMMA CommandTypes ==
  ASSUME NEW c \in CdCmd
  PROVE  /\ c.start \in Nat /\ c.count \in Nat /\ c.count > 0
         /\ c.raw \in BOOLEAN /\ c.kernel \in BOOLEAN
         /\ \A n : n \in Asked(c) <=> n \in Nat /\ c.start <= n /\ n < c.start + c.count
BY CdAssumption DEF CdCmd, Asked

\* The sectors a request shares with the cache are those asked for that it holds.
LEMMA OverlapBounds ==
  ASSUME CdTypeOK, NEW c \in CdCmd, NEW n
  PROVE  n \in Overlap(c) <=> /\ n \in Asked(c)
                              /\ cdCached # Unset /\ cdCached <= n /\ n < cdCached + CacheSize
BY DEF Overlap

\* Sectors copied from the cache are those of the image.
LEMMA CachedSectors ==
  ASSUME CdTypeOK, CacheIsImage, ~spoiled, NEW c \in CdCmd, NEW n \in Overlap(c)
  PROVE  cache[n - cdCached] = Content(n)
<1>1. /\ n \in Nat /\ cdCached \in Nat /\ cdCached <= n /\ n < cdCached + CacheSize
  BY OverlapBounds, CommandTypes DEF CdTypeOK, Unset
<1>2. n - cdCached \in Slot /\ cdCached + (n - cdCached) = n
  BY <1>1, CdAssumption DEF Slot
<1>3. cdCached # Unset
  BY <1>1 DEF Unset
<1> QED BY <1>2, <1>3 DEF CacheIsImage

\* What the loop fetches is what the image has at its sector.
LEMMA FetchedInPlace ==
  ASSUME CdTypeOK, CdProgress, cdStatus = "reading", NEW k \in Nat
  PROVE  CdFetched(k) = Content(sector + k)
<1>1. sector \in Nat /\ NumSectors \in Nat
  BY CdAssumption DEF CdTypeOK
<1>2. CASE Reads
  <2>1. CdFrom = sector
    BY <1>2 DEF CdProgress, CdFrom, Reads
  <2> QED BY <1>2, <2>1 DEF CdFetched
<1>3. CASE ~Reads
  BY <1>1, <1>3 DEF CdFetched, Content, Reads
<1> QED BY <1>2, <1>3

\* The cache is empty at first.
LEMMA InitCdInv == CdInit => CdInv
<1> SUFFICES ASSUME CdInit PROVE CdInv
  OBVIOUS
<1> USE CdAssumption DEF CdInit
<1>1. NoCdCmd \in CdCmd
  BY DEF NoCdCmd, CdCmd
<1>2. DOMAIN cache = Slot /\ DOMAIN cdBuf = {}
  OBVIOUS
<1>3. CdTypeOK
  BY <1>1, <1>2 DEF CdTypeOK, Unset
<1>4. CdDelivered /\ CacheIsImage /\ CdProgress
  BY DEF CdDelivered, CacheIsImage, CdProgress
<1> QED BY <1>3, <1>4 DEF CdInv

\* A new image has a cache of its own.
LEMMA RemountCdInv ==
  ASSUME CdInv, Remount
  PROVE  CdInv'
<1> USE DEF CdInv, Remount, localVars
<1>1. CdTypeOK'
  <2>1. DOMAIN cache' = Slot
    OBVIOUS
  <2>2. DOMAIN cdBuf' = IF cdStatus' = "idle" THEN {} ELSE Asked(cdCmd')
    BY DEF CdTypeOK
  <2> QED BY <2>1, <2>2 DEF CdTypeOK
<1>2. CdDelivered' /\ CacheIsImage' /\ CdProgress'
  BY DEF CdDelivered, CacheIsImage, CdProgress
<1> QED BY <1>1, <1>2

\* A command that is refused leaves the cache as it was.
LEMMA RefuseCdInv ==
  ASSUME CdInv, NEW c \in CdCmd, Refuse(c)
  PROVE  CdInv'
<1> USE DEF CdInv, Refuse, cacheVars
<1>1. CdTypeOK'
  <2>1. open' \in BOOLEAN
    BY DEF CdTypeOK
  <2>2. DOMAIN cdBuf' = Asked(cdCmd') /\ cdStatus' = "failed"
    OBVIOUS
  <2> QED BY <2>1, <2>2 DEF CdTypeOK
<1>2. CacheIsImage'
  BY DEF CacheIsImage
<1>3. CdDelivered' /\ CdProgress'
  BY DEF CdDelivered, CdProgress
<1> QED BY <1>1, <1>2, <1>3

\* A command that the cache holds is answered from it.
LEMMA ReadCachedCdInv ==
  ASSUME CdInv, NEW c \in CdCmd, ReadCached(c)
  PROVE  CdInv'
<1> USE DEF CdInv, ReadCached, Begin, cacheVars
<1>1. CdTypeOK'
  <2>1. DOMAIN cdBuf' = Asked(cdCmd') /\ cdStatus' = "ok"
    OBVIOUS
  <2> QED BY <2>1 DEF CdTypeOK
<1>2. CacheIsImage'
  BY DEF CacheIsImage
<1>3. CdDelivered'
  <2> SUFFICES ASSUME ~spoiled', ~EmptyHit(cdCmd)', NEW n \in DOMAIN cdBuf'
               PROVE  cdBuf'[n] = Content(n)
    BY DEF CdDelivered
  <2>1. ~EmptyHit(c) /\ ~spoiled
    BY DEF EmptyHit
  <2>2. Overlap(c) = Asked(c) /\ cdBuf' = [m \in Asked(c) |-> cache[m - cdCached]]
    BY <2>1
  <2>3. n \in Overlap(c) /\ cdBuf'[n] = cache[n - cdCached]
    BY <2>2
  <2> QED BY <2>1, <2>3, CachedSectors
<1>4. CdProgress'
  BY DEF CdProgress
<1> QED BY <1>1, <1>2, <1>3, <1>4

\* What the cache holds of a command is one of its ends; the rest is left.
LEMMA RestOfCommand ==
  ASSUME CdTypeOK, NEW c \in CdCmd, ReadThrough(c)
  PROVE  /\ sector' \in Nat /\ left' \in Nat /\ left' <= CacheSize
         /\ sector' + left' <= c.start + c.count
         /\ \A n \in Asked(c) : n \notin sector' .. (sector' + left' - 1) => n \in Overlap(c)
<1>1. /\ c.start \in Nat /\ c.count \in Nat /\ c.count > 0 /\ c.count <= CacheSize
      /\ CacheSize \in Nat
  BY CommandTypes, CdAssumption DEF ReadThrough
<1>2. \A n \in Asked(c) : n \in Nat /\ c.start <= n /\ n < c.start + c.count
  BY CommandTypes
<1>3. /\ sector' = IF Overlap(c) # {} /\ cdCached <= c.start THEN cdCached + CacheSize ELSE c.start
      /\ left' = IF Overlap(c) = {} THEN c.count
                 ELSE IF cdCached > c.start THEN cdCached - c.start
                 ELSE c.start + c.count - sector'
  BY DEF ReadThrough
<1>4. CASE Overlap(c) = {}
  <2>1. sector' = c.start /\ left' = c.count
    BY <1>3, <1>4
  <2> QED BY <1>1, <1>2, <2>1
<1>5. CASE Overlap(c) # {}
  <2>1. PICK h \in Overlap(c) : TRUE
    BY <1>5
  <2>2. cdCached \in Nat /\ h \in Asked(c) /\ cdCached <= h /\ h < cdCached + CacheSize
    BY <2>1, OverlapBounds DEF CdTypeOK, Unset
  <2>3. PICK m \in Asked(c) : m \notin Overlap(c)
    BY DEF ReadThrough, Overlap
  <2>4. m < cdCached \/ m >= cdCached + CacheSize
    <3>1. m \in Nat /\ cdCached # Unset
      BY <1>2, <2>2 DEF Unset
    <3>2. ~(cdCached <= m /\ m < cdCached + CacheSize)
      BY <2>3, <3>1, OverlapBounds
    <3> QED BY <1>1, <2>2, <3>1, <3>2
  <2>5. CASE cdCached <= c.start
    <3>1. sector' = cdCached + CacheSize /\ left' = c.start + c.count - sector'
      BY <1>1, <1>3, <1>5, <2>2, <2>5
    <3>2. sector' <= m
      BY <1>1, <1>2, <2>2, <2>4, <2>5, <3>1
    <3>3. sector' \in Nat /\ left' \in Nat /\ left' <= CacheSize /\ sector' + left' = c.start + c.count
      BY <1>1, <1>2, <2>2, <2>3, <3>1, <3>2
    <3>4. ASSUME NEW n \in Asked(c), n \notin sector' .. (sector' + left' - 1)
          PROVE  n \in Overlap(c)
      <4>1. n < cdCached + CacheSize /\ cdCached <= n
        BY <1>1, <1>2, <2>2, <2>5, <3>1, <3>3, <3>4
      <4> QED BY <2>2, <4>1, OverlapBounds DEF Unset
    <3> QED BY <1>1, <3>3, <3>4
  <2>6. CASE cdCached > c.start
    <3>1. sector' = c.start /\ left' = cdCached - c.start
      BY <1>1, <1>3, <1>5, <2>2, <2>6
    <3>2. sector' \in Nat /\ left' \in Nat /\ left' <= CacheSize /\ sector' + left' <= c.start + c.count
      BY <1>1, <1>2, <2>2, <2>6, <3>1
    <3>3. ASSUME NEW n \in Asked(c), n \notin sector' .. (sector' + left' - 1)
          PROVE  n \in Overlap(c)
      <4>1. n < cdCached + CacheSize /\ cdCached <= n
        BY <1>1, <1>2, <2>2, <2>6, <3>1, <3>2, <3>3
      <4> QED BY <2>2, <4>1, OverlapBounds DEF Unset
    <3> QED BY <3>2, <3>3
  <2> QED BY <1>1, <2>2, <2>5, <2>6
<1> QED BY <1>4, <1>5

\* What the cache holds of a command is copied before the rest is read.
LEMMA ReadThroughCdInv ==
  ASSUME CdInv, NEW c \in CdCmd, ReadThrough(c)
  PROVE  CdInv'
<1> USE DEF CdInv
<1>1. /\ sector' \in Nat /\ left' \in Nat /\ left' <= CacheSize
      /\ sector' + left' <= c.start + c.count
      /\ \A n \in Asked(c) : n \notin sector' .. (sector' + left' - 1) => n \in Overlap(c)
  BY RestOfCommand
<1> USE DEF ReadThrough, Begin, cacheVars
<1>2. CdTypeOK'
  <2>1. DOMAIN cdBuf' = Asked(cdCmd') /\ cdStatus' = "reading"
    OBVIOUS
  <2> QED BY <1>1, <2>1 DEF CdTypeOK
<1>3. CacheIsImage'
  BY DEF CacheIsImage
<1>4. CdDelivered'
  BY DEF CdDelivered
<1>5. CdProgress'
  <2>1. ASSUME ~spoiled', NEW n \in DOMAIN cdBuf', n \notin sector' .. (sector' + left' - 1)
        PROVE  cdBuf'[n] = Content(n)
    <3>1. n \in Asked(c) /\ n \in Overlap(c)
      BY <1>1, <2>1
    <3>2. cdBuf'[n] = cache[n - cdCached]
      BY <3>1
    <3> QED BY <2>1, <3>1, <3>2, CachedSectors
  <2> QED BY <1>1, <2>1 DEF CdProgress
<1> QED BY <1>2, <1>3, <1>4, <1>5

\* A command that goes around the cache has everything left.
LEMMA ReadAroundCdInv ==
  ASSUME CdInv, NEW c \in CdCmd, ReadAround(c)
  PROVE  CdInv'
<1> USE DEF CdInv, ReadAround, Begin, cacheVars
<1>1. c.start \in Nat /\ c.count \in Nat /\ \A n \in Asked(c) : n \in c.start .. (c.start + c.count - 1)
  BY CommandTypes DEF Asked
<1>2. useCache' \in BOOLEAN /\ (useCache' => c.raw /\ c.count > CacheSize)
  OBVIOUS
<1>3. CdTypeOK'
  <2>1. DOMAIN cdBuf' = Asked(cdCmd') /\ cdStatus' = "reading"
    OBVIOUS
  <2> QED BY <1>1, <1>2, <2>1 DEF CdTypeOK
<1>4. CacheIsImage' /\ CdDelivered'
  BY DEF CacheIsImage, CdDelivered
<1>5. CdProgress'
  BY <1>1, <1>2 DEF CdProgress, TooLong
<1> QED BY <1>3, <1>4, <1>5

\* The cache is filled with the image from the sector on, and the rest of the
\* command is in it.
LEMMA FillCdInv ==
  ASSUME CdInv, Fill
  PROVE  CdInv'
<1> USE DEF CdInv
<1>1. /\ sector \in Nat /\ left \in Nat /\ CacheSize \in Nat /\ NumSectors \in Nat
      /\ cdPos \in Nat /\ cdCmd \in CdCmd
  BY CdAssumption DEF CdTypeOK
<1>2. \A k \in Nat : CdFetched(k) = Content(sector + k)
  BY FetchedInPlace DEF Fill
<1>3. \A k \in Slot : k \in Nat
  BY DEF Slot
<1>4. CdFrom \in Nat
  BY <1>1 DEF CdFrom
<1> USE DEF Fill, Seek
<1>5. CdTypeOK'
  <2>1. DOMAIN cache' = Slot /\ DOMAIN cdBuf' = DOMAIN cdBuf /\ cdStatus' = "ok"
    OBVIOUS
  <2>2. cdPos' \in Nat
    BY <1>1, <1>4
  <2>3. cdDoseek' \in BOOLEAN
    BY DEF CdTypeOK
  <2>4. DOMAIN cdBuf' = Asked(cdCmd')
    BY <2>1 DEF CdTypeOK
  <2> QED BY <1>1, <2>1, <2>2, <2>3, <2>4 DEF CdTypeOK
<1>6. CacheIsImage'
  BY <1>2, <1>3 DEF CacheIsImage
<1>7. CdDelivered'
  <2> SUFFICES ASSUME ~spoiled', ~TooLong', NEW n \in DOMAIN cdBuf'
               PROVE  cdBuf'[n] = Content(n)
    BY DEF CdDelivered
  <2>1. n \in DOMAIN cdBuf /\ n \in Nat /\ ~TooLong /\ ~spoiled
    BY <1>1, CommandTypes DEF CdTypeOK, TooLong
  <2>2. CASE n \in sector .. (sector + left - 1)
    <3>1. n - sector \in Slot /\ n - sector \in Nat /\ sector + (n - sector) = n
      BY <1>1, <2>1, <2>2 DEF CdProgress, Slot
    <3>2. cdBuf'[n] = CdFetched(n - sector)
      BY <2>1, <2>2, <3>1
    <3> QED BY <1>2, <3>1, <3>2
  <2>3. CASE n \notin sector .. (sector + left - 1)
    <3>1. cdBuf'[n] = cdBuf[n]
      BY <2>1, <2>3
    <3> QED BY <2>1, <2>3, <3>1 DEF CdProgress
  <2> QED BY <2>2, <2>3
<1>8. CdProgress'
  BY DEF CdProgress
<1> QED BY <1>5, <1>6, <1>7, <1>8

\* A failed read may leave anything in the cache.
LEMMA FillFailsCdInv ==
  ASSUME CdInv, FillFails
  PROVE  CdInv'
<1> USE DEF CdInv, FillFails, fdVars
<1>1. CdTypeOK'
  <2>1. DOMAIN cache' = Slot /\ spoiled' \in BOOLEAN
    BY DEF CdTypeOK
  <2>2. DOMAIN cdBuf' = Asked(cdCmd') /\ cdStatus' = "failed"
    BY DEF CdTypeOK
  <2> QED BY <2>1, <2>2 DEF CdTypeOK
<1>2. CacheIsImage' /\ CdDelivered' /\ CdProgress'
  BY DEF CacheIsImage, CdDelivered, CdProgress
<1> QED BY <1>1, <1>2

\* A pass of the loop delivers its sectors and leaves the rest.
LEMMA ChunkCdInv ==
  ASSUME CdInv, Chunk
  PROVE  CdInv'
<1> USE DEF CdInv
<1>1. /\ sector \in Nat /\ left \in Nat /\ left > 0 /\ NumSectors \in Nat
      /\ cdPos \in Nat /\ cdCmd \in CdCmd /\ cdStatus = "reading"
  BY CdAssumption DEF CdTypeOK, Chunk
<1>2. CdReadSize \in Nat /\ CdReadSize > 0 /\ CdReadSize <= left
  BY <1>1, CdAssumption DEF CdReadSize, CdLeast
<1>3. \A k \in Nat : CdFetched(k) = Content(sector + k)
  BY <1>1, FetchedInPlace
<1>4. CdFrom \in Nat /\ (Reads => CdFrom = sector)
  BY <1>1 DEF CdFrom, Reads, CdProgress
<1> USE DEF Chunk, Seek, cacheVars
<1>5. /\ sector' = sector + CdReadSize /\ left' = left - CdReadSize
      /\ sector' \in Nat /\ left' \in Nat /\ sector' + left' = sector + left
  BY <1>1, <1>2
<1>6. CdTypeOK'
  <2>1. DOMAIN cdBuf' = DOMAIN cdBuf /\ cdStatus' = "reading"
    BY <1>1
  <2>2. cdPos' \in Nat
    BY <1>1, <1>2, <1>4
  <2>3. cdDoseek' \in BOOLEAN
    BY DEF CdTypeOK
  <2>4. DOMAIN cdBuf' = Asked(cdCmd')
    BY <1>1, <2>1 DEF CdTypeOK
  <2> QED BY <1>1, <1>5, <2>1, <2>2, <2>3, <2>4 DEF CdTypeOK
<1>7. CacheIsImage' /\ CdDelivered'
  BY <1>1 DEF CacheIsImage, CdDelivered
<1>8. CdProgress'
  <2>1. ASSUME ~spoiled', NEW n \in DOMAIN cdBuf', n \notin sector' .. (sector' + left' - 1)
        PROVE  cdBuf'[n] = Content(n)
    <3>1. n \in DOMAIN cdBuf /\ n \in Nat /\ ~spoiled
      BY <1>1, <2>1, CommandTypes DEF CdTypeOK
    <3>2. CASE n \in sector .. (sector + CdReadSize - 1)
      <4>1. cdBuf'[n] = CdFetched(n - sector) /\ n - sector \in Nat /\ sector + (n - sector) = n
        BY <1>1, <1>2, <3>1, <3>2
      <4> QED BY <1>3, <4>1
    <3>3. CASE n \notin sector .. (sector + CdReadSize - 1)
      <4>1. cdBuf'[n] = cdBuf[n] /\ n \notin sector .. (sector + left - 1)
        BY <1>1, <1>2, <1>5, <2>1, <3>1, <3>3
      <4> QED BY <1>1, <3>1, <4>1 DEF CdProgress
    <3> QED BY <3>2, <3>3
  <2>2. ASSUME ~cdDoseek', sector' < NumSectors
        PROVE  cdPos' = sector'
    BY <1>1, <1>2, <1>4, <1>5, <2>2 DEF Reads
  <2>3. open' /\ sector' + left' <= cdCmd'.start + cdCmd'.count /\ ~useCache'
    BY <1>1, <1>5 DEF CdProgress
  <2> QED BY <2>1, <2>2, <2>3 DEF CdProgress
<1> QED BY <1>6, <1>7, <1>8

\* Neither a failure nor the end of the loop changes what was read.
LEMMA StopCdInv ==
  ASSUME CdInv, ChunkFails \/ Finish \/ End
  PROVE  CdInv'
<1> USE DEF CdInv, fdVars, cacheVars
<1>1. CASE ChunkFails
  <2> USE <1>1 DEF ChunkFails
  <2>1. CdTypeOK'
    BY DEF CdTypeOK
  <2>2. CacheIsImage' /\ CdDelivered' /\ CdProgress'
    BY DEF CacheIsImage, CdDelivered, CdProgress
  <2> QED BY <2>1, <2>2
<1>2. CASE Finish
  <2> USE <1>2 DEF Finish
  <2>1. CdTypeOK'
    BY DEF CdTypeOK
  <2>2. CacheIsImage' /\ CdProgress'
    BY DEF CacheIsImage, CdProgress
  <2>3. CdDelivered'
    <3>1. sector \in Nat /\ \A n : n \notin sector .. (sector + left - 1)
      BY DEF CdTypeOK
    <3>2. \A n \in DOMAIN cdBuf : ~spoiled => cdBuf[n] = Content(n)
      BY <3>1 DEF CdProgress
    <3> QED BY <3>2 DEF CdDelivered
  <2> QED BY <2>1, <2>2, <2>3
<1>3. CASE End
  <2> USE <1>3 DEF End
  <2>1. CdTypeOK'
    <3>1. NoCdCmd \in CdCmd
      BY CdAssumption DEF NoCdCmd, CdCmd
    <3>2. DOMAIN cdBuf' = {}
      OBVIOUS
    <3> QED BY <3>1, <3>2 DEF CdTypeOK
  <2>2. CacheIsImage' /\ CdDelivered' /\ CdProgress'
    BY DEF CacheIsImage, CdDelivered, CdProgress
  <2> QED BY <2>1, <2>2
<1> QED BY <1>1, <1>2, <1>3

\* Every step keeps the invariant.
LEMMA NextCdInv == CdInv /\ [CdNext]_cdVars => CdInv'
<1> SUFFICES ASSUME CdInv, [CdNext]_cdVars PROVE CdInv'
  OBVIOUS
<1>1. CASE Remount
  BY <1>1, RemountCdInv
<1>2. ASSUME NEW c \in CdCmd, Refuse(c) \/ ReadCached(c) \/ ReadThrough(c) \/ ReadAround(c)
      PROVE  CdInv'
  BY <1>2, RefuseCdInv, ReadCachedCdInv, ReadThroughCdInv, ReadAroundCdInv
<1>3. CASE Fill \/ FillFails \/ Chunk
  BY <1>3, FillCdInv, FillFailsCdInv, ChunkCdInv
<1>4. CASE ChunkFails \/ Finish \/ End
  BY <1>4, StopCdInv
<1>5. CASE UNCHANGED cdVars
  BY <1>5 DEF CdInv, CdTypeOK, CdDelivered, CacheIsImage, CdProgress, cdVars, fdVars,
     cacheVars, localVars, EmptyHit, TooLong
<1> QED BY <1>1, <1>2, <1>3, <1>4, <1>5 DEF CdNext

\* The invariant of the CD reads holds for every size of image, cache and buffer.
THEOREM CdInvariance == CdSpec => []CdInv
<1> QED BY InitCdInv, NextCdInv, PTL DEF CdSpec

\* A read of a CD that succeeds has delivered the sectors it was asked for
\* (process_read_cd_iso2352_cmd, process_read_cd_iso2048_cmd).
THEOREM CdReadsDeliver == CdSpec => []CdDelivered
<1>1. CdInv => CdDelivered
  BY DEF CdInv
<1> QED BY CdInvariance, <1>1, PTL

\* The cache of CD sectors holds the sectors of the image it claims to hold.
THEOREM CdCacheIsImage == CdSpec => []CacheIsImage
<1>1. CdInv => CacheIsImage
  BY DEF CdInv
<1> QED BY CdInvariance, <1>1, PTL

-----------------------------------------------------------------------------
(* Reads of a disc of a client.                                            *)

\* Why: a key that is sound is the one of the disc, if any; the sectors before
\* pxOff are delivered; and nothing is cached while a command runs or no disc is
\* served.
ProxyKeyKnown ==
  sound => pxKey \in {ProxyNoKey, disc} /\ (pxKey = disc => pxRegions = Region[disc])

ProxyCellRight(c, n) ==
  /\ c.disc = disc /\ c.at = n
  /\ sound => c.key \in {ProxyNoKey, disc}
ProxyCellDecoded(c, n) ==
  sound /\ pxKey = disc => c.key = (IF ProxyInRegion(n) THEN disc ELSE ProxyNoKey)
ProxyMixed == \E m, n \in DOMAIN pxBuf : ProxyInRegion(m) /\ ~ProxyInRegion(n)

ProxySoFar ==
  pxStatus = "reading" =>
    /\ pxCached = ProxyUncached /\ ~pxSpoiled /\ ~pxCmd.vsh
    /\ pxOff \in pxCmd.offset .. (pxCmd.offset + pxCmd.size)
    /\ \A n \in DOMAIN pxBuf : n < pxOff =>
         ProxyCellRight(pxBuf[n], n) /\ (ProxyMixed \/ ProxyCellDecoded(pxBuf[n], n))

ProxyCachedRight ==
  pxCached # ProxyUncached /\ ~pxSpoiled =>
    ProxyCellRight(pxCached.cell, pxCached.offset) /\ ProxyCellDecoded(pxCached.cell, pxCached.offset)

ProxyIdle ==
  /\ pxStatus = "idle" => pxBuf = <<>>
  /\ disc = NoDisc => pxStatus = "idle" /\ pxCached = ProxyUncached /\ ~pxSpoiled

ProxyTypeOK ==
  /\ disc \in Disc \cup {NoDisc}
  /\ pxStatus \in {"idle", "reading", "ok", "failed"}
  /\ pxKey \in Disc \cup {ProxyNoKey}
  /\ pxCmd \in ProxyReadCmd
  /\ pxOff \in Nat
  /\ pxStatus # "idle" => DOMAIN pxBuf = ProxyAsked(pxCmd)

ProxyInv ==
  /\ ProxyTypeOK /\ ProxyIdle /\ ProxyKeyKnown /\ ProxySoFar /\ ProxyCachedRight
  /\ ProxyDelivered /\ ProxyDecoded

\* At first no disc is served.
LEMMA InitProxyInv == ProxyInit => ProxyInv
<1> SUFFICES ASSUME ProxyInit PROVE ProxyInv
  OBVIOUS
<1> USE ProxyAssumption DEF ProxyInit
<1>1. NoProxyCmd \in ProxyReadCmd
  BY DEF NoProxyCmd, ProxyReadCmd
<1>2. ProxyTypeOK
  BY <1>1 DEF ProxyTypeOK
<1>3. ProxyIdle /\ ProxyKeyKnown /\ ProxySoFar /\ ProxyCachedRight /\ ProxyDelivered /\ ProxyDecoded
  BY DEF ProxyIdle, ProxyKeyKnown, ProxySoFar, ProxyCachedRight, ProxyDelivered, ProxyDecoded
<1> QED BY <1>2, <1>3 DEF ProxyInv

\* What a disc before has left in disc_key and discRegionInfo is not sound.
LEMMA MountProxyInv ==
  ASSUME ProxyInv, NEW d \in Disc, MountProxy(d)
  PROVE  ProxyInv'
<1> USE ProxyAssumption DEF ProxyInv, MountProxy, proxyCacheVars, proxyCmdVars
<1>1. pxStatus = "idle" /\ pxCached = ProxyUncached
  BY DEF ProxyIdle
<1>2. ProxyTypeOK'
  BY <1>1 DEF ProxyTypeOK
<1>3. ProxyIdle'
  BY <1>1 DEF ProxyIdle
<1>4. ProxyKeyKnown' /\ ProxySoFar' /\ ProxyCachedRight' /\ ProxyDelivered' /\ ProxyDecoded'
  BY <1>1 DEF ProxyKeyKnown, ProxySoFar, ProxyCachedRight, ProxyDelivered, ProxyDecoded
<1> QED BY <1>2, <1>3, <1>4

\* The cache and the command are of no disc once it is unmounted.
LEMMA UmountProxyInv ==
  ASSUME ProxyInv, UmountProxy
  PROVE  ProxyInv'
<1> USE DEF ProxyInv, UmountProxy, proxyCmdVars
<1>1. ProxyTypeOK' /\ ProxyIdle'
  BY DEF ProxyTypeOK, ProxyIdle
<1>2. ProxyKeyKnown' /\ ProxySoFar' /\ ProxyCachedRight' /\ ProxyDelivered' /\ ProxyDecoded'
  BY DEF ProxyKeyKnown, ProxySoFar, ProxyCachedRight, ProxyDelivered, ProxyDecoded
<1> QED BY <1>1, <1>2

\* What only path and the variables of no invariant change.
LEMMA ProxyUnchanged ==
  ASSUME ProxyInv,
         UNCHANGED <<disc, proxyCacheVars, pxKey, pxRegions, sound, proxyCmdVars>>
  PROVE  ProxyInv'
<1> USE DEF ProxyInv, proxyCmdVars, proxyCacheVars
<1>1. ProxyTypeOK' /\ ProxyIdle'
  BY DEF ProxyTypeOK, ProxyIdle, ProxyAsked
<1>2. ProxyKeyKnown' /\ ProxySoFar' /\ ProxyCachedRight'
  BY DEF ProxyKeyKnown, ProxySoFar, ProxyCachedRight, ProxyCellRight, ProxyCellDecoded, ProxyInRegion, ProxyMixed
<1>3. ProxyDelivered' /\ ProxyDecoded'
  BY DEF ProxyDelivered, ProxyDecoded, ProxyInRegion
<1> QED BY <1>1, <1>2, <1>3

\* What every command begins with.
LEMMA ProxyBegins ==
  ASSUME ProxyInv, NEW c \in ProxyReadCmd, ProxyBegin(c),
         pxStatus' \in {"reading", "ok", "failed"}, DOMAIN pxBuf' = ProxyAsked(c)
  PROVE  /\ ProxyTypeOK' /\ ProxyIdle' /\ ProxyKeyKnown'
         /\ UNCHANGED <<disc, pxKey, pxRegions, sound>> /\ disc \in Disc
         /\ pxCmd' = c /\ pxOff' = c.offset
         /\ c.offset \in Nat /\ c.size \in Nat /\ c.size > 0
<1> USE DEF ProxyInv, ProxyBegin, proxyKeyVars
<1>1. c.offset \in Nat /\ c.size \in Nat /\ c.size > 0
  BY ProxyAssumption DEF ProxyReadCmd
<1>2. ProxyTypeOK'
  BY <1>1 DEF ProxyTypeOK
<1>3. ProxyIdle' /\ ProxyKeyKnown'
  BY DEF ProxyIdle, ProxyKeyKnown
<1> QED BY <1>1, <1>2, <1>3 DEF ProxyTypeOK

\* A read with no VSH to ask keeps the invariant.
LEMMA NoVshInv ==
  ASSUME ProxyInv, NEW c \in ProxyReadCmd, NoVsh(c)
  PROVE  ProxyInv'
<1> USE DEF ProxyInv, NoVsh, proxyCacheVars
<1>1. ProxyTypeOK' /\ ProxyIdle' /\ ProxyKeyKnown' /\ UNCHANGED <<disc, pxKey, sound>>
  BY ProxyBegins
<1>2. ProxySoFar' /\ ProxyDelivered' /\ ProxyDecoded'
  BY DEF ProxySoFar, ProxyDelivered, ProxyDecoded
<1>3. ProxyCachedRight'
  BY <1>1 DEF ProxyCachedRight, ProxyCellRight, ProxyCellDecoded, ProxyInRegion
<1> QED BY <1>1, <1>2, <1>3

\* So does one that VSH itself reads.
LEMMA NativeReadInv ==
  ASSUME ProxyInv, NEW c \in ProxyReadCmd, NativeRead(c)
  PROVE  ProxyInv'
<1> USE DEF ProxyInv, NativeRead, proxyCacheVars
<1>1. /\ ProxyTypeOK' /\ ProxyIdle' /\ ProxyKeyKnown' /\ UNCHANGED <<disc, pxKey, sound>>
      /\ pxCmd' = c
  BY ProxyBegins
<1>2. ProxySoFar' /\ ProxyDecoded'
  BY <1>1 DEF ProxySoFar, ProxyDecoded
<1>3. ProxyDelivered'
  BY <1>1 DEF ProxyDelivered, ProxyCell
<1>4. ProxyCachedRight'
  BY <1>1 DEF ProxyCachedRight, ProxyCellRight, ProxyCellDecoded, ProxyInRegion
<1> QED BY <1>1, <1>2, <1>3, <1>4

\* The cached sector is what a read of it would deliver.
LEMMA ProxyReadCachedInv ==
  ASSUME ProxyInv, NEW c \in ProxyReadCmd, ProxyReadCached(c)
  PROVE  ProxyInv'
<1> USE DEF ProxyInv, ProxyReadCached, proxyCacheVars
<1>1. /\ ProxyTypeOK' /\ ProxyIdle' /\ ProxyKeyKnown' /\ UNCHANGED <<disc, pxKey, sound>>
      /\ pxCmd' = c /\ c.offset \in Nat
  BY ProxyBegins
<1>2. ProxySoFar'
  BY DEF ProxySoFar
<1>3. ProxyCachedRight'
  BY <1>1 DEF ProxyCachedRight, ProxyCellRight, ProxyCellDecoded, ProxyInRegion
<1>4. c.size = 1 /\ pxCached # ProxyUncached /\ pxCached.offset = c.offset
  BY <1>1 DEF ProxyCacheable, ProxyUncached
<1>5. DOMAIN pxBuf' = {c.offset} /\ pxBuf'[c.offset] = pxCached.cell
  BY <1>1, <1>4 DEF ProxyAsked
<1>6. ASSUME ~pxSpoiled
      PROVE  ProxyCellRight(pxBuf'[c.offset], c.offset) /\ ProxyCellDecoded(pxBuf'[c.offset], c.offset)
  BY <1>4, <1>5, <1>6 DEF ProxyCachedRight
<1>7. ProxyDelivered' /\ ProxyDecoded'
  BY <1>1, <1>5, <1>6 DEF ProxyDelivered, ProxyDecoded, ProxyCellRight, ProxyCellDecoded, ProxyInRegion
<1> QED BY <1>1, <1>2, <1>3, <1>7

\* So does one that is sent to the proxy,
LEMMA ProxyStartReadInv ==
  ASSUME ProxyInv, NEW c \in ProxyReadCmd, ProxyStartRead(c)
  PROVE  ProxyInv'
<1> USE DEF ProxyInv, ProxyStartRead, proxyCacheVars
<1>1. /\ ProxyTypeOK' /\ ProxyIdle' /\ ProxyKeyKnown'
      /\ pxCmd' = c /\ pxOff' = c.offset /\ c.offset \in Nat /\ c.size \in Nat
  BY ProxyBegins
<1>2. \A n \in DOMAIN pxBuf' : ~(n < pxOff')
  BY <1>1 DEF ProxyAsked
<1>3. ProxySoFar'
  BY <1>1, <1>2 DEF ProxySoFar
<1>4. ProxyCachedRight' /\ ProxyDelivered' /\ ProxyDecoded'
  BY DEF ProxyCachedRight, ProxyDelivered, ProxyDecoded
<1> QED BY <1>1, <1>3, <1>4

\* A chunk is the sectors that follow, decrypted with what is known before it.
LEMMA ProxyChunkInv ==
  ASSUME ProxyInv, ProxyChunk
  PROVE  ProxyInv'
<1> USE DEF ProxyInv
<1> DEFINE n == ProxyLeast(ProxyLeft, ChunkSize)
<1>1. /\ UNCHANGED <<disc, pxCached, pxSpoiled, pxCmd, pxStatus>> /\ pxStatus = "reading"
      /\ pxCached = ProxyUncached /\ ~pxSpoiled /\ ~pxCmd.vsh /\ ProxyLeft > 0
  BY DEF ProxyChunk, proxyCacheVars, ProxySoFar
<1>2. /\ pxCmd.offset \in Nat /\ pxCmd.size \in Nat /\ pxOff \in Nat /\ disc \in Disc
      /\ DOMAIN pxBuf = pxCmd.offset .. (pxCmd.offset + pxCmd.size - 1)
  BY <1>1, ProxyAssumption DEF ProxyTypeOK, ProxyIdle, ProxyReadCmd, ProxyAsked
<1>3. n \in Nat /\ n > 0 /\ pxOff + n <= pxCmd.offset + pxCmd.size
  BY <1>1, <1>2, ProxyAssumption DEF ProxyLeast, ProxyLeft
<1>4. /\ pxOff' = pxOff + n
      /\ pxBuf' = [m \in DOMAIN pxBuf |-> IF ProxyDecrypting /\ m >= pxOff
                                         THEN [Copied(n)[m] EXCEPT !.key = pxKey]
                                         ELSE Copied(n)[m]]
  BY DEF ProxyChunk
<1> HIDE DEF n
<1>5. ProxyTypeOK' /\ ProxyIdle'
  <2>1. pxKey' \in Disc \cup {ProxyNoKey}
    BY ProxyAssumption DEF ProxyChunk, ProxyExamine, proxyKeyVars, ProxyTypeOK
  <2>2. DOMAIN pxBuf' = DOMAIN pxBuf /\ pxOff' \in Nat
    BY <1>2, <1>3, <1>4
  <2> QED BY <2>1, <2>2, <1>1, <1>2 DEF ProxyTypeOK, ProxyIdle, ProxyAsked
<1>6. ProxyKeyKnown'
  BY <1>1, <1>2, ProxyAssumption DEF ProxyChunk, ProxyExamine, proxyKeyVars, ProxyKeyKnown
<1>7. ProxyCachedRight' /\ ProxyDelivered' /\ ProxyDecoded'
  BY <1>1 DEF ProxyCachedRight, ProxyDelivered, ProxyDecoded
<1>8. ASSUME NEW m \in DOMAIN pxBuf, m < pxOff
      PROVE  pxBuf'[m] = pxBuf[m] /\ pxOff # 0
  BY <1>2, <1>3, <1>4, <1>8 DEF Copied
<1>9. ASSUME NEW m \in DOMAIN pxBuf, pxOff <= m, m < pxOff'
      PROVE  /\ pxBuf'[m].disc = disc /\ pxBuf'[m].at = m
             /\ pxBuf'[m].key = IF ProxyDecrypting THEN pxKey ELSE ProxyNoKey
  <2>1. m \in pxOff .. (pxOff + n - 1) /\ m >= pxOff
    BY <1>2, <1>3, <1>4, <1>9
  <2>2. Copied(n)[m] = [disc |-> disc, at |-> m, key |-> ProxyNoKey]
    BY <2>1 DEF Copied, ProxyCell
  <2>3. pxBuf'[m] = IF ProxyDecrypting THEN [Copied(n)[m] EXCEPT !.key = pxKey] ELSE Copied(n)[m]
    BY <1>4, <2>1
  <2> QED BY <2>2, <2>3
<1>10. pxOff # 0 => UNCHANGED <<pxKey, pxRegions, sound>>
  BY DEF ProxyChunk, proxyKeyVars
<1>11. pxOff = 0 => ~ProxyDecrypting
  BY DEF ProxyDecrypting
<1>12. ASSUME NEW m \in DOMAIN pxBuf, m < pxOff'
       PROVE  ProxyCellRight(pxBuf[m], m)'
  <2>1. CASE m < pxOff
    BY <2>1, <1>1, <1>8, <1>10 DEF ProxySoFar, ProxyCellRight
  <2>2. CASE pxOff <= m
    BY <2>2, <1>1, <1>9, <1>10, <1>11, <1>12 DEF ProxyCellRight, ProxyKeyKnown
  <2> QED BY <2>1, <2>2, <1>2
<1>13. ASSUME NEW m \in DOMAIN pxBuf, m < pxOff', ~ProxyMixed
       PROVE  ProxyCellDecoded(pxBuf[m], m)'
  <2>1. CASE m < pxOff
    BY <2>1, <1>1, <1>8, <1>10, <1>13 DEF ProxySoFar, ProxyCellDecoded, ProxyInRegion
  <2>2. CASE pxOff <= m
    <3> SUFFICES ASSUME sound', pxKey' = disc
                 PROVE  pxBuf'[m].key = (IF ProxyInRegion(m) THEN disc ELSE ProxyNoKey)
      BY <1>1 DEF ProxyCellDecoded, ProxyInRegion
    <3>1. pxBuf'[m].key = (IF ProxyDecrypting THEN pxKey ELSE ProxyNoKey)
      BY <2>2, <1>9, <1>13
    <3>2. pxOff \in DOMAIN pxBuf
      BY <1>2, <1>3, <1>1 DEF ProxySoFar
    <3>3. ProxyInRegion(m) <=> ProxyInRegion(pxOff)
      BY <3>2, <1>13 DEF ProxyMixed
    <3>4. CASE pxOff = 0
      <4>1. ~ProxyInRegion(pxOff)
        BY <3>4, <1>2, ProxyAssumption DEF ProxyInRegion
      <4> QED BY <3>1, <3>3, <3>4, <4>1, <1>11
    <3>5. CASE pxOff # 0
      <4>1. sound /\ pxKey = disc
        BY <3>5, <1>10
      <4>2. pxRegions = Region[disc] /\ pxKey # ProxyNoKey
        BY <4>1, <1>2, ProxyAssumption DEF ProxyKeyKnown
      <4>3. ProxyDecrypting <=> ProxyInRegion(pxOff)
        BY <4>2, <3>5 DEF ProxyDecrypting, ProxyInRegion
      <4> QED BY <3>1, <3>3, <4>1, <4>3
    <3> QED BY <3>4, <3>5
  <2> QED BY <2>1, <2>2, <1>2
<1>14. ProxyMixed' <=> ProxyMixed
  <2>1. DOMAIN pxBuf' = DOMAIN pxBuf
    BY <1>4
  <2> QED BY <2>1, <1>1 DEF ProxyMixed, ProxyInRegion
<1>15. ProxySoFar'
  <2>1. DOMAIN pxBuf' = DOMAIN pxBuf
    BY <1>4
  <2>2. pxOff' \in pxCmd.offset .. (pxCmd.offset + pxCmd.size)
    BY <1>1, <1>2, <1>3, <1>4 DEF ProxySoFar
  <2> QED BY <1>1, <2>1, <2>2, <1>12, <1>13, <1>14 DEF ProxySoFar
<1> QED BY <1>5, <1>6, <1>7, <1>15

\* What a failed read caches is spoiled.
LEMMA ProxyChunkFailsInv ==
  ASSUME ProxyInv, ProxyChunkFails
  PROVE  ProxyInv'
<1> USE DEF ProxyInv, ProxyChunkFails, proxyKeyVars
<1>1. ProxyTypeOK' /\ ProxyIdle'
  BY DEF ProxyTypeOK, ProxyIdle, ProxyAsked
<1>2. ProxyKeyKnown' /\ ProxySoFar' /\ ProxyDelivered' /\ ProxyDecoded'
  BY DEF ProxyKeyKnown, ProxySoFar, ProxyDelivered, ProxyDecoded
<1>3. ProxyCachedRight'
  BY DEF ProxyCachedRight, ProxySoFar, Cache
<1> QED BY <1>1, <1>2, <1>3

\* Everything was delivered; a single sector may be cached.
LEMMA ProxyFinishInv ==
  ASSUME ProxyInv, ProxyFinish
  PROVE  ProxyInv'
<1> USE DEF ProxyInv
<1>1. /\ UNCHANGED <<disc, pxSpoiled, pxKey, pxRegions, sound, pxCmd, pxOff, pxBuf>>
      /\ pxStatus = "reading" /\ pxStatus' = "ok" /\ ~pxSpoiled /\ disc # NoDisc
      /\ pxCached = ProxyUncached
  BY DEF ProxyFinish, proxyKeyVars, ProxySoFar, ProxyIdle
<1>2. /\ pxCmd.offset \in Nat /\ pxCmd.size \in Nat /\ pxCmd.size > 0 /\ pxOff \in Nat
      /\ DOMAIN pxBuf = pxCmd.offset .. (pxCmd.offset + pxCmd.size - 1)
      /\ pxOff = pxCmd.offset + pxCmd.size
  <2>1. /\ pxCmd.offset \in Nat /\ pxCmd.size \in Nat /\ pxCmd.size > 0 /\ pxOff \in Nat
        /\ DOMAIN pxBuf = pxCmd.offset .. (pxCmd.offset + pxCmd.size - 1)
    BY <1>1, ProxyAssumption DEF ProxyTypeOK, ProxyReadCmd, ProxyAsked
  <2> QED BY <2>1 DEF ProxyFinish, ProxyLeft
<1>3. \A m \in DOMAIN pxBuf : ProxyCellRight(pxBuf[m], m) /\ (ProxyMixed \/ ProxyCellDecoded(pxBuf[m], m))
  BY <1>1, <1>2 DEF ProxySoFar
<1>4. ProxyTypeOK' /\ ProxyIdle'
  BY <1>1 DEF ProxyTypeOK, ProxyIdle, ProxyAsked
<1>5. ProxyKeyKnown' /\ ProxySoFar'
  BY <1>1 DEF ProxyKeyKnown, ProxySoFar
<1>6. ProxyDelivered'
  BY <1>1, <1>3 DEF ProxyDelivered, ProxyCellRight
<1>7. ProxyDecoded'
  BY <1>1, <1>3 DEF ProxyDecoded, ProxyCellDecoded, ProxyMixed, ProxyInRegion
<1>8. CASE pxCached' = pxCached
  BY <1>1, <1>4, <1>5, <1>6, <1>7, <1>8 DEF ProxyCachedRight
<1>9. CASE pxCmd.size = 1 /\ pxCached' = [offset |-> pxOff - 1, cell |-> pxBuf[pxCmd.offset]]
  <2>1. DOMAIN pxBuf = {pxCmd.offset} /\ pxOff - 1 = pxCmd.offset
    BY <1>2, <1>9
  <2>2. ~ProxyMixed
    BY <2>1 DEF ProxyMixed
  <2>3. ProxyCellRight(pxBuf[pxCmd.offset], pxCmd.offset) /\ ProxyCellDecoded(pxBuf[pxCmd.offset], pxCmd.offset)
    BY <1>3, <2>1, <2>2
  <2>4. ProxyCachedRight'
    BY <1>1, <1>9, <2>1, <2>3 DEF ProxyCachedRight, ProxyCellRight, ProxyCellDecoded, ProxyInRegion
  <2> QED BY <1>4, <1>5, <1>6, <1>7, <2>4
<1> QED BY <1>8, <1>9 DEF ProxyFinish, Cache, ProxyCacheable

\* and the end of one.
LEMMA ProxyEndInv ==
  ASSUME ProxyInv, ProxyEnd
  PROVE  ProxyInv'
<1> USE DEF ProxyInv, ProxyEnd, proxyKeyVars, proxyCacheVars
<1>1. NoProxyCmd \in ProxyReadCmd
  BY ProxyAssumption DEF NoProxyCmd, ProxyReadCmd
<1>2. ProxyTypeOK' /\ ProxyIdle'
  BY <1>1 DEF ProxyTypeOK, ProxyIdle
<1>3. ProxyKeyKnown' /\ ProxySoFar' /\ ProxyCachedRight' /\ ProxyDelivered' /\ ProxyDecoded'
  BY DEF ProxyKeyKnown, ProxySoFar, ProxyCachedRight, ProxyDelivered, ProxyDecoded,
     ProxyCellRight, ProxyCellDecoded, ProxyInRegion
<1> QED BY <1>2, <1>3

\* The invariant of proxy reads.
THEOREM ProxyInvariance == ProxySpec => []ProxyInv
<1>1. ProxyInv /\ [ProxyNext]_proxyVars => ProxyInv'
  <2> SUFFICES ASSUME ProxyInv, [ProxyNext]_proxyVars PROVE ProxyInv'
    OBVIOUS
  <2>1. CASE UNCHANGED proxyVars
    BY <2>1, ProxyUnchanged DEF proxyVars, proxyKeyVars
  <2>2. ASSUME NEW d \in Ntfs, OpenNtfs(d) PROVE ProxyInv'
    BY <2>2, ProxyUnchanged DEF OpenNtfs
  <2> QED BY <2>1, <2>2, MountProxyInv, UmountProxyInv, NoVshInv, NativeReadInv, ProxyReadCachedInv,
             ProxyStartReadInv, ProxyChunkInv, ProxyChunkFailsInv, ProxyFinishInv, ProxyEndInv DEF ProxyNext
<1> QED BY <1>1, InitProxyInv, PTL DEF ProxySpec

\* What a caller of a proxy read relies on, for any discs, regions and sizes.
THEOREM ReadsOfClientServed == ProxySpec => []ProxyServed
<1>1. ProxyInv => ProxyServed
  BY DEF ProxyInv, ProxyServed
<1> QED BY <1>1, ProxyInvariance, PTL

-----------------------------------------------------------------------------
(* The format of a CD image.                                               *)

\* The size and the tracks come back from the count they are put into.
LEMMA SizeComesBack ==
  ASSUME NEW size \in SectorSize, NEW shift \in Shift, NEW tracks \in 1 .. 63,
         shift = 4 => size % 16 = 0
  PROVE  /\ SizeIn(size * Power(shift) + tracks) = size
         /\ (size * Power(shift) + tracks) % 256 = tracks
<1>1. CASE shift = 8
  <2>1. size * Power(shift) = size * 256
    BY <1>1 DEF Power
  <2> QED BY <2>1 DEF SizeIn, SectorSize
<1>2. CASE shift = 4
  <2>1. size * Power(shift) = size * 16 /\ size % 16 = 0
    BY <1>2 DEF Power
  <2> QED BY <2>1 DEF SizeIn, SectorSize
<1> QED BY <1>1, <1>2 DEF Shift

\* A volume descriptor is found for the size of a raw image, and for no other.
LEMMA FoundSize ==
  ASSUME stored.size \in {2352, 2048, 2336, 2448}, stored.header \in 0 .. 24
  PROVE  \A s \in SectorSize : Looks(s) <=> stored.header = 24 /\ s = stored.size
BY DEF Looks, SectorSize

FormatInv ==
  /\ asked \in [size : SectorSize, shift : Shift, tracks : TrackCount]
  /\ stored \in [size : {2352, 2048, 2336, 2448}, header : SectorHeader]
  /\ mounting \in {"called", "counted", "mounted"}
  /\ mounting = "counted" /\ ~Loses => format = [size |-> asked.size, tracks |-> asked.tracks]
  /\ FormatAsAsked

\* Counting the tracks keeps the invariant.
LEMMA CountTracksInv ==
  ASSUME FormatInv, CountTracks
  PROVE  FormatInv'
<1>0. asked \in [size : SectorSize, shift : Shift, tracks : TrackCount] /\ asked' = asked
  BY DEF FormatInv, CountTracks
<1>1. /\ asked.size \in SectorSize /\ asked.shift \in Shift /\ asked.tracks \in 1 .. 63
      /\ asked' = asked
  BY <1>0, CdFormatAssumption
<1> USE DEF FormatInv, CountTracks
<1>2. ASSUME ~Loses PROVE SizeIn(TracksCount) = asked.size /\ TracksCount % 256 = asked.tracks
  BY <1>1, <1>2, SizeComesBack DEF TracksCount, Loses
<1>3. Loses' <=> Loses
  BY DEF Loses
<1>4. FormatAsAsked'
  BY DEF FormatAsAsked
<1> QED BY <1>1, <1>2, <1>3, <1>4

\* So does finding the size of a sector.
LEMMA DetectSizeInv ==
  ASSUME FormatInv, DetectSize
  PROVE  FormatInv'
<1> USE DEF FormatInv
<1>1. /\ asked.size \in SectorSize /\ stored.size \in {2352, 2048, 2336, 2448}
      /\ stored.header \in 0 .. 24 /\ UNCHANGED <<asked, stored>> /\ mounting' = "mounted"
      /\ mounting = "counted"
  BY CdFormatAssumption DEF DetectSize
<1>2. Loses' <=> Loses
  BY <1>1 DEF Loses
<1>3. stored.size \in SectorSize
  BY <1>1 DEF SectorSize
<1>4. ASSUME ~Loses
      PROVE  /\ format'.tracks = asked.tracks
             /\ format'.size = IF asked.size = 2352 /\ stored.header = 24 THEN stored.size ELSE asked.size
  <2>1. format = [size |-> asked.size, tracks |-> asked.tracks]
    BY <1>1, <1>4
  <2>2. CASE asked.size = 2352 /\ stored.header = 24
    <3>1. Looks(stored.size) /\ \A s \in SectorSize : Looks(s) => s = stored.size
      BY <1>1, <1>3, <2>2, FoundSize
    <3>2. (CHOOSE s \in SectorSize : Looks(s)) = stored.size
      BY <1>3, <3>1
    <3>3. format' = [format EXCEPT !.size = stored.size]
      BY <1>3, <2>1, <2>2, <3>1, <3>2 DEF DetectSize
    <3> QED BY <2>1, <2>2, <3>3
  <2>3. CASE ~(asked.size = 2352 /\ stored.header = 24)
    <3>1. format' = format
      BY <1>1, <2>1, <2>3, FoundSize DEF DetectSize
    <3> QED BY <2>1, <2>3, <3>1
  <2> QED BY <2>2, <2>3
<1>5. FormatAsAsked'
  BY <1>1, <1>2, <1>4 DEF FormatAsAsked
<1> QED BY <1>1, <1>5

\* A CD is mounted with the size and the tracks its caller means.
THEOREM FormatMeant == CdFormatSpec => []FormatAsAsked
<1>1. CdFormatInit => FormatInv
  BY DEF CdFormatInit, FormatInv, FormatAsAsked
<1>2. FormatInv /\ [CdFormatNext]_formatVars => FormatInv'
  <2>1. ASSUME FormatInv, MountNextCd PROVE FormatInv'
    BY <2>1 DEF FormatInv, MountNextCd, FormatAsAsked
  <2>2. ASSUME FormatInv, UNCHANGED formatVars PROVE FormatInv'
    BY <2>2 DEF FormatInv, formatVars, FormatAsAsked, Loses
  <2> QED BY <2>1, <2>2, CountTracksInv, DetectSizeInv DEF CdFormatNext
<1>3. FormatInv => FormatAsAsked
  BY DEF FormatInv
<1> QED BY <1>1, <1>2, <1>3, PTL DEF CdFormatSpec

-----------------------------------------------------------------------------
(* The lines of a text.                                                    *)

\* The ends of the lines, in order.
LEMMA TextEnds ==
  ASSUME NEW n \in Nat, text \in [1 .. n -> Byte]
  PROVE  /\ text \in Seq(Byte) /\ Len(text) = n
         /\ Ends \subseteq 0 .. n + 1 /\ 0 \in Ends /\ n + 1 \in Ends
         /\ \A i \in 1 .. n : i \in Ends <=> text[i] = "newline"
         /\ \A i \in Ends : i <= n =>
              /\ NextEnd(i) \in Ends /\ NextEnd(i) > i
              /\ \A k \in Ends : k > i => NextEnd(i) <= k
<1>1. text \in Seq(Byte) /\ Len(text) = n /\ DOMAIN text = 1 .. n
  OBVIOUS
<1>2. Ends \subseteq 0 .. n + 1 /\ 0 \in Ends /\ n + 1 \in Ends
  BY <1>1 DEF Ends
<1>3. \A i \in 1 .. n : i \in Ends <=> text[i] = "newline"
  BY <1>1 DEF Ends
<1>4. ASSUME NEW i \in Ends, i <= n
      PROVE  /\ NextEnd(i) \in Ends /\ NextEnd(i) > i
             /\ \A k \in Ends : k > i => NextEnd(i) <= k
  <2> DEFINE After == {k \in Ends : k > i}
  <2>1. n + 1 > i /\ \A k \in Ends : k \in Nat
    BY <1>2, <1>4
  <2>2. After \in SUBSET Nat /\ n + 1 \in After
    BY <1>2, <2>1
  <2> HIDE DEF After
  <2>3. PICK j \in After : \A k \in After : j <= k
    BY <2>2, LeastNumber
  <2>4. j \in Ends /\ j > i /\ \A k \in Ends : k > i => j <= k
    BY <2>3 DEF After
  <2> QED BY <2>4 DEF NextEnd
<1> QED BY <1>1, <1>2, <1>3, <1>4

\* What is between two ends begins and ends with a byte of a word.
LEMMA BetweenEnds ==
  ASSUME NEW i \in Nat, NEW j \in Nat
  PROVE  /\ (\A k \in i + 1 .. j - 1 : text[k] = "space") => Between(i, j) = <<>>
         /\ \A f, l \in i + 1 .. j - 1 :
              /\ text[f] # "space" /\ \A k \in i + 1 .. f - 1 : text[k] = "space"
              /\ text[l] # "space" /\ \A k \in l + 1 .. j - 1 : text[k] = "space"
              => Between(i, j) = SubSeq(text, f, l) /\ f <= l
<1> DEFINE words == {k \in i + 1 .. j - 1 : text[k] # "space"}
<1>1. (\A k \in i + 1 .. j - 1 : text[k] = "space") => Between(i, j) = <<>>
  BY DEF Between
<1>2. ASSUME NEW f \in i + 1 .. j - 1, NEW l \in i + 1 .. j - 1,
             text[f] # "space", \A k \in i + 1 .. f - 1 : text[k] = "space",
             text[l] # "space", \A k \in l + 1 .. j - 1 : text[k] = "space"
      PROVE  Between(i, j) = SubSeq(text, f, l) /\ f <= l
  <2>1. f \in words /\ l \in words /\ words \in SUBSET Nat
    BY <1>2
  <2>2. ASSUME NEW k \in words PROVE f <= k /\ k <= l
    <3>1. k \in i + 1 .. j - 1 /\ text[k] # "space"
      BY <2>2
    <3>2. k \notin i + 1 .. f - 1 /\ k \notin l + 1 .. j - 1
      BY <1>2, <3>1
    <3> QED BY <3>1, <3>2
  <2>3. Between(i, j) = SubSeq(text, CHOOSE k \in words : \A m \in words : k <= m,
                                     CHOOSE k \in words : \A m \in words : m <= k)
    BY <2>1 DEF Between
  <2> HIDE DEF words
  <2>4. (CHOOSE k \in words : \A m \in words : k <= m) = f
    BY <2>1, <2>2, ChooseLeast
  <2>5. (CHOOSE k \in words : \A m \in words : m <= k) = l
    BY <2>1, <2>2, ChooseGreatest
  <2> QED BY <2>1, <2>2, <2>3, <2>4, <2>5
<1> QED BY <1>1, <1>2

\* A sequence whose last byte of a word is at l is cut off there.
LEMMA TrimmedAt ==
  ASSUME NEW s, NEW m \in Nat, DOMAIN s = 1 .. m, NEW l \in 1 .. m, s[l] # "space",
         \A k \in l + 1 .. m : s[k] = "space"
  PROVE  Trimmed(s) = SubSeq(s, 1, l)
<1> DEFINE words == {i \in DOMAIN s : s[i] # "space"}
<1>1. l \in words /\ words \in SUBSET Nat
  OBVIOUS
<1>2. ASSUME NEW k \in words PROVE k <= l
  <2>1. k \in 1 .. m /\ s[k] # "space"
    BY <1>2
  <2>2. k \notin l + 1 .. m
    BY <2>1
  <2> QED BY <2>1, <2>2
<1>3. Trimmed(s) = SubSeq(s, 1, CHOOSE i \in words : \A j \in words : j <= i)
  BY <1>1 DEF Trimmed
<1> HIDE DEF words
<1>4. (CHOOSE i \in words : \A j \in words : j <= i) = l
  BY <1>1, <1>2, ChooseGreatest
<1> QED BY <1>3, <1>4

\* What read_text_line returns of a line is what is written of it.
LEMMA LineReturned ==
  ASSUME NEW n \in Nat, text \in [1 .. n -> Byte], NEW c \in Nat, NEW b \in c + 1 .. n,
         NEW f \in c + 1 .. b, text[f] # "space", \A k \in c + 1 .. f - 1 : text[k] = "space"
  PROVE  /\ Trimmed(SubSeq(text, f, b)) = Between(c, b + 1)
         /\ Between(c, b + 1) # <<>>
<1> DEFINE words == {k \in f .. b : text[k] # "space"}
           s == SubSeq(text, f, b)
           m == (b - f) + 1
<1>0. text \in Seq(Byte) /\ Len(text) = n
  BY TextEnds
<1>1. f \in Nat /\ b \in Nat /\ 1 <= f /\ f <= b /\ b <= n
  OBVIOUS
<1>2. PICK l \in words : \A k \in words : k <= l
  <2>1. words \in SUBSET Nat /\ f \in words /\ \A k \in words : k <= b
    BY <1>1
  <2> HIDE DEF words
  <2> QED BY <1>1, <2>1, GreatestNumber
<1>3. text[l] # "space" /\ l \in f .. b
  OBVIOUS
<1>4. ASSUME NEW k \in l + 1 .. b PROVE text[k] = "space"
  <2>1. k \in f .. b /\ ~(k <= l)
    BY <1>1, <1>3
  <2> QED BY <1>2, <2>1
<1>5. Between(c, b + 1) = SubSeq(text, f, l) /\ f <= l
  <2>1. (b + 1) - 1 = b /\ b + 1 \in Nat /\ l \in c + 1 .. b
    BY <1>1, <1>3
  <2> QED BY <1>3, <1>4, <2>1, BetweenEnds
<1>6. m \in Nat /\ s \in Seq(Byte) /\ Len(s) = m /\ \A i \in 1 .. m : s[i] = text[(f + i) - 1]
  <2>1. \A i \in f .. b : text[i] \in Byte
    BY <1>0, <1>1
  <2>2. s \in Seq(Byte)
    BY <1>1, <2>1, SubSeqProperties
  <2>3. Len(s) = (b - f) + 1
    BY <1>1, <2>1, SubSeqProperties
  <2>4. \A i \in 1 .. (b - f) + 1 : s[i] = text[(f + i) - 1]
    BY <1>1, <2>1, SubSeqProperties
  <2> QED BY <1>1, <2>2, <2>3, <2>4
<1>7. (l - f) + 1 \in 1 .. m /\ (f + ((l - f) + 1)) - 1 = l /\ (f + 1) - 1 = f
  BY <1>1, <1>3
<1> HIDE DEF s
<1>8. Trimmed(s) = SubSeq(s, 1, (l - f) + 1)
  <2>1. s[(l - f) + 1] # "space" /\ DOMAIN s = 1 .. m
    BY <1>3, <1>6, <1>7
  <2>2. ASSUME NEW k \in ((l - f) + 1) + 1 .. m PROVE s[k] = "space"
    <3>1. k \in 1 .. m /\ (f + k) - 1 \in l + 1 .. b
      BY <1>1, <1>3
    <3> QED BY <1>4, <1>6, <3>1
  <2> HIDE DEF m
  <2> QED BY <1>6, <1>7, <2>1, <2>2, TrimmedAt
<1>9. SubSeq(s, 1, (l - f) + 1) = SubSeq(text, f, l)
  <2>1. f \in 1 .. Len(text) /\ b \in 1 .. Len(text) /\ 1 \in 1 .. (b - f) + 1
    BY <1>0, <1>1
  <2>2. SubSeq(SubSeq(text, f, b), 1, (l - f) + 1) = SubSeq(text, (f + 1) - 1, (f + ((l - f) + 1)) - 1)
    BY <1>0, <1>7, <2>1, SubSeqOfSubSeq
  <2> QED BY <1>7, <2>2 DEF s
<1>10. SubSeq(text, f, l) # <<>>
  <2>1. \A i \in f .. l : text[i] \in Byte
    BY <1>0, <1>1, <1>3
  <2>2. Len(SubSeq(text, f, l)) = (l - f) + 1
    BY <1>1, <1>3, <2>1, SubSeqProperties
  <2> QED BY <1>1, <1>3, <2>2
<1> QED BY <1>5, <1>8, <1>9, <1>10 DEF s

\* How many of the lines that are written begin before t.
Done(t) == Cardinality({q \in LineStarts : q < t})
Prefix(t) == SubSeq(Written, 1, Done(t))

\* A file that is not written to keeps its lines.
LEMMA SameText ==
  ASSUME text' = text
  PROVE  /\ Ends' = Ends
         /\ \A i : NextEnd(i)' = NextEnd(i)
         /\ Written' = Written
         /\ LineStarts' = LineStarts
         /\ FitsBuffer' <=> FitsBuffer
<1>1. Ends' = Ends
  BY DEF Ends
<1>2. ASSUME NEW CONSTANT i PROVE NextEnd(i)' = NextEnd(i)
  BY <1>1 DEF NextEnd
<1>3. ASSUME NEW CONSTANT i, NEW CONSTANT j PROVE Between(i, j)' = Between(i, j)
  BY DEF Between
<1>4. LineStarts' = LineStarts
  BY <1>1, <1>2, <1>3 DEF LineStarts
<1>5. Written' = Written
  BY <1>2, <1>3, <1>4 DEF Written
<1>6. FitsBuffer' <=> FitsBuffer
  BY <1>2, <1>4 DEF FitsBuffer
<1> QED BY <1>1, <1>2, <1>4, <1>5, <1>6

\* Every line that is written is one of the list, in the order of its place.
LEMMA CountedLines ==
  ASSUME NEW n \in Nat, text \in [1 .. n -> Byte]
  PROVE  /\ LineStarts \subseteq 0 .. n /\ IsFiniteSet(LineStarts)
         /\ Done(0) = 0 /\ Done(n + 1) = Cardinality(LineStarts)
         /\ Cardinality(LineStarts) \in Nat
         /\ \A t \in Nat : Done(t) \in 0 .. Cardinality(LineStarts)
         /\ \A i \in Ends : i <= n =>
              IF Between(i, NextEnd(i)) = <<>> THEN Done(NextEnd(i)) = Done(i)
              ELSE Done(NextEnd(i)) = Done(i) + 1 /\ Written[Done(i) + 1] = Between(i, NextEnd(i))
<1> DEFINE K == Cardinality(LineStarts)
<1>1. LineStarts \subseteq 0 .. n /\ LineStarts \subseteq Ends
  BY TextEnds DEF LineStarts
<1>0. \A q \in LineStarts : q \in Nat /\ q <= n
  BY <1>1
<1>2. IsFiniteSet(LineStarts)
  <2>1. IsFiniteSet(0 .. n)
    BY FS_Interval
  <2> QED BY <1>1, <2>1, FS_Subset
<1>3. K \in Nat
  BY <1>2, FS_CardinalityType
<1>4. ASSUME NEW t \in Nat
      PROVE  IsFiniteSet({q \in LineStarts : q < t}) /\ Done(t) \in Nat /\ Done(t) <= K
  <2>1. {q \in LineStarts : q < t} \in SUBSET LineStarts
    OBVIOUS
  <2>2. IsFiniteSet({q \in LineStarts : q < t}) /\ Cardinality({q \in LineStarts : q < t}) <= K
    BY <1>2, <2>1, FS_Subset
  <2>3. Cardinality({q \in LineStarts : q < t}) \in Nat
    BY <2>2, FS_CardinalityType
  <2> QED BY <1>3, <2>2, <2>3 DEF Done
<1>5. Done(0) = 0
  <2>1. {q \in LineStarts : q < 0} = {}
    BY <1>0
  <2> QED BY <2>1, FS_EmptySet DEF Done
<1>6. Done(n + 1) = K
  <2>1. {q \in LineStarts : q < n + 1} = LineStarts
    BY <1>0
  <2> QED BY <2>1 DEF Done
<1>7. ASSUME NEW i \in Ends, i <= n
      PROVE  IF Between(i, NextEnd(i)) = <<>> THEN Done(NextEnd(i)) = Done(i)
             ELSE Done(NextEnd(i)) = Done(i) + 1 /\ Written[Done(i) + 1] = Between(i, NextEnd(i))
  <2> DEFINE j == NextEnd(i)
             B(t) == {q \in LineStarts : q < t}
  <2>1. /\ i \in Nat /\ j \in Nat /\ j > i /\ j \in Ends
        /\ \A k \in Ends : k > i => j <= k
    BY <1>7, TextEnds
  <2> HIDE DEF j
  <2>2. \A q \in LineStarts : q \in Nat /\ (q < j <=> q < i \/ q = i)
    BY <1>1, <2>1
  <2>3. i \in LineStarts <=> Between(i, j) # <<>>
    BY <1>7, TextEnds DEF LineStarts, j
  <2>4. CASE Between(i, j) = <<>>
    <3>1. B(j) = B(i)
      BY <2>2, <2>3, <2>4
    <3> QED BY <2>4, <3>1 DEF Done, j
  <2>5. CASE Between(i, j) # <<>>
    <3>1. B(j) = B(i) \cup {i} /\ i \notin B(i)
      BY <2>1, <2>2, <2>3, <2>5
    <3>2. IsFiniteSet(B(i))
      BY <1>4, <2>1
    <3>0. \A s, q : q \in B(s) <=> q \in LineStarts /\ q < s
      OBVIOUS
    <3> HIDE DEF B
    <3>3. Cardinality(B(j)) = Cardinality(B(i)) + 1
      BY <3>1, <3>2, FS_AddElement
    <3>4. Done(j) = Done(i) + 1
      BY <3>3 DEF Done, B
    <3>5. ASSUME NEW s \in LineStarts
          PROVE  Cardinality({q \in LineStarts : q <= s}) = Done(s) + 1
      <4>1. s \in Nat
        BY <1>0
      <4>2. {q \in LineStarts : q <= s} = B(s) \cup {s} /\ s \notin B(s)
        <5>1. \A q \in LineStarts : q <= s <=> q < s \/ q = s
          BY <1>0, <4>1
        <5>2. ~(s < s)
          BY <4>1
        <5>3. \A q : q \in {r \in LineStarts : r <= s} <=> q \in LineStarts /\ q <= s
          OBVIOUS
        <5>4. \A q : q \in {r \in LineStarts : r <= s} <=> q \in B(s) \/ q = s
          BY <3>0, <3>5, <5>1, <5>3
        <5> QED BY <3>0, <5>2, <5>4
      <4>3. IsFiniteSet(B(s))
        BY <1>4, <4>1 DEF B
      <4> QED BY <4>2, <4>3, FS_AddElement DEF Done, B
    <3>6. ASSUME NEW s \in LineStarts, Done(s) = Done(i)
          PROVE  s = i
      <4>1. s \in Nat
        BY <1>0
      <4>2. CASE s < i
        <5>1. B(s) \subseteq B(i) /\ s \in B(i) /\ s \notin B(s)
          <6>1. \A q \in LineStarts : q \in Nat /\ (q < s => q < i)
            BY <1>0, <2>1, <4>1, <4>2
          <6>2. ~(s < s) /\ s \in LineStarts
            BY <3>6, <4>1
          <6> QED BY <3>0, <4>2, <6>1, <6>2
        <5>2. Cardinality(B(s)) # Cardinality(B(i))
          BY <3>2, <5>1, FS_Subset
        <5> QED BY <3>6, <5>2 DEF Done, B
      <4>3. CASE i < s
        <5>1. B(i) \subseteq B(s) /\ i \in B(s) /\ i \notin B(i)
          <6>1. \A q \in LineStarts : q \in Nat /\ (q < i => q < s)
            BY <1>0, <2>1, <4>1, <4>3
          <6>2. ~(i < i) /\ i \in LineStarts
            BY <2>1, <2>3, <2>5
          <6> QED BY <3>0, <4>3, <6>1, <6>2
        <5>2. IsFiniteSet(B(s))
          BY <1>4, <4>1 DEF B
        <5>3. Cardinality(B(s)) # Cardinality(B(i))
          BY <5>1, <5>2, FS_Subset
        <5> QED BY <3>6, <5>3 DEF Done, B
      <4> QED BY <2>1, <4>1, <4>2, <4>3
    <3>7. Done(i) \in Nat /\ i \in LineStarts
      BY <1>4, <2>1, <2>3, <2>5
    <3>8. (CHOOSE s \in LineStarts : Cardinality({q \in LineStarts : q <= s}) = Done(i) + 1) = i
      <4>1. \A s \in LineStarts : Done(s) \in Nat
        BY <1>0, <1>4
      <4>2. \A s \in LineStarts : Cardinality({q \in LineStarts : q <= s}) = Done(i) + 1 <=> s = i
        BY <3>5, <3>6, <3>7, <4>1
      <4> QED BY <3>7, <4>2
    <3>9. Done(i) + 1 \in 1 .. K
      <4>1. Done(j) <= K
        BY <1>4, <2>1
      <4> HIDE DEF K
      <4> QED BY <3>4, <3>7, <1>3, <4>1
    <3>10. Written[Done(i) + 1] = Between(i, NextEnd(i))
      BY <3>8, <3>9 DEF Written
    <3> QED BY <2>5, <3>4, <3>10 DEF j
  <2> QED BY <2>4, <2>5 DEF j
<1>8. ASSUME NEW t \in Nat PROVE Done(t) \in 0 .. K
  <2>1. Done(t) \in Nat /\ Done(t) <= K
    BY <1>4
  <2> HIDE DEF K
  <2> QED BY <1>3, <2>1
<1> QED BY <1>1, <1>2, <1>3, <1>5, <1>6, <1>7, <1>8

\* The list grows by the line that was read.
LEMMA PrefixGrows ==
  ASSUME NEW n \in Nat, text \in [1 .. n -> Byte], NEW i \in Ends, i <= n
  PROVE  Prefix(NextEnd(i)) =
           IF Between(i, NextEnd(i)) = <<>> THEN Prefix(i) ELSE Append(Prefix(i), Between(i, NextEnd(i)))
<1> DEFINE K == Cardinality(LineStarts)
           d == Done(i)
<1>1. /\ K \in Nat /\ d \in 0 .. K /\ Done(NextEnd(i)) \in 0 .. K
  <2>1. i \in Nat /\ NextEnd(i) \in Nat
    <3>1. Ends \subseteq 0 .. n + 1
      BY TextEnds
    <3>2. \A k \in Ends : k <= n => NextEnd(k) \in Ends /\ NextEnd(k) > k
      BY TextEnds
    <3>3. \A k \in 0 .. n + 1 : k \in Nat
      OBVIOUS
    <3>4. \A k \in Ends : k \in Nat
      BY <3>1, <3>3
    <3>5. NextEnd(i) \in Ends
      BY <3>2
    <3> QED BY <3>4, <3>5
  <2> QED BY <2>1, CountedLines
<1>2. CASE Between(i, NextEnd(i)) = <<>>
  <2>1. Done(NextEnd(i)) = d
    BY <1>2, CountedLines
  <2> QED BY <1>2, <2>1 DEF Prefix
<1>3. CASE Between(i, NextEnd(i)) # <<>>
  <2>1. Done(NextEnd(i)) = d + 1 /\ Written[d + 1] = Between(i, NextEnd(i))
    BY <1>3, CountedLines
  <2>2. DOMAIN Written = 1 .. K
    BY DEF Written
  <2> DEFINE S == {Written[k] : k \in 1 .. K}
  <2>3. Written \in Seq(S) /\ Len(Written) = K
    <3>1. Written = [k \in 1 .. K |-> Written[k]]
      BY DEF Written
    <3>2. \A k \in 1 .. K : Written[k] \in S
      OBVIOUS
    <3> HIDE DEF S, K
    <3>3. Written \in [1 .. K -> S]
      BY <3>1, <3>2
    <3> QED BY <1>1, <3>3
  <2> HIDE DEF S, d, K
  <2>4. SubSeq(Written, 1, d + 1) = Append(SubSeq(Written, 1, d), Written[d + 1])
    <3>1. \A k \in 1 .. K : Written[k] \in S
      BY <2>2, <2>3
    <3>2. d + 1 \in 1 .. K /\ d \in Nat
      BY <1>1, <2>1
    <3> QED BY <1>1, <2>3, <3>1, <3>2
  <2> QED BY <1>3, <2>1, <2>4 DEF Prefix, d
<1> QED BY <1>2, <1>3

TextTypeOK ==
  /\ text \in Texts
  /\ bytesRead \in 0 .. Len(text)
  /\ eof \in BOOLEAN /\ reading \in BOOLEAN
  /\ ~reading => line = <<>>

\* After the end c of a line: nothing of the next line was read; a part of it, from
\* its first byte f on; or all of it, and its end was not.
NothingOf(c) ==
  /\ line = <<>>
  /\ \A k \in c + 1 .. bytesRead : text[k] = "space"
  /\ taken = Prefix(c)
PartFrom(c, f) ==
  /\ text[f] # "space"
  /\ \A k \in c + 1 .. f - 1 : text[k] = "space"
  /\ line = SubSeq(text, f, bytesRead)
  /\ taken = Prefix(c)
AllOf(c) == line = <<>> /\ bytesRead + 1 = NextEnd(c) /\ taken = Prefix(NextEnd(c))

LinePosition ==
  \E c \in Ends :
    /\ c <= bytesRead /\ \A e \in Ends : e <= c \/ bytesRead < e
    /\ NothingOf(c) \/ (\E f \in c + 1 .. bytesRead : PartFrom(c, f)) \/ AllOf(c)

TextInv ==
  /\ TextTypeOK
  /\ FitsBuffer => LinePosition /\ (eof => ~reading /\ taken = Written)

\* How long the file is.
LEMMA TextLength_ ==
  ASSUME TextTypeOK
  PROVE  /\ Len(text) \in Nat /\ text \in [1 .. Len(text) -> Byte] /\ bytesRead \in 0 .. Len(text)
<1>1. PICK n \in 0 .. TextLength : text \in [1 .. n -> Byte]
  BY DEF TextTypeOK, Texts
<1>2. n \in Nat
  BY TextAssumption
<1>3. Len(text) = n
  BY <1>1, <1>2
<1> QED BY <1>1, <1>2, <1>3 DEF TextTypeOK

\* At the start of a file nothing is read of its first line.
LEMMA AtStart ==
  ASSUME TextTypeOK, line = <<>>, bytesRead = 0, taken = <<>>
  PROVE  LinePosition
<1>1. Len(text) \in Nat /\ text \in [1 .. Len(text) -> Byte]
  BY TextLength_
<1>2. 0 \in Ends /\ \A e \in Ends : e \in Nat
  <2>1. 0 \in Ends /\ Ends \subseteq 0 .. Len(text) + 1
    BY <1>1, TextEnds
  <2> QED BY <2>1
<1>3. Done(0) = 0
  BY <1>1, CountedLines
<1>4. Prefix(0) = <<>>
  BY <1>3, SubSeqEmpty DEF Prefix
<1>5. NothingOf(0)
  BY <1>4 DEF NothingOf
<1>6. \A e \in Ends : e <= 0 \/ 0 < e
  BY <1>2
<1> QED BY <1>2, <1>5, <1>6 DEF LinePosition

\* Everything was written before the end of the file.
LEMMA AllWritten ==
  ASSUME TextTypeOK
  PROVE  Prefix(Len(text) + 1) = Written
<1> DEFINE K == Cardinality(LineStarts)
           S == {Written[k] : k \in 1 .. K}
<1>1. Len(text) \in Nat /\ text \in [1 .. Len(text) -> Byte]
  BY TextLength_
<1>2. Done(Len(text) + 1) = K /\ K \in Nat
  BY <1>1, CountedLines
<1>3. Written \in Seq(S) /\ Len(Written) = K
  <2>1. Written = [k \in 1 .. K |-> Written[k]]
    BY DEF Written
  <2>2. \A k \in 1 .. K : Written[k] \in S
    OBVIOUS
  <2> HIDE DEF S, K
  <2>3. Written \in [1 .. K -> S]
    BY <2>1, <2>2
  <2> QED BY <1>2, <2>3
<1> HIDE DEF S, K
<1>4. SubSeq(Written, 1, Len(Written)) = Written
  BY <1>3, SubSeqFull
<1> QED BY <1>2, <1>3, <1>4 DEF Prefix

\* The end of the line that is read is the next one.
LEMMA EndOfLine ==
  ASSUME TextTypeOK, NEW c \in Ends, c <= bytesRead, \A e \in Ends : e <= c \/ bytesRead < e
  PROVE  /\ c \in Nat /\ bytesRead \in Nat /\ c <= Len(text) /\ Len(text) \in Nat
         /\ bytesRead <= Len(text)
         /\ NextEnd(c) \in Ends /\ bytesRead < NextEnd(c) /\ NextEnd(c) <= Len(text) + 1
         /\ NextEnd(c) \in Nat
         /\ bytesRead + 1 \in Ends => NextEnd(c) = bytesRead + 1
         /\ \A e \in Ends : e <= c \/ NextEnd(c) <= e
         /\ bytesRead < Len(text) =>
              (bytesRead + 1 \in Ends <=> text[bytesRead + 1] = "newline")
         /\ bytesRead = Len(text) => bytesRead + 1 \in Ends
<1>1. Len(text) \in Nat /\ text \in [1 .. Len(text) -> Byte] /\ bytesRead \in 0 .. Len(text)
  BY TextLength_
<1>2. /\ \A e \in Ends : e \in Nat /\ e <= Len(text) + 1
      /\ Len(text) + 1 \in Ends
      /\ \A i \in 1 .. Len(text) : i \in Ends <=> text[i] = "newline"
  <2>1. Ends \subseteq 0 .. Len(text) + 1
    BY <1>1, TextEnds
  <2>2. Len(text) + 1 \in Ends /\ \A i \in 1 .. Len(text) : i \in Ends <=> text[i] = "newline"
    BY <1>1, TextEnds
  <2> QED BY <1>1, <2>1, <2>2
<1>3. c \in Nat /\ bytesRead \in Nat /\ c <= Len(text) /\ bytesRead <= Len(text)
  BY <1>1, <1>2
<1>4. /\ NextEnd(c) \in Ends /\ NextEnd(c) > c
      /\ \A k \in Ends : k > c => NextEnd(c) <= k
  BY <1>1, <1>3, TextEnds
<1>5. NextEnd(c) \in Nat /\ bytesRead < NextEnd(c) /\ NextEnd(c) <= Len(text) + 1
  <2>1. NextEnd(c) \in Nat /\ NextEnd(c) <= Len(text) + 1
    BY <1>2, <1>4
  <2>2. ~(NextEnd(c) <= c)
    BY <1>3, <1>4, <2>1
  <2> QED BY <1>4, <2>1, <2>2
<1>6. bytesRead + 1 \in Ends => NextEnd(c) = bytesRead + 1
  BY <1>3, <1>4, <1>5
<1>7. \A e \in Ends : e <= c \/ NextEnd(c) <= e
  BY <1>2, <1>3, <1>4
<1>8. bytesRead < Len(text) => (bytesRead + 1 \in Ends <=> text[bytesRead + 1] = "newline")
  BY <1>1, <1>2, <1>3
<1> QED BY <1>1, <1>2, <1>3, <1>4, <1>5, <1>6, <1>7, <1>8

\* A line of spaces is not one of the list.
LEMMA EmptyLine ==
  ASSUME TextTypeOK, NEW c \in Ends, c <= bytesRead, \A e \in Ends : e <= c \/ bytesRead < e,
         NothingOf(c), bytesRead + 1 \in Ends
  PROVE  taken = Prefix(bytesRead + 1)
<1>1. NextEnd(c) = bytesRead + 1 /\ bytesRead \in Nat /\ c \in Nat /\ c <= Len(text)
  BY EndOfLine
<1>2. (bytesRead + 1) - 1 = bytesRead
  BY <1>1
<1>3. Between(c, bytesRead + 1) = <<>>
  BY <1>1, <1>2, BetweenEnds DEF NothingOf
<1>4. Len(text) \in Nat /\ text \in [1 .. Len(text) -> Byte]
  BY TextLength_
<1> QED BY <1>1, <1>3, <1>4, PrefixGrows DEF NothingOf

\* A line that begins with a byte of a word is one of the list when it ends.
LEMMA WholeLine ==
  ASSUME TextTypeOK, NEW c \in Ends, c <= bytesRead, \A e \in Ends : e <= c \/ bytesRead < e,
         NEW f \in c + 1 .. bytesRead, PartFrom(c, f)
  PROVE  /\ Len(line) = (bytesRead - f) + 1 /\ line # <<>>
         /\ NextEnd(c) = bytesRead + 1 =>
              /\ Trimmed(line) # <<>>
              /\ Append(taken, Trimmed(line)) = Prefix(bytesRead + 1)
         /\ FitsBuffer => NextEnd(c) - f <= LineSize - 1
<1>1. /\ bytesRead \in Nat /\ c \in Nat /\ c <= Len(text) /\ bytesRead <= Len(text) /\ f \in Nat
      /\ f <= bytesRead /\ 1 <= f
      /\ bytesRead < NextEnd(c) /\ NextEnd(c) <= Len(text) + 1 /\ NextEnd(c) \in Nat
  BY EndOfLine
<1>2. Len(text) \in Nat /\ text \in [1 .. Len(text) -> Byte] /\ text \in Seq(Byte)
  BY TextLength_, TextEnds
<1>3. Len(line) = (bytesRead - f) + 1
  <2>1. \A i \in f .. bytesRead : text[i] \in Byte
    BY <1>1, <1>2
  <2> QED BY <1>1, <2>1, SubSeqProperties DEF PartFrom
<1>4. line # <<>>
  BY <1>1, <1>3
<1>5. ASSUME NextEnd(c) = bytesRead + 1
      PROVE  Trimmed(line) # <<>> /\ Append(taken, Trimmed(line)) = Prefix(bytesRead + 1)
  <2>1. bytesRead \in c + 1 .. Len(text)
    BY <1>1
  <2>2. Trimmed(line) = Between(c, bytesRead + 1) /\ Between(c, bytesRead + 1) # <<>>
    BY <1>1, <1>2, <2>1, LineReturned DEF PartFrom
  <2>3. Prefix(NextEnd(c)) = Append(Prefix(c), Between(c, NextEnd(c)))
    BY <1>1, <1>2, <1>5, <2>2, PrefixGrows
  <2> QED BY <1>5, <2>2, <2>3 DEF PartFrom
<1>6. ASSUME FitsBuffer PROVE NextEnd(c) - f <= LineSize - 1
  <2> DEFINE b == NextEnd(c) - 1
  <2>1. b \in c + 1 .. Len(text) /\ f \in c + 1 .. b /\ b + 1 = NextEnd(c)
    BY <1>1
  <2> HIDE DEF b
  <2>2. Between(c, NextEnd(c)) # <<>>
    BY <1>1, <1>2, <2>1, LineReturned DEF PartFrom
  <2>3. c \in LineStarts
    BY <1>1, <2>2 DEF LineStarts
  <2>4. (CHOOSE k \in c + 1 .. NextEnd(c) - 1 :
           text[k] # "space" /\ \A l \in c + 1 .. k - 1 : text[l] = "space") = f
    <3>1. f \in c + 1 .. NextEnd(c) - 1 /\ text[f] # "space"
          /\ \A l \in c + 1 .. f - 1 : text[l] = "space"
      BY <1>1 DEF PartFrom
    <3>2. ASSUME NEW k \in c + 1 .. NextEnd(c) - 1, text[k] # "space",
                 \A l \in c + 1 .. k - 1 : text[l] = "space"
          PROVE  k = f
      BY <1>1, <3>1, <3>2
    <3> QED BY <3>1, <3>2
  <2> QED BY <1>6, <2>3, <2>4 DEF FitsBuffer
<1> QED BY <1>3, <1>4, <1>5, <1>6

\* A file that is not written to keeps its lines.
LEMMA SameLines ==
  ASSUME text' = text
  PROVE  /\ Ends' = Ends /\ Written' = Written /\ (FitsBuffer' <=> FitsBuffer)
         /\ \A i : NextEnd(i)' = NextEnd(i)
         /\ \A t : Prefix(t)' = Prefix(t)
<1>1. /\ Ends' = Ends /\ Written' = Written /\ (FitsBuffer' <=> FitsBuffer)
      /\ (\A i : NextEnd(i)' = NextEnd(i)) /\ LineStarts' = LineStarts
  BY SameText
<1>2. ASSUME NEW CONSTANT t PROVE Prefix(t)' = Prefix(t)
  BY <1>1 DEF Prefix, Done
<1> QED BY <1>1, <1>2

\* The position after a step, by where it is.
LEMMA NextPosition ==
  ASSUME text' = text, NEW c \in Ends, c <= bytesRead', \A e \in Ends : e <= c \/ bytesRead' < e
  PROVE  /\ line' = <<>> /\ (\A k \in c + 1 .. bytesRead' : text[k] = "space") /\ taken' = Prefix(c)
              => LinePosition'
         /\ line' = <<>> /\ bytesRead' + 1 = NextEnd(c) /\ taken' = Prefix(NextEnd(c)) => LinePosition'
         /\ \A f \in c + 1 .. bytesRead' :
              /\ text[f] # "space" /\ \A k \in c + 1 .. f - 1 : text[k] = "space"
              /\ line' = SubSeq(text, f, bytesRead') /\ taken' = Prefix(c)
              => LinePosition'
<1>0. /\ Ends' = Ends /\ NextEnd(c)' = NextEnd(c) /\ Prefix(c)' = Prefix(c)
      /\ Prefix(NextEnd(c))' = Prefix(NextEnd(c))
  <2>1. Ends' = Ends /\ NextEnd(c)' = NextEnd(c) /\ Prefix(c)' = Prefix(c) /\ Written' = Written
        /\ LineStarts' = LineStarts
    BY SameText, SameLines
  <2>2. Done(NextEnd(c))' = Done(NextEnd(c))
    BY <2>1 DEF Done
  <2>3. Prefix(NextEnd(c))' = Prefix(NextEnd(c))
    BY <2>1, <2>2 DEF Prefix
  <2> QED BY <2>1, <2>3
<1>1. c \in Ends' /\ c <= bytesRead' /\ \A e \in Ends' : e <= c \/ bytesRead' < e
  BY <1>0
<1>2. ASSUME line' = <<>>, \A k \in c + 1 .. bytesRead' : text[k] = "space", taken' = Prefix(c)
      PROVE  LinePosition'
  <2>1. NothingOf(c)'
    BY <1>0, <1>2 DEF NothingOf
  <2> QED BY <1>1, <2>1 DEF LinePosition
<1>3. ASSUME line' = <<>>, bytesRead' + 1 = NextEnd(c), taken' = Prefix(NextEnd(c))
      PROVE  LinePosition'
  <2>1. AllOf(c)'
    BY <1>0, <1>3 DEF AllOf
  <2> QED BY <1>1, <2>1 DEF LinePosition
<1>4. ASSUME NEW f \in c + 1 .. bytesRead',
             text[f] # "space", \A k \in c + 1 .. f - 1 : text[k] = "space",
             line' = SubSeq(text, f, bytesRead'), taken' = Prefix(c)
      PROVE  LinePosition'
  <2>1. PartFrom(c, f)'
    BY <1>0, <1>4 DEF PartFrom
  <2> QED BY <1>1, <1>4, <2>1 DEF LinePosition
<1> QED BY <1>2, <1>3, <1>4

\* What is returned of an empty line is not taken.
LEMMA TrimmedEmpty == Trimmed(<<>>) = <<>>
<1>1. {i \in DOMAIN <<>> : <<>>[i] # "space"} = {}
  OBVIOUS
<1>2. Trimmed(<<>>) = SubSeq(<<>>, 1, 0)
  BY <1>1 DEF Trimmed
<1> QED BY <1>2, SubSeqEmpty

\* The types hold after a step.
LEMMA TextTypes ==
  ASSUME TextTypeOK, TextNext
  PROVE  TextTypeOK'
<1>1. Len(text) \in Nat /\ bytesRead \in 0 .. Len(text)
  BY TextLength_
<1>2. text' = text
  BY DEF TextNext, BeginLine, ReadByte, CloseList
<1>3. /\ eof' \in BOOLEAN /\ reading' \in BOOLEAN /\ (~reading' => line' = <<>>)
  <2>1. CASE BeginLine
    BY <2>1 DEF TextTypeOK, BeginLine
  <2>2. CASE ReadByte
    BY <2>2 DEF TextTypeOK, ReadByte, ReturnLine
  <2>3. CASE CloseList
    BY <2>3 DEF TextTypeOK, CloseList
  <2> QED BY <2>1, <2>2, <2>3 DEF TextNext
<1>4. bytesRead' \in 0 .. Len(text)
  <2>1. bytesRead' \in {bytesRead, 0} \/ (bytesRead' = bytesRead + 1 /\ bytesRead # Len(text))
    BY DEF TextNext, BeginLine, ReadByte, CloseList
  <2> QED BY <1>1, <2>1
<1> QED BY <1>2, <1>3, <1>4 DEF TextTypeOK

\* A line comes back when the buffer is full: if the line fits, it was read to its end.
LEMMA ReadFull ==
  ASSUME TextTypeOK, FitsBuffer, LinePosition, ReturnLine(line), UNCHANGED <<text, bytesRead>>,
         Len(line) >= LineSize - 1 \/ bytesRead = Len(text)
  PROVE  LinePosition' /\ (bytesRead = Len(text) => taken' = Written)
<1>1. PICK c \in Ends :
        /\ c <= bytesRead /\ \A e \in Ends : e <= c \/ bytesRead < e
        /\ NothingOf(c) \/ (\E f \in c + 1 .. bytesRead : PartFrom(c, f)) \/ AllOf(c)
  BY DEF LinePosition
<1>2. /\ bytesRead \in Nat /\ c \in Nat /\ NextEnd(c) \in Nat /\ bytesRead < NextEnd(c)
      /\ (bytesRead = Len(text) => bytesRead + 1 \in Ends)
      /\ (bytesRead + 1 \in Ends => NextEnd(c) = bytesRead + 1)
  BY <1>1, EndOfLine
<1>3. /\ c <= bytesRead' /\ \A e \in Ends : e <= c \/ bytesRead' < e
  BY <1>1
<1>4. line' = <<>> /\ taken' = IF Trimmed(line) = <<>> THEN taken ELSE Append(taken, Trimmed(line))
  BY DEF ReturnLine
<1>5. Prefix(Len(text) + 1) = Written
  BY AllWritten
<1>6. CASE NothingOf(c)
  <2>1. taken' = taken
    BY <1>4, <1>6, TrimmedEmpty DEF NothingOf
  <2>2. LinePosition'
    BY <1>3, <1>4, <1>6, <2>1, NextPosition DEF NothingOf
  <2>3. bytesRead = Len(text) => taken = Prefix(bytesRead + 1)
    BY <1>1, <1>2, <1>6, EmptyLine
  <2> QED BY <1>5, <2>1, <2>2, <2>3
<1>7. CASE AllOf(c)
  <2>1. taken' = taken
    BY <1>4, <1>7, TrimmedEmpty DEF AllOf
  <2>2. LinePosition'
    BY <1>3, <1>4, <1>7, <2>1, NextPosition DEF AllOf
  <2>3. bytesRead = Len(text) => taken = Prefix(Len(text) + 1)
    BY <1>7 DEF AllOf
  <2> QED BY <1>5, <2>1, <2>2, <2>3
<1>8. CASE \E f \in c + 1 .. bytesRead : PartFrom(c, f)
  <2>1. PICK f \in c + 1 .. bytesRead : PartFrom(c, f)
    BY <1>8
  <2>2. /\ Len(line) = (bytesRead - f) + 1
        /\ NextEnd(c) - f <= LineSize - 1
        /\ NextEnd(c) = bytesRead + 1 =>
              Trimmed(line) # <<>> /\ Append(taken, Trimmed(line)) = Prefix(bytesRead + 1)
    BY <1>1, <2>1, WholeLine
  <2>3. LineSize \in Nat /\ f \in Nat
    BY <1>2, TextAssumption
  <2>4. NextEnd(c) = bytesRead + 1
    BY <1>2, <2>2, <2>3
  <2>5. taken' = Prefix(bytesRead + 1)
    BY <1>4, <2>2, <2>4
  <2>6. LinePosition'
    BY <1>3, <1>4, <2>4, <2>5, NextPosition
  <2> QED BY <1>5, <2>5, <2>6
<1> QED BY <1>1, <1>6, <1>7, <1>8

\* A part of one element.
LEMMA OneOf ==
  ASSUME NEW S, NEW s \in Seq(S), NEW i \in 1 .. Len(s)
  PROVE  SubSeq(s, i, i) = <<s[i]>>
<1>1. i \in Nat /\ \A k \in i .. i : s[k] \in S
  OBVIOUS
<1>2. SubSeq(s, i, i) \in Seq(S) /\ Len(SubSeq(s, i, i)) = 1
  BY <1>1, SubSeqProperties
<1>3. SubSeq(s, i, i)[1] = s[i]
  BY <1>1, SubSeqProperties
<1>4. <<s[i]>> \in Seq(S) /\ Len(<<s[i]>>) = 1 /\ <<s[i]>>[1] = s[i]
  OBVIOUS
<1>5. \A k \in 1 .. 1 : k = 1
  OBVIOUS
<1> QED BY <1>2, <1>3, <1>4, <1>5, SeqEqual

\* A byte of the file is the next of its line, or ends it, or is left out.
LEMMA ReadNext ==
  ASSUME TextTypeOK, FitsBuffer, LinePosition, ReadByte, bytesRead # Len(text),
         bytesRead' = bytesRead + 1
  PROVE  LinePosition'
<1> DEFINE ch == text[bytesRead + 1]
<1>1. PICK c \in Ends :
        /\ c <= bytesRead /\ \A e \in Ends : e <= c \/ bytesRead < e
        /\ NothingOf(c) \/ (\E f \in c + 1 .. bytesRead : PartFrom(c, f)) \/ AllOf(c)
  BY DEF LinePosition
<1>2. /\ bytesRead \in Nat /\ c \in Nat /\ Len(text) \in Nat /\ bytesRead < Len(text)
      /\ NextEnd(c) \in Nat /\ NextEnd(c) \in Ends /\ bytesRead < NextEnd(c)
      /\ (bytesRead + 1 \in Ends => NextEnd(c) = bytesRead + 1)
      /\ (\A e \in Ends : e <= c \/ NextEnd(c) <= e)
      /\ (bytesRead + 1 \in Ends <=> ch = "newline")
  BY <1>1, EndOfLine
<1>0. /\ line = <<>> => line' = (IF Starts(ch) THEN <<ch>> ELSE <<>>) /\ taken' = taken
      /\ line # <<>> /\ ch = "newline" => ReturnLine(line)
      /\ line # <<>> /\ ch # "newline" => line' = Append(line, ch) /\ taken' = taken
  <2>1. bytesRead' # bytesRead
    BY <1>2
  <2> QED BY <2>1 DEF ReadByte
<1>3. text' = text /\ \A e \in Ends : e \in Nat
  <2>1. Len(text) \in Nat /\ text \in [1 .. Len(text) -> Byte]
    BY TextLength_
  <2>2. Ends \subseteq 0 .. Len(text) + 1
    BY <2>1, TextEnds
  <2> QED BY <2>1, <2>2 DEF ReadByte
<1>4. CASE bytesRead + 1 \in Ends
  <2>1. line' = <<>> /\ taken' = Prefix(bytesRead + 1)
    <3>1. CASE NothingOf(c)
      <4>1. line' = <<>> /\ taken' = taken
        BY <1>0, <1>2, <1>4, <3>1 DEF NothingOf, Starts
      <4> QED BY <1>1, <1>4, <3>1, <4>1, EmptyLine
    <3>2. CASE AllOf(c)
      <4>1. line' = <<>> /\ taken' = taken
        BY <1>0, <1>2, <1>4, <3>2 DEF AllOf, Starts
      <4> QED BY <3>2, <4>1 DEF AllOf
    <3>3. CASE \E f \in c + 1 .. bytesRead : PartFrom(c, f)
      <4>1. PICK f \in c + 1 .. bytesRead : PartFrom(c, f)
        BY <3>3
      <4>2. line # <<>> /\ Trimmed(line) # <<>> /\ Append(taken, Trimmed(line)) = Prefix(bytesRead + 1)
        BY <1>1, <1>2, <1>4, <4>1, WholeLine
      <4>3. ReturnLine(line)
        BY <1>2, <1>4, <4>2 DEF ReadByte
      <4> QED BY <4>2, <4>3 DEF ReturnLine
    <3> QED BY <1>1, <3>1, <3>2, <3>3
  <2>2. \A e \in Ends : e <= bytesRead + 1 \/ bytesRead' < e
    BY <1>2, <1>3, <1>4
  <2>3. \A k \in (bytesRead + 1) + 1 .. bytesRead' : text[k] = "space"
    BY <1>2
  <2>4. bytesRead + 1 <= bytesRead'
    BY <1>2
  <2> QED BY <1>3, <1>4, <2>1, <2>2, <2>3, <2>4, NextPosition
<1>5. CASE bytesRead + 1 \notin Ends
  <2>1. ch # "newline" /\ c <= bytesRead' /\ \A e \in Ends : e <= c \/ bytesRead' < e
    <3>1. ASSUME NEW e \in Ends, ~(e <= c) PROVE bytesRead' < e
      <4>1. NextEnd(c) <= e /\ NextEnd(c) # bytesRead + 1 /\ e \in Nat
        BY <1>2, <1>3, <1>5, <3>1
      <4> QED BY <1>2, <4>1
    <3> QED BY <1>1, <1>2, <1>5, <3>1
  <2>2. ~AllOf(c)
    BY <1>2, <1>5 DEF AllOf
  <2>3. CASE NothingOf(c)
    <3>1. taken' = taken /\ line' = IF ch = "space" THEN <<>> ELSE <<ch>>
      BY <1>0, <2>1, <2>3 DEF NothingOf, Starts
    <3>2. CASE ch = "space"
      <4>1. \A k \in c + 1 .. bytesRead' : text[k] = "space"
        <5>1. \A k \in c + 1 .. bytesRead' : k = bytesRead + 1 \/ k \in c + 1 .. bytesRead
          BY <1>2
        <5> QED BY <5>1, <2>3, <3>2 DEF NothingOf
      <4> QED BY <1>3, <2>1, <2>3, <3>1, <3>2, <4>1, NextPosition DEF NothingOf
    <3>3. CASE ch # "space"
      <4> DEFINE f == bytesRead + 1
      <4>1. f \in c + 1 .. bytesRead' /\ \A k \in c + 1 .. f - 1 : text[k] = "space"
        BY <1>1, <1>2, <2>3 DEF NothingOf
      <4>2. SubSeq(text, f, bytesRead') = <<ch>>
        <5>1. text \in Seq(Byte)
          BY TextLength_, TextEnds
        <5>2. f \in 1 .. Len(text) /\ bytesRead' = f
          BY <1>2
        <5> HIDE DEF f
        <5>3. SubSeq(text, f, f) = <<text[f]>>
          BY <5>1, <5>2, OneOf
        <5> QED BY <5>2, <5>3 DEF f
      <4>3. line' = SubSeq(text, f, bytesRead') /\ taken' = Prefix(c) /\ text[f] # "space"
        BY <2>3, <3>1, <3>3, <4>2 DEF NothingOf
      <4> HIDE DEF f
      <4> QED BY <1>3, <2>1, <4>1, <4>3, NextPosition
    <3> QED BY <3>2, <3>3
  <2>4. CASE \E f \in c + 1 .. bytesRead : PartFrom(c, f)
    <3>1. PICK f \in c + 1 .. bytesRead : PartFrom(c, f)
      BY <2>4
    <3>2. line # <<>>
      BY <1>1, <3>1, WholeLine
    <3>3. line' = Append(line, ch) /\ taken' = taken
      BY <1>0, <2>1, <3>2
    <3>4. f \in Nat /\ 1 <= f /\ f <= bytesRead /\ f \in c + 1 .. bytesRead'
      BY <1>2
    <3>5. Append(SubSeq(text, f, bytesRead), ch) = SubSeq(text, f, bytesRead')
      <4>1. text \in Seq(Byte)
        BY TextLength_, TextEnds
      <4> QED BY <1>2, <3>4, <4>1
    <3>6. line' = SubSeq(text, f, bytesRead') /\ taken' = Prefix(c)
      BY <3>1, <3>3, <3>5 DEF PartFrom
    <3>7. text[f] # "space" /\ \A k \in c + 1 .. f - 1 : text[k] = "space"
      BY <3>1 DEF PartFrom
    <3> QED BY <1>3, <2>1, <3>4, <3>6, <3>7, NextPosition
  <2> QED BY <1>1, <2>2, <2>3, <2>4
<1> QED BY <1>4, <1>5

\* A step that leaves the file and what was read of it alone keeps the position.
LEMMA StayPosition ==
  ASSUME LinePosition, text' = text, bytesRead' = bytesRead, line' = line, taken' = taken
  PROVE  LinePosition'
<1>1. PICK c \in Ends :
        /\ c <= bytesRead /\ \A e \in Ends : e <= c \/ bytesRead < e
        /\ NothingOf(c) \/ (\E f \in c + 1 .. bytesRead : PartFrom(c, f)) \/ AllOf(c)
  BY DEF LinePosition
<1>2. c <= bytesRead' /\ \A e \in Ends : e <= c \/ bytesRead' < e
  BY <1>1
<1>3. CASE NothingOf(c)
  BY <1>2, <1>3, NextPosition DEF NothingOf
<1>4. CASE AllOf(c)
  BY <1>2, <1>4, NextPosition DEF AllOf
<1>5. CASE \E f \in c + 1 .. bytesRead : PartFrom(c, f)
  <2>1. PICK f \in c + 1 .. bytesRead' : PartFrom(c, f)
    BY <1>5
  <2> QED BY <1>2, <2>1, NextPosition DEF PartFrom
<1> QED BY <1>1, <1>3, <1>4, <1>5

\* A file that is opened again is at its start.
LEMMA StartPosition ==
  ASSUME TextTypeOK, text' = text, line' = <<>>, bytesRead' = 0, taken' = <<>>
  PROVE  LinePosition'
<1>1. Len(text) \in Nat /\ text \in [1 .. Len(text) -> Byte]
  BY TextLength_
<1>2. 0 \in Ends /\ \A e \in Ends : e \in Nat
  <2>1. 0 \in Ends /\ Ends \subseteq 0 .. Len(text) + 1
    BY <1>1, TextEnds
  <2> QED BY <2>1
<1>3. Prefix(0) = <<>>
  <2>1. Done(0) = 0
    BY <1>1, CountedLines
  <2> QED BY <2>1, SubSeqEmpty DEF Prefix
<1>4. /\ 0 <= bytesRead' /\ \A e \in Ends : e <= 0 \/ bytesRead' < e
      /\ \A k \in 0 + 1 .. bytesRead' : text[k] = "space"
  BY <1>2
<1> QED BY <1>2, <1>3, <1>4, NextPosition

\* How many lines a prefix of the list has.
LEMMA PrefixLength ==
  ASSUME NEW n \in Nat, text \in [1 .. n -> Byte], NEW t \in Nat
  PROVE  Done(t) \in Nat /\ Len(Prefix(t)) = Done(t) /\ Done(t) <= Len(Written)
<1> DEFINE K == Cardinality(LineStarts)
           d == Done(t)
           S == {Written[k] : k \in 1 .. K}
<1>1. K \in Nat /\ d \in 0 .. K
  BY CountedLines
<1>2. DOMAIN Written = 1 .. K
  BY DEF Written
<1>3. Len(Written) = K
  <2>1. Written = [k \in 1 .. K |-> Written[k]]
    BY DEF Written
  <2>2. \A k \in 1 .. K : Written[k] \in S
    OBVIOUS
  <2> HIDE DEF S, K
  <2>3. Written \in [1 .. K -> S]
    BY <2>1, <2>2
  <2> QED BY <1>1, <2>3
<1>4. \A k \in 1 .. K : Written[k] \in S
  OBVIOUS
<1> HIDE DEF S, K, d
<1>5. \A k \in 1 .. d : Written[k] \in S
  BY <1>1, <1>4
<1>6. Len(SubSeq(Written, 1, d)) = d
  BY <1>1, <1>5, SubSeqProperties
<1> QED BY <1>1, <1>3, <1>6 DEF Prefix, d

\* Every step keeps the place of what was taken.
LEMMA TextStep == TextInv /\ [TextNext]_textVars => TextInv'
<1>1. CASE UNCHANGED textVars
  <2>1. /\ text' = text /\ bytesRead' = bytesRead /\ line' = line /\ eof' = eof
        /\ reading' = reading /\ taken' = taken
    BY <1>1 DEF textVars
  <2> SUFFICES ASSUME TextInv PROVE TextInv'
    OBVIOUS
  <2>2. TextTypeOK'
    BY <2>1 DEF TextInv, TextTypeOK
  <2>3. FitsBuffer => LinePosition'
    BY <2>1, StayPosition DEF TextInv
  <2>4. Written' = Written /\ (FitsBuffer' <=> FitsBuffer)
    BY <2>1, SameLines
  <2> QED BY <2>1, <2>2, <2>3, <2>4 DEF TextInv
<1>2. SUFFICES ASSUME TextInv, TextNext PROVE TextInv'
  BY <1>1
<1>3. TextTypeOK /\ TextTypeOK'
  BY <1>2, TextTypes DEF TextInv
<1>4. text' = text
  BY <1>2 DEF TextNext, BeginLine, ReadByte, CloseList
<1>5. Written' = Written /\ (FitsBuffer' <=> FitsBuffer)
  BY <1>4, SameLines
<1>6. SUFFICES ASSUME FitsBuffer
               PROVE  LinePosition' /\ (eof' => ~reading' /\ taken' = Written)
  BY <1>3, <1>5 DEF TextInv
<1>7. LinePosition /\ (eof => ~reading /\ taken = Written)
  BY <1>2, <1>6 DEF TextInv
<1>8. CASE BeginLine
  <2>1. bytesRead' = bytesRead /\ line' = line /\ taken' = taken /\ ~eof'
    BY <1>3, <1>8 DEF BeginLine, TextTypeOK
  <2> QED BY <1>4, <1>7, <2>1, StayPosition
<1>9. CASE ReadByte
  <2>1. reading /\ ~eof
    BY <1>7, <1>9 DEF ReadByte
  <2>2. CASE Len(line) >= LineSize - 1
    <3>1. ReturnLine(line) /\ UNCHANGED <<text, bytesRead, eof>>
      BY <1>9, <2>2 DEF ReadByte
    <3> QED BY <1>3, <1>6, <1>7, <2>1, <2>2, <3>1, ReadFull
  <2>3. CASE ~(Len(line) >= LineSize - 1) /\ bytesRead = Len(text)
    <3>1. ReturnLine(line) /\ UNCHANGED <<text, bytesRead>>
      BY <1>9, <2>3 DEF ReadByte
    <3>2. LinePosition' /\ taken' = Written
      BY <1>3, <1>6, <1>7, <2>3, <3>1, ReadFull
    <3>3. ~reading'
      BY <3>1 DEF ReturnLine
    <3> QED BY <3>2, <3>3
  <2>4. CASE ~(Len(line) >= LineSize - 1) /\ bytesRead # Len(text)
    <3>1. bytesRead' = bytesRead + 1 /\ eof' = eof
      BY <1>9, <2>4 DEF ReadByte
    <3>2. LinePosition'
      BY <1>3, <1>6, <1>7, <1>9, <2>4, <3>1, ReadNext
    <3> QED BY <2>1, <3>1, <3>2
  <2> QED BY <2>2, <2>3, <2>4
<1>10. CASE CloseList
  <2>1. bytesRead' = 0 /\ taken' = <<>> /\ line' = <<>> /\ ~eof'
    BY <1>3, <1>10 DEF CloseList, TextTypeOK
  <2> QED BY <1>3, <1>4, <2>1, StartPosition
<1> QED BY <1>2, <1>8, <1>9, <1>10 DEF TextNext

\* TextInv is an invariant of the specification.
THEOREM TextInvariance == TextSpec => []TextInv
<1>1. TextInit => TextInv
  <2> SUFFICES ASSUME TextInit PROVE TextInv
    OBVIOUS
  <2>1. PICK n \in 0 .. TextLength : text \in [1 .. n -> Byte]
    BY DEF TextInit, Texts
  <2>2. n \in Nat /\ Len(text) = n
    BY <2>1, TextAssumption
  <2>3. TextTypeOK
    <3>1. bytesRead \in 0 .. Len(text)
      BY <2>2 DEF TextInit
    <3>2. text \in Texts
      BY DEF TextInit
    <3> QED BY <3>1, <3>2 DEF TextInit, TextTypeOK
  <2>4. LinePosition
    BY <2>3, AtStart DEF TextInit
  <2> QED BY <2>3, <2>4 DEF TextInv, TextInit
<1> QED BY <1>1, TextStep, PTL DEF TextSpec

\* The list that is read is the list that was written, for files of every length and
\* buffers of every size (modulespatch.c 1228-1281): no line is lost, joined with the
\* next or cut if it fits.
THEOREM ListRead == TextSpec => []ListIsAsWritten
<1>1. TextInv => ListIsAsWritten
  <2> SUFFICES ASSUME TextInv, FitsBuffer
               PROVE  /\ Len(taken) <= Len(Written) /\ taken = SubSeq(Written, 1, Len(taken))
                      /\ eof /\ ~reading => taken = Written
    BY DEF ListIsAsWritten
  <2>1. Len(text) \in Nat /\ text \in [1 .. Len(text) -> Byte] /\ TextTypeOK /\ LinePosition
    BY TextLength_ DEF TextInv
  <2>2. PICK t \in Nat : taken = Prefix(t)
    <3>1. PICK c \in Ends :
            /\ c <= bytesRead /\ \A e \in Ends : e <= c \/ bytesRead < e
            /\ NothingOf(c) \/ (\E f \in c + 1 .. bytesRead : PartFrom(c, f)) \/ AllOf(c)
      BY <2>1 DEF LinePosition
    <3>2. c \in Nat /\ NextEnd(c) \in Nat
      BY <2>1, <3>1, EndOfLine
    <3> QED BY <3>1, <3>2 DEF NothingOf, PartFrom, AllOf
  <2>3. Done(t) \in Nat /\ Len(taken) = Done(t) /\ Done(t) <= Len(Written)
    BY <2>1, <2>2, PrefixLength
  <2> QED BY <2>2, <2>3 DEF Prefix, TextInv
<1> QED BY <1>1, TextInvariance, PTL

-----------------------------------------------------------------------------
(* The instance: reads of one kind at a time.                              *)

\* Whatever is read in the composition, what comes of it is what is stored: pages of a
\* disc of a client, sectors of the size that was meant, and the lines of a list.
THEOREM StoredIsServed == ReadsSpec => []ServedAsStored
<1>1. ReadsInit => ProxyInit /\ CdFormatInit /\ TextInit
  BY DEF ReadsInit
<1>2. [ReadsNext]_readsVars => [ProxyNext]_proxyVars /\ [CdFormatNext]_formatVars /\ [TextNext]_textVars
  BY DEF ReadsNext, readsVars
<1>3. ReadsSpec => ProxySpec /\ CdFormatSpec /\ TextSpec
  BY <1>1, <1>2, PTL DEF ReadsSpec, ProxySpec, CdFormatSpec, TextSpec
<1>4. ReadsSpec => []ProxyServed /\ []FormatAsAsked /\ []ListIsAsWritten
  BY <1>3, ReadsOfClientServed, FormatMeant, ListRead
<1>5. ProxyServed /\ FormatAsAsked /\ ListIsAsWritten => ServedAsStored
  BY DEF ServedAsStored
<1> QED BY <1>4, <1>5, PTL
=============================================================================

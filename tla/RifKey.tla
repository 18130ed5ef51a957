------------------------------- MODULE RifKey -------------------------------
(* get_rif_key: the key of a licence from the activation key (RAP).  After *)
(* a decryption come rounds of three loops over the bytes, in the order of *)
(* a permutation: an exclusive or with a constant, one of each byte with   *)
(* its predecessor, and the subtraction of a constant, with a borrow that  *)
(* is carried from byte to byte.                                           *)
EXTENDS Integers

CONSTANTS
  Base,        \* values of a byte, 256 in the code
  Xor,         \* ^: the exclusive or of two bytes
  KeySize,     \* bytes of a key, 16 in the code
  Rounds,      \* 5 in the code
  RapPbox,     \* RAP_PBOX: the order of the bytes
  RapE1,       \* RAP_E1
  RapE2        \* candidates for RAP_E2

Place == 0 .. KeySize - 1
Byte == 0 .. Base - 1
Keys == [Place -> Byte]

ASSUME RifKeyAssumption ==
  /\ Base \in Nat \ {0, 1} /\ KeySize \in Nat \ {0} /\ Rounds \in Nat
  /\ Xor \in [Byte -> [Byte -> Byte]] /\ \A a, b \in Byte : Xor[Xor[a][b]][b] = a
  /\ RapPbox \in [Place -> Place]
  /\ \A i, j \in Place : RapPbox[i] = RapPbox[j] => i = j
  /\ \A p \in Place : \E i \in Place : RapPbox[i] = p
  /\ RapE1 \in Keys /\ RapE2 \subseteq Keys

VARIABLES
  key,         \* key
  e2,          \* RAP_E2
  before,      \* history: the key when the round, and when its last loop began
  round,       \* rounds that are done
  digit,       \* the byte the last loop is at; -1 outside of it
  borrow       \* o

rifKeyVars == <<key, e2, before, round, digit, borrow>>

\* The decryption may give any key.
RifKeyInit ==
  /\ key \in Keys /\ e2 \in RapE2
  /\ before = [round |-> key, loop |-> key]
  /\ round = 0 /\ digit = -1 /\ borrow = 0

\* The first two loops: the second goes from the last byte to the first.
Turn(p) == CHOOSE i \in Place : RapPbox[i] = p
Masked(k) == [p \in Place |-> Xor[k[p]][RapE1[p]]]
Mixed(k) ==
  LET x == Masked(k)
  IN  [p \in Place |-> IF Turn(p) = 0 THEN x[p] ELSE Xor[x[p]][x[RapPbox[Turn(p) - 1]]]]

BeginRound ==
  /\ digit = -1 /\ round < Rounds
  /\ key' = Mixed(key)
  /\ before' = [round |-> key, loop |-> Mixed(key)]
  /\ digit' = 0 /\ borrow' = 0
  /\ UNCHANGED <<e2, round>>

\* Mutant (by hand): a byte that the borrow has brought below zero borrows like the others.
SubtractByteAlways ==
  /\ digit \in Place
  /\ LET p == RapPbox[digit]
         kc == (key[p] + Base - borrow) % Base
     IN  /\ borrow' = IF kc < e2[p] THEN 1 ELSE 0
         /\ key' = [key EXCEPT ![p] = (kc + Base - e2[p]) % Base]
  /\ digit' = digit + 1
  /\ UNCHANGED <<e2, before, round>>

\* One byte of the last loop, modulo Base.  When the borrow itself went below zero,
\* it stays.  (The code's last alternative is never taken.)
SubtractByte ==
  /\ digit \in Place
  /\ LET p == RapPbox[digit]
         kc == (key[p] + Base - borrow) % Base
     IN  /\ borrow' = IF borrow # 1 \/ kc # Base - 1 THEN IF kc < e2[p] THEN 1 ELSE 0
                      ELSE borrow
         /\ key' = [key EXCEPT ![p] = (kc + Base - e2[p]) % Base]
  /\ digit' = digit + 1
  /\ UNCHANGED <<e2, before, round>>

EndRound ==
  /\ digit = KeySize
  /\ round' = round + 1 /\ digit' = -1
  /\ UNCHANGED <<key, e2, before, borrow>>

RifKeyNext == BeginRound \/ SubtractByte \/ EndRound
RifKeySpec == RifKeyInit /\ [][RifKeyNext]_rifKeyVars

-----------------------------------------------------------------------------
\* Reference: the bytes as the digits of a number, in the order of the permutation.
Weight[i \in 0 .. KeySize] == IF i = 0 THEN 1 ELSE Base * Weight[i - 1]
Number(k, n) ==
  LET sum[i \in 0 .. n] == IF i = 0 THEN 0 ELSE sum[i - 1] + k[RapPbox[i - 1]] * Weight[i - 1]
  IN  sum[n]

\* The last loop subtracts one number from another: after each byte what is left and
\* the borrow make up for the rest (make_rif.c 115-131).
SubtractsNumbers ==
  digit # -1 =>
    Number(key, digit) - borrow * Weight[digit] = Number(before.loop, digit) - Number(e2, digit)

\* A round loses nothing: what it began with can be had back, by an addition with
\* carries and two loops, so that two RAPs never give the same key of a licence.
RoundLosesNothing ==
  LET carry[i \in 0 .. KeySize] ==
        IF i = 0 THEN 0 ELSE (key[RapPbox[i - 1]] + e2[RapPbox[i - 1]] + carry[i - 1]) \div Base
      loop[i \in Place] == (key[RapPbox[i]] + e2[RapPbox[i]] + carry[i]) % Base
      masked[i \in Place] == IF i = 0 THEN loop[0] ELSE Xor[loop[i]][masked[i - 1]]
  IN  digit = -1 /\ round > 0 =>
        before.round = [p \in Place |-> Xor[masked[Turn(p)]][RapE1[p]]]

RifKeyIsWhole == SubtractsNumbers /\ RoundLosesNothing
=============================================================================

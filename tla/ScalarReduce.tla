---------------------------- MODULE ScalarReduce ----------------------------
(***************************************************************************)
(* blindplane-crypto's scalars: numbers modulo the group order L, held in  *)
(* four machine words of base W.  Hashes and products of eight words are   *)
(* brought back by Barrett's method with the precomputed Mu.  The loops    *)
(* over words are taken as the arithmetic on the numbers the words spell,  *)
(* cut off where the code keeps a fixed count of words.                    *)
(***************************************************************************)
EXTENDS Integers

CONSTANTS
  W,          (* 2^64                                                       *)
  L,          (* the order, a little above W^4 / 16                         *)
  Wides,      (* the 64-byte numbers reduced                                *)
  Encodings,  (* the 32-byte numbers offered as scalars                     *)
  MaxOps      (* bound: operations on the registers                         *)

W2 == W * W
W3 == W * W2
W5 == W2 * W3
W8 == W3 * W5
W4 == W2 * W2

(* The order fills four words: as wide as three and a bit.                 *)
ASSUME WordsAssumption ==
  /\ W \in Nat /\ W > 2
  /\ L \in Nat /\ W3 <= L /\ L < W4
  /\ Wides \subseteq 0..(W8 - 1)
  /\ Encodings \subseteq 0..(W4 - 1)
  /\ MaxOps \in Nat

VARIABLES
  p, q, (* two scalars                                                      *)
  m, n, (* auxiliary: the numbers modulo L they stand for                   *)
  ops

vars == <<p, q, m, n, ops>>

-----------------------------------------------------------------------------
(* floor(2^512 / L)                                                        *)
Mu == W8 \div L

(* v - q3 * L in five words: q1 the five upper words of v, q3 the five     *)
(* upper words of q1 * Mu.                                                 *)
Remainder(v) ==
  LET q1 == v \div W3
      q3 == (q1 * Mu) \div W5
  IN  ((v % W5) - ((q3 * L) % W5)) % W5

(* One masked subtraction of L: kept unless it borrows.                    *)
Lowered(r) == IF r < L THEN r ELSE r - L

(* Mutant: one subtraction.                                                *)
BarrettReduceOnce(v) == Lowered(Remainder(v)) % W4

BarrettReduce(v) == Lowered(Lowered(Remainder(v))) % W4

AddModL(a, b) == Lowered(a + b) % W4

FromWideBytes(v)     == BarrettReduce(v)
FromBytesModOrder(b) == BarrettReduce(b)
MulAdd(a, b, c)      == AddModL(BarrettReduce(a * b), c)

IsCanonical(b) == b < L

-----------------------------------------------------------------------------
Init ==
  /\ \E v \in Wides : p = FromWideBytes(v) /\ m = v % L
  /\ \E b \in Encodings : q = FromBytesModOrder(b) /\ n = b % L
  /\ ops = 0

Counted == ops < MaxOps /\ ops' = ops + 1

(* A hash of 64 bytes becomes a scalar.                                    *)
DoFromWide ==
  /\ Counted
  /\ \E v \in Wides : p' = FromWideBytes(v) /\ m' = v % L
  /\ UNCHANGED <<q, n>>

(* 32 bytes become a scalar, whatever they are.                            *)
DoFromBytes ==
  /\ Counted
  /\ \E b \in Encodings : q' = FromBytesModOrder(b) /\ n' = b % L
  /\ UNCHANGED <<p, m>>

(* from_canonical_bytes: only what is below L already.                     *)
DoFromCanonical ==
  /\ Counted
  /\ \E b \in Encodings :
       /\ q' = IF IsCanonical(b) THEN b ELSE q
       /\ n' = IF IsCanonical(b) THEN b % L ELSE n
  /\ UNCHANGED <<p, m>>

(* p := p * q + p, as a signature adds its nonce.                          *)
DoMulAdd ==
  /\ Counted
  /\ p' = MulAdd(p, q, p) /\ m' = (((m * n) % L) + m) % L
  /\ UNCHANGED <<q, n>>

Next == DoFromWide \/ DoFromBytes \/ DoFromCanonical \/ DoMulAdd

Spec == Init /\ [][Next]_vars

-----------------------------------------------------------------------------
(* The registers hold the one representative below L of their numbers,     *)
(* whatever hashes, products and sums led to them.                         *)
StandsForNumber == p = m /\ q = n /\ p \in 0..(L - 1) /\ q \in 0..(L - 1)

(* reduce.rs:61: "At this point r < 3L, so at most two conditional         *)
(* subtractions remain", for every number that may come next; and nothing  *)
(* was cut off: the remainder differs from the number by a multiple of L.  *)
RemainderBelow3L ==
  \A v \in Wides \cup Encodings \cup {p * q} :
    Remainder(v) < 3 * L /\ Remainder(v) % L = v % L
=============================================================================

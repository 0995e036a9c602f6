-------------------------------- MODULE Ghash --------------------------------
(***************************************************************************)
(* blindplane-crypto's GHASH on polynomial multiplication instructions:    *)
(* Karatsuba products of two halves, kept unreduced and summed, reduced    *)
(* once for a group of eight or four blocks against eight powers of H.     *)
(*                                                                         *)
(* The field is narrower: a reflected block is a polynomial of 2 * Half    *)
(* bits, Half = 64 in the source, modulo x^(2*Half) + Fold.                *)
(***************************************************************************)
EXTENDS Integers, Sequences

CONSTANTS
  Half,      (* bits of half a block                                       *)
  Fold,      (* 0x87: what x^(2*Half) folds back to                        *)
  Keys,      (* the values of H                                            *)
  Seeds,     (* the messages: see BlockAt                                  *)
  MaxBlocks

VARIABLES h, seed, powers, acc, log

vars == <<h, seed, powers, acc, log>>

Size  == 2 ^ (2 * Half)
Field == 0..Size - 1

Bit(x, k) == (x \div 2 ^ k) % 2

(* The sum of two polynomials, by their remainders and quotients by x^4.   *)
XorNibble == [x \in 0..15, y \in 0..15 |->
  LET b == [k \in 0..3 |-> (Bit(x, k) + Bit(y, k)) % 2]
  IN  b[0] + 2 * b[1] + 4 * b[2] + 8 * b[3]]
XorByte(x, y) == 16 * XorNibble[x \div 16, y \div 16] + XorNibble[x % 16, y % 16]
Xor(x, y)     == 256 * XorByte(x \div 256, y \div 256) + XorByte(x % 256, y % 256)

(* vmull_p64: the product of two polynomials of at most Half + 1 bits.     *)
Pmull(x, y) ==
  LET p[k \in 0..Half + 1] ==
        IF k = 0 THEN 0
        ELSE IF Bit(y, k - 1) = 1 THEN Xor(p[k - 1], x * 2 ^ (k - 1)) ELSE p[k - 1]
  IN  p[Half + 1]

Lo(x) == x % 2 ^ Half
Hi(x) == x \div 2 ^ Half
ShiftUp(x) == (x * 2 ^ Half) % Size        \* vextq_u8(zero, x, 8)

(* An unreduced product: two words of a block each.                        *)
MulWide(a, b) ==
  LET low    == Pmull(Lo(a), Lo(b))
      high   == Pmull(Hi(a), Hi(b))
      middle == Xor(Xor(Pmull(Xor(Lo(a), Hi(a)), Xor(Lo(b), Hi(b))), low), high)
  IN  [low |-> Xor(low, ShiftUp(middle)), high |-> Xor(high, Hi(middle))]

(* The sum of unreduced products.                                          *)
SumWide(p) ==
  LET low[n \in 0..Len(p)]  == IF n = 0 THEN 0 ELSE Xor(low[n - 1], p[n].low)
      high[n \in 0..Len(p)] == IF n = 0 THEN 0 ELSE Xor(high[n - 1], p[n].high)
  IN  [low |-> low[Len(p)], high |-> high[Len(p)]]

Reduce(p) ==
  LET fold_lo == Pmull(Lo(p.high), Fold)
      fold_hi == Pmull(Hi(p.high), Fold)
  IN  Xor(Xor(Xor(p.low, fold_lo), ShiftUp(fold_hi)), Pmull(Hi(fold_hi), Fold))

Product   == [a \in Field, b \in Field |-> Reduce(MulWide(a, b))]
Mul(a, b) == Product[a, b]

(* H^8 down to H, built as a tree.                                         *)
Powers(x) ==
  LET h2 == Mul(x, x)   h3 == Mul(h2, x)  h4 == Mul(h2, h2)
      h5 == Mul(h3, h2) h6 == Mul(h3, h3) h7 == Mul(h4, h3) h8 == Mul(h4, h4)
  IN  <<h8, h7, h6, h5, h4, h3, h2, x>>

(* The n-th block of the message, reflected.                               *)
BlockAt(n) == (seed * n * n + 5 * n + seed) % Size

Init ==
  /\ h \in Keys /\ seed \in Seeds
  /\ powers = Powers(h) /\ acc = 0 /\ log = <<>>

(* absorb_eight_vectors and absorb_four_vectors: one reduction a group.    *)
AbsorbGroup(n) ==
  LET b == [i \in 1..n |-> BlockAt(Len(log) + i)]
      p == [i \in 1..n |-> MulWide(IF i = 1 THEN Xor(acc, b[1]) ELSE b[i], powers[8 - n + i])]
  IN  /\ Len(log) + n <= MaxBlocks
      /\ acc' = Reduce(SumWide(p))
      /\ log' = log \o b
      /\ UNCHANGED <<h, seed, powers>>

AbsorbBlock ==
  LET b == BlockAt(Len(log) + 1)
  IN  /\ Len(log) < MaxBlocks
      /\ acc' = Mul(Xor(acc, b), powers[8])
      /\ log' = Append(log, b)
      /\ UNCHANGED <<h, seed, powers>>

(* absorb, of a run of n blocks: eight at a time, then four, then one.     *)
Next == AbsorbBlock \/ AbsorbGroup(4) \/ AbsorbGroup(8)

Spec == Init /\ [][Next]_vars

-----------------------------------------------------------------------------
(* Addition and multiplication in the field, the latter a shift at a time. *)
Doubled(x) == IF x * 2 < Size THEN x * 2 ELSE Xor(x * 2 - Size, Fold)
Plus  == [a \in Field, b \in Field |-> Xor(a, b)]
Times == [a \in Field, b \in Field |->
  LET shifted[k \in Nat] == IF k = 0 THEN a ELSE Doubled(shifted[k - 1])
      sum[k \in Nat] == IF k = 0 THEN 0
                        ELSE IF Bit(b, k - 1) = 1 THEN Xor(sum[k - 1], shifted[k - 1])
                        ELSE sum[k - 1]
  IN  sum[2 * Half] ]

(* However a message is cut into groups of eight, four and one, the        *)
(* accumulator is Horner's sum of field products: Karatsuba and the two    *)
(* folds compute those, and the fused pass that seals agrees with the one  *)
(* that opens, which cuts a message differently.                           *)
AccumulatesHorner ==
  LET horner[n \in 0..Len(log)] ==
        IF n = 0 THEN 0 ELSE Times[Plus[horner[n - 1], log[n]], h]
  IN  acc = horner[Len(log)]
=============================================================================

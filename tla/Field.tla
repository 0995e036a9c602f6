-------------------------------- MODULE Field --------------------------------
(***************************************************************************)
(* blindplane-crypto's field: numbers modulo Radix^5 - Fold in five limbs  *)
(* held in machine words.  Limbs are only reduced weakly; two registers    *)
(* go through the operations in any order, as the ladder and the point     *)
(* formulas put them together, beside the numbers they stand for.          *)
(***************************************************************************)
EXTENDS Integers, Sequences

CONSTANTS
  Radix,       (* 2^51                                                      *)
  Fold,        (* 19                                                        *)
  A24,         (* 121666                                                    *)
  Word, Wide,  (* 2^64 and 2^128                                            *)
  Slack,       (* how far a limb may lie above Radix                        *)
  Loads,       (* the numbers loaded from 32 bytes, bit 255 included        *)
  MaxOps       (* bound: operations on the registers                        *)

VARIABLES
  f, g,   (* the registers                                                  *)
  v, w,   (* auxiliary: the numbers modulo p they stand for                 *)
  ops

vars == <<f, g, v, w, ops>>

Limb   == 1..5
Radix5 == Radix * Radix * Radix * Radix * Radix

(* The number five limbs stand for.                                        *)
Spells(a) == a[1] + Radix * (a[2] + Radix * (a[3] + Radix * (a[4] + Radix * a[5])))

-----------------------------------------------------------------------------
(* Mutant: the top carry comes back unfolded.                              *)
WeakReduceUnfolded(a) ==
  LET s1 == a[1] + a[5] \div Radix
      s2 == a[2] + s1 \div Radix
      s3 == a[3] + s2 \div Radix
      s4 == a[4] + s3 \div Radix
      s5 == (a[5] % Radix) + s4 \div Radix
  IN  <<s1 % Radix, s2 % Radix, s3 % Radix, s4 % Radix, s5>>

(* One pass of carries; the top limb keeps what the pass brings it.        *)
WeakReduce(a) ==
  LET s1 == a[1] + Fold * (a[5] \div Radix)
      s2 == a[2] + s1 \div Radix
      s3 == a[3] + s2 \div Radix
      s4 == a[4] + s3 \div Radix
      s5 == (a[5] % Radix) + s4 \div Radix
  IN  <<s1 % Radix, s2 % Radix, s3 % Radix, s4 % Radix, s5>>

(* Five wide accumulators into limbs; only the second may stay above.      *)
Carry(r) ==
  LET s2 == r[2] + r[1] \div Radix
      s3 == r[3] + s2 \div Radix
      s4 == r[4] + s3 \div Radix
      s5 == r[5] + s4 \div Radix
      s1 == (r[1] % Radix) + Fold * (s5 \div Radix)
  IN  << s1 % Radix, (s2 % Radix) + s1 \div Radix, s3 % Radix, s4 % Radix, s5 % Radix >>

(* 2p, limb by limb, so that a difference of limbs does not borrow.        *)
P2(i) == IF i = 1 THEN 2 * Radix - 2 * Fold ELSE 2 * Radix - 2

Sum(a, b)        == [i \in Limb |-> a[i] + b[i]]
Difference(a, b) == [i \in Limb |-> a[i] + P2(i) - b[i]]

Product(a, b) ==
  << a[1]*b[1] + Fold * (a[2]*b[5] + a[3]*b[4] + a[4]*b[3] + a[5]*b[2]),
     a[1]*b[2] + a[2]*b[1] + Fold * (a[3]*b[5] + a[4]*b[4] + a[5]*b[3]),
     a[1]*b[3] + a[2]*b[2] + a[3]*b[1] + Fold * (a[4]*b[5] + a[5]*b[4]),
     a[1]*b[4] + a[2]*b[3] + a[3]*b[2] + a[4]*b[1] + Fold * (a[5]*b[5]),
     a[1]*b[5] + a[2]*b[4] + a[3]*b[3] + a[4]*b[2] + a[5]*b[1] >>

(* The cross terms of a product with itself, shared.                       *)
Squares(a) ==
  << a[1]*a[1] + Fold * (2 * a[2]*a[5] + 2 * a[3]*a[4]),
     2 * a[1]*a[2] + Fold * (2 * a[3]*a[5] + a[4]*a[4]),
     2 * a[1]*a[3] + a[2]*a[2] + Fold * (2 * a[4]*a[5]),
     2 * a[1]*a[4] + 2 * a[2]*a[3] + Fold * (a[5]*a[5]),
     2 * a[1]*a[5] + 2 * a[2]*a[4] + a[3]*a[3] >>

Scaled(a) == [i \in Limb |-> A24 * a[i]]

Add(a, b)    == WeakReduce(Sum(a, b))
Sub(a, b)    == WeakReduce(Difference(a, b))
Neg(a)       == Sub(<<0, 0, 0, 0, 0>>, a)
Mul(a, b)    == Carry(Product(a, b))
Square(a)    == Carry(Squares(a))
Mul121666(a) == Carry(Scaled(a))

FromBytes(n) ==
  LET n2 == n \div Radix
      n3 == n2 \div Radix
      n4 == n3 \div Radix
      n5 == n4 \div Radix
  IN  <<n % Radix, n2 % Radix, n3 % Radix, n4 % Radix, n5 % Radix>>

(* to_bytes: q tells whether the number is at least p.                     *)
ToBytes(a) ==
  LET l  == WeakReduce(a)
      q  == (l[5] + (l[4] + (l[3] + (l[2] + (l[1] + Fold) \div Radix) \div Radix) \div Radix) \div Radix)
              \div Radix
      s1 == l[1] + Fold * q
      s2 == l[2] + s1 \div Radix
      s3 == l[3] + s2 \div Radix
      s4 == l[4] + s3 \div Radix
      s5 == l[5] + s4 \div Radix
  IN  Spells(<<s1 % Radix, s2 % Radix, s3 % Radix, s4 % Radix, s5 % Radix>>)

-----------------------------------------------------------------------------
(* Numbers modulo p.                                                       *)
P == Radix5 - Fold

PlusP(x, y)  == (x + y) % P
MinusP(x, y) == (x + (P - y)) % P

(* x y modulo p, doubling so that nothing outgrows twice p.                *)
TimesP(x, y) ==
  LET T[n \in Nat] == IF n = 0 THEN 0
                      ELSE LET t == T[n \div 2]
                           IN  (((t + t) % P) + (IF n % 2 = 1 THEN x ELSE 0)) % P
  IN  T[y]

Init ==
  /\ \E m \in Loads : f = FromBytes(m) /\ v = (m % Radix5) % P
  /\ \E n \in Loads : g = FromBytes(n) /\ w = (n % Radix5) % P
  /\ ops = 0

Into(limbs, number) ==
  /\ ops < MaxOps /\ ops' = ops + 1
  /\ f' = limbs /\ v' = number
  /\ UNCHANGED <<g, w>>

DoAdd    == Into(Add(f, g), PlusP(v, w))
DoSub    == Into(Sub(f, g), MinusP(v, w))
DoNeg    == Into(Neg(f), MinusP(0, v))
DoMul    == Into(Mul(f, g), TimesP(v, w))
DoSquare == Into(Square(f), TimesP(v, v))
DoScale  == Into(Mul121666(f), TimesP(v, A24))

(* conditional_swap and select, with the choice set.                       *)
DoSwap ==
  /\ ops < MaxOps /\ ops' = ops + 1
  /\ f' = g /\ g' = f /\ v' = w /\ w' = v

DoSelect == Into(g, w)

Next == DoAdd \/ DoSub \/ DoNeg \/ DoMul \/ DoSquare \/ DoScale \/ DoSwap \/ DoSelect

Spec == Init /\ [][Next]_vars

-----------------------------------------------------------------------------
Bounded(a) == \A i \in Limb : a[i] \in 0..(Radix + Slack - 1)

(* Every limb stays close above 2^51, whatever operations led there.       *)
IInv == Bounded(f) /\ Bounded(g)

(* field/mod.rs:30: "Limbs are kept below 2^52 after every public          *)
(* operation".                                                             *)
LimbsBelow2to52 == \A i \in Limb : f[i] \in 0..(2 * Radix - 1) /\ g[i] \in 0..(2 * Radix - 1)

(* What one more operation computes fits the machine: sums and products of *)
(* limbs, the carries cut down to a word, and no difference below zero.    *)
FitsMachine ==
  /\ \A i \in Limb : /\ Sum(f, g)[i] + 4 * Fold < Word
                     /\ Difference(f, g)[i] \in 0..(Word - 4 * Fold - 1)
  /\ \A r \in {Product(f, g), Squares(f), Scaled(f)} :
       /\ \A i \in Limb : r[i] + Word < Wide /\ r[i] \div Radix + Word \div Radix < Word
       /\ Fold * ((r[5] + Word) \div Radix) + Radix < Word

(* The registers stand for the numbers their operations compute, and their *)
(* encoding is the one below p, whatever limbs they are held in.           *)
EncodesNumber == ToBytes(f) = v /\ ToBytes(g) = w
=============================================================================

----------------------------- MODULE EdwardsPoint -----------------------------
(***************************************************************************)
(* Points of the curve -x^2 + y^2 = 1 + D x^2 y^2 as the signatures use    *)
(* them: extended, projective, completed and the two cached coordinate     *)
(* systems, the 32-byte encoding, and the table of odd multiples that is   *)
(* normalised with one inversion.  Field arithmetic is exact, modulo P.    *)
(***************************************************************************)
EXTENDS Integers

CONSTANTS
  P,        (* 2^255 - 19, five modulo eight                                *)
  D,        (* no square modulo P                                           *)
  SqrtM1,   (* a root of -1                                                 *)
  Encoded,  (* 2^255: y's that 255 bits can spell                           *)
  Scales,   (* the Z's a point is handed over with                          *)
  Odd       (* 64: odd multiples in a table                                 *)

VARIABLES
  acc,    (* the working point, extended                                    *)
  pt,     (* auxiliary: the affine point it stands for                      *)
  read    (* the encoding read last, with whether it named a point          *)

vars == <<acc, pt, read>>

Fe == 0..(P - 1)
M(c, e) == (c * e) % P
A(c, e) == (c + e) % P
S(c, e) == (c - e) % P
Neg(c)  == S(0, c)
Sq(c)   == M(c, c)

Power(c, n) == LET f[k \in 0..n] == IF k = 0 THEN 1 ELSE M(c, f[k - 1]) IN f[n]
Invert(c)   == Power(c, P - 2)

-----------------------------------------------------------------------------
Identity == [x |-> 0, y |-> 1, z |-> 1, t |-> 0]

(* The last products of every formula, with or without T.                  *)
ToExtended(c) == [x |-> M(c.e, c.f), y |-> M(c.g, c.h), z |-> M(c.f, c.g), t |-> M(c.e, c.h)]

(* EdwardsPoint::add.                                                      *)
AddPoints(l, r) ==
  LET a == M(S(l.y, l.x), S(r.y, r.x))
      b == M(A(l.y, l.x), A(r.y, r.x))
      c == M(M(l.t, A(D, D)), r.t)
      d == A(M(l.z, r.z), M(l.z, r.z))
  IN  ToExtended([e |-> S(b, a), f |-> S(d, c), g |-> A(d, c), h |-> A(b, a)])

(* Doubling never looks at T.                                              *)
Completed(l) ==
  LET g == S(Sq(l.x), Sq(l.y))
      h == A(Sq(l.x), Sq(l.y))
  IN  [e |-> S(h, Sq(A(l.x, l.y))), f |-> A(A(Sq(l.z), Sq(l.z)), g), g |-> g, h |-> h]

Double(l) == ToExtended(Completed(l))

Negate(l) == [l EXCEPT !.x = Neg(l.x), !.t = Neg(l.t)]

ToProjectiveNiels(l) ==
  [plus |-> A(l.y, l.x), minus |-> S(l.y, l.x), z |-> l.z, t2d |-> M(l.t, A(D, D))]

(* Of a point with Z = 1.                                                  *)
ToAffineNiels(x, y) == [plus |-> A(y, x), minus |-> S(y, x), xy2d |-> M(M(x, y), A(D, D))]

NegateProjective(n) == [n EXCEPT !.plus = n.minus, !.minus = n.plus, !.t2d = Neg(n.t2d)]

(* Mutant: the product keeps its sign.                                     *)
NegateAffineHalf(n) == [n EXCEPT !.plus = n.minus, !.minus = n.plus]

NegateAffine(n) == [n EXCEPT !.plus = n.minus, !.minus = n.plus, !.xy2d = Neg(n.xy2d)]

AddProjectiveNiels(l, n) ==
  LET pp == M(A(l.y, l.x), n.plus)
      mm == M(S(l.y, l.x), n.minus)
      tt == M(l.t, n.t2d)
      zz == A(M(l.z, n.z), M(l.z, n.z))
  IN  [e |-> S(pp, mm), h |-> A(pp, mm), g |-> A(zz, tt), f |-> S(zz, tt)]

AddAffineNiels(l, n) ==
  LET pp == M(A(l.y, l.x), n.plus)
      mm == M(S(l.y, l.x), n.minus)
      tt == M(l.t, n.xy2d)
      zz == A(l.z, l.z)
  IN  [e |-> S(pp, mm), h |-> A(pp, mm), g |-> A(zz, tt), f |-> S(zz, tt)]

IsSmallOrder(l) ==
  LET m == Double(Double(Double(l))) IN m.x = 0 /\ m.y = m.z

-----------------------------------------------------------------------------
IsNegative(c) == c % 2

Compress(l) ==
  [y |-> M(l.y, Invert(l.z)), sign |-> IsNegative(M(l.x, Invert(l.z)))]

(* Fe::sqrt_ratio: a root of c/e that is not negative, and whether it is   *)
(* one.                                                                    *)
SqrtRatio(c, e) ==
  LET e3    == M(Sq(e), e)
      e7    == M(Sq(e3), e)
      root  == M(M(c, e3), Power(M(c, e7), (P - 5) \div 8))
      check == M(e, Sq(root))
      r     == IF check = Neg(c) THEN M(root, SqrtM1) ELSE root
  IN  [root |-> IF IsNegative(r) = 1 THEN Neg(r) ELSE r,
       square |-> check = c \/ check = Neg(c)]

(* The set of the point an encoding names, empty where decompress has      *)
(* None: for a y above P, off the curve, or a zero x with a sign.          *)
Decompress(enc) ==
  LET y == enc.y % P
      s == SqrtRatio(S(Sq(y), 1), A(M(Sq(y), D), 1))
      x == IF IsNegative(s.root) # enc.sign THEN Neg(s.root) ELSE s.root
  IN  IF enc.y >= P \/ ~ s.square \/ (s.root = 0 /\ enc.sign = 1) THEN {}
      ELSE {[x |-> x, y |-> y, z |-> 1, t |-> M(x, y)]}

(* The odd multiples of a point, all brought to Z = 1 with one inversion:  *)
(* products of the Z's before each, and of the inverses after it.          *)
AffineOddMultiples(l) ==
  LET odd[k \in 1..Odd]     == IF k = 1 THEN l ELSE AddPoints(odd[k - 1], Double(l))
      prefix[k \in 1..Odd]  == IF k = 1 THEN 1 ELSE M(prefix[k - 1], odd[k - 1].z)
      suffix[k \in 0..Odd]  ==
        IF k = Odd THEN Invert(M(prefix[Odd], odd[Odd].z)) ELSE M(suffix[k + 1], odd[k + 1].z)
      inverse[k \in 1..Odd] == M(suffix[k], prefix[k])
  IN  [k \in 1..Odd |-> ToAffineNiels(M(odd[k].x, inverse[k]), M(odd[k].y, inverse[k]))]

-----------------------------------------------------------------------------
(* The curve itself.                                                       *)
Curve == {q \in Fe \X Fe : S(Sq(q[2]), Sq(q[1])) = A(1, M(D, M(Sq(q[1]), Sq(q[2]))))}

Sum(q, r) ==
  LET xx == M(q[1], r[1])  yy == M(q[2], r[2])
      w  == M(D, M(xx, yy))
  IN  << M(A(M(q[1], r[2]), M(q[2], r[1])), Invert(A(1, w))), M(A(yy, xx), Invert(S(1, w))) >>

Minus(q) == <<Neg(q[1]), q[2]>>

Multiple(n, q) ==
  LET f[k \in 0..n] == IF k = 0 THEN <<0, 1>> ELSE Sum(q, f[k - 1]) IN f[n]

Scaled(q, z) == [x |-> M(q[1], z), y |-> M(q[2], z), z |-> z, t |-> M(M(q[1], q[2]), z)]

Affine(l) == << M(l.x, Invert(l.z)), M(l.y, Invert(l.z)) >>

NothingRead == [y |-> 0, sign |-> 0, named |-> TRUE, fresh |-> FALSE]

Init == acc = Identity /\ pt = <<0, 1>> /\ read = NothingRead

(* To another point, by one of the additions.                              *)
Becomes(l, q) == acc' = l /\ pt' = q /\ read' = NothingRead

DoAdd == \E q \in Curve, z \in Scales : Becomes(AddPoints(acc, Scaled(q, z)), Sum(pt, q))

DoAddCached == \E q \in Curve, z \in Scales :
  Becomes(ToExtended(AddProjectiveNiels(acc, ToProjectiveNiels(Scaled(q, z)))), Sum(pt, q))

DoSubtractCached == \E q \in Curve, z \in Scales :
  Becomes(ToExtended(AddProjectiveNiels(acc, NegateProjective(ToProjectiveNiels(Scaled(q, z))))),
          Sum(pt, Minus(q)))

DoAddAffine == \E q \in Curve :
  Becomes(ToExtended(AddAffineNiels(acc, ToAffineNiels(q[1], q[2]))), Sum(pt, q))

DoSubtractAffine == \E q \in Curve :
  Becomes(ToExtended(AddAffineNiels(acc, NegateAffine(ToAffineNiels(q[1], q[2])))),
          Sum(pt, Minus(q)))

DoDouble == Becomes(Double(acc), Sum(pt, pt))

DoNegate == Becomes(Negate(acc), Minus(pt))

(* 32 bytes are read as a point, or are refused and leave none.            *)
DoDecompress ==
  \E y \in 0..(Encoded - 1), sign \in {0, 1} :
    LET found == Decompress([y |-> y, sign |-> sign])
    IN  /\ read' = [y |-> y, sign |-> sign, named |-> found # {}, fresh |-> TRUE]
        /\ IF found = {} THEN acc' = Identity /\ pt' = <<0, 1>>
           ELSE \E l \in found : acc' = l /\ pt' = <<l.x, l.y>>

Next ==
  \/ DoAdd \/ DoAddCached \/ DoSubtractCached \/ DoAddAffine \/ DoSubtractAffine
  \/ DoDouble \/ DoNegate \/ DoDecompress

Spec == Init /\ [][Next]_vars

-----------------------------------------------------------------------------
(* Whatever formulas were mixed, the coordinates stand for the sum on the  *)
(* curve, T is in step with them, and no Z ever vanishes: the formulas     *)
(* have no exceptional points.                                             *)
RepresentsSum ==
  /\ acc.z # 0 /\ M(acc.t, acc.z) = M(acc.x, acc.y)
  /\ Affine(acc) = pt /\ pt \in Curve

(* edwards/point.rs:206: refused is "any encoding that does not name a     *)
(* curve point, including a `y` coordinate that is not canonically         *)
(* reduced": each point has one encoding, and no other is read.            *)
OneEncodingPerPoint ==
  /\ \A l \in Decompress(Compress(acc)) : <<l.x, l.y>> = pt
  /\ Decompress(Compress(acc)) # {}
  /\ read.fresh /\ read.named => Compress(acc) = [y |-> read.y, sign |-> read.sign]
  /\ ~ read.named => \A q \in Curve : Compress(Scaled(q, 1)) # [y |-> read.y, sign |-> read.sign]

(* The keys strict verification refuses are those of order dividing 8.     *)
SmallOrderIsExact == IsSmallOrder(acc) <=> Multiple(8, pt) = <<0, 1>>

(* A verifier's table holds the odd multiples, each with its own inverse.  *)
TableHoldsOddMultiples ==
  \A k \in 1..Odd :
    LET q == Multiple(2 * k - 1, pt) IN AffineOddMultiples(acc)[k] = ToAffineNiels(q[1], q[2])
=============================================================================

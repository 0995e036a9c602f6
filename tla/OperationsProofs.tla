-------------------------- MODULE OperationsProofs --------------------------
(***************************************************************************)
(* Theorems about the curve's arithmetic and what is built on it, for all  *)
(* values of the constants.  Scalars: Barrett's reduction is right for     *)
(* every word base and every order of four words, and with it every scalar *)
(* the registers ever hold.  Field elements: limbs stay below Radix + 1024 *)
(* whatever operations are chained, nothing that the next operation        *)
(* computes leaves its word, and the limbs' encoding is the one number     *)
(* below p that the operations compute, for limbs of any width from 24     *)
(* bits on, thirteen short of a word; the code's are 51 bits in 64.        *)
(* The ladder and every other way to multiply: they end at the multiples   *)
(* they are for, with scalars, words, windows and orders of any size.      *)
(* Signatures: both ways to verify agree, what sign made passes them, and  *)
(* R leaves one S, in a group of eight times any odd order.  HPKE payloads *)
(* and envelopes: they open for their parties only, over any secrets,      *)
(* devices, contexts and info strings, and any number of payloads.         *)
(***************************************************************************)
EXTENDS MCOperations, HpkeTerms, FiniteSetTheorems, SequenceTheorems, TLAPS

-----------------------------------------------------------------------------
(* A number is its quotient and its remainder.                             *)
LEMMA DivMod ==
  ASSUME NEW a \in Nat, NEW d \in Nat, d > 0
  PROVE  /\ a \div d \in Nat /\ a % d \in 0..(d - 1)
         /\ a = d * (a \div d) + (a % d)
OBVIOUS

(* Multiplication by a natural number keeps order.                         *)
LEMMA TimesMono ==
  ASSUME NEW a \in Int, NEW b \in Int, NEW c \in Nat, a <= b
  PROVE  a * c <= b * c
OBVIOUS

(* And a positive factor can be cancelled.                                 *)
LEMMA TimesCancel ==
  ASSUME NEW a \in Int, NEW b \in Int, NEW c \in Nat, c > 0, a * c < b * c
  PROVE  a < b
OBVIOUS

(* Adding multiples of the divisor leaves the remainder.                   *)
LEMMA ModOfShift ==
  ASSUME NEW r \in Int, NEW k \in Int, NEW d \in Nat, d > 0, 0 <= r, r < d
  PROVE  (r + d * k) % d = r
OBVIOUS

(* Whole multiples of the divisor change no remainder.                     *)
LEMMA SameResidue ==
  ASSUME NEW r \in Nat, NEW k \in Nat, NEW d \in Nat, d > 0
  PROVE  (r + k * d) % d = r % d
<1> DEFINE e == r % d
           h == r \div d
<1>1. h \in Nat /\ e \in 0..(d - 1) /\ r = d * h + e BY DivMod
<1> HIDE DEF e, h
<1>2. r + k * d = e + d * (h + k)
  <2>1. d * (h + k) = d * h + k * d /\ d * h \in Nat /\ k * d \in Nat BY <1>1
  <2> QED BY <1>1, <2>1
<1>3. (e + d * (h + k)) % d = e
  <2>1. e \in Int /\ h + k \in Int /\ 0 <= e /\ e < d BY <1>1
  <2> QED BY <2>1, ModOfShift
<1> QED BY <1>2, <1>3 DEF e

(* How four factors and two terms regroup.                                 *)
LEMMA Products ==
  ASSUME NEW a \in Int, NEW b \in Int, NEW c \in Int, NEW d \in Int
  PROVE  /\ (a * b) * (c * d) = (c * a) * (d * b)
         /\ (a * b) * (c * d) = (b * d) * (c * a)
         /\ (a + b) * c = a * c + b * c
         /\ (a - b) * c = a * c - b * c
         /\ a * b = b * a
OBVIOUS

(* The words' widths, as numbers.                                          *)
LEMMA Widths ==
  /\ W3 \in Nat /\ W3 > 0
  /\ W4 \in Nat /\ W4 > 0
  /\ W5 \in Nat /\ W5 > 0
  /\ W8 \in Nat /\ W8 > 0 /\ W8 = W3 * W5 /\ W8 = W4 * W4
  /\ W5 = W4 * W
  /\ L \in Nat /\ L > 0
<1>1. W \in Nat /\ W > 2 BY WordsAssumption
<1>2. W2 \in Nat /\ W2 > 0 BY <1>1 DEF W2
<1>3. W3 \in Nat /\ W3 > 0 BY <1>1, <1>2 DEF W3
<1>4. W4 \in Nat /\ W4 > 0 BY <1>2 DEF W4
<1>5. W5 \in Nat /\ W5 > 0 BY <1>2, <1>3 DEF W5
<1>6. W8 \in Nat /\ W8 > 0 /\ W8 = W3 * W5 BY <1>3, <1>5 DEF W8
<1>7. W5 = W4 * W BY <1>1, <1>2 DEF W5, W4, W3
<1>8. W8 = W4 * W4
  <2>1. W3 * W5 = (W * W2) * (W4 * W) BY <1>7 DEF W3
  <2>2. (W * W2) * (W4 * W) = (W * W) * W2 * W4 BY <1>1, <1>2, <1>4
  <2> QED BY <2>1, <2>2 DEF W8, W4, W2
<1> QED BY <1>1, <1>3, <1>4, <1>5, <1>6, <1>7, <1>8, WordsAssumption

-----------------------------------------------------------------------------
(* The estimated quotient is never too large, and at most two too small:   *)
(* of the three divisions rounded down each costs less than one order.     *)
LEMMA QuotientBounds ==
  ASSUME NEW v \in Nat, v < W8,
         NEW q1 \in Nat, q1 = v \div W3,
         NEW q3 \in Nat, q3 = (q1 * Mu) \div W5
  PROVE  q3 * L <= v /\ v - q3 * L < 3 * L
<1> DEFINE E == W3
           F == W5
           G == W8
           k == Mu
           A == E * q1
           B == L * k
<1>1. E \in Nat /\ E > 0 /\ F \in Nat /\ F > 0 /\ G \in Nat /\ G > 0 /\ G = E * F
      /\ L \in Nat /\ L > 0
  BY Widths
<1>2. k \in Nat /\ B <= G /\ G < B + L
  <2>1. k = G \div L BY DEF Mu
  <2> QED BY <1>1, <2>1, DivMod
<1>3. A \in Nat /\ A <= v /\ v < A + E
  BY <1>1, DivMod
<1>4. q1 * k \in Nat /\ F * q3 <= q1 * k /\ q1 * k < F * q3 + F
  <2>1. q1 * k \in Nat BY <1>2
  <2> QED BY <1>1, <2>1, DivMod
<1>5. E * L \in Nat /\ E * L > 0 /\ B \in Nat /\ q3 * L \in Nat
  BY <1>1, <1>2
<1>6. (q1 * k) * (E * L) = A * B
  BY <1>1, <1>2, Products
<1>7. (F * q3) * (E * L) = (q3 * L) * G
  <2>1. (F * q3) * (E * L) = (q3 * L) * (E * F) BY <1>1, Products
  <2> QED BY <1>1, <2>1
<1> HIDE DEF A, B, E, F, G, k
<1>8. q3 * L <= v
  <2>1. (F * q3) * (E * L) <= (q1 * k) * (E * L)
    <3>1. F * q3 \in Int BY <1>1
    <3> QED BY <1>4, <1>5, <3>1, TimesMono
  <2>2. A * B <= v * B BY <1>3, <1>5, TimesMono
  <2>3. B * v <= G * v BY <1>1, <1>2, <1>5, TimesMono
  <2>4. (q3 * L) * G <= v * G
    <3>1. v * B = B * v /\ v * G = G * v BY <1>1, <1>5, Products
    <3>2. A * B \in Int /\ v * B \in Int /\ v * G \in Int /\ (q3 * L) * G \in Int
      BY <1>1, <1>3, <1>5
    <3> QED BY <1>6, <1>7, <2>1, <2>2, <2>3, <3>1, <3>2
  <2>5. CASE v < q3 * L
    <3>1. v + 1 <= q3 * L BY <1>5, <2>5
    <3>2. (v + 1) * G <= (q3 * L) * G BY <1>1, <1>5, <3>1, TimesMono
    <3>3. (v + 1) * G = v * G + G BY <1>1, Products
    <3>4. v * G \in Int /\ (q3 * L) * G \in Int BY <1>1, <1>5
    <3> QED BY <1>1, <2>4, <3>2, <3>3, <3>4
  <2> QED BY <1>5, <2>5
<1>9. v - q3 * L < 3 * L
  <2>1. (q1 * k) * (E * L) < (q3 * L) * G + L * G
    <3>1. q1 * k + 1 <= F * q3 + F BY <1>1, <1>4
    <3>2. (q1 * k + 1) * (E * L) <= (F * q3 + F) * (E * L)
      <4>1. F * q3 + F \in Int /\ q1 * k + 1 \in Int BY <1>1, <1>4
      <4> QED BY <1>5, <3>1, <4>1, TimesMono
    <3>3. (q1 * k + 1) * (E * L) = (q1 * k) * (E * L) + E * L
      BY <1>4, <1>5, Products
    <3>4. (F * q3 + F) * (E * L) = (F * q3) * (E * L) + F * (E * L)
      <4>1. F * q3 \in Int BY <1>1
      <4> QED BY <1>1, <1>5, <4>1, Products
    <3>5. F * (E * L) = L * G BY <1>1
    <3>6. (q1 * k) * (E * L) \in Int /\ (q3 * L) * G \in Int /\ L * G \in Int
      BY <1>1, <1>4, <1>5
    <3> QED BY <1>5, <1>7, <3>2, <3>3, <3>4, <3>5, <3>6
  <2>2. (v - E) * G - L * G <= A * B
    <3>1. (v - E) * G <= A * G BY <1>1, <1>3, TimesMono
    <3>2. A * G - A * B <= L * G
      <4>1. (G - B) * A <= L * A BY <1>1, <1>2, <1>3, <1>5, TimesMono
      <4>2. A * L <= G * L
        <5>1. A <= G BY <1>1, <1>3 DEF G
        <5> QED BY <1>1, <1>3, <5>1, TimesMono
      <4>3. (G - B) * A = G * A - B * A BY <1>1, <1>3, <1>5, Products
      <4>4. G * A = A * G /\ B * A = A * B /\ L * A = A * L /\ G * L = L * G
        BY <1>1, <1>3, <1>5, Products
      <4>5. A * G \in Int /\ A * B \in Int /\ A * L \in Int /\ L * G \in Int
        BY <1>1, <1>3, <1>5
      <4> QED BY <4>1, <4>2, <4>3, <4>4, <4>5
    <3>3. A * G \in Int /\ A * B \in Int /\ L * G \in Int /\ (v - E) * G \in Int
      BY <1>1, <1>3, <1>5
    <3> QED BY <3>1, <3>2, <3>3
  <2>3. (v - E - L - L) * G < (q3 * L) * G
    <3>1. (v - E - L - L) * G = (v - E) * G - L * G - L * G
      <4>1. (v - E - L - L) * G = (v - E - L) * G - L * G BY <1>1, Products
      <4>2. (v - E - L) * G = (v - E) * G - L * G BY <1>1, Products
      <4> QED BY <4>1, <4>2
    <3>2. (v - E) * G \in Int /\ L * G \in Int /\ (q3 * L) * G \in Int /\ A * B \in Int
      BY <1>1, <1>3, <1>5
    <3> QED BY <1>6, <2>1, <2>2, <3>1, <3>2
  <2>4. v - E - L - L < q3 * L BY <1>1, <1>5, <2>3, TimesCancel
  <2>5. E <= L BY WordsAssumption DEF E
  <2> QED BY <1>1, <1>5, <2>4, <2>5
<1> QED BY <1>8, <1>9

(* Cutting both terms to five words costs nothing when their difference    *)
(* fits five words.                                                        *)
LEMMA ModOfDifference ==
  ASSUME NEW a \in Nat, NEW b \in Nat, NEW d \in Nat, d > 0, b <= a, a - b < d
  PROVE  ((a % d) - (b % d)) % d = a - b
<1>1. /\ a = d * (a \div d) + (a % d) /\ a \div d \in Nat /\ a % d \in Nat
      /\ b = d * (b \div d) + (b % d) /\ b \div d \in Nat /\ b % d \in Nat
  BY DivMod
<1>2. (a % d) - (b % d) = (a - b) + d * ((b \div d) - (a \div d))
  <2>1. d * ((b \div d) - (a \div d)) = d * (b \div d) - d * (a \div d) BY <1>1
  <2>2. d * (b \div d) \in Int /\ d * (a \div d) \in Int BY <1>1
  <2> QED BY <1>1, <2>1, <2>2
<1> QED
  <2>1. a - b \in Int /\ (b \div d) - (a \div d) \in Int /\ 0 <= a - b BY <1>1
  <2>2. ((a - b) + d * ((b \div d) - (a \div d))) % d = a - b BY <2>1, ModOfShift
  <2> QED BY <1>2, <2>2

(* What is left after the quotient is below 3 L and differs from the       *)
(* number by a multiple of L.                                              *)
LEMMA RemainderIs ==
  ASSUME NEW v \in Nat, v < W8
  PROVE  \E k \in Nat : Remainder(v) = v - k * L /\ Remainder(v) \in 0..(3 * L - 1)
<1> DEFINE q1 == v \div W3
           q3 == (q1 * Mu) \div W5
<1>1. q1 \in Nat BY Widths, DivMod
<1>2. q3 \in Nat
  <2>1. Mu \in Nat BY Widths, DivMod DEF Mu
  <2>2. q1 * Mu \in Nat BY <1>1, <2>1
  <2> QED BY <2>2, Widths, DivMod
<1>3. q3 * L <= v /\ v - q3 * L < 3 * L BY <1>1, <1>2, QuotientBounds
<1>4. q3 * L \in Nat BY <1>2, Widths
<1>5. 3 * L < W5
  <2>1. 3 * W4 <= W * W4 BY Widths, WordsAssumption, TimesMono
  <2> QED BY <2>1, Widths, WordsAssumption
<1>6. Remainder(v) = v - q3 * L
  <2> DEFINE c == q3 * L
  <2>1. c \in Nat /\ c <= v /\ v - c < W5 BY <1>3, <1>4, <1>5, Widths
  <2>2. ((v % W5) - (c % W5)) % W5 = v - c
    <3> HIDE DEF c
    <3> QED BY <2>1, Widths, ModOfDifference
  <2> QED BY <2>2 DEF Remainder
<1> HIDE DEF q3, q1
<1>7. v - q3 * L \in 0..(3 * L - 1) BY <1>3, <1>4, Widths
<1>8. WITNESS q3 \in Nat
<1> QED BY <1>6, <1>7

(* Barrett's method is the remainder modulo L, for every eight words.      *)
LEMMA BarrettIsMod ==
  ASSUME NEW v \in Nat, v < W8
  PROVE  BarrettReduce(v) = v % L /\ BarrettReduce(v) \in 0..(L - 1)
<1>1. PICK k \in Nat : Remainder(v) = v - k * L /\ Remainder(v) \in 0..(3 * L - 1)
  BY RemainderIs
<1>2. L \in Nat /\ L > 0 /\ W4 \in Nat /\ L < W4 /\ k * L \in Nat
  BY Widths, WordsAssumption
<1> DEFINE r == Lowered(Lowered(Remainder(v)))
<1>3. r \in 0..(L - 1) /\ (r = v - k * L \/ r = v - k * L - L \/ r = v - k * L - L - L)
  BY <1>1, <1>2 DEF Lowered
<1>4. \E j \in Nat : r = v - j * L
  <2> HIDE DEF r
  <2>1. (k + 1) * L = k * L + L /\ (k + 2) * L = k * L + L + L BY <1>2
  <2>2. r = v - k * L \/ r = v - (k + 1) * L \/ r = v - (k + 2) * L
    <3>1. v - k * L - L = v - (k * L + L) /\ v - k * L - L - L = v - (k * L + L + L)
      BY <1>2
    <3> QED BY <1>3, <2>1, <3>1
  <2>3. k \in Nat /\ k + 1 \in Nat /\ k + 2 \in Nat OBVIOUS
  <2> QED BY <2>2, <2>3
<1>5. BarrettReduce(v) = r
  <2> HIDE DEF r
  <2>1. r % W4 = r BY <1>2, <1>3
  <2> QED BY <2>1 DEF BarrettReduce, r
<1>6. v % L = r
  <2> HIDE DEF r
  <2>1. PICK j \in Nat : r = v - j * L BY <1>4
  <2>2. v = r + L * j BY <1>2, <2>1
  <2> QED BY <1>2, <1>3, <2>2, ModOfShift
<1> HIDE DEF r
<1> QED BY <1>3, <1>5, <1>6

(* One subtraction suffices after a sum of two scalars.                    *)
LEMMA AddIsMod ==
  ASSUME NEW a \in 0..(L - 1), NEW b \in 0..(L - 1)
  PROVE  AddModL(a, b) = (a + b) % L /\ AddModL(a, b) \in 0..(L - 1)
<1>1. L \in Nat /\ L > 0 /\ W4 \in Nat /\ L < W4 BY Widths, WordsAssumption
<1>2. Lowered(a + b) \in 0..(L - 1) /\ Lowered(a + b) % W4 = Lowered(a + b)
  BY <1>1 DEF Lowered
<1>3. (a + b) % L = Lowered(a + b)
  <2>1. CASE a + b < L BY <1>1, <2>1 DEF Lowered
  <2>2. CASE a + b >= L
    <3>1. ((a + b - L) + L * 1) % L = a + b - L
      <4>1. a + b - L \in Int /\ 0 <= a + b - L /\ a + b - L < L BY <1>1, <2>2
      <4> QED BY <1>1, <4>1, ModOfShift
    <3>2. (a + b - L) + L * 1 = a + b BY <1>1
    <3> QED BY <1>1, <2>2, <3>1, <3>2 DEF Lowered
  <2> QED BY <1>1, <2>1, <2>2
<1> QED BY <1>2, <1>3 DEF AddModL

-----------------------------------------------------------------------------
(* Numbers of four and of eight words, and products of two scalars, all    *)
(* fit the reduction.                                                      *)
LEMMA InputsFit ==
  /\ \A v \in Wides : v \in Nat /\ v < W8
  /\ \A b \in Encodings : b \in Nat /\ b < W8 /\ b < W4
  /\ \A a, b \in 0..(L - 1) : a * b \in Nat /\ a * b < W8
<1>1. W4 <= W8
  <2>1. 1 * W4 <= W4 * W4 BY Widths, TimesMono
  <2> QED BY <2>1, Widths
<1>2. ASSUME NEW a \in 0..(L - 1), NEW b \in 0..(L - 1)
      PROVE  a * b \in Nat /\ a * b < W8
  <2>1. a \in Nat /\ b \in Nat /\ a <= W4 - 1 /\ b <= W4
    BY Widths, WordsAssumption
  <2>2. a * b <= (W4 - 1) * b BY <2>1, Widths, TimesMono
  <2>3. b * (W4 - 1) <= W4 * (W4 - 1) BY <2>1, Widths, TimesMono
  <2>4. W4 * (W4 - 1) < W4 * W4 BY Widths
  <2>5. b * (W4 - 1) = (W4 - 1) * b /\ a * b \in Nat /\ b * (W4 - 1) \in Int
    BY <2>1, Widths
  <2> QED BY <2>2, <2>3, <2>4, <2>5, Widths
<1>3. \A v \in Wides : v \in Nat /\ v < W8 BY WordsAssumption, Widths
<1>4. \A b \in Encodings : b \in Nat /\ b < W8 /\ b < W4 BY <1>1, WordsAssumption, Widths
<1> QED BY <1>2, <1>3, <1>4

(* A product of scalars plus a scalar.                                     *)
LEMMA MulAddIsMod ==
  ASSUME NEW a \in 0..(L - 1), NEW b \in 0..(L - 1), NEW c \in 0..(L - 1)
  PROVE  MulAdd(a, b, c) = (((a * b) % L) + c) % L /\ MulAdd(a, b, c) \in 0..(L - 1)
<1>1. a * b \in Nat /\ a * b < W8 BY InputsFit
<1>2. BarrettReduce(a * b) = (a * b) % L /\ BarrettReduce(a * b) \in 0..(L - 1)
  BY <1>1, BarrettIsMod
<1>3. AddModL(BarrettReduce(a * b), c) = (BarrettReduce(a * b) + c) % L
      /\ AddModL(BarrettReduce(a * b), c) \in 0..(L - 1)
  BY <1>2, AddIsMod
<1> QED BY <1>2, <1>3 DEF MulAdd

(* For every word base, order and sequence of hashes, products and sums,   *)
(* the registers hold the number they should, reduced.                     *)
THEOREM ScalarsStandForNumbers == Spec => []StandsForNumber
<1>1. Init => StandsForNumber
  BY InputsFit, BarrettIsMod DEF Init, StandsForNumber, FromWideBytes, FromBytesModOrder
<1>2. StandsForNumber /\ [Next]_vars => StandsForNumber'
  <2> SUFFICES ASSUME StandsForNumber, [Next]_vars
               PROVE  StandsForNumber'
    OBVIOUS
  <2>1. CASE DoFromWide
    BY <2>1, InputsFit, BarrettIsMod DEF DoFromWide, StandsForNumber, FromWideBytes
  <2>2. CASE DoFromBytes
    BY <2>2, InputsFit, BarrettIsMod DEF DoFromBytes, StandsForNumber, FromBytesModOrder
  <2>3. CASE DoFromCanonical
    <3>1. PICK b \in Encodings :
            /\ q' = IF IsCanonical(b) THEN b ELSE q
            /\ n' = IF IsCanonical(b) THEN b % L ELSE n
      BY <2>3 DEF DoFromCanonical
    <3>2. p' = p /\ m' = m BY <2>3 DEF DoFromCanonical
    <3>3. CASE IsCanonical(b)
      <4>1. b \in 0..(L - 1) /\ L \in Nat /\ L > 0
        BY <3>3, InputsFit, Widths DEF IsCanonical
      <4>2. b % L = b BY <4>1
      <4> QED BY <3>1, <3>2, <3>3, <4>1, <4>2 DEF StandsForNumber
    <3>4. CASE ~ IsCanonical(b) BY <3>1, <3>2, <3>4 DEF StandsForNumber
    <3> QED BY <3>3, <3>4
  <2>4. CASE DoMulAdd
    <3>1. p \in 0..(L - 1) /\ q \in 0..(L - 1) /\ p = m /\ q = n BY DEF StandsForNumber
    <3>2. MulAdd(p, q, p) = (((p * q) % L) + p) % L /\ MulAdd(p, q, p) \in 0..(L - 1)
      BY <3>1, MulAddIsMod
    <3> QED BY <2>4, <3>1, <3>2 DEF DoMulAdd, StandsForNumber
  <2>5. CASE UNCHANGED vars BY <2>5 DEF vars, StandsForNumber
  <2> QED BY <2>1, <2>2, <2>3, <2>4, <2>5 DEF Next
<1> QED BY <1>1, <1>2, PTL DEF Spec

(* Two masked subtractions are enough for every number that can come, and  *)
(* cutting the terms to five words loses nothing.                          *)
THEOREM TwoSubtractionsSuffice == Spec => []RemainderBelow3L
<1>1. ASSUME NEW v \in Nat, v < W8
      PROVE  Remainder(v) < 3 * L /\ Remainder(v) % L = v % L
  <2>1. PICK k \in Nat : Remainder(v) = v - k * L /\ Remainder(v) \in 0..(3 * L - 1)
    BY <1>1, RemainderIs
  <2>2. L \in Nat /\ L > 0 /\ Remainder(v) \in Nat BY <2>1, Widths
  <2>3. v = Remainder(v) + k * L
    <3>1. k * L \in Nat BY <2>2
    <3> QED BY <2>1, <2>2, <3>1
  <2>4. (Remainder(v) + k * L) % L = Remainder(v) % L BY <2>2, SameResidue
  <2> QED BY <2>1, <2>2, <2>3, <2>4
<1>2. StandsForNumber => RemainderBelow3L
  BY <1>1, InputsFit DEF StandsForNumber, RemainderBelow3L
<1> QED BY <1>2, ScalarsStandForNumbers, PTL

-----------------------------------------------------------------------------
(* The sizes of field/mod.rs, but for the width of a limb.                 *)
Sizes ==
  /\ Radix \in Nat /\ Radix > 8388608
  /\ Fold = 19 /\ A24 = 121666 /\ Slack = 1024
  /\ LimbWord = 8192 * Radix /\ Wide = LimbWord * LimbWord
  /\ Loads \subseteq Nat

(* A quotient is below what bounds the number.                             *)
LEMMA DivLess ==
  ASSUME NEW a \in Nat, NEW d \in Nat, d > 0, NEW k \in Nat, a < d * k
  PROVE  a \div d \in Nat /\ a \div d < k /\ a % d \in 0..(d - 1)
<1>1. a \div d \in Nat /\ a % d \in 0..(d - 1) /\ a = d * (a \div d) + (a % d)
  BY SMT
<1>2. CASE k <= a \div d
  <2>1. d * k <= d * (a \div d) BY SMT, <1>1, <1>2
  <2>2. d * k \in Nat /\ d * (a \div d) \in Nat BY SMT, <1>1
  <2> QED BY SMT, <1>1, <2>1, <2>2
<1> QED BY SMT, <1>1, <1>2

(* How far the square of the radix lies above the radix.                   *)
LEMMA SquareOfRadix ==
  ASSUME Sizes
  PROVE  /\ Radix * Radix \in Nat /\ Radix * Radix > 8388608 * Radix
         /\ \A k \in Nat : Radix * (k * Radix) = k * (Radix * Radix)
BY SMT DEF Sizes

(* A product of two limbs.                                                 *)
LEMMA LimbProduct ==
  ASSUME Sizes, NEW c \in 0..(Radix + Slack - 1), NEW e \in 0..(Radix + Slack - 1)
  PROVE  c * e \in 0..(4 * (Radix * Radix))
<1>1. c \in Nat /\ e \in Nat /\ c <= 2 * Radix /\ e <= 2 * Radix /\ Radix \in Nat
  BY SMT DEF Sizes
<1>2. c * e <= (2 * Radix) * e BY SMT, <1>1
<1>3. (2 * Radix) * e <= (2 * Radix) * (2 * Radix) BY SMT, <1>1
<1>4. (2 * Radix) * (2 * Radix) = 4 * (Radix * Radix) BY SMT, <1>1
<1>5. c * e \in Nat /\ (2 * Radix) * e \in Nat /\ Radix * Radix \in Nat BY SMT, <1>1
<1> QED BY SMT, <1>2, <1>3, <1>4, <1>5

-----------------------------------------------------------------------------
(* A pass of carries over limbs a little above the radix.                  *)
LEMMA WeakReduceBounded ==
  ASSUME Sizes, NEW a, \A i \in Limbs!Limb : a[i] \in 0..(4 * Radix - 1)
  PROVE  Limbs!Bounded(Limbs!WeakReduce(a))
<1> DEFINE x1 == a[1] + Fold * (a[5] \div Radix)
           x2 == a[2] + x1 \div Radix
           x3 == a[3] + x2 \div Radix
           x4 == a[4] + x3 \div Radix
           x5 == (a[5] % Radix) + x4 \div Radix
<1>0. /\ a[1] \in 0..(4 * Radix - 1) /\ a[2] \in 0..(4 * Radix - 1) /\ a[3] \in 0..(4 * Radix - 1)
      /\ a[4] \in 0..(4 * Radix - 1) /\ a[5] \in 0..(4 * Radix - 1)
      /\ Radix \in Nat /\ Radix > 8388608
  BY SMT DEF Limbs!Limb, Sizes
<1>5. a[5] \div Radix \in 0..3 /\ a[5] % Radix \in 0..(Radix - 1)
  <2>1. a[5] < Radix * 4 /\ a[5] \in Nat BY SMT, <1>0
  <2> QED BY SMT, <2>1, <1>0, DivLess
<1>1. x1 \in 0..(5 * Radix - 1) /\ x1 \div Radix \in 0..4 /\ x1 % Radix \in 0..(Radix - 1)
  <2>1. x1 \in 0..(5 * Radix - 1) /\ x1 \in Nat /\ x1 < Radix * 5 BY SMT, <1>0, <1>5 DEF Sizes
  <2> HIDE DEF x1
  <2> QED BY SMT, <2>1, <1>0, DivLess
<1> HIDE DEF x1
<1>2. x2 \in 0..(5 * Radix - 1) /\ x2 \div Radix \in 0..4 /\ x2 % Radix \in 0..(Radix - 1)
  <2>1. x2 \in 0..(5 * Radix - 1) /\ x2 \in Nat /\ x2 < Radix * 5 BY SMT, <1>0, <1>1
  <2> HIDE DEF x2
  <2> QED BY SMT, <2>1, <1>0, DivLess
<1> HIDE DEF x2
<1>3. x3 \in 0..(5 * Radix - 1) /\ x3 \div Radix \in 0..4 /\ x3 % Radix \in 0..(Radix - 1)
  <2>1. x3 \in 0..(5 * Radix - 1) /\ x3 \in Nat /\ x3 < Radix * 5 BY SMT, <1>0, <1>2
  <2> HIDE DEF x3
  <2> QED BY SMT, <2>1, <1>0, DivLess
<1> HIDE DEF x3
<1>4. x4 \in 0..(5 * Radix - 1) /\ x4 \div Radix \in 0..4 /\ x4 % Radix \in 0..(Radix - 1)
  <2>1. x4 \in 0..(5 * Radix - 1) /\ x4 \in Nat /\ x4 < Radix * 5 BY SMT, <1>0, <1>3
  <2> HIDE DEF x4
  <2> QED BY SMT, <2>1, <1>0, DivLess
<1> HIDE DEF x4
<1>6. x5 \in 0..(Radix + 4) BY SMT, <1>0, <1>4, <1>5
<1> HIDE DEF x5
<1>7. Limbs!WeakReduce(a) = <<x1 % Radix, x2 % Radix, x3 % Radix, x4 % Radix, x5>>
  BY DEF Limbs!WeakReduce, x1, x2, x3, x4, x5
<1>8. ASSUME NEW i \in Limbs!Limb PROVE Limbs!WeakReduce(a)[i] \in 0..(Radix + Slack - 1)
  <2>1. i = 1 \/ i = 2 \/ i = 3 \/ i = 4 \/ i = 5 BY SMT DEF Limbs!Limb
  <2>2. Slack = 1024 BY SMT DEF Sizes
  <2> QED BY SMT, <2>1, <2>2, <1>0, <1>1, <1>2, <1>3, <1>4, <1>6, <1>7
<1> QED BY SMT, <1>8 DEF Limbs!Bounded

(* A pass of carries over accumulators: only the second limb may stay      *)
(* above the radix, and by less than 401.                                  *)
LEMMA CarryBounded ==
  ASSUME Sizes, NEW r, \A i \in Limbs!Limb : r[i] \in 0..(308 * (Radix * Radix)),
         r[5] <= 20 * (Radix * Radix)
  PROVE  Limbs!Bounded(Limbs!Carry(r))
<1> DEFINE K  == Radix * Radix
           x2 == r[2] + r[1] \div Radix
           x3 == r[3] + x2 \div Radix
           x4 == r[4] + x3 \div Radix
           x5 == r[5] + x4 \div Radix
           x1 == (r[1] % Radix) + Fold * (x5 \div Radix)
           top == (x2 % Radix) + x1 \div Radix
<1>0. /\ Radix \in Nat /\ Radix > 8388608
      /\ K \in Nat /\ K > 8388608 * Radix
      /\ Radix * (310 * Radix) = 310 * K /\ Radix * (21 * Radix) = 21 * K
      /\ 310 * Radix \in Nat /\ 21 * Radix \in Nat
  <2>1. Radix \in Nat /\ Radix > 8388608 BY SMT DEF Sizes
  <2>2. \A k \in Nat : Radix * (k * Radix) = k * K BY SMT, SquareOfRadix
  <2>3. Radix * (310 * Radix) = 310 * K /\ Radix * (21 * Radix) = 21 * K BY SMT, <2>2
  <2>4. 310 * Radix \in Nat /\ 21 * Radix \in Nat BY SMT, <2>1
  <2> QED BY SMT, <2>1, <2>3, <2>4, SquareOfRadix
<1>1. /\ r[1] \in 0..(308 * K) /\ r[2] \in 0..(308 * K) /\ r[3] \in 0..(308 * K)
      /\ r[4] \in 0..(308 * K) /\ r[5] \in 0..(308 * K) /\ r[5] <= 20 * K
  BY SMT DEF Limbs!Limb
<1> HIDE DEF K
<1>2. ASSUME NEW c \in 0..(309 * K)
      PROVE  c \div Radix \in 0..(310 * Radix) /\ c % Radix \in 0..(Radix - 1)
  <2>1. c \in Nat /\ c < Radix * (310 * Radix) BY SMT, <1>0
  <2>2. c \div Radix \in Nat /\ c \div Radix < 310 * Radix /\ c % Radix \in 0..(Radix - 1)
    BY SMT, <2>1, <1>0, DivLess
  <2> QED BY SMT, <2>2, <1>0
<1>3. x2 \in 0..(309 * K)
  <2>1. r[1] \div Radix \in 0..(310 * Radix)
    <3>1. r[1] \in 0..(309 * K) BY SMT, <1>0, <1>1
    <3> QED BY SMT, <1>2, <3>1
  <2> QED BY SMT, <1>0, <1>1, <2>1
<1>4. x2 \div Radix \in 0..(310 * Radix) /\ x2 % Radix \in 0..(Radix - 1)
  <2> HIDE DEF x2
  <2> QED BY SMT, <1>2, <1>3
<1> HIDE DEF x2
<1>5. x3 \in 0..(309 * K) BY SMT, <1>0, <1>1, <1>4
<1>6. x3 \div Radix \in 0..(310 * Radix) /\ x3 % Radix \in 0..(Radix - 1)
  <2> HIDE DEF x3
  <2> QED BY SMT, <1>2, <1>5
<1> HIDE DEF x3
<1>7. x4 \in 0..(309 * K) BY SMT, <1>0, <1>1, <1>6
<1>8. x4 \div Radix \in 0..(310 * Radix) /\ x4 % Radix \in 0..(Radix - 1)
  <2> HIDE DEF x4
  <2> QED BY SMT, <1>2, <1>7
<1> HIDE DEF x4
<1>9. x5 \in Nat /\ x5 < 21 * K BY SMT, <1>0, <1>1, <1>8
<1>10. x5 \div Radix \in 0..(21 * Radix) /\ x5 % Radix \in 0..(Radix - 1)
  <2> HIDE DEF x5
  <2>1. x5 < Radix * (21 * Radix) BY SMT, <1>0, <1>9
  <2>2. x5 \div Radix \in Nat /\ x5 \div Radix < 21 * Radix /\ x5 % Radix \in 0..(Radix - 1)
    BY SMT, <2>1, <1>0, <1>9, DivLess
  <2> QED BY SMT, <2>2, <1>0
<1> HIDE DEF x5
<1>11. x1 \in Nat /\ x1 < Radix * 401
  <2>1. r[1] % Radix \in 0..(Radix - 1)
    <3>1. r[1] \in 0..(309 * K) BY SMT, <1>0, <1>1
    <3> QED BY SMT, <1>2, <3>1
  <2>2. Fold = 19 BY SMT DEF Sizes
  <2> QED BY SMT, <2>1, <2>2, <1>0, <1>10
<1>12. x1 \div Radix \in 0..400 /\ x1 % Radix \in 0..(Radix - 1)
  <2> HIDE DEF x1
  <2>1. x1 \div Radix \in Nat /\ x1 \div Radix < 401 /\ x1 % Radix \in 0..(Radix - 1)
    BY SMT, <1>0, <1>11, DivLess
  <2> QED BY SMT, <2>1
<1> HIDE DEF x1
<1>13. top \in 0..(Radix + 400) BY SMT, <1>0, <1>4, <1>12
<1> HIDE DEF top
<1>14. Limbs!Carry(r) = <<x1 % Radix, top, x3 % Radix, x4 % Radix, x5 % Radix>>
  BY DEF Limbs!Carry, x1, x2, x3, x4, x5, top
<1>15. ASSUME NEW i \in Limbs!Limb PROVE Limbs!Carry(r)[i] \in 0..(Radix + Slack - 1)
  <2>1. i = 1 \/ i = 2 \/ i = 3 \/ i = 4 \/ i = 5 BY SMT DEF Limbs!Limb
  <2>2. Slack = 1024 BY SMT DEF Sizes
  <2> QED BY SMT, <2>1, <2>2, <1>0, <1>6, <1>8, <1>10, <1>12, <1>13, <1>14
<1> QED BY SMT, <1>15 DEF Limbs!Bounded

-----------------------------------------------------------------------------
(* What the accumulators of each operation can reach.                      *)
Reachable(r) == /\ \A i \in Limbs!Limb : r[i] \in 0..(308 * (Radix * Radix))
                /\ r[5] <= 20 * (Radix * Radix)

(* mul: nineteen times four products beside one, at the most.              *)
LEMMA ProductsReach ==
  ASSUME Sizes, NEW a, NEW b, Limbs!Bounded(a), Limbs!Bounded(b)
  PROVE  Reachable(Limbs!Product(a, b))
<1> DEFINE K == Radix * Radix
<1>1. K \in Nat BY SMT, SquareOfRadix
<1>2. \A i, j \in Limbs!Limb : a[i] * b[j] \in 0..(4 * K)
  BY SMT, LimbProduct DEF Limbs!Bounded
<1>3. /\ a[1]*b[1] \in 0..(4 * K) /\ a[2]*b[5] \in 0..(4 * K) /\ a[3]*b[4] \in 0..(4 * K)
      /\ a[4]*b[3] \in 0..(4 * K) /\ a[5]*b[2] \in 0..(4 * K) /\ a[1]*b[2] \in 0..(4 * K)
      /\ a[2]*b[1] \in 0..(4 * K) /\ a[3]*b[5] \in 0..(4 * K) /\ a[4]*b[4] \in 0..(4 * K)
      /\ a[5]*b[3] \in 0..(4 * K) /\ a[1]*b[3] \in 0..(4 * K) /\ a[2]*b[2] \in 0..(4 * K)
      /\ a[3]*b[1] \in 0..(4 * K) /\ a[4]*b[5] \in 0..(4 * K) /\ a[5]*b[4] \in 0..(4 * K)
      /\ a[1]*b[4] \in 0..(4 * K) /\ a[2]*b[3] \in 0..(4 * K) /\ a[3]*b[2] \in 0..(4 * K)
      /\ a[4]*b[1] \in 0..(4 * K) /\ a[5]*b[5] \in 0..(4 * K) /\ a[1]*b[5] \in 0..(4 * K)
      /\ a[2]*b[4] \in 0..(4 * K) /\ a[3]*b[3] \in 0..(4 * K) /\ a[4]*b[2] \in 0..(4 * K)
      /\ a[5]*b[1] \in 0..(4 * K)
  BY SMT, <1>2 DEF Limbs!Limb
<1> HIDE DEF K
<1>4. Fold = 19 BY SMT DEF Sizes
<1>5. Limbs!Product(a, b)[1] \in 0..(308 * K) BY SMT, <1>1, <1>3, <1>4 DEF Limbs!Product
<1>6. Limbs!Product(a, b)[2] \in 0..(308 * K) BY SMT, <1>1, <1>3, <1>4 DEF Limbs!Product
<1>7. Limbs!Product(a, b)[3] \in 0..(308 * K) BY SMT, <1>1, <1>3, <1>4 DEF Limbs!Product
<1>8. Limbs!Product(a, b)[4] \in 0..(308 * K) BY SMT, <1>1, <1>3, <1>4 DEF Limbs!Product
<1>9. Limbs!Product(a, b)[5] \in 0..(20 * K) BY SMT, <1>1, <1>3 DEF Limbs!Product
<1> QED BY SMT, <1>1, <1>5, <1>6, <1>7, <1>8, <1>9 DEF Reachable, Limbs!Limb, K

(* Sharing the cross terms changes nothing: the same accumulators.         *)
LEMMA SquaresAreProducts ==
  ASSUME Sizes, NEW a, Limbs!Bounded(a)
  PROVE  Limbs!Squares(a) = Limbs!Product(a, a)
<1>1. /\ a[1] \in Nat /\ a[2] \in Nat /\ a[3] \in Nat /\ a[4] \in Nat /\ a[5] \in Nat
      /\ Fold \in Nat
  BY SMT DEF Limbs!Bounded, Limbs!Limb, Sizes
<1>2. ASSUME NEW c \in Nat, NEW e \in Nat
      PROVE  2 * c * e = c * e + e * c
  BY SMT
<1>3. /\ 2 * a[2] * a[5] = a[2] * a[5] + a[5] * a[2]
      /\ 2 * a[3] * a[4] = a[3] * a[4] + a[4] * a[3]
      /\ 2 * a[1] * a[2] = a[1] * a[2] + a[2] * a[1]
      /\ 2 * a[3] * a[5] = a[3] * a[5] + a[5] * a[3]
      /\ 2 * a[1] * a[3] = a[1] * a[3] + a[3] * a[1]
      /\ 2 * a[4] * a[5] = a[4] * a[5] + a[5] * a[4]
      /\ 2 * a[1] * a[4] = a[1] * a[4] + a[4] * a[1]
      /\ 2 * a[2] * a[3] = a[2] * a[3] + a[3] * a[2]
      /\ 2 * a[1] * a[5] = a[1] * a[5] + a[5] * a[1]
      /\ 2 * a[2] * a[4] = a[2] * a[4] + a[4] * a[2]
  BY SMT, <1>1, <1>2
<1>4. \A i, j \in 1..5 : a[i] * a[j] \in Nat BY SMT, <1>1
<1>5. a[1]*a[1] + Fold * (2 * a[2]*a[5] + 2 * a[3]*a[4])
      = a[1]*a[1] + Fold * (a[2]*a[5] + a[3]*a[4] + a[4]*a[3] + a[5]*a[2])
  BY SMT, <1>3, <1>4, <1>1
<1>6. 2 * a[1]*a[2] + Fold * (2 * a[3]*a[5] + a[4]*a[4])
      = a[1]*a[2] + a[2]*a[1] + Fold * (a[3]*a[5] + a[4]*a[4] + a[5]*a[3])
  BY SMT, <1>3, <1>4, <1>1
<1>7. 2 * a[1]*a[3] + a[2]*a[2] + Fold * (2 * a[4]*a[5])
      = a[1]*a[3] + a[2]*a[2] + a[3]*a[1] + Fold * (a[4]*a[5] + a[5]*a[4])
  BY SMT, <1>3, <1>4, <1>1
<1>8. 2 * a[1]*a[4] + 2 * a[2]*a[3] + Fold * (a[5]*a[5])
      = a[1]*a[4] + a[2]*a[3] + a[3]*a[2] + a[4]*a[1] + Fold * (a[5]*a[5])
  BY SMT, <1>3, <1>4, <1>1
<1>9. 2 * a[1]*a[5] + 2 * a[2]*a[4] + a[3]*a[3]
      = a[1]*a[5] + a[2]*a[4] + a[3]*a[3] + a[4]*a[2] + a[5]*a[1]
  BY SMT, <1>3, <1>4, <1>1
<1> QED BY <1>5, <1>6, <1>7, <1>8, <1>9 DEF Limbs!Squares, Limbs!Product

(* mul121666: a small constant times a limb.                               *)
LEMMA ScaledReach ==
  ASSUME Sizes, NEW a, Limbs!Bounded(a)
  PROVE  Reachable(Limbs!Scaled(a))
<1>1. ASSUME NEW i \in Limbs!Limb PROVE Limbs!Scaled(a)[i] \in 0..(Radix * Radix)
  <2>1. a[i] \in 0..(Radix + 1023) BY SMT DEF Limbs!Bounded, Sizes
  <2>2. A24 = 121666 /\ Radix \in Nat /\ Radix > 8388608 BY SMT DEF Sizes
  <2>3. Radix * Radix \in Nat /\ Radix * Radix > 8388608 * Radix BY SMT, SquareOfRadix
  <2>4. Limbs!Scaled(a)[i] = A24 * a[i] BY DEF Limbs!Scaled
  <2> QED BY SMT, <2>1, <2>2, <2>3, <2>4
<1>2. Radix * Radix \in Nat BY SMT, SquareOfRadix
<1> QED BY SMT, <1>1, <1>2 DEF Reachable, Limbs!Limb

(* add: two limbs.                                                         *)
LEMMA SumsSmall ==
  ASSUME Sizes, NEW a, NEW b, Limbs!Bounded(a), Limbs!Bounded(b)
  PROVE  \A i \in Limbs!Limb : Limbs!Sum(a, b)[i] \in 0..(4 * Radix - 1)
<1>1. ASSUME NEW i \in Limbs!Limb PROVE Limbs!Sum(a, b)[i] \in 0..(4 * Radix - 1)
  <2>1. a[i] \in 0..(Radix + 1023) /\ b[i] \in 0..(Radix + 1023) BY SMT DEF Limbs!Bounded, Sizes
  <2>2. Radix \in Nat /\ Radix > 8388608 BY SMT DEF Sizes
  <2>3. Limbs!Sum(a, b)[i] = a[i] + b[i] BY DEF Limbs!Sum
  <2> QED BY SMT, <2>1, <2>2, <2>3
<1> QED BY <1>1

(* sub: 2p is above every limb that can be taken away, so nothing borrows. *)
LEMMA DifferencesSmall ==
  ASSUME Sizes, NEW a, NEW b, Limbs!Bounded(a), Limbs!Bounded(b)
  PROVE  \A i \in Limbs!Limb : Limbs!Difference(a, b)[i] \in 0..(4 * Radix - 1)
<1>1. ASSUME NEW i \in Limbs!Limb PROVE Limbs!Difference(a, b)[i] \in 0..(4 * Radix - 1)
  <2>1. a[i] \in 0..(Radix + 1023) /\ b[i] \in 0..(Radix + 1023) BY SMT DEF Limbs!Bounded, Sizes
  <2>2. Radix \in Nat /\ Radix > 8388608 BY SMT DEF Sizes
  <2>3. Limbs!Difference(a, b)[i] = a[i] + Limbs!P2(i) - b[i] BY DEF Limbs!Difference
  <2>4. Limbs!P2(i) = 2 * Radix - 38 \/ Limbs!P2(i) = 2 * Radix - 2 BY SMT, <2>2 DEF Limbs!P2, Sizes
  <2> QED BY SMT, <2>1, <2>2, <2>3, <2>4
<1> QED BY <1>1

-----------------------------------------------------------------------------
(* Every operation of the field returns bounded limbs.                     *)
LEMMA OperationsBounded ==
  ASSUME Sizes, NEW a, NEW b, Limbs!Bounded(a), Limbs!Bounded(b)
  PROVE  /\ Limbs!Bounded(Limbs!Add(a, b)) /\ Limbs!Bounded(Limbs!Sub(a, b)) /\ Limbs!Bounded(Limbs!Neg(a))
         /\ Limbs!Bounded(Limbs!Mul(a, b)) /\ Limbs!Bounded(Limbs!Square(a)) /\ Limbs!Bounded(Limbs!Mul121666(a))
<1>1. Limbs!Bounded(Limbs!Add(a, b))
  BY SumsSmall, WeakReduceBounded DEF Limbs!Add
<1>2. Limbs!Bounded(Limbs!Sub(a, b))
  BY DifferencesSmall, WeakReduceBounded DEF Limbs!Sub
<1>3. Limbs!Bounded(Limbs!Neg(a))
  <2>1. Limbs!Bounded(<<0, 0, 0, 0, 0>>) BY SMT DEF Limbs!Bounded, Limbs!Limb, Sizes
  <2>2. \A i \in Limbs!Limb : Limbs!Difference(<<0, 0, 0, 0, 0>>, a)[i] \in 0..(4 * Radix - 1)
    BY <2>1, DifferencesSmall
  <2> QED BY <2>2, WeakReduceBounded DEF Limbs!Neg, Limbs!Sub
<1>4. Limbs!Bounded(Limbs!Mul(a, b))
  <2>1. Reachable(Limbs!Product(a, b)) BY ProductsReach
  <2> QED BY <2>1, CarryBounded DEF Limbs!Mul, Reachable
<1>5. Limbs!Bounded(Limbs!Square(a))
  <2>1. Reachable(Limbs!Product(a, a)) BY ProductsReach
  <2>2. Limbs!Squares(a) = Limbs!Product(a, a) BY SquaresAreProducts
  <2> QED BY <2>1, <2>2, CarryBounded DEF Limbs!Square, Reachable
<1>6. Limbs!Bounded(Limbs!Mul121666(a))
  <2>1. Reachable(Limbs!Scaled(a)) BY ScaledReach
  <2> QED BY <2>1, CarryBounded DEF Limbs!Mul121666, Reachable
<1> QED BY <1>1, <1>2, <1>3, <1>4, <1>5, <1>6

(* from_bytes masks every limb.                                            *)
LEMMA LoadsBounded ==
  ASSUME Sizes, NEW load \in Nat
  PROVE  Limbs!Bounded(Limbs!FromBytes(load))
<1>1. ASSUME NEW c \in Nat
      PROVE  c \div Radix \in Nat /\ c % Radix \in 0..(Radix - 1)
  BY SMT DEF Sizes
<1> DEFINE n2 == load \div Radix
           n3 == n2 \div Radix
           n4 == n3 \div Radix
           n5 == n4 \div Radix
<1>2. n2 \in Nat BY <1>1
<1>3. n3 \in Nat BY <1>1, <1>2
<1>4. n4 \in Nat BY <1>1, <1>3
<1>5. n5 \in Nat BY <1>1, <1>4
<1>6. Limbs!FromBytes(load) = <<load % Radix, n2 % Radix, n3 % Radix, n4 % Radix, n5 % Radix>>
  BY DEF Limbs!FromBytes
<1> HIDE DEF n2, n3, n4, n5
<1>7. ASSUME NEW i \in Limbs!Limb PROVE Limbs!FromBytes(load)[i] \in 0..(Radix + Slack - 1)
  <2>1. i = 1 \/ i = 2 \/ i = 3 \/ i = 4 \/ i = 5 BY SMT DEF Limbs!Limb
  <2>2. Slack = 1024 /\ Radix \in Nat BY SMT DEF Sizes
  <2>3. /\ load % Radix \in 0..(Radix - 1) /\ n2 % Radix \in 0..(Radix - 1)
        /\ n3 % Radix \in 0..(Radix - 1) /\ n4 % Radix \in 0..(Radix - 1)
        /\ n5 % Radix \in 0..(Radix - 1)
    BY <1>1, <1>2, <1>3, <1>4, <1>5
  <2> QED BY SMT, <2>1, <2>2, <2>3, <1>6
<1> QED BY <1>7 DEF Limbs!Bounded

(* Limbs stay bounded whatever operations follow one another.              *)
THEOREM LimbsInvariance == ASSUME Sizes PROVE Limbs!Spec => []Limbs!IInv
<1>1. Limbs!Init => Limbs!IInv
  <2> SUFFICES ASSUME Limbs!Init PROVE Limbs!IInv OBVIOUS
  <2>1. PICK first \in Loads : s1 = Limbs!FromBytes(first) BY DEF Limbs!Init
  <2>2. PICK load \in Loads : s2 = Limbs!FromBytes(load) BY DEF Limbs!Init
  <2>3. first \in Nat /\ load \in Nat BY DEF Sizes
  <2> QED BY <2>1, <2>2, <2>3, LoadsBounded DEF Limbs!IInv
<1>2. Limbs!IInv /\ [Limbs!Next]_(Limbs!vars) => Limbs!IInv'
  <2> SUFFICES ASSUME Limbs!IInv, [Limbs!Next]_(Limbs!vars) PROVE Limbs!IInv' OBVIOUS
  <2>0. Limbs!Bounded(s1) /\ Limbs!Bounded(s2) BY DEF Limbs!IInv
  <2>a. Limbs!Bounded(s1)' <=> Limbs!Bounded(s1') BY DEF Limbs!Bounded
  <2>b. Limbs!Bounded(s2)' <=> Limbs!Bounded(s2') BY DEF Limbs!Bounded
  <2>1. CASE Limbs!DoAdd
    BY <2>0, <2>1, <2>a, <2>b, OperationsBounded DEF Limbs!DoAdd, Limbs!Into, Limbs!IInv
  <2>2. CASE Limbs!DoSub
    BY <2>0, <2>2, <2>a, <2>b, OperationsBounded DEF Limbs!DoSub, Limbs!Into, Limbs!IInv
  <2>3. CASE Limbs!DoNeg
    BY <2>0, <2>3, <2>a, <2>b, OperationsBounded DEF Limbs!DoNeg, Limbs!Into, Limbs!IInv
  <2>4. CASE Limbs!DoMul
    BY <2>0, <2>4, <2>a, <2>b, OperationsBounded DEF Limbs!DoMul, Limbs!Into, Limbs!IInv
  <2>5. CASE Limbs!DoSquare
    BY <2>0, <2>5, <2>a, <2>b, OperationsBounded DEF Limbs!DoSquare, Limbs!Into, Limbs!IInv
  <2>6. CASE Limbs!DoScale
    BY <2>0, <2>6, <2>a, <2>b, OperationsBounded DEF Limbs!DoScale, Limbs!Into, Limbs!IInv
  <2>7. CASE Limbs!DoSwap
    BY <2>0, <2>7, <2>a, <2>b DEF Limbs!DoSwap, Limbs!IInv
  <2>8. CASE Limbs!DoSelect
    BY <2>0, <2>8, <2>a, <2>b DEF Limbs!DoSelect, Limbs!Into, Limbs!IInv
  <2>9. CASE UNCHANGED Limbs!vars
    BY <2>0, <2>9, <2>a, <2>b DEF Limbs!vars, Limbs!IInv
  <2> QED
    BY <2>1, <2>2, <2>3, <2>4, <2>5, <2>6, <2>7, <2>8, <2>9 DEF Limbs!Next
<1> QED BY <1>1, <1>2, PTL DEF Limbs!Spec

(* Bounded limbs are below twice Radix.                                    *)
LEMMA SmallWhenBounded == ASSUME Sizes PROVE Limbs!IInv => Limbs!LimbsBelow2to52
<1> SUFFICES ASSUME Limbs!IInv, NEW i \in Limbs!Limb
             PROVE  s1[i] \in 0..(2 * Radix - 1) /\ s2[i] \in 0..(2 * Radix - 1)
  BY DEF Limbs!LimbsBelow2to52
<1>1. s1[i] \in 0..(Radix + 1023) /\ s2[i] \in 0..(Radix + 1023)
  BY SMT DEF Limbs!IInv, Limbs!Bounded, Sizes
<1>2. Radix \in Nat /\ Radix > 8388608 BY SMT DEF Sizes
<1> QED BY SMT, <1>1, <1>2

(* field/mod.rs:30: limbs are below 2^52 after every public operation.     *)
THEOREM LimbsStaySmall == ASSUME Sizes PROVE Limbs!Spec => []Limbs!LimbsBelow2to52
BY SmallWhenBounded, LimbsInvariance, PTL

(* The accumulators fit 128 bits, and every carry that is cut down to a    *)
(* word fits 64.                                                           *)
LEMMA ReachableFits ==
  ASSUME Sizes, NEW r, Reachable(r)
  PROVE  /\ \A i \in Limbs!Limb : /\ r[i] + LimbWord < Wide
                             /\ r[i] \div Radix + LimbWord \div Radix < LimbWord
         /\ Fold * ((r[5] + LimbWord) \div Radix) + Radix < LimbWord
<1> DEFINE K == Radix * Radix
<1>0. /\ Radix \in Nat /\ Radix > 8388608 /\ LimbWord = 8192 * Radix
      /\ K \in Nat /\ K > 8388608 * Radix
      /\ Radix * (309 * Radix) = 309 * K /\ Radix * (21 * Radix) = 21 * K
      /\ Wide = 67108864 * K
  <2>1. Radix \in Nat /\ Radix > 8388608 /\ LimbWord = 8192 * Radix BY SMT DEF Sizes
  <2>2. \A k \in Nat : Radix * (k * Radix) = k * K BY SMT, SquareOfRadix
  <2>3. Radix * (309 * Radix) = 309 * K /\ Radix * (21 * Radix) = 21 * K BY SMT, <2>2
  <2>4. Wide = (8192 * Radix) * (8192 * Radix) BY SMT DEF Sizes
  <2>5. (8192 * Radix) * (8192 * Radix) = 67108864 * K BY SMT, <2>1
  <2> QED BY SMT, <2>1, <2>3, <2>4, <2>5, SquareOfRadix
<1>1. r[5] \in 0..(20 * K) /\ \A i \in Limbs!Limb : r[i] \in 0..(308 * K)
  BY SMT DEF Reachable, Limbs!Limb
<1> HIDE DEF K
<1>2. LimbWord \div Radix = 8192
  <2>1. /\ LimbWord \div Radix \in Nat /\ LimbWord % Radix \in 0..(Radix - 1)
        /\ LimbWord = Radix * (LimbWord \div Radix) + (LimbWord % Radix)
    BY SMT, <1>0
  <2>2. LimbWord < Radix * 8193 /\ LimbWord \in Nat BY SMT, <1>0
  <2>3. LimbWord \div Radix < 8193 BY SMT, <2>2, <1>0, DivLess
  <2>4. CASE LimbWord \div Radix < 8192
    <3> DEFINE quotient == LimbWord \div Radix
    <3>1. quotient + 1 <= 8192 /\ quotient \in Nat BY SMT, <2>1, <2>4
    <3> HIDE DEF quotient
    <3>2. Radix * (quotient + 1) <= Radix * 8192 BY SMT, <3>1, <1>0
    <3>3. Radix * (quotient + 1) = Radix * quotient + Radix BY SMT, <3>1, <1>0
    <3>4. Radix * quotient \in Nat BY SMT, <2>1, <1>0 DEF quotient
    <3>5. LimbWord = Radix * quotient + (LimbWord % Radix) BY SMT, <2>1 DEF quotient
    <3> QED BY SMT, <3>2, <3>3, <3>4, <3>5, <2>1, <1>0
  <2> QED BY SMT, <2>1, <2>3, <2>4
<1>3. ASSUME NEW i \in Limbs!Limb
      PROVE  r[i] + LimbWord < Wide /\ r[i] \div Radix + LimbWord \div Radix < LimbWord
  <2>1. r[i] \in Nat /\ r[i] <= 308 * K BY SMT, <1>0, <1>1
  <2>2. r[i] < Radix * (309 * Radix) /\ 309 * Radix \in Nat BY SMT, <2>1, <1>0
  <2>3. r[i] \div Radix \in Nat /\ r[i] \div Radix < 309 * Radix
    BY SMT, <2>1, <2>2, <1>0, DivLess
  <2>4. r[i] + LimbWord < Wide BY SMT, <2>1, <1>0
  <2> QED BY SMT, <2>3, <2>4, <1>0, <1>2
<1>4. Fold * ((r[5] + LimbWord) \div Radix) + Radix < LimbWord
  <2>1. r[5] + LimbWord \in Nat /\ r[5] + LimbWord < Radix * (21 * Radix) /\ 21 * Radix \in Nat
    BY SMT, <1>0, <1>1
  <2>2. (r[5] + LimbWord) \div Radix \in Nat /\ (r[5] + LimbWord) \div Radix < 21 * Radix
    BY SMT, <2>1, <1>0, DivLess
  <2>3. Fold = 19 BY SMT DEF Sizes
  <2> QED BY SMT, <2>2, <2>3, <1>0
<1> QED BY <1>3, <1>4

(* What bounded limbs lead to fits the machine's words.                    *)
LEMMA FitsWhenBounded == ASSUME Sizes PROVE Limbs!IInv => Limbs!FitsMachine
<1> SUFFICES ASSUME Limbs!IInv PROVE Limbs!FitsMachine OBVIOUS
<1>0. Limbs!Bounded(s1) /\ Limbs!Bounded(s2) BY DEF Limbs!IInv
<1>1. Reachable(Limbs!Product(s1, s2)) /\ Reachable(Limbs!Scaled(s1)) BY <1>0, ProductsReach, ScaledReach
<1>2. Reachable(Limbs!Squares(s1)) BY <1>0, ProductsReach, SquaresAreProducts
<1>3. ASSUME NEW i \in Limbs!Limb
      PROVE  /\ Limbs!Sum(s1, s2)[i] + 4 * Fold < LimbWord
             /\ Limbs!Difference(s1, s2)[i] \in 0..(LimbWord - 4 * Fold - 1)
  <2>1. Limbs!Sum(s1, s2)[i] \in 0..(4 * Radix - 1) BY <1>0, SumsSmall
  <2>2. Limbs!Difference(s1, s2)[i] \in 0..(4 * Radix - 1) BY <1>0, DifferencesSmall
  <2>3. Radix \in Nat /\ Radix > 8388608 /\ LimbWord = 8192 * Radix /\ Fold = 19
    BY SMT DEF Sizes
  <2> QED BY SMT, <2>1, <2>2, <2>3
<1>4. \A r \in {Limbs!Product(s1, s2), Limbs!Squares(s1), Limbs!Scaled(s1)} : Reachable(r)
  BY <1>1, <1>2
<1>5. ASSUME NEW r \in {Limbs!Product(s1, s2), Limbs!Squares(s1), Limbs!Scaled(s1)}
      PROVE  /\ \A i \in Limbs!Limb : /\ r[i] + LimbWord < Wide
                                 /\ r[i] \div Radix + LimbWord \div Radix < LimbWord
             /\ Fold * ((r[5] + LimbWord) \div Radix) + Radix < LimbWord
  BY <1>4, ReachableFits
<1> QED BY <1>3, <1>5 DEF Limbs!FitsMachine

(* field/mod.rs:106: no sum, difference, accumulator or carry of the next  *)
(* operation leaves its word.                                              *)
THEOREM NothingOverflows == ASSUME Sizes PROVE Limbs!Spec => []Limbs!FitsMachine
BY FitsWhenBounded, LimbsInvariance, PTL

-----------------------------------------------------------------------------
(* Remainders: a number is its quotient and its remainder.                 *)
LEMMA QuotientIs ==
  ASSUME NEW a \in Int, NEW d \in Nat, d > 0
  PROVE  a \div d \in Int /\ a % d \in 0..(d - 1) /\ a = d * (a \div d) + (a % d)
OBVIOUS

(* Numbers apart by a multiple of d leave the same remainder.              *)
LEMMA RemainderUnique ==
  ASSUME NEW a \in Int, NEW b \in Int, NEW k \in Int, NEW d \in Nat, d > 0,
         a = b + d * k, 0 <= b, b < d
  PROVE  a % d = b
OBVIOUS

(* Numbers below d that differ by a multiple of d are equal.               *)
LEMMA NoMultipleBetween ==
  ASSUME NEW a \in Nat, NEW b \in Nat, NEW k \in Int, NEW d \in Nat,
         a < d, b < d, a - b = d * k
  PROVE  a = b
<1>1. d > 0 OBVIOUS
<1>2. CASE k >= 1
  <2>1. d * k >= d * 1 BY <1>2
  <2> QED BY <2>1
<1>3. CASE k <= -1
  <2>1. d * k <= d * (-1) BY <1>3
  <2> QED BY <2>1
<1>4. CASE k = 0
  BY <1>4
<1> QED BY <1>2, <1>3, <1>4

-----------------------------------------------------------------------------
(* The number that five digits stand for, and numbers that stand for the   *)
(* same one modulo p.                                                      *)
Digits(d1, d2, d3, d4, d5) == d1 + Radix * (d2 + Radix * (d3 + Radix * (d4 + Radix * d5)))
SameModP(x, y) == \E k \in Int : x = y + Limbs!P * k

(* A carry moves up without changing the number.                           *)
LEMMA CarryUp ==
  ASSUME NEW r \in Int, NEW o \in Int, NEW c \in Int, NEW t \in Int, NEW x \in Int,
         x = o + r * c
  PROVE  o + r * (t + c) = x + r * t
<1>1. r * (t + c) = r * t + r * c /\ r * t \in Int /\ r * c \in Int OBVIOUS
<1> QED BY <1>1

(* What is carried out of the top digit weighs as much as all five digits. *)
LEMMA LiftTop ==
  ASSUME NEW r \in Int, NEW a \in Int, NEW y \in Int, NEW e \in Int, NEW c \in Int
  PROVE  a + r * (y + e * c) = (a + r * y) + (e * r) * c
<1>1. r * (y + e * c) = r * y + r * (e * c) /\ r * y \in Int /\ r * (e * c) \in Int
      /\ (e * r) * c = r * (e * c)
  OBVIOUS
<1> QED BY <1>1

(* Four carries on the way up.                                             *)
CarriesKeep(x1, a2, a3, a4, e, o1, o2, o3, o4, c1, c2, c3, c4) ==
  /\ x1 = o1 + Radix * c1 /\ a2 + c1 = o2 + Radix * c2
  /\ a3 + c2 = o3 + Radix * c3 /\ a4 + c3 = o4 + Radix * c4
  => Digits(o1, o2, o3, o4, e + c4) = Digits(x1, a2, a3, a4, e)

(* They keep the number.                                                   *)
LEMMA Carried ==
  ASSUME Radix \in Int,
         NEW x1 \in Int, NEW a2 \in Int, NEW a3 \in Int, NEW a4 \in Int, NEW e \in Int,
         NEW o1 \in Int, NEW o2 \in Int, NEW o3 \in Int, NEW o4 \in Int,
         NEW c1 \in Int, NEW c2 \in Int, NEW c3 \in Int, NEW c4 \in Int
  PROVE  CarriesKeep(x1, a2, a3, a4, e, o1, o2, o3, o4, c1, c2, c3, c4)
<1> SUFFICES ASSUME x1 = o1 + Radix * c1, a2 + c1 = o2 + Radix * c2,
                    a3 + c2 = o3 + Radix * c3, a4 + c3 = o4 + Radix * c4
             PROVE  Digits(o1, o2, o3, o4, e + c4) = Digits(x1, a2, a3, a4, e)
  BY Zenon DEF CarriesKeep
<1> DEFINE y4 == a4 + Radix * e
           y3 == a3 + Radix * y4
           y2 == a2 + Radix * y3
<1>0. /\ Radix * e \in Int /\ a4 + c3 \in Int /\ a3 + c2 \in Int /\ a2 + c1 \in Int /\ y4 \in Int
  OBVIOUS
<1>1. o4 + Radix * (e + c4) = y4 + c3
  <2>1. o4 + Radix * (e + c4) = (a4 + c3) + Radix * e BY <1>0, CarryUp
  <2> QED BY <1>0, <2>1
<1>2. o3 + Radix * (y4 + c3) = y3 + c2 /\ y3 \in Int
  <2> HIDE DEF y4
  <2>1. o3 + Radix * (y4 + c3) = (a3 + c2) + Radix * y4 BY <1>0, CarryUp
  <2>2. Radix * y4 \in Int BY <1>0
  <2> QED BY <1>0, <2>1, <2>2
<1>3. o2 + Radix * (y3 + c2) = y2 + c1 /\ y2 \in Int
  <2> HIDE DEF y3
  <2>1. o2 + Radix * (y3 + c2) = (a2 + c1) + Radix * y3 BY <1>0, <1>2, CarryUp
  <2>2. Radix * y3 \in Int BY <1>2
  <2> QED BY <1>0, <1>2, <2>1, <2>2
<1>4. o1 + Radix * (y2 + c1) = x1 + Radix * y2
  <2> HIDE DEF y2
  <2> QED BY <1>3, CarryUp
<1>5. Digits(x1, a2, a3, a4, e) = x1 + Radix * y2 BY Zenon DEF Digits
<1>6. Digits(o1, o2, o3, o4, e + c4) = o1 + Radix * (o2 + Radix * (o3 + Radix * (o4 + Radix * (e + c4))))
  BY Zenon DEF Digits
<1> HIDE DEF y2, y3, y4
<1> QED BY Zenon, <1>1, <1>2, <1>3, <1>4, <1>5, <1>6

(* One more in the first digit; one more in the second is Radix more in it;*)
(* Radix more in the last is the whole more.                               *)
Moves(d1, d2, d3, d4, d5, d) ==
  /\ Digits(d1, d2, d3, d4, d5) \in Int
  /\ Digits(d1 + d, d2, d3, d4, d5) = Digits(d1, d2, d3, d4, d5) + d
  /\ Digits(d1, d2 + d, d3, d4, d5) = Digits(d1 + Radix * d, d2, d3, d4, d5)
  /\ Digits(d1, d2, d3, d4, d5 + Radix * d) = Digits(d1, d2, d3, d4, d5) + Limbs!Radix5 * d

(* These are what moving a digit changes.                                  *)
LEMMA DigitsMove ==
  ASSUME Radix \in Int, NEW d1 \in Int, NEW d2 \in Int, NEW d3 \in Int, NEW d4 \in Int,
         NEW d5 \in Int, NEW d \in Int
  PROVE  Moves(d1, d2, d3, d4, d5, d)
<1> DEFINE y5 == d4 + Radix * d5
           y4 == d3 + Radix * y5
           y3 == d2 + Radix * y4
           z2 == Radix * Radix
           z3 == z2 * Radix
           z4 == z3 * Radix
           z5 == z4 * Radix
<1>1. y5 \in Int OBVIOUS
<1>2. y4 \in Int
  <2> HIDE DEF y5
  <2> QED BY <1>1
<1>3. y3 \in Int
  <2> HIDE DEF y4
  <2> QED BY <1>2
<1>4. Radix * y3 \in Int
  <2> HIDE DEF y3
  <2> QED BY <1>3
<1>5. Digits(d1, d2, d3, d4, d5) = d1 + Radix * y3
      /\ Digits(d1 + d, d2, d3, d4, d5) = (d1 + d) + Radix * y3
      /\ Digits(d1 + Radix * d, d2, d3, d4, d5) = (d1 + Radix * d) + Radix * y3
      /\ Digits(d1, d2 + d, d3, d4, d5) = d1 + Radix * ((d2 + d) + Radix * y4)
      /\ Digits(d1, d2, d3, d4, d5 + Radix * d)
           = d1 + Radix * (d2 + Radix * (d3 + Radix * (d4 + Radix * (d5 + Radix * d))))
  BY Zenon DEF Digits
<1>6. (d2 + d) + Radix * y4 = y3 + d /\ Radix * (y3 + d) = Radix * y3 + Radix * d /\ Radix * d \in Int
  <2>1. Radix * y4 \in Int
    <3> HIDE DEF y4
    <3> QED BY <1>2
  <2>2. (d2 + d) + Radix * y4 = y3 + d BY <2>1
  <2> HIDE DEF y3, y4
  <2> QED BY <1>3, <2>2
<1>7. z2 \in Int OBVIOUS
<1>8. z3 \in Int
  <2> HIDE DEF z2
  <2> QED BY <1>7
<1>9. z4 \in Int
  <2> HIDE DEF z3
  <2> QED BY <1>8
<1>10. d4 + Radix * (d5 + Radix * d) = y5 + z2 * d BY LiftTop
<1>11. d3 + Radix * (y5 + z2 * d) = y4 + z3 * d
  <2> HIDE DEF y5, z2
  <2> QED BY <1>1, <1>7, LiftTop
<1>12. d2 + Radix * (y4 + z3 * d) = y3 + z4 * d
  <2> HIDE DEF y4, z3
  <2> QED BY <1>2, <1>8, LiftTop
<1>13. d1 + Radix * (y3 + z4 * d) = (d1 + Radix * y3) + z5 * d
  <2> HIDE DEF y3, z4
  <2> QED BY <1>3, <1>9, LiftTop
<1>14. z5 = Limbs!Radix5 BY Zenon DEF Limbs!Radix5
<1>15. Digits(d1, d2, d3, d4, d5 + Radix * d) = Digits(d1, d2, d3, d4, d5) + Limbs!Radix5 * d
  <2> HIDE DEF y3, y4, y5, z2, z3, z4, z5
  <2> QED BY Zenon, <1>5, <1>10, <1>11, <1>12, <1>13, <1>14
<1> HIDE DEF y3, y4, y5
<1>16. /\ Digits(d1, d2, d3, d4, d5) \in Int
       /\ Digits(d1 + d, d2, d3, d4, d5) = Digits(d1, d2, d3, d4, d5) + d
       /\ Digits(d1, d2 + d, d3, d4, d5) = Digits(d1 + Radix * d, d2, d3, d4, d5)
  BY <1>4, <1>5, <1>6
<1> QED BY <1>15, <1>16, Zenon DEF Moves

(* Digits spell an integer.                                                *)
LEMMA DigitsInt ==
  ASSUME Radix \in Int, NEW d1 \in Int, NEW d2 \in Int, NEW d3 \in Int, NEW d4 \in Int,
         NEW d5 \in Int
  PROVE  Digits(d1, d2, d3, d4, d5) \in Int
<1>1. Moves(d1, d2, d3, d4, d5, d1) BY DigitsMove
<1> QED BY <1>1, Zenon DEF Moves

(* p is what it is in terms of the fifth power of Radix.                   *)
LEMMA ModulusIs ==
  ASSUME Sizes
  PROVE  /\ Radix \in Nat /\ Radix > 8388608 /\ Fold = 19
         /\ Limbs!Radix5 \in Nat /\ Limbs!P \in Nat /\ Limbs!P + Fold = Limbs!Radix5
         /\ \E e \in Nat : /\ e = Radix * Radix * Radix * Radix /\ e > 8388608
                           /\ Limbs!Radix5 = e * Radix /\ Limbs!Radix5 > 8388608 * e
         /\ Limbs!P > 8388608
<1> DEFINE z2 == Radix * Radix
           z3 == z2 * Radix
           z4 == z3 * Radix
           z5 == z4 * Radix
<1>1. Radix \in Nat /\ Radix > 8388608 /\ Fold = 19 BY SMT DEF Sizes
<1>2. ASSUME NEW x \in Nat, x >= 1 PROVE x * Radix \in Nat /\ x * Radix > 8388608 * x
  <2>1. x * Radix >= x * 8388609 BY SMT, <1>1, <1>2
  <2>2. x * Radix \in Nat BY SMT, <1>1
  <2> QED BY SMT, <1>2, <2>1, <2>2
<1>3. z2 \in Nat /\ z2 >= 1 BY SMT, <1>1, <1>2
<1> HIDE DEF z2
<1>4. z3 \in Nat /\ z3 >= 1 BY SMT, <1>3, <1>2
<1> HIDE DEF z3
<1>5. z4 \in Nat /\ z4 > 8388608 BY SMT, <1>4, <1>2
<1> HIDE DEF z4
<1>6. z5 \in Nat /\ z5 > 8388608 * z4 BY SMT, <1>5, <1>2
<1>7. z4 = Radix * Radix * Radix * Radix BY Zenon DEF z2, z3, z4
<1>8. Limbs!Radix5 = z4 * Radix BY <1>7, Zenon DEF Limbs!Radix5
<1> HIDE DEF z5
<1>9. Limbs!Radix5 = z5 BY <1>8, Zenon DEF z5
<1>10. Limbs!P = z5 - Fold BY <1>9, Zenon DEF Limbs!P
<1> QED BY SMT, <1>1, <1>5, <1>6, <1>7, <1>8, <1>9, <1>10

(* Being the same modulo p.                                                *)
LEMMA SameModPIs ==
  ASSUME Sizes
  PROVE  /\ \A x \in Int : SameModP(x, x)
         /\ \A x, y \in Int : SameModP(x, y) => SameModP(y, x)
         /\ \A x, y, z \in Int : SameModP(x, y) /\ SameModP(y, z) => SameModP(x, z)
         /\ \A x, y, z \in Int : SameModP(x, y) => SameModP(x + z, y + z)
         /\ \A x, y, z \in Int : SameModP(x, y) => SameModP(z * x, z * y)
<1>0. Limbs!P \in Nat BY ModulusIs
<1> DEFINE r == Limbs!P
<1> HIDE DEF r
<1>1. \A x, y : SameModP(x, y) <=> \E k \in Int : x = y + r * k
  BY DEF SameModP, r
<1>2. r \in Nat BY <1>0 DEF r
<1>3. ASSUME NEW x \in Int PROVE SameModP(x, x)
  <2>1. x = x + r * 0 BY <1>2
  <2> QED BY <1>1, <2>1
<1>4. ASSUME NEW x \in Int, NEW y \in Int, SameModP(x, y) PROVE SameModP(y, x)
  <2>1. PICK k \in Int : x = y + r * k BY <1>1, <1>4
  <2>2. r * (-k) = -(r * k) /\ r * k \in Int BY <1>2
  <2>3. y = x + r * (-k) /\ -k \in Int BY <1>2, <2>1, <2>2
  <2> QED BY <1>1, <2>3
<1>5. ASSUME NEW x \in Int, NEW y \in Int, NEW z \in Int, SameModP(x, y), SameModP(y, z)
      PROVE  SameModP(x, z)
  <2>1. PICK k \in Int : x = y + r * k BY <1>1, <1>5
  <2>2. PICK j \in Int : y = z + r * j BY <1>1, <1>5
  <2>3. r * (k + j) = r * k + r * j /\ r * k \in Int /\ r * j \in Int BY <1>2
  <2>4. x = z + r * (k + j) /\ k + j \in Int BY <2>1, <2>2, <2>3
  <2> QED BY <1>1, <2>4
<1>6. ASSUME NEW x \in Int, NEW y \in Int, NEW z \in Int, SameModP(x, y)
      PROVE  SameModP(x + z, y + z)
  <2>1. PICK k \in Int : x = y + r * k BY <1>1, <1>6
  <2>2. r * k \in Int BY <1>2
  <2>3. x + z = (y + z) + r * k BY <2>1, <2>2
  <2> QED BY <1>1, <2>3
<1>7. ASSUME NEW x \in Int, NEW y \in Int, NEW z \in Int, SameModP(x, y)
      PROVE  SameModP(z * x, z * y)
  <2>1. PICK k \in Int : x = y + r * k BY <1>1, <1>7
  <2>2. r * k \in Int /\ z * k \in Int BY <1>2
  <2>3. z * (y + r * k) = z * y + z * (r * k) BY <2>2
  <2>4. z * (r * k) = r * (z * k) BY <1>2
  <2> QED BY <1>1, <2>1, <2>2, <2>3, <2>4
<1> QED BY <1>3, <1>4, <1>5, <1>6, <1>7

(* Numbers that are the same modulo p have one remainder.                  *)
LEMMA SameRemainder ==
  ASSUME Sizes, NEW x \in Int, NEW y \in Int, SameModP(x, y), 0 <= y, y < Limbs!P
  PROVE  x % Limbs!P = y
<1>1. PICK k \in Int : x = y + Limbs!P * k BY DEF SameModP
<1>2. Limbs!P \in Nat /\ Limbs!P > 0 BY ModulusIs
<1> QED BY <1>1, <1>2, RemainderUnique

(* And a number is the same as its remainder.                              *)
LEMMA RemainderSame ==
  ASSUME Sizes, NEW x \in Int
  PROVE  x % Limbs!P \in 0..(Limbs!P - 1) /\ SameModP(x % Limbs!P, x)
<1> DEFINE r == Limbs!P
           e == x % r
           h == x \div r
<1>1. r \in Nat /\ r > 0 BY ModulusIs
<1> HIDE DEF r
<1>2. h \in Int /\ e \in 0..(r - 1) /\ x = r * h + e BY <1>1, QuotientIs
<1> HIDE DEF h, e
<1>3. r * h \in Int /\ r * (-h) = -(r * h) BY <1>1, <1>2
<1>4. e = x + r * (-h) /\ -h \in Int BY <1>2, <1>3
<1>5. SameModP(e, x) BY <1>4 DEF SameModP, r
<1> QED BY <1>2, <1>5 DEF e, r

-----------------------------------------------------------------------------
(* The limbs of a vector.                                                  *)
Naturals(a) == a[1] \in Nat /\ a[2] \in Nat /\ a[3] \in Nat /\ a[4] \in Nat /\ a[5] \in Nat

(* Spells gives the number of the five limbs.                              *)
LEMMA SpellsDigits ==
  ASSUME NEW a
  PROVE  Limbs!Spells(a) = Digits(a[1], a[2], a[3], a[4], a[5])
BY Zenon DEF Limbs!Spells, Digits

(* Bounded limbs are natural numbers and spell an integer.                 *)
LEMMA BoundedNaturals ==
  ASSUME Sizes, NEW a, Limbs!Bounded(a)
  PROVE  Naturals(a) /\ Limbs!Spells(a) \in Int
<1>1. Naturals(a) BY SMT DEF Limbs!Bounded, Limbs!Limb, Sizes, Naturals
<1>2. Radix \in Int BY SMT DEF Sizes
<1>3. Digits(a[1], a[2], a[3], a[4], a[5]) \in Int
  <2> DEFINE a1 == a[1]
             a2 == a[2]
             a3 == a[3]
             a4 == a[4]
             a5 == a[5]
  <2>1. a1 \in Int /\ a2 \in Int /\ a3 \in Int /\ a4 \in Int /\ a5 \in Int
    BY <1>1 DEF Naturals
  <2> HIDE DEF a1, a2, a3, a4, a5
  <2>3. Digits(a1, a2, a3, a4, a5) \in Int BY <1>2, <2>1, DigitsInt
  <2> QED BY <2>3 DEF a1, a2, a3, a4, a5
<1> QED BY <1>1, <1>3, SpellsDigits

(* A pass of carries keeps the number: what leaves the top comes back      *)
(* folded.                                                                 *)
LEMMA WeakReduceKeeps ==
  ASSUME Sizes, NEW a, Naturals(a)
  PROVE  /\ Limbs!Spells(a) \in Int /\ Limbs!Spells(Limbs!WeakReduce(a)) \in Int
         /\ SameModP(Limbs!Spells(a), Limbs!Spells(Limbs!WeakReduce(a)))
<1> DEFINE a1 == a[1]
           a2 == a[2]
           a3 == a[3]
           a4 == a[4]
           a5 == a[5]
           c5 == a5 \div Radix
           e5 == a5 % Radix
           x1 == a1 + Fold * c5
           c1 == x1 \div Radix
           o1 == x1 % Radix
           x2 == a2 + c1
           c2 == x2 \div Radix
           o2 == x2 % Radix
           x3 == a3 + c2
           c3 == x3 \div Radix
           o3 == x3 % Radix
           x4 == a4 + c3
           c4 == x4 \div Radix
           o4 == x4 % Radix
           spelt == Digits(a1, a2, a3, a4, e5)
<1>0. Limbs!WeakReduce(a) = <<o1, o2, o3, o4, e5 + c4>>
  BY Zenon DEF Limbs!WeakReduce
<1>1. a1 \in Nat /\ a2 \in Nat /\ a3 \in Nat /\ a4 \in Nat /\ a5 \in Nat
  BY DEF Naturals
<1>2. Radix \in Nat /\ Radix > 0 /\ Fold = 19 BY ModulusIs
<1>3. Limbs!Spells(a) = Digits(a1, a2, a3, a4, a5) BY SpellsDigits
<1> HIDE DEF a1, a2, a3, a4, a5
<1>4. c5 \in Nat /\ e5 \in Nat /\ a5 = e5 + Radix * c5
  BY <1>1, <1>2, DivMod
<1> HIDE DEF c5, e5
<1>5. x1 \in Nat BY <1>1, <1>2, <1>4
<1>6. c1 \in Nat /\ o1 \in Nat /\ x1 = o1 + Radix * c1
  <2> HIDE DEF x1
  <2> QED BY <1>5, <1>2, DivMod
<1> HIDE DEF c1, o1
<1>7. c2 \in Nat /\ o2 \in Nat /\ a2 + c1 = o2 + Radix * c2
  <2>1. x2 \in Nat BY <1>1, <1>6
  <2> HIDE DEF x2
  <2>2. c2 \in Nat /\ o2 \in Nat /\ x2 = o2 + Radix * c2 BY <2>1, <1>2, DivMod
  <2> QED BY <2>2 DEF x2
<1> HIDE DEF c2, o2
<1>8. c3 \in Nat /\ o3 \in Nat /\ a3 + c2 = o3 + Radix * c3
  <2>1. x3 \in Nat BY <1>1, <1>7
  <2> HIDE DEF x3
  <2>2. c3 \in Nat /\ o3 \in Nat /\ x3 = o3 + Radix * c3 BY <2>1, <1>2, DivMod
  <2> QED BY <2>2 DEF x3
<1> HIDE DEF c3, o3
<1>9. c4 \in Nat /\ o4 \in Nat /\ a4 + c3 = o4 + Radix * c4
  <2>1. x4 \in Nat BY <1>1, <1>8
  <2> HIDE DEF x4
  <2>2. c4 \in Nat /\ o4 \in Nat /\ x4 = o4 + Radix * c4 BY <2>1, <1>2, DivMod
  <2> QED BY <2>2 DEF x4
<1> HIDE DEF c4, o4, x1
<1>10. Digits(o1, o2, o3, o4, e5 + c4) = Digits(x1, a2, a3, a4, e5)
  <2>1. /\ Radix \in Int /\ x1 \in Int /\ a2 \in Int /\ a3 \in Int /\ a4 \in Int /\ e5 \in Int
        /\ o1 \in Int /\ o2 \in Int /\ o3 \in Int /\ o4 \in Int
        /\ c1 \in Int /\ c2 \in Int /\ c3 \in Int /\ c4 \in Int
    BY <1>1, <1>2, <1>4, <1>5, <1>6, <1>7, <1>8, <1>9
  <2>2. CarriesKeep(x1, a2, a3, a4, e5, o1, o2, o3, o4, c1, c2, c3, c4)
    BY <2>1, Carried
  <2> QED BY <2>2, <1>6, <1>7, <1>8, <1>9, Zenon DEF CarriesKeep
<1>11. /\ spelt \in Int
       /\ Digits(x1, a2, a3, a4, e5) = spelt + Fold * c5
       /\ Digits(a1, a2, a3, a4, a5) = spelt + Limbs!Radix5 * c5
  <2>1. /\ Fold * c5 \in Int /\ Radix \in Int /\ a1 \in Int /\ a2 \in Int /\ a3 \in Int
        /\ a4 \in Int /\ e5 \in Int /\ c5 \in Int
    BY <1>1, <1>2, <1>4
  <2>2. spelt \in Int /\ Digits(a1 + Fold * c5, a2, a3, a4, e5) = spelt + Fold * c5
    <3> DEFINE d == Fold * c5
    <3> HIDE DEF d
    <3>1. Moves(a1, a2, a3, a4, e5, d) BY <2>1, DigitsMove DEF d
    <3> QED BY <3>1, Zenon DEF Moves, d
  <2>3. Digits(a1, a2, a3, a4, e5 + Radix * c5) = spelt + Limbs!Radix5 * c5
    <3>1. Moves(a1, a2, a3, a4, e5, c5) BY <2>1, DigitsMove
    <3> QED BY <3>1, Zenon DEF Moves
  <2> HIDE DEF spelt
  <2> QED BY <1>4, <2>2, <2>3 DEF x1
<1>12. Limbs!Spells(Limbs!WeakReduce(a)) = Digits(o1, o2, o3, o4, e5 + c4)
  <2> DEFINE t == Limbs!WeakReduce(a)
             o5 == e5 + c4
  <2>1. t = <<o1, o2, o3, o4, o5>> BY <1>0
  <2>2. Limbs!Spells(t) = Digits(t[1], t[2], t[3], t[4], t[5]) BY SpellsDigits
  <2> HIDE DEF t, o5
  <2>3. t[1] = o1 /\ t[2] = o2 /\ t[3] = o3 /\ t[4] = o4 /\ t[5] = o5 BY <2>1
  <2> QED BY <2>2, <2>3, Zenon DEF t, o5
<1> HIDE DEF spelt
<1>13. Limbs!P \in Nat /\ Limbs!Radix5 = Limbs!P + Fold BY ModulusIs
<1>14. Limbs!Radix5 * c5 = Limbs!P * c5 + Fold * c5 /\ Limbs!P * c5 \in Int /\ Fold * c5 \in Int
  BY <1>13, <1>2, <1>4
<1>15. Limbs!Spells(a) = Limbs!Spells(Limbs!WeakReduce(a)) + Limbs!P * c5
       /\ Limbs!Spells(a) \in Int /\ Limbs!Spells(Limbs!WeakReduce(a)) \in Int
  BY <1>3, <1>10, <1>11, <1>12, <1>14
<1> QED BY <1>15, <1>4 DEF SameModP

(* So do the carries out of the accumulators of a product.                 *)
LEMMA CarryKeeps ==
  ASSUME Sizes, NEW r, Naturals(r)
  PROVE  /\ Limbs!Spells(r) \in Int /\ Limbs!Spells(Limbs!Carry(r)) \in Int
         /\ SameModP(Limbs!Spells(r), Limbs!Spells(Limbs!Carry(r)))
<1> DEFINE r1 == r[1]
           r2 == r[2]
           r3 == r[3]
           r4 == r[4]
           r5 == r[5]
           c1 == r1 \div Radix
           o1 == r1 % Radix
           x2 == r2 + c1
           c2 == x2 \div Radix
           o2 == x2 % Radix
           x3 == r3 + c2
           c3 == x3 \div Radix
           o3 == x3 % Radix
           x4 == r4 + c3
           c4 == x4 \div Radix
           o4 == x4 % Radix
           x5 == r5 + c4
           c5 == x5 \div Radix
           o5 == x5 % Radix
           x1 == o1 + Fold * c5
           d  == x1 \div Radix
           e1 == x1 % Radix
           spelt == Digits(o1, o2, o3, o4, o5)
<1>0. Limbs!Carry(r) = <<e1, o2 + d, o3, o4, o5>>
  BY Zenon DEF Limbs!Carry
<1>1. r1 \in Nat /\ r2 \in Nat /\ r3 \in Nat /\ r4 \in Nat /\ r5 \in Nat
  BY DEF Naturals
<1>2. Radix \in Nat /\ Radix > 0 /\ Fold = 19 BY ModulusIs
<1>3. Limbs!Spells(r) = Digits(r1, r2, r3, r4, r5) BY SpellsDigits
<1> HIDE DEF r1, r2, r3, r4, r5
<1>4. c1 \in Nat /\ o1 \in Nat /\ r1 = o1 + Radix * c1
  BY <1>1, <1>2, DivMod
<1> HIDE DEF c1, o1
<1>5. c2 \in Nat /\ o2 \in Nat /\ r2 + c1 = o2 + Radix * c2
  <2>1. x2 \in Nat BY <1>1, <1>4
  <2> HIDE DEF x2
  <2>2. c2 \in Nat /\ o2 \in Nat /\ x2 = o2 + Radix * c2 BY <2>1, <1>2, DivMod
  <2> QED BY <2>2 DEF x2
<1> HIDE DEF c2, o2
<1>6. c3 \in Nat /\ o3 \in Nat /\ r3 + c2 = o3 + Radix * c3
  <2>1. x3 \in Nat BY <1>1, <1>5
  <2> HIDE DEF x3
  <2>2. c3 \in Nat /\ o3 \in Nat /\ x3 = o3 + Radix * c3 BY <2>1, <1>2, DivMod
  <2> QED BY <2>2 DEF x3
<1> HIDE DEF c3, o3
<1>7. c4 \in Nat /\ o4 \in Nat /\ r4 + c3 = o4 + Radix * c4
  <2>1. x4 \in Nat BY <1>1, <1>6
  <2> HIDE DEF x4
  <2>2. c4 \in Nat /\ o4 \in Nat /\ x4 = o4 + Radix * c4 BY <2>1, <1>2, DivMod
  <2> QED BY <2>2 DEF x4
<1> HIDE DEF c4, o4
<1>8. c5 \in Nat /\ o5 \in Nat /\ r5 + c4 = o5 + Radix * c5
  <2>1. x5 \in Nat BY <1>1, <1>7
  <2> HIDE DEF x5
  <2>2. c5 \in Nat /\ o5 \in Nat /\ x5 = o5 + Radix * c5 BY <2>1, <1>2, DivMod
  <2> QED BY <2>2 DEF x5
<1> HIDE DEF c5, o5
<1>9. d \in Nat /\ e1 \in Nat /\ o1 + Fold * c5 = e1 + Radix * d
  <2>1. x1 \in Nat BY <1>2, <1>4, <1>8
  <2> HIDE DEF x1
  <2>2. d \in Nat /\ e1 \in Nat /\ x1 = e1 + Radix * d BY <2>1, <1>2, DivMod
  <2> QED BY <2>2 DEF x1
<1> HIDE DEF d, e1
<1>10. Digits(o1, o2, o3, o4, r5 + c4) = Digits(r1, r2, r3, r4, r5)
  <2>1. /\ Radix \in Int /\ r1 \in Int /\ r2 \in Int /\ r3 \in Int /\ r4 \in Int /\ r5 \in Int
        /\ o1 \in Int /\ o2 \in Int /\ o3 \in Int /\ o4 \in Int
        /\ c1 \in Int /\ c2 \in Int /\ c3 \in Int /\ c4 \in Int
    BY <1>1, <1>2, <1>4, <1>5, <1>6, <1>7
  <2>2. CarriesKeep(r1, r2, r3, r4, r5, o1, o2, o3, o4, c1, c2, c3, c4)
    BY <2>1, Carried
  <2> QED BY <2>2, <1>4, <1>5, <1>6, <1>7, Zenon DEF CarriesKeep
<1>11. /\ Radix \in Int /\ o1 \in Int /\ o2 \in Int /\ o3 \in Int /\ o4 \in Int /\ o5 \in Int
       /\ c5 \in Int /\ d \in Int /\ e1 \in Int /\ Fold * c5 \in Int
  BY <1>2, <1>4, <1>5, <1>6, <1>7, <1>8, <1>9
<1>12. /\ spelt \in Int
       /\ Digits(o1, o2, o3, o4, o5 + Radix * c5) = spelt + Limbs!Radix5 * c5
  <2>1. Moves(o1, o2, o3, o4, o5, c5) BY <1>11, DigitsMove
  <2> QED BY <2>1, Zenon DEF Moves
<1>13. Digits(e1, o2 + d, o3, o4, o5) = spelt + Fold * c5
  <2> DEFINE more == Fold * c5
  <2>1. more \in Int BY <1>11
  <2> HIDE DEF more
  <2>2. Moves(o1, o2, o3, o4, o5, more) BY <1>11, <2>1, DigitsMove
  <2>3. Digits(o1 + more, o2, o3, o4, o5) = spelt + more BY <2>2, Zenon DEF Moves
  <2>4. Moves(e1, o2, o3, o4, o5, d) BY <1>11, DigitsMove
  <2>5. Digits(e1, o2 + d, o3, o4, o5) = Digits(e1 + Radix * d, o2, o3, o4, o5)
    BY <2>4, Zenon DEF Moves
  <2> HIDE DEF spelt
  <2> QED BY <2>3, <2>5, <1>9, Zenon DEF more
<1>14. Limbs!Spells(Limbs!Carry(r)) = Digits(e1, o2 + d, o3, o4, o5)
  <2> DEFINE t == Limbs!Carry(r)
             y2 == o2 + d
  <2>1. t = <<e1, y2, o3, o4, o5>> BY <1>0
  <2>2. Limbs!Spells(t) = Digits(t[1], t[2], t[3], t[4], t[5]) BY SpellsDigits
  <2> HIDE DEF t, y2
  <2>3. t[1] = e1 /\ t[2] = y2 /\ t[3] = o3 /\ t[4] = o4 /\ t[5] = o5 BY <2>1
  <2> QED BY <2>2, <2>3, Zenon DEF t, y2
<1> HIDE DEF spelt
<1>15. Limbs!P \in Nat /\ Limbs!Radix5 = Limbs!P + Fold BY ModulusIs
<1>16. Limbs!Radix5 * c5 = Limbs!P * c5 + Fold * c5 /\ Limbs!P * c5 \in Int
  BY <1>15, <1>2, <1>8
<1>17. Limbs!Spells(r) = Limbs!Spells(Limbs!Carry(r)) + Limbs!P * c5
       /\ Limbs!Spells(r) \in Int /\ Limbs!Spells(Limbs!Carry(r)) \in Int
  BY <1>3, <1>8, <1>10, <1>11, <1>12, <1>13, <1>14, <1>16
<1> QED BY <1>17, <1>11 DEF SameModP

-----------------------------------------------------------------------------
(* Digits added and scaled one by one.                                     *)
Together2(x1, x2, x3, x4, x5, y1, y2, y3, y4, y5) ==
  Digits(x1 + y1, x2 + y2, x3 + y3, x4 + y4, x5 + y5)
    = Digits(x1, x2, x3, x4, x5) + Digits(y1, y2, y3, y4, y5)

(* Digit by digit sums spell the sum.                                      *)
LEMMA DigitsAdd ==
  ASSUME Radix \in Int,
         NEW x1 \in Int, NEW x2 \in Int, NEW x3 \in Int, NEW x4 \in Int, NEW x5 \in Int,
         NEW y1 \in Int, NEW y2 \in Int, NEW y3 \in Int, NEW y4 \in Int, NEW y5 \in Int
  PROVE  Together2(x1, x2, x3, x4, x5, y1, y2, y3, y4, y5)
<1>0. ASSUME NEW a \in Int, NEW b \in Int, NEW c \in Int, NEW e \in Int
      PROVE  /\ (a + b) + Radix * (c + e) = (a + Radix * c) + (b + Radix * e)
             /\ a + Radix * c \in Int /\ b + Radix * e \in Int
  <2>1. Radix * (c + e) = Radix * c + Radix * e /\ Radix * c \in Int /\ Radix * e \in Int OBVIOUS
  <2> QED BY <2>1
<1> DEFINE p4 == x4 + Radix * x5
           q4 == y4 + Radix * y5
           p3 == x3 + Radix * p4
           q3 == y3 + Radix * q4
           p2 == x2 + Radix * p3
           q2 == y2 + Radix * q3
           p1 == x1 + Radix * p2
           q1 == y1 + Radix * q2
<1>1. (x4 + y4) + Radix * (x5 + y5) = p4 + q4 /\ p4 \in Int /\ q4 \in Int BY <1>0
<1> HIDE DEF p4, q4
<1>2. (x3 + y3) + Radix * (p4 + q4) = p3 + q3 /\ p3 \in Int /\ q3 \in Int BY <1>0, <1>1
<1> HIDE DEF p3, q3
<1>3. (x2 + y2) + Radix * (p3 + q3) = p2 + q2 /\ p2 \in Int /\ q2 \in Int BY <1>0, <1>2
<1> HIDE DEF p2, q2
<1>4. (x1 + y1) + Radix * (p2 + q2) = p1 + q1 BY <1>0, <1>3
<1> HIDE DEF p1, q1
<1>5. Digits(x1, x2, x3, x4, x5) = p1 /\ Digits(y1, y2, y3, y4, y5) = q1
  BY Zenon DEF Digits, p1, p2, p3, p4, q1, q2, q3, q4
<1>6. Digits(x1 + y1, x2 + y2, x3 + y3, x4 + y4, x5 + y5)
        = (x1 + y1) + Radix * ((x2 + y2) + Radix * ((x3 + y3) + Radix * ((x4 + y4) + Radix * (x5 + y5))))
  BY Zenon DEF Digits
<1>7. Digits(x1 + y1, x2 + y2, x3 + y3, x4 + y4, x5 + y5) = p1 + q1
  BY Zenon, <1>1, <1>2, <1>3, <1>4, <1>6
<1> QED BY <1>5, <1>7, Zenon DEF Together2

Scales(c, x1, x2, x3, x4, x5) ==
  Digits(c * x1, c * x2, c * x3, c * x4, c * x5) = c * Digits(x1, x2, x3, x4, x5)

(* A multiple of each digit is that multiple of the number.                *)
LEMMA DigitsScale ==
  ASSUME Radix \in Int, NEW c \in Int,
         NEW x1 \in Int, NEW x2 \in Int, NEW x3 \in Int, NEW x4 \in Int, NEW x5 \in Int
  PROVE  Scales(c, x1, x2, x3, x4, x5)
<1>0. ASSUME NEW a \in Int, NEW b \in Int
      PROVE  /\ c * a + Radix * (c * b) = c * (a + Radix * b)
             /\ a + Radix * b \in Int
  <2>1. Radix * (c * b) = c * (Radix * b) /\ Radix * b \in Int OBVIOUS
  <2> DEFINE z == Radix * b
  <2> HIDE DEF z
  <2>2. z \in Int BY <2>1 DEF z
  <2>3. c * a + c * z = c * (a + z) /\ a + z \in Int BY <2>2
  <2> QED BY <2>1, <2>3 DEF z
<1> DEFINE p4 == x4 + Radix * x5
           p3 == x3 + Radix * p4
           p2 == x2 + Radix * p3
           p1 == x1 + Radix * p2
<1>1. c * x4 + Radix * (c * x5) = c * p4 /\ p4 \in Int BY <1>0
<1> HIDE DEF p4
<1>2. c * x3 + Radix * (c * p4) = c * p3 /\ p3 \in Int BY <1>0, <1>1
<1> HIDE DEF p3
<1>3. c * x2 + Radix * (c * p3) = c * p2 /\ p2 \in Int BY <1>0, <1>2
<1> HIDE DEF p2
<1>4. c * x1 + Radix * (c * p2) = c * p1 BY <1>0, <1>3
<1> HIDE DEF p1
<1>5. Digits(x1, x2, x3, x4, x5) = p1
  BY Zenon DEF Digits, p1, p2, p3, p4
<1>6. Digits(c * x1, c * x2, c * x3, c * x4, c * x5)
        = c * x1 + Radix * (c * x2 + Radix * (c * x3 + Radix * (c * x4 + Radix * (c * x5))))
  BY Zenon DEF Digits
<1>7. Digits(c * x1, c * x2, c * x3, c * x4, c * x5) = c * p1
  BY Zenon, <1>1, <1>2, <1>3, <1>4, <1>6
<1> QED BY <1>5, <1>7, Zenon DEF Scales

(* The multiple of a limb vector's number that shares its digits: a row of *)
(* a product moved up by one digit, what leaves the top folded.            *)
MovesUp(y1, y2, y3, y4, y5, x1, x2, x3, x4, x5, x) ==
  SameModP(x, Digits(x1, x2, x3, x4, x5)) =>
    SameModP(Digits(y1, y2, y3, y4, y5) + Radix * x,
             Digits(y1 + Fold * x5, y2 + x1, y3 + x2, y4 + x3, y5 + x4))

(* It keeps the number.                                                    *)
LEMMA NextRow ==
  ASSUME Sizes,
         NEW y1 \in Int, NEW y2 \in Int, NEW y3 \in Int, NEW y4 \in Int, NEW y5 \in Int,
         NEW x1 \in Int, NEW x2 \in Int, NEW x3 \in Int, NEW x4 \in Int, NEW x5 \in Int,
         NEW x \in Int
  PROVE  MovesUp(y1, y2, y3, y4, y5, x1, x2, x3, x4, x5, x)
<1> SUFFICES ASSUME SameModP(x, Digits(x1, x2, x3, x4, x5))
             PROVE  SameModP(Digits(y1, y2, y3, y4, y5) + Radix * x,
                             Digits(y1 + Fold * x5, y2 + x1, y3 + x2, y4 + x3, y5 + x4))
  BY Zenon DEF MovesUp
<1> DEFINE whole == Digits(x1, x2, x3, x4, x5)
           row   == Digits(y1, y2, y3, y4, y5)
           low   == Digits(0, x1, x2, x3, x4)
           f5    == Fold * x5
           z     == x4 + Radix * x5
           r5    == Limbs!Radix5
<1>1. Radix \in Int /\ Fold \in Int /\ Limbs!P \in Nat /\ r5 = Limbs!P + Fold /\ r5 \in Int
  BY ModulusIs
<1>2. f5 \in Int BY <1>1
<1>3. whole \in Int
  BY <1>1, DigitsInt
<1>4. row \in Int
  BY <1>1, DigitsInt
<1>5. low \in Int /\ Digits(0, x1, x2, x3, z) = low + r5 * x5
  <2> DEFINE zero == 0
  <2>1. zero \in Int OBVIOUS
  <2> HIDE DEF zero, low, z, r5
  <2>2. Moves(zero, x1, x2, x3, x4, x5) BY <1>1, <2>1, DigitsMove
  <2> QED BY <2>2, Zenon DEF Moves, zero, low, z, r5
<1>6. Digits(0 + f5, x1, x2, x3, x4) = low + f5
  <2> DEFINE zero == 0
  <2>1. zero \in Int OBVIOUS
  <2> HIDE DEF f5, zero, low
  <2>2. Moves(zero, x1, x2, x3, x4, f5) BY <1>1, <1>2, <2>1, DigitsMove
  <2> QED BY <2>2, Zenon DEF Moves, zero, low
<1>7. Radix * whole = Digits(0, x1, x2, x3, z)
  <2>1. Digits(0, x1, x2, x3, z) = 0 + Radix * (x1 + Radix * (x2 + Radix * (x3 + Radix * z)))
    BY Zenon DEF Digits
  <2>2. whole = x1 + Radix * (x2 + Radix * (x3 + Radix * z))
    BY Zenon DEF Digits
  <2>3. Digits(0, x1, x2, x3, z) = 0 + Radix * whole BY <2>1, <2>2, Zenon
  <2> HIDE DEF whole
  <2>4. Radix * whole \in Int BY <1>1, <1>3
  <2> QED BY <2>3, <2>4
<1>8. Digits(y1 + f5, y2 + x1, y3 + x2, y4 + x3, y5 + x4) = row + (low + f5)
  <2> HIDE DEF f5
  <2>1. Together2(y1, y2, y3, y4, y5, f5, x1, x2, x3, x4) BY <1>1, <1>2, DigitsAdd
  <2>2. 0 + f5 = f5 BY <1>2
  <2>3. Digits(f5, x1, x2, x3, x4) = low + f5 BY <1>6, <2>2
  <2> HIDE DEF row, low
  <2> QED BY <2>1, <2>3, Zenon DEF Together2, row
<1> HIDE DEF whole, row, low, z
<1>9. SameModP(low + r5 * x5, low + f5)
  <2>1. r5 * x5 = Limbs!P * x5 + f5 /\ Limbs!P * x5 \in Int BY <1>1 DEF f5
  <2>2. low + r5 * x5 = (low + f5) + Limbs!P * x5
    <3> HIDE DEF f5, r5
    <3> QED BY <1>2, <1>5, <2>1
  <2> QED BY <2>2 DEF SameModP
<1>10. SameModP(Radix * x, low + f5) /\ Radix * x \in Int /\ low + f5 \in Int
  <2>1. SameModP(x, whole) BY DEF whole
  <2>2. SameModP(Radix * x, Radix * whole) BY <1>1, <1>3, <2>1, SameModPIs
  <2>3. Radix * whole = low + r5 * x5 BY <1>5, <1>7
  <2>4. Radix * x \in Int /\ Radix * whole \in Int /\ low + f5 \in Int
    <3> HIDE DEF f5
    <3> QED BY <1>1, <1>2, <1>3, <1>5
  <2> HIDE DEF r5, f5
  <2>5. SameModP(Radix * whole, low + f5) BY <1>9, <2>3
  <2> QED BY <2>2, <2>4, <2>5, SameModPIs
<1>11. SameModP(Radix * x + row, (low + f5) + row)
  <2> DEFINE u == Radix * x
             t == low + f5
  <2> HIDE DEF u, t
  <2>1. SameModP(u, t) /\ u \in Int /\ t \in Int BY <1>10 DEF u, t
  <2>2. SameModP(u + row, t + row) BY <1>4, <2>1, SameModPIs
  <2> QED BY <2>2 DEF u, t
<1>12. Radix * x + row = row + Radix * x /\ (low + f5) + row = row + (low + f5)
  <2> DEFINE u == Radix * x
             t == low + f5
  <2> HIDE DEF u, t
  <2>1. u \in Int /\ t \in Int BY <1>10 DEF u, t
  <2>2. u + row = row + u /\ t + row = row + t BY <1>4, <2>1
  <2> QED BY <2>2 DEF u, t
<1>13. SameModP(row + Radix * x, row + (low + f5)) BY <1>11, <1>12, Zenon
<1> QED BY <1>8, <1>13, Zenon DEF row, f5

(* The accumulators of a product stand for the product.                    *)
LEMMA ProductIs ==
  ASSUME Sizes, NEW a, NEW b, Naturals(a), Naturals(b)
  PROVE  SameModP(Limbs!Spells(a) * Limbs!Spells(b), Limbs!Spells(Limbs!Product(a, b)))
<1> DEFINE a1 == a[1]
           a2 == a[2]
           a3 == a[3]
           a4 == a[4]
           a5 == a[5]
           b1 == b[1]
           b2 == b[2]
           b3 == b[3]
           b4 == b[4]
           b5 == b[5]
           y  == Digits(b1, b2, b3, b4, b5)
           (* The sums below each row, and from row to row.                *)
           e1 == a4 * b1 + Fold * (a5 * b5)
           e2 == a4 * b2 + a5 * b1
           e3 == a4 * b3 + a5 * b2
           e4 == a4 * b4 + a5 * b3
           e5 == a4 * b5 + a5 * b4
           g1 == a3 * b1 + Fold * e5
           g2 == a3 * b2 + e1
           g3 == a3 * b3 + e2
           g4 == a3 * b4 + e3
           g5 == a3 * b5 + e4
           h1 == a2 * b1 + Fold * g5
           h2 == a2 * b2 + g1
           h3 == a2 * b3 + g2
           h4 == a2 * b4 + g3
           h5 == a2 * b5 + g4
           k1 == a1 * b1 + Fold * h5
           k2 == a1 * b2 + h1
           k3 == a1 * b3 + h2
           k4 == a1 * b4 + h3
           k5 == a1 * b5 + h4
<1>1. /\ a1 \in Int /\ a2 \in Int /\ a3 \in Int /\ a4 \in Int /\ a5 \in Int
      /\ b1 \in Int /\ b2 \in Int /\ b3 \in Int /\ b4 \in Int /\ b5 \in Int
  BY DEF Naturals
<1>2. Radix \in Int /\ Fold \in Int BY ModulusIs
<1>3. Limbs!Spells(a) = Digits(a1, a2, a3, a4, a5) /\ Limbs!Spells(b) = y
  BY SpellsDigits
<1>4. Limbs!Product(a, b) =
        << a1 * b1 + Fold * (a2 * b5 + a3 * b4 + a4 * b3 + a5 * b2),
           a1 * b2 + a2 * b1 + Fold * (a3 * b5 + a4 * b4 + a5 * b3),
           a1 * b3 + a2 * b2 + a3 * b1 + Fold * (a4 * b5 + a5 * b4),
           a1 * b4 + a2 * b3 + a3 * b2 + a4 * b1 + Fold * (a5 * b5),
           a1 * b5 + a2 * b4 + a3 * b3 + a4 * b2 + a5 * b1 >>
  BY Zenon DEF Limbs!Product
<1> HIDE DEF a1, a2, a3, a4, a5, b1, b2, b3, b4, b5
<1>5. /\ a1 * b1 \in Int /\ a1 * b2 \in Int /\ a1 * b3 \in Int /\ a1 * b4 \in Int /\ a1 * b5 \in Int
      /\ a2 * b1 \in Int /\ a2 * b2 \in Int /\ a2 * b3 \in Int /\ a2 * b4 \in Int /\ a2 * b5 \in Int
      /\ a3 * b1 \in Int /\ a3 * b2 \in Int /\ a3 * b3 \in Int /\ a3 * b4 \in Int /\ a3 * b5 \in Int
      /\ a4 * b1 \in Int /\ a4 * b2 \in Int /\ a4 * b3 \in Int /\ a4 * b4 \in Int /\ a4 * b5 \in Int
      /\ a5 * b1 \in Int /\ a5 * b2 \in Int /\ a5 * b3 \in Int /\ a5 * b4 \in Int /\ a5 * b5 \in Int
  BY <1>1
<1>6. /\ e1 \in Int /\ e2 \in Int /\ e3 \in Int /\ e4 \in Int /\ e5 \in Int
  <2>1. \A u, t \in Int : u + Fold * t \in Int /\ u + t \in Int BY <1>2
  <2> QED BY <1>5, <2>1
<1>7. /\ g1 \in Int /\ g2 \in Int /\ g3 \in Int /\ g4 \in Int /\ g5 \in Int
  <2>1. \A u, t \in Int : u + Fold * t \in Int /\ u + t \in Int BY <1>2
  <2> HIDE DEF e1, e2, e3, e4, e5
  <2> QED BY <1>5, <1>6, <2>1
<1>8. /\ h1 \in Int /\ h2 \in Int /\ h3 \in Int /\ h4 \in Int /\ h5 \in Int
  <2>1. \A u, t \in Int : u + Fold * t \in Int /\ u + t \in Int BY <1>2
  <2> HIDE DEF g1, g2, g3, g4, g5
  <2> QED BY <1>5, <1>7, <2>1
<1>9. /\ k1 = a1 * b1 + Fold * (a2 * b5 + a3 * b4 + a4 * b3 + a5 * b2)
      /\ k2 = a1 * b2 + a2 * b1 + Fold * (a3 * b5 + a4 * b4 + a5 * b3)
      /\ k3 = a1 * b3 + a2 * b2 + a3 * b1 + Fold * (a4 * b5 + a5 * b4)
      /\ k4 = a1 * b4 + a2 * b3 + a3 * b2 + a4 * b1 + Fold * (a5 * b5)
      /\ k5 = a1 * b5 + a2 * b4 + a3 * b3 + a4 * b2 + a5 * b1
  <2>1. \A u \in Int : Fold * u \in Int BY <1>2
  <2>2. \A u, t, o \in Int : u + (t + o) = u + t + o /\ t + o \in Int OBVIOUS
  <2>3. h5 = a2 * b5 + a3 * b4 + a4 * b3 + a5 * b2 BY <1>5, <2>2
  <2>4. h1 = a2 * b1 + Fold * (a3 * b5 + a4 * b4 + a5 * b3) BY <1>5, <2>2
  <2>5. h2 = a2 * b2 + a3 * b1 + Fold * (a4 * b5 + a5 * b4)
    <3>1. Fold * e5 \in Int
      <4> HIDE DEF e5
      <4> QED BY <1>6, <2>1
    <3>2. h2 = a2 * b2 + (a3 * b1 + Fold * e5) OBVIOUS
    <3> HIDE DEF h2, g1
    <3>3. h2 = a2 * b2 + a3 * b1 + Fold * e5
      <4> HIDE DEF e5
      <4> QED BY <1>5, <2>2, <3>1, <3>2
    <3> QED BY <3>3
  <2>6. h3 = a2 * b3 + a3 * b2 + a4 * b1 + Fold * (a5 * b5)
    <3> DEFINE z == Fold * (a5 * b5)
    <3>1. z \in Int BY <1>5, <2>1
    <3> HIDE DEF z
    <3>2. h3 = a2 * b3 + (a3 * b2 + (a4 * b1 + z)) BY DEF z
    <3> HIDE DEF h3
    <3>3. h3 = a2 * b3 + a3 * b2 + a4 * b1 + z BY <1>5, <3>1, <3>2
    <3> QED BY <3>3 DEF z
  <2>7. h4 = a2 * b4 + a3 * b3 + a4 * b2 + a5 * b1 BY <1>5, <2>2
  <2> HIDE DEF h1, h2, h3, h4, h5
  <2>8. Fold * (a3 * b5 + a4 * b4 + a5 * b3) \in Int /\ Fold * (a4 * b5 + a5 * b4) \in Int
        /\ Fold * (a5 * b5) \in Int
    <3>1. a3 * b5 + a4 * b4 + a5 * b3 \in Int /\ a4 * b5 + a5 * b4 \in Int BY <1>5
    <3> QED BY <1>5, <2>1, <3>1
  <2>9. k1 = a1 * b1 + Fold * (a2 * b5 + a3 * b4 + a4 * b3 + a5 * b2) BY <2>3
  <2>10. k2 = a1 * b2 + a2 * b1 + Fold * (a3 * b5 + a4 * b4 + a5 * b3) BY <1>5, <2>4, <2>8
  <2>11. k3 = a1 * b3 + a2 * b2 + a3 * b1 + Fold * (a4 * b5 + a5 * b4) BY <1>5, <2>5, <2>8
  <2>12. k4 = a1 * b4 + a2 * b3 + a3 * b2 + a4 * b1 + Fold * (a5 * b5) BY <1>5, <2>6, <2>8
  <2>13. k5 = a1 * b5 + a2 * b4 + a3 * b3 + a4 * b2 + a5 * b1 BY <1>5, <2>7
  <2> HIDE DEF k1, k2, k3, k4, k5
  <2> QED BY <2>9, <2>10, <2>11, <2>12, <2>13
<1>10. Limbs!Spells(Limbs!Product(a, b)) = Digits(k1, k2, k3, k4, k5)
  <2> DEFINE t == Limbs!Product(a, b)
  <2> HIDE DEF k1, k2, k3, k4, k5
  <2>1. t = <<k1, k2, k3, k4, k5>> BY <1>4, <1>9, Zenon
  <2>2. Limbs!Spells(t) = Digits(t[1], t[2], t[3], t[4], t[5]) BY SpellsDigits
  <2> HIDE DEF t
  <2>3. t[1] = k1 /\ t[2] = k2 /\ t[3] = k3 /\ t[4] = k4 /\ t[5] = k5 BY <2>1
  <2> QED BY <2>2, <2>3, Zenon DEF t
<1>11. y \in Int
  BY <1>1, <1>2, DigitsInt
<1>12. /\ Digits(a1 * b1, a1 * b2, a1 * b3, a1 * b4, a1 * b5) = a1 * y
       /\ Digits(a2 * b1, a2 * b2, a2 * b3, a2 * b4, a2 * b5) = a2 * y
       /\ Digits(a3 * b1, a3 * b2, a3 * b3, a3 * b4, a3 * b5) = a3 * y
       /\ Digits(a4 * b1, a4 * b2, a4 * b3, a4 * b4, a4 * b5) = a4 * y
       /\ Digits(a5 * b1, a5 * b2, a5 * b3, a5 * b4, a5 * b5) = a5 * y
  <2>1. ASSUME NEW c \in Int
        PROVE  Digits(c * b1, c * b2, c * b3, c * b4, c * b5) = c * y
    <3>1. Scales(c, b1, b2, b3, b4, b5) BY <1>1, <1>2, DigitsScale
    <3> QED BY <3>1, Zenon DEF Scales
  <2> HIDE DEF y
  <2> QED BY <1>1, <2>1
<1> DEFINE q5 == a5 * y
           q4 == a4 * y + Radix * q5
           q3 == a3 * y + Radix * q4
           q2 == a2 * y + Radix * q3
           q1 == a1 * y + Radix * q2
<1> HIDE DEF y
<1>13. q5 \in Int /\ a4 * y \in Int /\ a3 * y \in Int /\ a2 * y \in Int /\ a1 * y \in Int
  BY <1>1, <1>11
<1>14. \A u, t \in Int : u + Radix * t \in Int BY <1>2
<1> HIDE DEF q5
<1>15. q4 \in Int BY <1>13, <1>14
<1> HIDE DEF q4
<1>16. q3 \in Int BY <1>13, <1>14, <1>15
<1> HIDE DEF q3
<1>17. q2 \in Int BY <1>13, <1>14, <1>16
<1> HIDE DEF q2
<1> HIDE DEF e1, e2, e3, e4, e5, g1, g2, g3, g4, g5, h1, h2, h3, h4, h5, k1, k2, k3, k4, k5
<1>20. SameModP(q5, Digits(a5 * b1, a5 * b2, a5 * b3, a5 * b4, a5 * b5))
  <2>1. SameModP(q5, q5) BY <1>13, SameModPIs
  <2> QED BY <2>1, <1>12, Zenon DEF q5
<1>21. SameModP(q4, Digits(e1, e2, e3, e4, e5))
  <2>1. MovesUp(a4 * b1, a4 * b2, a4 * b3, a4 * b4, a4 * b5,
                a5 * b1, a5 * b2, a5 * b3, a5 * b4, a5 * b5, q5)
    BY <1>5, <1>13, NextRow
  <2> QED BY <2>1, <1>12, <1>20, Zenon DEF MovesUp, q4, e1, e2, e3, e4, e5
<1>22. SameModP(q3, Digits(g1, g2, g3, g4, g5))
  <2>1. MovesUp(a3 * b1, a3 * b2, a3 * b3, a3 * b4, a3 * b5, e1, e2, e3, e4, e5, q4)
    BY <1>5, <1>6, <1>15, NextRow
  <2> QED BY <2>1, <1>12, <1>21, Zenon DEF MovesUp, q3, g1, g2, g3, g4, g5
<1>23. SameModP(q2, Digits(h1, h2, h3, h4, h5))
  <2>1. MovesUp(a2 * b1, a2 * b2, a2 * b3, a2 * b4, a2 * b5, g1, g2, g3, g4, g5, q3)
    BY <1>5, <1>7, <1>16, NextRow
  <2> QED BY <2>1, <1>12, <1>22, Zenon DEF MovesUp, q2, h1, h2, h3, h4, h5
<1>24. SameModP(q1, Digits(k1, k2, k3, k4, k5))
  <2>1. MovesUp(a1 * b1, a1 * b2, a1 * b3, a1 * b4, a1 * b5, h1, h2, h3, h4, h5, q2)
    BY <1>5, <1>8, <1>17, NextRow
  <2> QED BY <2>1, <1>12, <1>23, Zenon DEF MovesUp, q1, k1, k2, k3, k4, k5
<1>25. Digits(a1, a2, a3, a4, a5) * y = q1
  <2>1. Scales(y, a1, a2, a3, a4, a5) BY <1>1, <1>2, <1>11, DigitsScale
  <2>2. Digits(a1, a2, a3, a4, a5) \in Int BY <1>1, <1>2, DigitsInt
  <2>3. Digits(a1, a2, a3, a4, a5) * y = y * Digits(a1, a2, a3, a4, a5) BY <2>2, <1>11
  <2>4. /\ a1 * y = y * a1 /\ a2 * y = y * a2 /\ a3 * y = y * a3 /\ a4 * y = y * a4
        /\ a5 * y = y * a5
    BY <1>1, <1>11
  <2>5. Digits(y * a1, y * a2, y * a3, y * a4, y * a5) = q1
    <3>1. Digits(y * a1, y * a2, y * a3, y * a4, y * a5)
            = y * a1 + Radix * (y * a2 + Radix * (y * a3 + Radix * (y * a4 + Radix * (y * a5))))
      BY Zenon DEF Digits
    <3> QED BY <3>1, <2>4, Zenon DEF q1, q2, q3, q4, q5
  <2> QED BY <2>1, <2>3, <2>5, Zenon DEF Scales
<1> QED BY <1>3, <1>10, <1>24, <1>25, Zenon

(* A sum and a difference of limbs stand for the sum and the difference.   *)
LEMMA SumIs ==
  ASSUME Sizes, NEW a, NEW b, Naturals(a), Naturals(b)
  PROVE  Limbs!Spells(Limbs!Sum(a, b)) = Limbs!Spells(a) + Limbs!Spells(b)
<1> DEFINE a1 == a[1]
           a2 == a[2]
           a3 == a[3]
           a4 == a[4]
           a5 == a[5]
           b1 == b[1]
           b2 == b[2]
           b3 == b[3]
           b4 == b[4]
           b5 == b[5]
           t  == Limbs!Sum(a, b)
<1>1. /\ a1 \in Int /\ a2 \in Int /\ a3 \in Int /\ a4 \in Int /\ a5 \in Int
      /\ b1 \in Int /\ b2 \in Int /\ b3 \in Int /\ b4 \in Int /\ b5 \in Int
  BY DEF Naturals
<1>2. Radix \in Int BY ModulusIs
<1>3. t[1] = a1 + b1 /\ t[2] = a2 + b2 /\ t[3] = a3 + b3 /\ t[4] = a4 + b4 /\ t[5] = a5 + b5
  BY DEF Limbs!Sum, Limbs!Limb
<1>4. Limbs!Spells(a) = Digits(a1, a2, a3, a4, a5) /\ Limbs!Spells(b) = Digits(b1, b2, b3, b4, b5)
      /\ Limbs!Spells(t) = Digits(t[1], t[2], t[3], t[4], t[5])
  BY SpellsDigits
<1> HIDE DEF a1, a2, a3, a4, a5, b1, b2, b3, b4, b5, t
<1>5. Together2(a1, a2, a3, a4, a5, b1, b2, b3, b4, b5) BY <1>1, <1>2, DigitsAdd
<1> QED BY <1>3, <1>4, <1>5, Zenon DEF Together2, t

(* 2p, limb by limb, is 2p.                                                *)
LEMMA TwicePIs ==
  ASSUME Sizes
  PROVE  Digits(2 * Radix - 2 * Fold, 2 * Radix - 2, 2 * Radix - 2, 2 * Radix - 2, 2 * Radix - 2)
           = 2 * Limbs!P
<1> DEFINE x == 2 * Radix - 2 * Fold
           u == 2 * Radix - 2
           o == -38
           r5 == Limbs!Radix5
<1>1. /\ Radix \in Int /\ Fold = 19 /\ Limbs!P \in Int /\ r5 = Limbs!P + Fold BY ModulusIs
<1>2. x \in Int /\ u \in Int /\ o \in Int BY <1>1
<1>3. x = o + Radix * 2 /\ u + 2 = 0 + Radix * 2 BY <1>1
<1>4. 0 \in Int /\ 2 \in Int OBVIOUS
<1> DEFINE zero == 0
           two == 2
<1>5. zero \in Int /\ two \in Int /\ x = o + Radix * two /\ u + two = zero + Radix * two
  BY <1>3
<1>6. u + two = zero + Radix * two /\ zero + Radix * two = Radix * two BY <1>1
<1> HIDE DEF zero, two, x, u, o, r5
<1>7. CarriesKeep(x, u, u, u, u, o, zero, zero, zero, two, two, two, two)
  BY <1>1, <1>2, <1>5, Carried
<1>8. Digits(x, u, u, u, u) = Digits(o, zero, zero, zero, u + two)
  BY <1>5, <1>7, Zenon DEF CarriesKeep
<1>9. Moves(o, zero, zero, zero, zero, two) BY <1>1, <1>2, <1>5, DigitsMove
<1>10. Digits(o, zero, zero, zero, zero + Radix * two) = Digits(o, zero, zero, zero, zero) + r5 * two
  BY <1>9, Zenon DEF Moves, r5
<1>11. Digits(o, zero, zero, zero, zero) = o
  <2>1. Radix * zero = zero /\ zero + zero = zero /\ o + zero = o BY <1>1, <1>2 DEF zero
  <2>2. zero + Radix * zero = zero BY <2>1
  <2>3. Digits(o, zero, zero, zero, zero)
          = o + Radix * (zero + Radix * (zero + Radix * (zero + Radix * zero)))
    BY Zenon DEF Digits
  <2> QED BY <2>1, <2>2, <2>3, Zenon
<1>12. Digits(x, u, u, u, u) = o + r5 * two
  BY <1>6, <1>8, <1>10, <1>11, Zenon
<1>13. o + r5 * two = 2 * Limbs!P BY <1>1 DEF o, two
<1> QED BY <1>12, <1>13, Zenon DEF x, u

(* Taking away in 2p takes away modulo p.                                  *)
LEMMA DifferenceIs ==
  ASSUME Sizes, NEW a, NEW b, Naturals(a), Naturals(b)
  PROVE  Limbs!Spells(Limbs!Difference(a, b)) + Limbs!Spells(b)
           = Limbs!Spells(a) + 2 * Limbs!P
<1> DEFINE a1 == a[1]
           a2 == a[2]
           a3 == a[3]
           a4 == a[4]
           a5 == a[5]
           b1 == b[1]
           b2 == b[2]
           b3 == b[3]
           b4 == b[4]
           b5 == b[5]
           t  == Limbs!Difference(a, b)
           t1 == t[1]
           t2 == t[2]
           t3 == t[3]
           t4 == t[4]
           t5 == t[5]
           x  == 2 * Radix - 2 * Fold
           u  == 2 * Radix - 2
<1>1. /\ a1 \in Int /\ a2 \in Int /\ a3 \in Int /\ a4 \in Int /\ a5 \in Int
      /\ b1 \in Int /\ b2 \in Int /\ b3 \in Int /\ b4 \in Int /\ b5 \in Int
  BY DEF Naturals
<1>2. Radix \in Int /\ Fold \in Int BY ModulusIs
<1>3. /\ t1 = a1 + x - b1 /\ t2 = a2 + u - b2 /\ t3 = a3 + u - b3
      /\ t4 = a4 + u - b4 /\ t5 = a5 + u - b5
  <2>1. t = [i \in 1..5 |-> a[i] + Limbs!P2(i) - b[i]]
    BY Zenon DEF Limbs!Difference, Limbs!Limb
  <2>2. Limbs!P2(1) = x /\ Limbs!P2(2) = u /\ Limbs!P2(3) = u /\ Limbs!P2(4) = u /\ Limbs!P2(5) = u
    BY DEF Limbs!P2
  <2> HIDE DEF x, u, t
  <2>3. \A i \in 1..5 : t[i] = a[i] + Limbs!P2(i) - b[i] BY <2>1
  <2>4. 1 \in 1..5 /\ 2 \in 1..5 /\ 3 \in 1..5 /\ 4 \in 1..5 /\ 5 \in 1..5 OBVIOUS
  <2> QED BY <2>2, <2>3, <2>4, Zenon
<1>4. Limbs!Spells(a) = Digits(a1, a2, a3, a4, a5) /\ Limbs!Spells(b) = Digits(b1, b2, b3, b4, b5)
      /\ Limbs!Spells(t) = Digits(t1, t2, t3, t4, t5)
  BY SpellsDigits
<1>5. x \in Int /\ u \in Int BY <1>2
<1>6. Digits(x, u, u, u, u) = 2 * Limbs!P BY TwicePIs, Zenon
<1> HIDE DEF a1, a2, a3, a4, a5, b1, b2, b3, b4, b5, t, t1, t2, t3, t4, t5, x, u
<1>7. /\ t1 + b1 = a1 + x /\ t2 + b2 = a2 + u /\ t3 + b3 = a3 + u /\ t4 + b4 = a4 + u
      /\ t5 + b5 = a5 + u
      /\ t1 \in Int /\ t2 \in Int /\ t3 \in Int /\ t4 \in Int /\ t5 \in Int
  BY <1>1, <1>3, <1>5
<1>8. Together2(t1, t2, t3, t4, t5, b1, b2, b3, b4, b5) BY <1>1, <1>2, <1>7, DigitsAdd
<1>9. Together2(a1, a2, a3, a4, a5, x, u, u, u, u) BY <1>1, <1>2, <1>5, DigitsAdd
<1>10. Digits(t1, t2, t3, t4, t5) + Digits(b1, b2, b3, b4, b5)
         = Digits(a1, a2, a3, a4, a5) + Digits(x, u, u, u, u)
  BY <1>7, <1>8, <1>9, Zenon DEF Together2
<1> QED BY <1>4, <1>6, <1>10, Zenon DEF t

(* mul121666 multiplies the number.                                        *)
LEMMA ScaledIs ==
  ASSUME Sizes, NEW a, Naturals(a)
  PROVE  Limbs!Spells(Limbs!Scaled(a)) = A24 * Limbs!Spells(a)
<1> DEFINE a1 == a[1]
           a2 == a[2]
           a3 == a[3]
           a4 == a[4]
           a5 == a[5]
           t  == Limbs!Scaled(a)
<1>1. /\ a1 \in Int /\ a2 \in Int /\ a3 \in Int /\ a4 \in Int /\ a5 \in Int
  BY DEF Naturals
<1>2. Radix \in Int /\ A24 \in Int BY DEF Sizes
<1>3. t[1] = A24 * a1 /\ t[2] = A24 * a2 /\ t[3] = A24 * a3 /\ t[4] = A24 * a4 /\ t[5] = A24 * a5
  BY DEF Limbs!Scaled, Limbs!Limb
<1>4. Limbs!Spells(a) = Digits(a1, a2, a3, a4, a5)
      /\ Limbs!Spells(t) = Digits(t[1], t[2], t[3], t[4], t[5])
  BY SpellsDigits
<1> HIDE DEF a1, a2, a3, a4, a5, t
<1>5. Scales(A24, a1, a2, a3, a4, a5) BY <1>1, <1>2, DigitsScale
<1> QED BY <1>3, <1>4, <1>5, Zenon DEF Scales, t

-----------------------------------------------------------------------------
(* One more digit on top of a number below b.                              *)
LEMMA DigitOnTop ==
  ASSUME NEW r \in Nat, NEW b \in Nat, NEW o \in 0..(r - 1), NEW y \in 0..(b - 1)
  PROVE  o + r * y \in 0..(b * r - 1)
<1>1. y \in Nat /\ y <= b - 1 /\ r * y \in Nat OBVIOUS
<1>2. r * y <= r * (b - 1) BY <1>1
<1>3. r * (b - 1) = b * r - r /\ b * r \in Nat OBVIOUS
<1> QED BY <1>1, <1>2, <1>3

(* Five digits stay below what they carry out, four below their share.     *)
LEMMA DigitsBelow ==
  ASSUME Sizes,
         NEW d1 \in 0..(Radix - 1), NEW d2 \in 0..(Radix - 1), NEW d3 \in 0..(Radix - 1),
         NEW d4 \in 0..(Radix - 1), NEW d5 \in 0..(Radix - 1)
  PROVE  /\ Digits(d1, d2, d3, d4, d5) \in 0..(Limbs!Radix5 - 1)
         /\ Digits(d1, d2, d3, d4, 0) \in 0..(Radix * Radix * Radix * Radix - 1)
<1> DEFINE z2 == Radix * Radix
           z3 == z2 * Radix
           z4 == z3 * Radix
           z5 == z4 * Radix
<1>1. Radix \in Nat /\ 0 \in 0..(Radix - 1) BY SMT DEF Sizes
<1>2. z2 \in Nat BY <1>1
<1> HIDE DEF z2
<1>3. z3 \in Nat BY <1>1, <1>2
<1> HIDE DEF z3
<1>4. z4 \in Nat BY <1>1, <1>3
<1> HIDE DEF z4
<1>5. ASSUME NEW d \in 0..(Radix - 1)
      PROVE  d3 + Radix * (d4 + Radix * d) \in 0..(z3 - 1)
  <2>1. d4 + Radix * d \in 0..(z2 - 1) BY <1>1, DigitOnTop DEF z2
  <2> DEFINE y == d4 + Radix * d
  <2> HIDE DEF y
  <2>2. y \in 0..(z2 - 1) BY <2>1 DEF y
  <2>3. d3 + Radix * y \in 0..(z2 * Radix - 1) BY <1>1, <1>2, <2>2, DigitOnTop
  <2> QED BY <2>3, Zenon DEF y, z3
<1>6. ASSUME NEW y \in 0..(z3 - 1)
      PROVE  d1 + Radix * (d2 + Radix * y) \in 0..(z5 - 1)
  <2> DEFINE t == d2 + Radix * y
  <2>1. t \in 0..(z4 - 1) BY <1>1, <1>3, DigitOnTop DEF z4
  <2> HIDE DEF t
  <2>2. d1 + Radix * t \in 0..(z4 * Radix - 1) BY <1>1, <1>4, <2>1, DigitOnTop
  <2> QED BY <2>2, Zenon DEF t
<1>7. Digits(d1, d2, d3, d4, d5) \in 0..(z5 - 1)
  <2> DEFINE y == d3 + Radix * (d4 + Radix * d5)
  <2>1. y \in 0..(z3 - 1) BY <1>5
  <2>2. Digits(d1, d2, d3, d4, d5) = d1 + Radix * (d2 + Radix * y) BY Zenon DEF Digits
  <2> HIDE DEF y
  <2> QED BY <2>1, <2>2, <1>6
<1>8. z5 = Limbs!Radix5 /\ z4 = Radix * Radix * Radix * Radix
  BY Zenon DEF z2, z3, z4, Limbs!Radix5
<1>9. Digits(d1, d2, d3, d4, 0) \in 0..(z4 - 1)
  <2>1. d3 + Radix * d4 \in 0..(z2 - 1) BY <1>1, DigitOnTop DEF z2
  <2> DEFINE y == d3 + Radix * d4
  <2> HIDE DEF y
  <2>2. y \in 0..(z2 - 1) BY <2>1 DEF y
  <2>3. d2 + Radix * y \in 0..(z3 - 1) BY <1>1, <1>2, <2>2, DigitOnTop DEF z3
  <2> DEFINE t == d2 + Radix * y
  <2> HIDE DEF t
  <2>4. t \in 0..(z3 - 1) BY <2>3 DEF t
  <2>5. d1 + Radix * t \in 0..(z4 - 1) BY <1>1, <1>3, <2>4, DigitOnTop DEF z4
  <2>6. d4 + Radix * 0 = d4 BY <1>1
  <2>7. Digits(d1, d2, d3, d4, 0) = d1 + Radix * (d2 + Radix * (d3 + Radix * (d4 + Radix * 0)))
    BY Zenon DEF Digits
  <2> QED BY <2>5, <2>6, <2>7, Zenon DEF t, y
<1> QED BY <1>7, <1>8, <1>9, Zenon

(* Loading 32 bytes into limbs leaves out what five limbs cannot hold, and *)
(* keeps the rest.                                                         *)
LEMMA LoadIs ==
  ASSUME Sizes, NEW load \in Nat
  PROVE  load % Limbs!Radix5 = Limbs!Spells(Limbs!FromBytes(load))
<1> DEFINE n2 == load \div Radix
           n3 == n2 \div Radix
           n4 == n3 \div Radix
           n5 == n4 \div Radix
           r1 == load % Radix
           r2 == n2 % Radix
           r3 == n3 % Radix
           r4 == n4 % Radix
           r5 == n5 % Radix
           h  == n5 \div Radix
           b  == Limbs!FromBytes(load)
           whole == Digits(r1, r2, r3, r4, r5)
<1>1. Radix \in Nat /\ Radix > 0 /\ Limbs!Radix5 \in Nat /\ Limbs!Radix5 > 0 BY ModulusIs
<1>2. ASSUME NEW c \in Nat
      PROVE  c \div Radix \in Nat /\ c % Radix \in 0..(Radix - 1)
             /\ c = (c % Radix) + Radix * (c \div Radix)
  BY <1>1, DivMod
<1>3. n2 \in Nat /\ r1 \in 0..(Radix - 1) /\ load = r1 + Radix * n2 BY <1>2
<1>4. n3 \in Nat /\ r2 \in 0..(Radix - 1) /\ n2 = r2 + Radix * n3 BY <1>2, <1>3
<1>5. n4 \in Nat /\ r3 \in 0..(Radix - 1) /\ n3 = r3 + Radix * n4 BY <1>2, <1>4
<1>6. n5 \in Nat /\ r4 \in 0..(Radix - 1) /\ n4 = r4 + Radix * n5 BY <1>2, <1>5
<1>7. h \in Nat /\ r5 \in 0..(Radix - 1) /\ n5 = r5 + Radix * h BY <1>2, <1>6
<1>8. Limbs!Spells(b) = whole
  <2>1. b = <<r1, r2, r3, r4, r5>> BY Zenon DEF Limbs!FromBytes
  <2>2. b[1] = r1 /\ b[2] = r2 /\ b[3] = r3 /\ b[4] = r4 /\ b[5] = r5
    <3> HIDE DEF r1, r2, r3, r4, r5, b
    <3> QED BY <2>1
  <2>3. Limbs!Spells(b) = Digits(b[1], b[2], b[3], b[4], b[5]) BY SpellsDigits
  <2> HIDE DEF r1, r2, r3, r4, r5, b
  <2> QED BY <2>2, <2>3, Zenon DEF b
<1> HIDE DEF n2, n3, n4, n5, r1, r2, r3, r4, r5, h
<1>9. load = Digits(r1, r2, r3, r4, r5 + Radix * h)
  BY <1>3, <1>4, <1>5, <1>6, <1>7, Zenon DEF Digits
<1>10. Moves(r1, r2, r3, r4, r5, h)
  <2>1. /\ r1 \in Int /\ r2 \in Int /\ r3 \in Int /\ r4 \in Int /\ r5 \in Int /\ h \in Int
        /\ Radix \in Int
    BY <1>1, <1>3, <1>4, <1>5, <1>6, <1>7
  <2> QED BY <2>1, DigitsMove
<1>11. load = whole + Limbs!Radix5 * h BY <1>9, <1>10, Zenon DEF Moves
<1>12. whole \in 0..(Limbs!Radix5 - 1)
  BY <1>3, <1>4, <1>5, <1>6, <1>7, DigitsBelow
<1> DEFINE top == Limbs!Radix5
<1> HIDE DEF whole, top
<1>13. (whole + top * h) % top = whole
  BY <1>1, <1>7, <1>12, ModOfShift DEF top
<1> QED BY <1>8, <1>11, <1>13, Zenon DEF top

(* A whole pass of carries: what it leaves below, and what goes out at the *)
(* top.                                                                    *)
TopCarry(x1, x2, x3, x4, x5) ==
  (x5 + (x4 + (x3 + (x2 + x1 \div Radix) \div Radix) \div Radix) \div Radix) \div Radix

LeftBelow(x1, x2, x3, x4, x5) ==
  LET y2 == x2 + x1 \div Radix
      y3 == x3 + y2 \div Radix
      y4 == x4 + y3 \div Radix
      y5 == x5 + y4 \div Radix
  IN  Digits(x1 % Radix, y2 % Radix, y3 % Radix, y4 % Radix, y5 % Radix)

Passes(x1, x2, x3, x4, x5) ==
  /\ TopCarry(x1, x2, x3, x4, x5) \in Nat
  /\ LeftBelow(x1, x2, x3, x4, x5) \in 0..(Limbs!Radix5 - 1)
  /\ Digits(x1, x2, x3, x4, x5)
       = LeftBelow(x1, x2, x3, x4, x5) + Limbs!Radix5 * TopCarry(x1, x2, x3, x4, x5)

(* They are quotient and remainder by Radix5.                              *)
LEMMA WholePass ==
  ASSUME Sizes, NEW x1 \in Nat, NEW x2 \in Nat, NEW x3 \in Nat, NEW x4 \in Nat, NEW x5 \in Nat
  PROVE  Passes(x1, x2, x3, x4, x5)
<1> DEFINE c1 == x1 \div Radix
           o1 == x1 % Radix
           y2 == x2 + c1
           c2 == y2 \div Radix
           o2 == y2 % Radix
           y3 == x3 + c2
           c3 == y3 \div Radix
           o3 == y3 % Radix
           y4 == x4 + c3
           c4 == y4 \div Radix
           o4 == y4 % Radix
           y5 == x5 + c4
           c5 == y5 \div Radix
           o5 == y5 % Radix
           low == Digits(o1, o2, o3, o4, o5)
<1>1. Radix \in Nat /\ Radix > 0 BY ModulusIs
<1>2. ASSUME NEW c \in Nat
      PROVE  c \div Radix \in Nat /\ c % Radix \in 0..(Radix - 1)
             /\ c = (c % Radix) + Radix * (c \div Radix)
  BY <1>1, DivMod
<1>3. LeftBelow(x1, x2, x3, x4, x5) = low /\ TopCarry(x1, x2, x3, x4, x5) = c5
  BY Zenon DEF LeftBelow, TopCarry
<1>4. c1 \in Nat /\ o1 \in 0..(Radix - 1) /\ x1 = o1 + Radix * c1 BY <1>2
<1> HIDE DEF c1, o1
<1>5. y2 \in Nat BY <1>4
<1>6. c2 \in Nat /\ o2 \in 0..(Radix - 1) /\ y2 = o2 + Radix * c2 BY <1>2, <1>5
<1> HIDE DEF c2, o2
<1>7. y3 \in Nat BY <1>6
<1>8. c3 \in Nat /\ o3 \in 0..(Radix - 1) /\ y3 = o3 + Radix * c3 BY <1>2, <1>7
<1> HIDE DEF c3, o3
<1>9. y4 \in Nat BY <1>8
<1>10. c4 \in Nat /\ o4 \in 0..(Radix - 1) /\ y4 = o4 + Radix * c4 BY <1>2, <1>9
<1> HIDE DEF c4, o4
<1>11. y5 \in Nat BY <1>10
<1>12. c5 \in Nat /\ o5 \in 0..(Radix - 1) /\ y5 = o5 + Radix * c5 BY <1>2, <1>11
<1> HIDE DEF c5, o5
<1>13. /\ c1 \in Int /\ c2 \in Int /\ c3 \in Int /\ c4 \in Int /\ c5 \in Int
       /\ o1 \in Int /\ o2 \in Int /\ o3 \in Int /\ o4 \in Int /\ o5 \in Int /\ Radix \in Int
       /\ x1 \in Int /\ x2 \in Int /\ x3 \in Int /\ x4 \in Int /\ x5 \in Int
  BY <1>1, <1>4, <1>6, <1>8, <1>10, <1>12
<1>14. CarriesKeep(x1, x2, x3, x4, x5, o1, o2, o3, o4, c1, c2, c3, c4)
  BY <1>13, Carried
<1>15. Digits(o1, o2, o3, o4, x5 + c4) = Digits(x1, x2, x3, x4, x5)
  BY <1>4, <1>6, <1>8, <1>10, <1>14, Zenon DEF CarriesKeep
<1>16. Moves(o1, o2, o3, o4, o5, c5) BY <1>13, DigitsMove
<1>17. Digits(o1, o2, o3, o4, o5 + Radix * c5) = low + Limbs!Radix5 * c5
  BY <1>16, Zenon DEF Moves
<1>18. low \in 0..(Limbs!Radix5 - 1)
  BY <1>4, <1>6, <1>8, <1>10, <1>12, DigitsBelow
<1>19. Digits(x1, x2, x3, x4, x5) = low + Limbs!Radix5 * c5
  BY <1>12, <1>15, <1>17, Zenon
<1> HIDE DEF low
<1> QED BY <1>3, <1>12, <1>18, <1>19, Zenon DEF Passes

(* After a pass over bounded limbs only the top one may reach Radix.       *)
LEMMA ReducedLimbs ==
  ASSUME Sizes, NEW a, Limbs!Bounded(a), NEW l, l = Limbs!WeakReduce(a)
  PROVE  /\ l[1] \in 0..(Radix - 1) /\ l[2] \in 0..(Radix - 1) /\ l[3] \in 0..(Radix - 1)
         /\ l[4] \in 0..(Radix - 1) /\ l[5] \in 0..Radix
<1> DEFINE a5 == a[5]
           c5 == a5 \div Radix
           e5 == a5 % Radix
           x1 == a[1] + Fold * c5
           c1 == x1 \div Radix
           o1 == x1 % Radix
           x2 == a[2] + c1
           c2 == x2 \div Radix
           o2 == x2 % Radix
           x3 == a[3] + c2
           c3 == x3 \div Radix
           o3 == x3 % Radix
           x4 == a[4] + c3
           c4 == x4 \div Radix
           o4 == x4 % Radix
<1>0. l = <<o1, o2, o3, o4, e5 + c4>>
  BY Zenon DEF Limbs!WeakReduce
<1>1. /\ a[1] \in 0..(Radix + Slack - 1) /\ a[2] \in 0..(Radix + Slack - 1)
      /\ a[3] \in 0..(Radix + Slack - 1) /\ a[4] \in 0..(Radix + Slack - 1)
      /\ a5 \in 0..(Radix + Slack - 1)
  BY SMT DEF Limbs!Bounded, Limbs!Limb
<1>2. Radix \in Nat /\ Radix > 8388608 /\ Fold = 19 /\ Slack = 1024 BY SMT DEF Sizes
<1>3. ASSUME NEW x \in Nat, x < Radix + 1024 + 19
      PROVE  x \div Radix \in 0..1 /\ x % Radix \in 0..(Radix - 1)
  <2>1. x < Radix * 2 BY <1>2, <1>3
  <2>2. x \div Radix \in Nat /\ x \div Radix < 2 /\ x % Radix \in 0..(Radix - 1)
    BY <1>2, <2>1, DivLess
  <2> QED BY <2>2
<1>4. c5 \in 0..1 /\ e5 \in 0..(Radix - 1) BY <1>1, <1>2, <1>3
<1> HIDE DEF c5, e5
<1>5. x1 \in Nat /\ x1 < Radix + 1024 + 19 BY <1>1, <1>2, <1>4
<1>6. c1 \in 0..1 /\ o1 \in 0..(Radix - 1) BY <1>3, <1>5
<1> HIDE DEF c1, o1
<1>7. x2 \in Nat /\ x2 < Radix + 1024 + 19 BY <1>1, <1>2, <1>6
<1>8. c2 \in 0..1 /\ o2 \in 0..(Radix - 1) BY <1>3, <1>7
<1> HIDE DEF c2, o2
<1>9. x3 \in Nat /\ x3 < Radix + 1024 + 19 BY <1>1, <1>2, <1>8
<1>10. c3 \in 0..1 /\ o3 \in 0..(Radix - 1) BY <1>3, <1>9
<1> HIDE DEF c3, o3
<1>11. x4 \in Nat /\ x4 < Radix + 1024 + 19 BY <1>1, <1>2, <1>10
<1>12. c4 \in 0..1 /\ o4 \in 0..(Radix - 1) BY <1>3, <1>11
<1> HIDE DEF c4, o4
<1>13. e5 + c4 \in 0..Radix BY <1>2, <1>4, <1>12
<1> QED BY <1>0, <1>6, <1>8, <1>10, <1>12, <1>13

(* to_bytes gives the one number below p for what the limbs spell.         *)
LEMMA OneBytesEncoding ==
  ASSUME Sizes, NEW a, Limbs!Bounded(a)
  PROVE  Limbs!ToBytes(a) \in 0..(Limbs!P - 1) /\ SameModP(Limbs!ToBytes(a), Limbs!Spells(a))
<1> DEFINE l  == Limbs!WeakReduce(a)
           l1 == l[1]
           l2 == l[2]
           l3 == l[3]
           l4 == l[4]
           l5 == l[5]
           x1 == l1 + Fold
           c  == TopCarry(x1, l2, l3, l4, l5)
           d  == LeftBelow(x1, l2, l3, l4, l5)
           z1 == l1 + Fold * c
           h  == TopCarry(z1, l2, l3, l4, l5)
           out == LeftBelow(z1, l2, l3, l4, l5)
           whole == Digits(l1, l2, l3, l4, l5)
           five == Limbs!Radix5
<1> HIDE DEF l, l1, l2, l3, l4, l5, x1, c, d, z1, h, out, whole, five
<1>1. /\ Radix \in Nat /\ Radix > 0 /\ Fold = 19 /\ five \in Nat /\ Limbs!P \in Nat
      /\ Limbs!P + Fold = five /\ five > 0
  BY ModulusIs DEF five
<1>2. PICK e \in Nat : e = Radix * Radix * Radix * Radix /\ five > 2 * e + 100
  BY SMT, ModulusIs DEF five
<1>3. /\ l1 \in 0..(Radix - 1) /\ l2 \in 0..(Radix - 1) /\ l3 \in 0..(Radix - 1)
      /\ l4 \in 0..(Radix - 1) /\ l5 \in 0..Radix
  BY ReducedLimbs DEF l, l1, l2, l3, l4, l5
<1>4. Limbs!ToBytes(a) = out
  <2> DEFINE y1 == z1
             y2 == l2 + y1 \div Radix
             y3 == l3 + y2 \div Radix
             y4 == l4 + y3 \div Radix
             y5 == l5 + y4 \div Radix
             t1 == y1 % Radix
             t2 == y2 % Radix
             t3 == y3 % Radix
             t4 == y4 % Radix
             t5 == y5 % Radix
             t  == <<t1, t2, t3, t4, t5>>
  <2>1. Limbs!ToBytes(a) = Limbs!Spells(t)
    BY Zenon DEF Limbs!ToBytes, TopCarry, z1, c, x1, l1, l2, l3, l4, l5, l
  <2>2. out = Digits(t1, t2, t3, t4, t5)
    BY Zenon DEF LeftBelow, out
  <2> HIDE DEF t1, t2, t3, t4, t5
  <2>3. Limbs!Spells(t) = Digits(t[1], t[2], t[3], t[4], t[5]) BY SpellsDigits
  <2>4. t[1] = t1 /\ t[2] = t2 /\ t[3] = t3 /\ t[4] = t4 /\ t[5] = t5
    OBVIOUS
  <2> HIDE DEF t
  <2> QED BY <2>1, <2>2, <2>3, <2>4, Zenon
<1>5. Limbs!Spells(l) = whole BY SpellsDigits, Zenon DEF whole, l1, l2, l3, l4, l5
<1>6. SameModP(Limbs!Spells(a), Limbs!Spells(l)) /\ Limbs!Spells(a) \in Int /\ Limbs!Spells(l) \in Int
  BY BoundedNaturals, WeakReduceKeeps DEF l
<1>7. x1 \in Nat /\ l2 \in Nat /\ l3 \in Nat /\ l4 \in Nat /\ l5 \in Nat BY <1>1, <1>3 DEF x1
<1>8. Passes(x1, l2, l3, l4, l5)
  BY <1>7, WholePass
<1>9. c \in Nat /\ d \in 0..(five - 1) /\ Digits(x1, l2, l3, l4, l5) = d + five * c
  BY <1>8, Zenon DEF Passes, c, d, five
<1>10. z1 \in Nat /\ Fold * c \in Nat BY <1>1, <1>3, <1>9 DEF z1
<1>11. Passes(z1, l2, l3, l4, l5)
  BY <1>7, <1>10, WholePass
<1>12. h \in Nat /\ out \in 0..(five - 1) /\ Digits(z1, l2, l3, l4, l5) = out + five * h
  BY <1>11, Zenon DEF Passes, h, out, five
<1>13. Digits(x1, l2, l3, l4, l5) = whole + Fold /\ whole \in Int
  <2>1. l1 \in Int /\ l2 \in Int /\ l3 \in Int /\ l4 \in Int /\ l5 \in Int /\ Radix \in Int /\ Fold \in Int
    BY <1>1, <1>3
  <2>2. Moves(l1, l2, l3, l4, l5, Fold) BY <2>1, DigitsMove
  <2> QED BY <2>2, Zenon DEF Moves, whole, x1
<1>14. Digits(z1, l2, l3, l4, l5) = whole + Fold * c
  <2> DEFINE fc == Fold * c
  <2>1. /\ l1 \in Int /\ l2 \in Int /\ l3 \in Int /\ l4 \in Int /\ l5 \in Int /\ Radix \in Int
        /\ fc \in Int
    BY <1>1, <1>3, <1>10
  <2> HIDE DEF fc
  <2>2. Moves(l1, l2, l3, l4, l5, fc) BY <2>1, DigitsMove
  <2> QED BY <2>2, Zenon DEF Moves, fc, z1, whole
<1>15. 0 <= whole /\ whole < five + e
  <2>1. CASE l5 \in 0..(Radix - 1)
    <3>1. whole \in 0..(five - 1) BY <1>3, <2>1, DigitsBelow DEF whole, five
    <3> QED BY <1>1, <1>2, <3>1
  <2>2. CASE l5 = Radix
    <3> DEFINE zero == 0
               one == 1
               below == Digits(l1, l2, l3, l4, zero)
    <3>1. zero \in 0..(Radix - 1) BY <1>1
    <3>2. below \in 0..(e - 1)
      BY <1>2, <1>3, <3>1, DigitsBelow
    <3>3. /\ l1 \in Int /\ l2 \in Int /\ l3 \in Int /\ l4 \in Int /\ Radix \in Int
          /\ zero \in Int /\ one \in Int /\ zero + Radix * one = l5 /\ five * one = five
      BY <1>1, <1>3, <2>2
    <3> HIDE DEF zero, one
    <3>4. Moves(l1, l2, l3, l4, zero, one) BY <3>3, DigitsMove
    <3>5. Digits(l1, l2, l3, l4, zero + Radix * one) = below + five * one
      BY <3>4, Zenon DEF Moves, five
    <3>6. whole = below + five BY <3>3, <3>5, Zenon DEF whole
    <3> HIDE DEF below
    <3> QED BY <1>1, <3>2, <3>6
  <2> QED BY <1>1, <1>3, <2>1, <2>2
<1> DEFINE r == Limbs!P
<1> HIDE DEF r
<1>16. whole + Fold = d + five * c BY <1>9, <1>13, Zenon
<1>17. whole + Fold * c = out + five * h BY <1>12, <1>14, Zenon
<1>18. r \in Nat /\ r + 19 = five /\ Fold = 19 BY <1>1 DEF r
<1>19. c = 0 \/ c = 1
  <2>1. CASE c >= 2
    <3>1. five * c >= five * 2 BY <1>1, <1>9, <2>1
    <3> QED BY <1>1, <1>2, <1>9, <1>13, <1>15, <1>16, <3>1
  <2> QED BY <1>9, <2>1
<1>20. ASSUME c = 0 PROVE out \in 0..(r - 1) /\ SameModP(out, whole)
  <2>1. five * c = 0 /\ Fold * c = 0 BY <1>1, <1>20
  <2>2. h = 0
    <3>1. CASE h >= 1
      <4>1. five * h >= five BY <1>1, <1>12, <3>1
      <4> QED BY <1>1, <1>9, <1>12, <1>13, <1>16, <1>17, <1>18, <2>1, <4>1
    <3> QED BY <1>12, <3>1
  <2>3. five * h = 0 BY <1>1, <2>2
  <2>4. out = whole /\ out < r /\ out >= 0 BY <1>9, <1>12, <1>13, <1>16, <1>17, <1>18, <2>1, <2>3
  <2>5. SameModP(out, whole)
    <3>1. SameModP(whole, whole) BY <1>13, SameModPIs
    <3> QED BY <2>4, <3>1, Zenon
  <2> QED BY <1>12, <1>18, <2>4, <2>5
<1>21. ASSUME c = 1 PROVE out \in 0..(r - 1) /\ SameModP(out, whole)
  <2>1. five * c = five /\ Fold * c = 19 BY <1>18, <1>1, <1>21
  <2>2. h = 1
    <3>1. CASE h = 0
      <4>1. five * h = 0 BY <1>1, <3>1
      <4> QED BY <1>9, <1>12, <1>13, <1>16, <1>17, <1>18, <2>1, <4>1
    <3>2. CASE h >= 2
      <4>1. five * h >= five * 2 BY <1>1, <1>12, <3>2
      <4> QED BY <1>1, <1>2, <1>12, <1>13, <1>15, <1>17, <2>1, <4>1
    <3> QED BY <1>12, <3>1, <3>2
  <2>3. five * h = five BY <1>1, <2>2
  <2>4. out = whole - r BY <1>12, <1>13, <1>17, <1>18, <2>1, <2>3
  <2>5. out \in 0..(r - 1) BY <1>2, <1>12, <1>13, <1>15, <1>18, <2>4
  <2>6. SameModP(out, whole)
    <3>1. out = whole + r * (-1) /\ -1 \in Int BY <1>13, <1>18, <2>4
    <3> QED BY <3>1, Zenon DEF SameModP, r
  <2> QED BY <2>5, <2>6
<1>22. out \in 0..(r - 1) /\ SameModP(out, whole) BY <1>19, <1>20, <1>21
<1>23. SameModP(whole, Limbs!Spells(a))
  BY <1>5, <1>6, <1>13, SameModPIs
<1>24. SameModP(out, Limbs!Spells(a))
  BY <1>6, <1>12, <1>13, <1>22, <1>23, SameModPIs
<1> QED BY <1>4, <1>22, <1>24 DEF r

-----------------------------------------------------------------------------
(* Sums and products of numbers that are the same modulo p.                *)
LEMMA SameTogether ==
  ASSUME Sizes, NEW x1 \in Int, NEW y1 \in Int, NEW x2 \in Int, NEW y2 \in Int,
         SameModP(x1, y1), SameModP(x2, y2)
  PROVE  SameModP(x1 + x2, y1 + y2) /\ SameModP(x1 * x2, y1 * y2)
<1>1. SameModP(x1 + x2, y1 + x2) /\ SameModP(x2 + y1, y2 + y1) BY SameModPIs
<1>2. x2 + y1 = y1 + x2 /\ y2 + y1 = y1 + y2 OBVIOUS
<1>3. x1 + x2 \in Int /\ y1 + x2 \in Int /\ y1 + y2 \in Int OBVIOUS
<1>4. SameModP(x1 + x2, y1 + y2) BY <1>1, <1>2, <1>3, SameModPIs
<1>5. SameModP(x2 * x1, x2 * y1) /\ SameModP(y1 * x2, y1 * y2) BY SameModPIs
<1>6. x2 * x1 = x1 * x2 /\ x2 * y1 = y1 * x2 OBVIOUS
<1>7. x1 * x2 \in Int /\ y1 * x2 \in Int /\ y1 * y2 \in Int OBVIOUS
<1>8. SameModP(x1 * x2, y1 * y2) BY <1>5, <1>6, <1>7, SameModPIs
<1> QED BY <1>4, <1>8

(* Remainders of numbers that are the same modulo p.                       *)
LEMMA SameRemainders ==
  ASSUME Sizes, NEW x \in Int, NEW y \in Int, SameModP(x, y)
  PROVE  x % Limbs!P = y % Limbs!P
<1> DEFINE e == y % Limbs!P
<1>1. e \in 0..(Limbs!P - 1) /\ SameModP(e, y) BY RemainderSame
<1>2. Limbs!P \in Nat BY ModulusIs
<1> HIDE DEF e
<1>3. e \in Int /\ 0 <= e /\ e < Limbs!P BY <1>1, <1>2
<1>4. SameModP(x, e) BY <1>1, <1>3, SameModPIs
<1>5. x % Limbs!P = e BY <1>3, <1>4, SameRemainder
<1> QED BY <1>5 DEF e

(* A set of naturals has a least element.                                  *)
LEMMA LeastOf ==
  ASSUME NEW S, S \subseteq Nat, S # {}
  PROVE  \E x \in S : \A y \in S : x <= y
<1> DEFINE D == { 0..x : x \in S }
<1>1. D \subseteq FiniteSubsetsOf(Nat) /\ D # {}
  <2>1. ASSUME NEW x \in S PROVE 0..x \in FiniteSubsetsOf(Nat)
    <3>1. IsFiniteSet(0..x) BY FS_Interval
    <3> QED BY <3>1 DEF FiniteSubsetsOf
  <2> QED BY <2>1
<1>2. PICK d \in D : \A e \in D : <<e, d>> \notin StrictSubsetOrdering(Nat)
  <2> HIDE DEF D
  <2> QED BY <1>1, FS_StrictSubsetOrderingWellFounded, WFMin
<1>3. PICK x \in S : d = 0..x
  OBVIOUS
<1>4. ASSUME NEW y \in S, y < x PROVE FALSE
  <2>1. 0..y \in D /\ 0..y \subseteq 0..x /\ x \in 0..x /\ x \notin 0..y
    BY <1>4
  <2>2. <<0..y, 0..x>> \in StrictSubsetOrdering(Nat)
    BY <2>1 DEF StrictSubsetOrdering
  <2> QED BY <1>2, <1>3, <2>1, <2>2
<1> QED BY <1>4

(* One doubling: what the model's product does with the half of k.         *)
LEMMA DoublingStep ==
  ASSUME Sizes, NEW x \in Nat, NEW k \in Nat, NEW t, t = ((k \div 2) * x) % Limbs!P
  PROVE  (((t + t) % Limbs!P) + (IF k % 2 = 1 THEN x ELSE 0)) % Limbs!P = (k * x) % Limbs!P
<1> DEFINE j == k \div 2
           b == k % 2
           u == IF b = 1 THEN x ELSE 0
           d == (t + t) % Limbs!P
<1>1. j \in Nat /\ b \in 0..1 /\ k = 2 * j + b OBVIOUS
<1> HIDE DEF j, b
<1>2. u \in Int /\ u = b * x BY <1>1
<1> HIDE DEF u
<1>3. j * x \in Int /\ k * x = (j * x + j * x) + u
  <2>1. k * x = (2 * j) * x + b * x /\ (2 * j) * x = j * x + j * x /\ j * x \in Int BY <1>1
  <2> QED BY <1>2, <2>1
<1>4. t = (j * x) % Limbs!P BY DEF j
<1>5. t \in 0..(Limbs!P - 1) /\ SameModP(t, j * x) BY <1>3, <1>4, RemainderSame
<1>6. Limbs!P \in Nat BY ModulusIs
<1>7. t \in Int /\ t + t \in Int BY <1>5, <1>6
<1>8. d \in 0..(Limbs!P - 1) /\ SameModP(d, t + t) BY <1>7, RemainderSame
<1> HIDE DEF d
<1>9. d \in Int BY <1>6, <1>8
<1>10. SameModP(t + t, j * x + j * x) BY <1>3, <1>5, <1>7, SameTogether
<1>11. j * x + j * x \in Int BY <1>3
<1>12. SameModP(d, j * x + j * x) BY <1>7, <1>8, <1>9, <1>10, <1>11, SameModPIs
<1>13. SameModP(d + u, (j * x + j * x) + u) BY <1>2, <1>9, <1>11, <1>12, SameModPIs
<1>14. d + u \in Int /\ k * x \in Int /\ SameModP(d + u, k * x)
  BY <1>2, <1>3, <1>9, <1>13
<1>15. (d + u) % Limbs!P = (k * x) % Limbs!P BY <1>14, SameRemainders
<1> QED BY <1>15, Zenon DEF d, u, b

(* The product by doublings is the product modulo p.                       *)
LEMMA TimesPIs ==
  ASSUME Sizes, NEW x \in Nat, NEW y \in Nat
  PROVE  Limbs!TimesP(x, y) = (y * x) % Limbs!P
<1> DEFINE Body(f) == [k \in Nat |-> IF k = 0 THEN 0
                        ELSE (((f[k \div 2] + f[k \div 2]) % Limbs!P)
                                + (IF k % 2 = 1 THEN x ELSE 0)) % Limbs!P]
           h == CHOOSE f : f = Body(f)
           g == [k \in Nat |-> (k * x) % Limbs!P]
<1>1. Limbs!TimesP(x, y) = h[y]
  BY Zenon DEF Limbs!TimesP
<1>2. ASSUME NEW k \in Nat \ {0} PROVE k \div 2 \in Nat /\ k \div 2 < k
  OBVIOUS
<1>3. (0 * x) % Limbs!P = 0
  <2>1. Limbs!P \in Nat /\ Limbs!P > 0 BY ModulusIs
  <2> QED BY <2>1
<1>4. g = Body(g)
  <2>1. ASSUME NEW k \in Nat, k # 0
        PROVE  g[k] = (((g[k \div 2] + g[k \div 2]) % Limbs!P)
                         + (IF k % 2 = 1 THEN x ELSE 0)) % Limbs!P
    <3>1. g[k \div 2] = ((k \div 2) * x) % Limbs!P /\ g[k] = (k * x) % Limbs!P BY <1>2, <2>1, Zenon
    <3> HIDE DEF g
    <3> QED BY <3>1, DoublingStep
  <2>2. g[0] = 0 BY <1>3
  <2>3. g = [k \in Nat |-> g[k]] BY Zenon
  <2> HIDE DEF g
  <2> QED BY <2>1, <2>2, <2>3
<1>5. h = Body(h)
  <2> HIDE DEF Body, g
  <2> QED BY <1>4
<1> HIDE DEF h
<1>6. h[0] = 0 BY <1>5
<1>7. ASSUME NEW k \in Nat, k # 0
      PROVE  h[k] = (((h[k \div 2] + h[k \div 2]) % Limbs!P)
                       + (IF k % 2 = 1 THEN x ELSE 0)) % Limbs!P
  BY <1>5, <1>7
<1> DEFINE S == { k \in Nat : h[k] # (k * x) % Limbs!P }
<1>8. S = {}
  <2>1. SUFFICES ASSUME S # {} PROVE FALSE OBVIOUS
  <2>2. PICK k \in S : \A j \in S : k <= j
    <3>1. S \subseteq Nat OBVIOUS
    <3> HIDE DEF S
    <3> QED BY <2>1, <3>1, LeastOf
  <2>3. k \in Nat /\ k # 0 /\ h[k] # (k * x) % Limbs!P BY <1>3, <1>6
  <2>4. k \div 2 \notin S /\ k \div 2 \in Nat BY <1>2, <2>2, <2>3
  <2>5. h[k \div 2] = ((k \div 2) * x) % Limbs!P BY <2>4
  <2>6. h[k] = (k * x) % Limbs!P BY <1>7, <2>3, <2>5, DoublingStep
  <2> QED BY <2>3, <2>6
<1> QED BY <1>1, <1>8

-----------------------------------------------------------------------------
(* Bounded limbs that spell the number x, up to multiples of p.            *)
Stands(a, x) ==
  Limbs!Bounded(a) /\ x \in 0..(Limbs!P - 1) /\ SameModP(Limbs!Spells(a), x)

(* What is known of limbs that do.                                         *)
LEMMA StandsMeans ==
  ASSUME Sizes, NEW a, NEW x, Stands(a, x)
  PROVE  /\ Limbs!Bounded(a) /\ Naturals(a) /\ Limbs!Spells(a) \in Int
         /\ x \in Nat /\ x < Limbs!P /\ SameModP(Limbs!Spells(a), x)
<1>1. Limbs!P \in Nat BY ModulusIs
<1>2. Limbs!Bounded(a) /\ x \in 0..(Limbs!P - 1) /\ SameModP(Limbs!Spells(a), x)
  BY Zenon DEF Stands
<1>3. x \in Nat /\ x < Limbs!P BY <1>1, <1>2
<1> QED BY <1>2, <1>3, BoundedNaturals

(* Bounded limbs stand for the remainder of what spells them.              *)
LEMMA StandsFor ==
  ASSUME Sizes, NEW a, NEW y \in Int, Limbs!Bounded(a), SameModP(Limbs!Spells(a), y)
  PROVE  Stands(a, y % Limbs!P)
<1> DEFINE e == y % Limbs!P
<1>1. e \in 0..(Limbs!P - 1) /\ SameModP(e, y) BY RemainderSame
<1> HIDE DEF e
<1>2. Limbs!P \in Nat BY ModulusIs
<1>3. e \in Int BY <1>1, <1>2
<1>4. Limbs!Spells(a) \in Int BY BoundedNaturals
<1>5. SameModP(y, e) BY <1>1, <1>3, SameModPIs
<1>6. SameModP(Limbs!Spells(a), e) BY <1>3, <1>4, <1>5, SameModPIs
<1> QED BY <1>1, <1>6, Zenon DEF Stands, e

(* The accumulators are natural numbers, and so are the limbs added.       *)
LEMMA AccumulatorsNatural ==
  ASSUME Sizes, NEW a, NEW b, Limbs!Bounded(a), Limbs!Bounded(b)
  PROVE  /\ Naturals(Limbs!Sum(a, b)) /\ Naturals(Limbs!Difference(a, b))
         /\ Naturals(Limbs!Product(a, b)) /\ Naturals(Limbs!Scaled(a))
<1>1. ASSUME NEW r, NEW k, \A i \in Limbs!Limb : r[i] \in 0..k PROVE Naturals(r)
  <2>1. \A i \in 1..5 : r[i] \in Nat BY <1>1 DEF Limbs!Limb
  <2> QED BY <2>1 DEF Naturals
<1>2. Naturals(Limbs!Sum(a, b)) BY <1>1, SumsSmall
<1>3. Naturals(Limbs!Difference(a, b)) BY <1>1, DifferencesSmall
<1>4. ASSUME NEW r, Reachable(r) PROVE Naturals(r) BY <1>1, <1>4 DEF Reachable
<1>5. Reachable(Limbs!Product(a, b)) BY ProductsReach
<1>6. Reachable(Limbs!Scaled(a)) BY ScaledReach
<1> QED BY <1>2, <1>3, <1>4, <1>5, <1>6, Zenon

(* add.                                                                    *)
LEMMA AddStands ==
  ASSUME Sizes, NEW a, NEW x, NEW b, NEW y, Stands(a, x), Stands(b, y)
  PROVE  Stands(Limbs!Add(a, b), Limbs!PlusP(x, y))
<1> DEFINE sa == Limbs!Spells(a)
           sb == Limbs!Spells(b)
           t  == Limbs!Sum(a, b)
           st == Limbs!Spells(t)
           o  == Limbs!Add(a, b)
           so == Limbs!Spells(o)
<1>1. /\ Limbs!Bounded(a) /\ Naturals(a) /\ sa \in Int /\ x \in Nat /\ SameModP(sa, x)
      /\ Limbs!Bounded(b) /\ Naturals(b) /\ sb \in Int /\ y \in Nat /\ SameModP(sb, y)
  BY StandsMeans
<1>2. st = sa + sb /\ st \in Int BY <1>1, SumIs
<1>3. SameModP(st, so) /\ so \in Int
  <2>1. Naturals(t) BY <1>1, AccumulatorsNatural
  <2>2. o = Limbs!WeakReduce(t) BY Zenon DEF Limbs!Add
  <2> QED BY <2>1, <2>2, WeakReduceKeeps
<1>4. Limbs!Bounded(o) BY <1>1, OperationsBounded
<1> HIDE DEF sa, sb, t, st, o, so
<1>5. SameModP(so, st) /\ SameModP(st, x + y) /\ x + y \in Int
  BY <1>1, <1>2, <1>3, SameModPIs, SameTogether
<1>6. SameModP(so, x + y) BY <1>2, <1>3, <1>5, SameModPIs
<1>7. Stands(o, (x + y) % Limbs!P) BY <1>4, <1>5, <1>6, StandsFor DEF so
<1> QED BY <1>7, Zenon DEF o, Limbs!PlusP

(* sub: what 2p adds is a multiple of p.                                   *)
LEMMA SubStands ==
  ASSUME Sizes, NEW a, NEW x, NEW b, NEW y, Stands(a, x), Stands(b, y)
  PROVE  Stands(Limbs!Sub(a, b), Limbs!MinusP(x, y))
<1> DEFINE sa == Limbs!Spells(a)
           sb == Limbs!Spells(b)
           t  == Limbs!Difference(a, b)
           st == Limbs!Spells(t)
           o  == Limbs!Sub(a, b)
           so == Limbs!Spells(o)
           r  == Limbs!P
           z  == x + (r - y)
<1>0. r \in Nat BY ModulusIs
<1>1. /\ Limbs!Bounded(a) /\ Naturals(a) /\ sa \in Int /\ x \in Nat /\ SameModP(sa, x)
      /\ Limbs!Bounded(b) /\ Naturals(b) /\ sb \in Int /\ y \in Nat /\ SameModP(sb, y)
  BY StandsMeans
<1>2. Naturals(t) BY <1>1, AccumulatorsNatural
<1>3. SameModP(st, so) /\ so \in Int /\ st \in Int
  <2>1. o = Limbs!WeakReduce(t) BY Zenon DEF Limbs!Sub
  <2> QED BY <1>2, <2>1, WeakReduceKeeps
<1>4. Limbs!Bounded(o) BY <1>1, OperationsBounded
<1>5. st + sb = sa + 2 * r BY <1>1, DifferenceIs
<1> HIDE DEF sa, sb, t, st, o, so, r
<1>6. z \in Int BY <1>0, <1>1
<1>7. SameModP(st, z)
  <2>1. PICK k \in Int : sa = x + r * k BY <1>1, Zenon DEF SameModP, r
  <2>2. PICK j \in Int : sb = y + r * j BY <1>1, Zenon DEF SameModP, r
  <2>3. r * k \in Int /\ r * j \in Int /\ r * (k - j + 1) = r * k - r * j + r /\ k - j + 1 \in Int
    BY <1>0
  <2>4. st = z + r * (k - j + 1) BY <1>0, <1>1, <1>3, <1>5, <2>1, <2>2, <2>3
  <2> HIDE DEF z
  <2> QED BY <2>3, <2>4, Zenon DEF SameModP, r
<1> HIDE DEF z
<1>8. SameModP(so, st) BY <1>3, SameModPIs
<1>9. SameModP(so, z) BY <1>3, <1>6, <1>7, <1>8, SameModPIs
<1>10. Stands(o, z % Limbs!P) BY <1>4, <1>6, <1>9, StandsFor DEF so
<1> QED BY <1>10, Zenon DEF o, z, r, Limbs!MinusP

(* neg: zero, less the number.                                             *)
LEMMA NegStands ==
  ASSUME Sizes, NEW a, NEW x, Stands(a, x)
  PROVE  Stands(Limbs!Neg(a), Limbs!MinusP(0, x))
<1> DEFINE o == <<0, 0, 0, 0, 0>>
           zero == 0
<1>1. Limbs!Bounded(o)
  <2>1. Radix \in Nat /\ Radix > 1 /\ Slack \in Nat BY SMT DEF Sizes
  <2> QED BY <2>1 DEF Limbs!Bounded, Limbs!Limb
<1>2. Limbs!Spells(o) = 0
  <2>1. o[1] = 0 /\ o[2] = 0 /\ o[3] = 0 /\ o[4] = 0 /\ o[5] = 0 OBVIOUS
  <2>2. Radix \in Int /\ Radix * 0 = 0 BY ModulusIs
  <2> HIDE DEF o
  <2>3. Limbs!Spells(o) = 0 + Radix * (0 + Radix * (0 + Radix * (0 + Radix * 0)))
    BY <2>1, Zenon DEF Limbs!Spells
  <2> QED BY <2>2, <2>3
<1>3. zero \in 0..(Limbs!P - 1) /\ SameModP(zero, zero)
  <2>1. Limbs!P \in Nat /\ Limbs!P > 0 BY ModulusIs
  <2> QED BY <2>1, SameModPIs
<1> HIDE DEF o, zero
<1>4. Limbs!Spells(o) = zero BY <1>2 DEF zero
<1>5. Stands(o, zero) BY <1>1, <1>3, <1>4, Zenon DEF Stands
<1>6. Stands(Limbs!Sub(o, a), Limbs!MinusP(zero, x)) BY <1>5, SubStands
<1> QED BY <1>6, Zenon DEF o, zero, Limbs!Neg

(* mul.                                                                    *)
LEMMA MulStands ==
  ASSUME Sizes, NEW a, NEW x, NEW b, NEW y, Stands(a, x), Stands(b, y)
  PROVE  Stands(Limbs!Mul(a, b), Limbs!TimesP(x, y))
<1> DEFINE sa == Limbs!Spells(a)
           sb == Limbs!Spells(b)
           t  == Limbs!Product(a, b)
           st == Limbs!Spells(t)
           o  == Limbs!Mul(a, b)
           so == Limbs!Spells(o)
<1>1. /\ Limbs!Bounded(a) /\ Naturals(a) /\ sa \in Int /\ x \in Nat /\ SameModP(sa, x)
      /\ Limbs!Bounded(b) /\ Naturals(b) /\ sb \in Int /\ y \in Nat /\ SameModP(sb, y)
  BY StandsMeans
<1>2. SameModP(sa * sb, st) BY <1>1, ProductIs
<1>3. SameModP(st, so) /\ so \in Int /\ st \in Int
  <2>1. Naturals(t) BY <1>1, AccumulatorsNatural
  <2>2. o = Limbs!Carry(t) BY Zenon DEF Limbs!Mul
  <2> QED BY <2>1, <2>2, CarryKeeps
<1>4. Limbs!Bounded(o) BY <1>1, OperationsBounded
<1> HIDE DEF sa, sb, t, st, o, so
<1>5. SameModP(sa * sb, x * y) /\ sa * sb \in Int /\ x * y \in Int /\ x * y = y * x
  BY <1>1, SameTogether
<1>6. SameModP(so, st) /\ SameModP(st, sa * sb) BY <1>2, <1>3, <1>5, SameModPIs
<1>7. SameModP(so, sa * sb) BY <1>3, <1>5, <1>6, SameModPIs
<1>8. SameModP(so, x * y) BY <1>3, <1>5, <1>7, SameModPIs
<1>9. Stands(o, (x * y) % Limbs!P) BY <1>4, <1>5, <1>8, StandsFor DEF so
<1>10. Limbs!TimesP(x, y) = (x * y) % Limbs!P BY <1>1, <1>5, TimesPIs
<1> QED BY <1>9, <1>10, Zenon DEF o

(* square.                                                                 *)
LEMMA SquareStands ==
  ASSUME Sizes, NEW a, NEW x, Stands(a, x)
  PROVE  Stands(Limbs!Square(a), Limbs!TimesP(x, x))
<1>1. Limbs!Bounded(a) BY StandsMeans
<1>2. Limbs!Squares(a) = Limbs!Product(a, a) BY <1>1, SquaresAreProducts
<1>3. Limbs!Square(a) = Limbs!Mul(a, a) BY <1>2, Zenon DEF Limbs!Square, Limbs!Mul
<1>4. Stands(Limbs!Mul(a, a), Limbs!TimesP(x, x)) BY MulStands
<1> QED BY <1>3, <1>4, Zenon

(* mul121666.                                                              *)
LEMMA ScaleStands ==
  ASSUME Sizes, NEW a, NEW x, Stands(a, x)
  PROVE  Stands(Limbs!Mul121666(a), Limbs!TimesP(x, A24))
<1> DEFINE sa == Limbs!Spells(a)
           t  == Limbs!Scaled(a)
           st == Limbs!Spells(t)
           o  == Limbs!Mul121666(a)
           so == Limbs!Spells(o)
           c  == A24
<1>0. c \in Nat BY SMT DEF Sizes
<1>1. Limbs!Bounded(a) /\ Naturals(a) /\ sa \in Int /\ x \in Nat /\ SameModP(sa, x)
  BY StandsMeans
<1>2. st = c * sa BY <1>1, ScaledIs
<1>3. SameModP(st, so) /\ so \in Int /\ st \in Int
  <2>1. Naturals(t) BY <1>1, AccumulatorsNatural
  <2>2. o = Limbs!Carry(t) BY Zenon DEF Limbs!Mul121666
  <2> QED BY <2>1, <2>2, CarryKeeps
<1>4. Limbs!Bounded(o) BY <1>1, OperationsBounded
<1>5. Limbs!TimesP(x, c) = (c * x) % Limbs!P
  <2> HIDE DEF c
  <2> QED BY <1>0, <1>1, TimesPIs
<1> HIDE DEF sa, t, st, o, so, c
<1>6. SameModP(st, c * x) /\ c * x \in Int
  BY <1>0, <1>1, <1>2, SameModPIs
<1>7. SameModP(so, st) BY <1>3, SameModPIs
<1>8. SameModP(so, c * x) BY <1>3, <1>6, <1>7, SameModPIs
<1>9. Stands(o, (c * x) % Limbs!P) BY <1>4, <1>6, <1>8, StandsFor DEF so
<1> QED BY <1>5, <1>9, Zenon DEF o, c

(* Loading 32 bytes.                                                       *)
LEMMA LoadStands ==
  ASSUME Sizes, NEW load \in Nat
  PROVE  Stands(Limbs!FromBytes(load), (load % Limbs!Radix5) % Limbs!P)
<1> DEFINE o == Limbs!FromBytes(load)
           so == Limbs!Spells(o)
<1>1. Limbs!Bounded(o) BY LoadsBounded
<1>2. so \in Int BY <1>1, BoundedNaturals
<1>3. load % Limbs!Radix5 = so BY LoadIs
<1> HIDE DEF o, so
<1>4. SameModP(so, so) BY <1>2, SameModPIs
<1>5. Stands(o, so % Limbs!P) BY <1>1, <1>2, <1>4, StandsFor DEF so
<1> QED BY <1>3, <1>5, Zenon DEF o

(* The encoding of limbs is the number they stand for.                     *)
LEMMA StandsEncodes ==
  ASSUME Sizes, NEW a, NEW x, Stands(a, x)
  PROVE  Limbs!ToBytes(a) = x
<1> DEFINE e == Limbs!ToBytes(a)
           sa == Limbs!Spells(a)
<1>0. Limbs!P \in Nat BY ModulusIs
<1>1. Limbs!Bounded(a) /\ sa \in Int /\ x \in Nat /\ x < Limbs!P /\ SameModP(sa, x)
  BY StandsMeans
<1>2. e \in 0..(Limbs!P - 1) /\ SameModP(e, sa) BY <1>1, OneBytesEncoding
<1> HIDE DEF e, sa
<1>3. e \in Int /\ 0 <= e /\ e < Limbs!P /\ x \in Int /\ 0 <= x BY <1>0, <1>1, <1>2
<1>4. SameModP(e, x) /\ SameModP(e, e) BY <1>1, <1>2, <1>3, SameModPIs
<1>5. e % Limbs!P = x BY <1>1, <1>3, <1>4, SameRemainder
<1>6. e % Limbs!P = e BY <1>3, <1>4, SameRemainder
<1> QED BY <1>5, <1>6 DEF e

-----------------------------------------------------------------------------
(* The inductive invariant: while the field is at work, each register's    *)
(* limbs are bounded and spell the number kept beside it, up to p.         *)
FieldInv == unit = "field" => Stands(s1, s3) /\ Stands(s2, s4)

(* The registers are loaded from bytes.                                    *)
LEMMA FieldInit == ASSUME Sizes PROVE BenchInit => FieldInv
<1> SUFFICES ASSUME Limbs!Init PROVE Stands(s1, s3) /\ Stands(s2, s4)
  BY Zenon DEF BenchInit, FieldInv
<1>1. PICK first \in Loads : s1 = Limbs!FromBytes(first) /\ s3 = (first % Limbs!Radix5) % Limbs!P
  BY Zenon DEF Limbs!Init
<1>2. PICK load \in Loads : s2 = Limbs!FromBytes(load) /\ s4 = (load % Limbs!Radix5) % Limbs!P
  BY Zenon DEF Limbs!Init
<1>3. first \in Nat /\ load \in Nat BY SMT DEF Sizes
<1> QED BY <1>1, <1>2, <1>3, LoadStands

(* Each operation leaves limbs that stand for what it computes.            *)
LEMMA FieldStep == ASSUME Sizes PROVE FieldInv /\ [BenchNext]_bench => FieldInv'
<1> SUFFICES ASSUME FieldInv, [BenchNext]_bench, unit' = "field"
             PROVE  Stands(s1', s3') /\ Stands(s2', s4')
  <2>1. FieldInv' <=> (unit' = "field" => Stands(s1', s3') /\ Stands(s2', s4'))
    BY DEF FieldInv, Stands, SameModP, Limbs!Bounded, Limbs!Spells
  <2> QED BY <2>1
<1>1. unit = "field"
  BY DEF BenchNext, RestUntouched, bench
<1>2. Stands(s1, s3) /\ Stands(s2, s4) BY <1>1 DEF FieldInv
<1>3. Limbs!Next \/ UNCHANGED <<s1, s2, s3, s4>>
  <2>1. ASSUME BenchNext PROVE Limbs!Next
    BY <1>1, <2>1, Zenon DEF BenchNext
  <2>2. ASSUME UNCHANGED bench PROVE UNCHANGED <<s1, s2, s3, s4>>
    BY <2>2 DEF bench, slots
  <2> QED BY <2>1, <2>2
<1>4. CASE UNCHANGED <<s1, s2, s3, s4>> BY <1>2, <1>4
<1>5. CASE Limbs!DoAdd BY <1>2, <1>5, AddStands, Zenon DEF Limbs!DoAdd, Limbs!Into
<1>6. CASE Limbs!DoSub BY <1>2, <1>6, SubStands, Zenon DEF Limbs!DoSub, Limbs!Into
<1>7. CASE Limbs!DoNeg BY <1>2, <1>7, NegStands, Zenon DEF Limbs!DoNeg, Limbs!Into
<1>8. CASE Limbs!DoMul BY <1>2, <1>8, MulStands, Zenon DEF Limbs!DoMul, Limbs!Into
<1>9. CASE Limbs!DoSquare BY <1>2, <1>9, SquareStands, Zenon DEF Limbs!DoSquare, Limbs!Into
<1>10. CASE Limbs!DoScale BY <1>2, <1>10, ScaleStands, Zenon DEF Limbs!DoScale, Limbs!Into
<1>11. CASE Limbs!DoSwap BY <1>2, <1>11, Zenon DEF Limbs!DoSwap
<1>12. CASE Limbs!DoSelect BY <1>2, <1>12, Zenon DEF Limbs!DoSelect, Limbs!Into
<1> QED
  BY <1>3, <1>4, <1>5, <1>6, <1>7, <1>8, <1>9, <1>10, <1>11, <1>12, Zenon DEF Limbs!Next

(* field/mod.rs and encoding.rs: for limbs of any width from 24 bits on    *)
(* and any chain of operations, limbs stay small, nothing leaves its word, *)
(* and the encoding of a register is the number its operations compute.    *)
THEOREM FieldStandsForNumbers == ASSUME Sizes PROVE BenchSpec => []FieldIsExact
<1>1. FieldInv => FieldIsExact
  <2> SUFFICES ASSUME FieldInv, unit = "field"
               PROVE  Limbs!LimbsBelow2to52 /\ Limbs!FitsMachine /\ Limbs!EncodesNumber
    BY Zenon DEF FieldIsExact
  <2>1. Stands(s1, s3) /\ Stands(s2, s4) BY DEF FieldInv
  <2>2. Limbs!IInv BY <2>1, StandsMeans DEF Limbs!IInv
  <2>3. Limbs!EncodesNumber BY <2>1, StandsEncodes, Zenon DEF Limbs!EncodesNumber
  <2> QED BY <2>2, <2>3, SmallWhenBounded, FitsWhenBounded
<1> QED BY <1>1, FieldInit, FieldStep, PTL DEF BenchSpec

-----------------------------------------------------------------------------
(* An odd number divides a number below it times a power of two only if    *)
(* that is zero.                                                           *)
LEMMA OddHalves ==
  ASSUME NEW d \in Nat, d % 2 = 1, NEW a \in Nat, NEW k \in Int, 2 * a = d * k
  PROVE  \E j \in Int : a = d * j
<1>1. PICK h \in Int : d = 2 * h + 1
  <2>1. d = 2 * (d \div 2) + 1 /\ d \div 2 \in Int BY QuotientIs
  <2> QED BY <2>1
<1>2. CASE k % 2 = 0
  <2>1. k = 2 * (k \div 2) /\ k \div 2 \in Int BY <1>2, QuotientIs
  <2>2. d * k = 2 * (d * (k \div 2)) /\ d * (k \div 2) \in Int BY <2>1
  <2> QED BY <2>1, <2>2
<1>3. CASE k % 2 # 0
  <2>1. PICK e \in Int : k = 2 * e + 1
    <3>1. k = 2 * (k \div 2) + 1 /\ k \div 2 \in Int BY <1>3, QuotientIs
    <3> QED BY <3>1
  <2>2. d * k = 2 * (2 * (h * e) + h + e) + 1 BY <1>1, <2>1
  <2>3. h * e \in Int BY <1>1, <2>1
  <2> HIDE DEF SigningAssumption
  <2> QED BY <1>1, <2>1, <2>2, <2>3
<1> QED BY <1>2, <1>3

(* A function of the naturals may be defined from one value to the next.   *)
Iterates(h, D, b, step, k) ==
  /\ h \in [0..k -> D] /\ h[0] = b
  /\ \A j \in 0..k : j # 0 => h[j] = step[j - 1][h[j - 1]]

Unrolls(h, b, step) == h[0] = b /\ \A k \in Nat : h[k + 1] = step[k][h[k]]

(* What the steps define is a function, one value at a time.               *)
LEMMA Recursion ==
  ASSUME NEW D, NEW b \in D, NEW step \in [Nat -> [D -> D]]
  PROVE  \E h \in [Nat -> D] : Unrolls(h, b, step)
<1> DEFINE Has(k) == \E h : Iterates(h, D, b, step, k)
           S == { k \in Nat : ~Has(k) }
<1>1. S = {}
  <2>1. SUFFICES ASSUME S # {} PROVE FALSE OBVIOUS
  <2>2. PICK k \in S : \A j \in S : k <= j
    <3>1. S \subseteq Nat OBVIOUS
    <3> HIDE DEF S
    <3> QED BY <2>1, <3>1, LeastOf
  <2>3. CASE k = 0
    <3> DEFINE h == [j \in 0..0 |-> b]
    <3>1. Iterates(h, D, b, step, 0) BY DEF Iterates
    <3> QED BY <2>2, <2>3, <3>1
  <2>4. CASE k # 0
    <3> DEFINE l == k - 1
    <3>1. k \in Nat /\ l \in Nat /\ k = l + 1 /\ l \notin S BY <2>2, <2>4
    <3> HIDE DEF l
    <3>2. PICK h : Iterates(h, D, b, step, l) BY <3>1
    <3>3. h \in [0..l -> D] /\ h[0] = b /\ \A j \in 0..l : j # 0 => h[j] = step[j - 1][h[j - 1]]
      BY <3>2 DEF Iterates
    <3> DEFINE t == step[l][h[l]]
               g == [j \in 0..k |-> IF j = k THEN t ELSE h[j]]
    <3>4. t \in D
      <4>1. l \in 0..l /\ h[l] \in D BY <3>1, <3>3
      <4>2. step[l] \in [D -> D] BY <3>1
      <4> QED BY <4>1, <4>2
    <3>5. g \in [0..k -> D] /\ g[0] = b
      <4> HIDE DEF t
      <4> QED BY <3>1, <3>3, <3>4
    <3>6. ASSUME NEW j \in 0..k, j # 0 PROVE g[j] = step[j - 1][g[j - 1]]
      <4> HIDE DEF t
      <4>1. CASE j = k
        <5>1. g[j] = t /\ j - 1 = l /\ g[j - 1] = h[l] BY <3>1, <4>1
        <5> HIDE DEF g
        <5> QED BY <5>1 DEF t
      <4>2. CASE j # k
        <5>1. j \in 0..l /\ g[j] = h[j] /\ g[j - 1] = h[j - 1] BY <3>1, <3>6, <4>2
        <5> HIDE DEF g
        <5> QED BY <3>3, <3>6, <5>1
      <4> QED BY <4>1, <4>2
    <3> HIDE DEF g
    <3>7. Iterates(g, D, b, step, k) BY <3>5, <3>6 DEF Iterates
    <3> QED BY <2>2, <3>7
  <2> QED BY <2>3, <2>4
<1>2. \A k \in Nat : Has(k) BY <1>1
<1> HIDE DEF S
<1> DEFINE part == [k \in Nat |-> CHOOSE h : Iterates(h, D, b, step, k)]
<1>3. ASSUME NEW k \in Nat PROVE Iterates(part[k], D, b, step, k)
  <2>1. \E h : Iterates(h, D, b, step, k) BY <1>2
  <2> DEFINE c == CHOOSE h : Iterates(h, D, b, step, k)
  <2>2. Iterates(c, D, b, step, k) BY <2>1
  <2>3. part[k] = c OBVIOUS
  <2> QED BY <2>2, <2>3
<1> HIDE DEF part
<1>4. ASSUME NEW k \in Nat
      PROVE  /\ part[k][0] = b /\ part[k] \in [0..k -> D]
             /\ \A j \in 0..k : j # 0 => part[k][j] = step[j - 1][part[k][j - 1]]
  BY <1>3 DEF Iterates
(* Two parts agree as far as both go.                                      *)
<1>5. ASSUME NEW k \in Nat, NEW n1 \in Nat, k <= n1
      PROVE  part[k][k] = part[n1][k]
  <2> DEFINE X == { j \in Nat : j <= k /\ part[k][j] # part[n1][j] }
  <2>1. SUFFICES ASSUME X # {} PROVE FALSE
    <3>1. k \in Nat /\ k <= k OBVIOUS
    <3> QED BY <3>1
  <2>2. PICK j \in X : \A i \in X : j <= i
    <3>1. X \subseteq Nat OBVIOUS
    <3> HIDE DEF X
    <3> QED BY <2>1, <3>1, LeastOf
  <2>3. j \in Nat /\ j <= k /\ part[k][j] # part[n1][j] OBVIOUS
  <2>4. j # 0 BY <1>4, <2>3
  <2>5. j - 1 \in Nat /\ j - 1 <= k /\ j - 1 < j BY <2>3, <2>4
  <2>6. part[k][j - 1] = part[n1][j - 1] BY <2>2, <2>5
  <2>7. j \in 0..k /\ j \in 0..n1 BY <1>5, <2>3
  <2>8. part[k][j] = step[j - 1][part[k][j - 1]] BY <1>4, <2>4, <2>7
  <2>9. part[n1][j] = step[j - 1][part[n1][j - 1]] BY <1>4, <2>4, <2>7
  <2> QED BY <2>3, <2>6, <2>8, <2>9
<1> DEFINE f == [k \in Nat |-> part[k][k]]
<1>6. f \in [Nat -> D]
  <2>1. ASSUME NEW k \in Nat PROVE part[k][k] \in D
    <3>1. part[k] \in [0..k -> D] /\ k \in 0..k BY <1>4
    <3> QED BY <3>1
  <2> QED BY <2>1
<1>7. f[0] = b
  <2>1. part[0][0] = b BY <1>4
  <2> QED BY <2>1
<1>8. ASSUME NEW k \in Nat PROVE f[k + 1] = step[k][f[k]]
  <2> DEFINE n1 == k + 1
  <2>1. n1 \in Nat /\ n1 # 0 /\ n1 \in 0..n1 /\ n1 - 1 = k /\ k <= n1 OBVIOUS
  <2>2. f[n1] = part[n1][n1] /\ f[k] = part[k][k] BY <2>1
  <2> HIDE DEF n1, f
  <2>3. part[n1][n1] = step[n1 - 1][part[n1][n1 - 1]] BY <1>4, <2>1
  <2>4. part[n1][k] = part[k][k] BY <1>5, <2>1
  <2>5. f[n1] = step[k][f[k]] BY <2>1, <2>2, <2>3, <2>4
  <2> QED BY <2>5 DEF n1
<1> HIDE DEF f
<1>9. Unrolls(f, b, step) BY <1>7, <1>8 DEF Unrolls
<1> QED BY <1>6, <1>9

(* The powers of two.                                                      *)
LEMMA PowersOfTwo ==
  /\ Montgomery!Pow2[0] = 1
  /\ \A k \in Nat : /\ Montgomery!Pow2[k] \in Nat /\ Montgomery!Pow2[k] > 0
                    /\ Montgomery!Pow2[k + 1] = 2 * Montgomery!Pow2[k]
<1> DEFINE Body(h) == [k \in Nat |-> IF k = 0 THEN 1 ELSE 2 * h[k - 1]]
           h0 == CHOOSE h : h = Body(h)
           step == [k \in Nat |-> [x \in Nat |-> 2 * x]]
<1>1. Montgomery!Pow2 = h0 BY Zenon DEF Montgomery!Pow2
<1>2. PICK h \in [Nat -> Nat] : h[0] = 1 /\ \A k \in Nat : h[k + 1] = step[k][h[k]]
  <2> DEFINE one == 1
             set == Nat
  <2>1. step \in [Nat -> [set -> set]] /\ one \in set OBVIOUS
  <2> HIDE DEF step, one, set
  <2>2. \E h \in [Nat -> set] : Unrolls(h, one, step) BY <2>1, Recursion, Zenon
  <2> QED BY <2>2 DEF one, set, Unrolls
<1>3. ASSUME NEW k \in Nat PROVE h[k + 1] = 2 * h[k]
  <2>1. h[k] \in Nat /\ h[k + 1] = step[k][h[k]] BY <1>2
  <2> QED BY <2>1
<1>4. h = Body(h)
  <2>1. ASSUME NEW k \in Nat, k # 0 PROVE h[k] = 2 * h[k - 1]
    <3>1. k - 1 \in Nat /\ (k - 1) + 1 = k BY <2>1
    <3>2. h[(k - 1) + 1] = 2 * h[k - 1] BY <1>3, <3>1
    <3> QED BY <3>1, <3>2
  <2>2. h[0] = 1 BY <1>2
  <2>3. h = [k \in Nat |-> h[k]] BY <1>2
  <2> QED BY <2>1, <2>2, <2>3
<1>5. h0 = Body(h0)
  <2> HIDE DEF Body
  <2> QED BY <1>4
<1> HIDE DEF h0
<1>6. h0[0] = 1 /\ \A k \in Nat : k # 0 => h0[k] = 2 * h0[k - 1] BY <1>5
<1>7. ASSUME NEW k \in Nat PROVE h0[k + 1] = 2 * h0[k]
  <2>1. k + 1 \in Nat /\ k + 1 # 0 /\ (k + 1) - 1 = k OBVIOUS
  <2> QED BY <1>6, <2>1
<1> DEFINE S == { k \in Nat : h0[k] \notin Nat \ {0} }
<1>8. S = {}
  <2>1. SUFFICES ASSUME S # {} PROVE FALSE OBVIOUS
  <2>2. PICK k \in S : \A j \in S : k <= j
    <3>1. S \subseteq Nat OBVIOUS
    <3> HIDE DEF S
    <3> QED BY <2>1, <3>1, LeastOf
  <2>3. k \in Nat /\ k # 0 /\ h0[k] \notin Nat \ {0} BY <1>6
  <2>4. k - 1 \in Nat /\ k - 1 < k BY <2>3
  <2>5. h0[k - 1] \in Nat \ {0} BY <2>2, <2>4
  <2> QED BY <1>6, <2>3, <2>5
<1>9. ASSUME NEW k \in Nat PROVE h0[k] \in Nat /\ h0[k] > 0
  <2>1. h0[k] \in Nat \ {0} BY <1>8
  <2> QED BY <2>1
<1> HIDE DEF S
<1> QED BY <1>1, <1>6, <1>7, <1>9

-----------------------------------------------------------------------------
(* A clamped secret is a multiple of eight, not zero.                      *)
LEMMA ClampedIs ==
  ASSUME NEW s \in Nat
  PROVE  \E m1 \in Nat : /\ Montgomery!Clamp(s) = 8 * m1 /\ 0 < m1
                         /\ m1 < Montgomery!Pow2[KeyBits - 4]
                         /\ Montgomery!Clamp(s) < Montgomery!Pow2[KeyBits - 1]
<1>1. KeyBits \in Nat /\ KeyBits > 4 BY LadderAssumption
<1> DEFINE K == KeyBits - 5
           P1 == Montgomery!Pow2[K]
<1>2. P1 \in Nat /\ P1 > 0
  <2>1. K \in Nat BY <1>1
  <2> HIDE DEF K
  <2> QED BY <2>1, PowersOfTwo
<1>3. /\ Montgomery!Pow2[KeyBits - 4] = 2 * P1
      /\ Montgomery!Pow2[KeyBits - 2] = 8 * P1
      /\ Montgomery!Pow2[KeyBits - 1] = 16 * P1
  <2>1. /\ K \in Nat /\ K + 1 = KeyBits - 4 /\ K + 1 \in Nat
        /\ (K + 1) + 1 = KeyBits - 3 /\ KeyBits - 3 \in Nat
        /\ (KeyBits - 3) + 1 = KeyBits - 2 /\ KeyBits - 2 \in Nat
        /\ (KeyBits - 2) + 1 = KeyBits - 1
    BY <1>1
  <2>2. \A k \in Nat : Montgomery!Pow2[k] \in Nat /\ Montgomery!Pow2[k + 1] = 2 * Montgomery!Pow2[k]
    BY PowersOfTwo
  <2>3. Montgomery!Pow2[K + 1] = 2 * P1 BY <2>1, <2>2
  <2>4. Montgomery!Pow2[KeyBits - 3] = 2 * Montgomery!Pow2[KeyBits - 4] BY <2>1, <2>2
  <2>5. Montgomery!Pow2[KeyBits - 2] = 2 * Montgomery!Pow2[KeyBits - 3] BY <2>1, <2>2
  <2>6. Montgomery!Pow2[KeyBits - 1] = 2 * Montgomery!Pow2[KeyBits - 2] BY <2>1, <2>2
  <2>7. Montgomery!Pow2[KeyBits - 4] = 2 * P1 BY <2>1, <2>3
  <2> HIDE DEF P1, K
  <2> QED BY <1>2, <2>4, <2>5, <2>6, <2>7
<1> HIDE DEF P1, K
<1> DEFINE low == s % (8 * P1)
           u == low \div 8
<1>4. s \div (8 * P1) \in Nat /\ low \in 0..(8 * P1 - 1) /\ s = (8 * P1) * (s \div (8 * P1)) + low
  <2>1. 8 * P1 \in Nat /\ 8 * P1 > 0 BY <1>2
  <2> QED BY <2>1, DivMod
<1> DEFINE q1 == s \div (8 * P1)
<1> HIDE DEF low, q1
<1>5. u \in Nat /\ low % 8 \in 0..7 /\ low = 8 * u + (low % 8) BY <1>2, <1>4
<1>6. s % 8 = low % 8
  <2>1. P1 * q1 \in Nat /\ s = low + 8 * (P1 * q1) BY <1>2, <1>4, <1>5 DEF q1
  <2> QED BY <2>1, <1>4
<1> HIDE DEF u
<1>7. Montgomery!Clamp(s) = 8 * (u + P1)
  <2>1. Montgomery!Clamp(s) = low - (s % 8) + 8 * P1 BY <1>3, Zenon DEF Montgomery!Clamp, low
  <2> QED BY <2>1, <1>2, <1>4, <1>5, <1>6
<1>8. u < P1 BY <1>2, <1>4, <1>5
<1> DEFINE m1 == u + P1
<1>9. /\ m1 \in Nat /\ 0 < m1 /\ m1 < 2 * P1 /\ 8 * m1 < 16 * P1
  BY <1>2, <1>5, <1>8
<1>10. Montgomery!Clamp(s) = 8 * m1 BY <1>7
<1> HIDE DEF m1
<1> QED BY <1>3, <1>9, <1>10, Zenon

(* The bits from a place on are twice those above it and the bit there.    *)
LEMMA NextBit ==
  ASSUME NEW c \in Nat, NEW k \in Nat
  PROVE  /\ Montgomery!BitOf(c, k) \in {0, 1}
         /\ c \div Montgomery!Pow2[k] \in Nat /\ c \div Montgomery!Pow2[k + 1] \in Nat
         /\ c \div Montgomery!Pow2[k]
              = 2 * (c \div Montgomery!Pow2[k + 1]) + Montgomery!BitOf(c, k)
<1> DEFINE P1 == Montgomery!Pow2[k]
           x == c \div P1
           y == x \div 2
<1>1. P1 \in Nat /\ P1 > 0 /\ Montgomery!Pow2[k + 1] = 2 * P1 BY PowersOfTwo
<1> HIDE DEF P1
<1>2. x \in Nat /\ c % P1 \in 0..(P1 - 1) /\ c = P1 * x + (c % P1) BY <1>1, DivMod
<1> DEFINE r1 == c % P1
<1> HIDE DEF x, r1
<1>3. y \in Nat /\ x % 2 \in {0, 1} /\ x = 2 * y + (x % 2) BY <1>2
<1> DEFINE b1 == x % 2
<1> HIDE DEF y, b1
<1>4. c \div (2 * P1) = y
  <2>1. c = (2 * P1) * y + (P1 * b1 + r1) /\ P1 * b1 \in Nat /\ P1 * b1 <= P1
    <3>1. P1 * x = (2 * P1) * y + P1 * b1 BY <1>1, <1>2, <1>3 DEF b1
    <3>2. P1 * b1 \in {0, P1} BY <1>1, <1>3 DEF b1
    <3>3. (2 * P1) * y + (P1 * b1 + r1) = ((2 * P1) * y + P1 * b1) + r1
      <4>1. (2 * P1) * y \in Int /\ P1 * b1 \in Int /\ r1 \in Int BY <1>1, <1>2, <1>3, <3>2 DEF r1
      <4> QED BY <4>1
    <3>4. c = P1 * x + r1 BY <1>2 DEF r1
    <3>5. P1 * b1 \in Nat /\ P1 * b1 <= P1 BY <1>1, <3>2
    <3> QED BY <3>1, <3>3, <3>4, <3>5
  <2> DEFINE d == 2 * P1
             e == P1 * b1 + r1
  <2>2. d \in Nat /\ d > 0 /\ e \in Nat /\ e < d BY <1>1, <1>2, <2>1 DEF r1
  <2>3. c = d * y + e BY <2>1
  <2> HIDE DEF d, e
  <2>4. c \div d = y BY <1>3, <2>2, <2>3
  <2> QED BY <2>4 DEF d
<1>5. Montgomery!BitOf(c, k) = b1 BY Zenon DEF Montgomery!BitOf, P1, x, b1
<1>6. /\ Montgomery!BitOf(c, k) \in {0, 1}
      /\ x \in Nat /\ c \div (2 * P1) \in Nat /\ x = 2 * (c \div (2 * P1)) + Montgomery!BitOf(c, k)
  BY <1>2, <1>3, <1>4, <1>5 DEF b1
<1> QED BY <1>1, <1>6, Zenon DEF P1, x

(* Remainders add up to the remainder of the sum.                          *)
LEMMA SumOfRemainders ==
  ASSUME NEW x \in Nat, NEW y \in Nat, NEW d \in Nat, d > 0
  PROVE  ((x % d) + (y % d)) % d = (x + y) % d
<1> DEFINE a == x \div d
           b == y \div d
           r1 == x % d
           r2 == y % d
           z == r1 + r2
           c == z \div d
           r3 == z % d
<1>1. /\ a \in Nat /\ r1 \in 0..(d - 1) /\ x = d * a + r1
      /\ b \in Nat /\ r2 \in 0..(d - 1) /\ y = d * b + r2
  BY DivMod
<1> HIDE DEF a, b, r1, r2
<1>2. z \in Nat BY <1>1
<1>3. c \in Nat /\ r3 \in 0..(d - 1) /\ z = d * c + r3
  <2> HIDE DEF z
  <2> QED BY <1>2, DivMod
<1> HIDE DEF c, r3
<1>4. x + y = r3 + d * (a + b + c)
  <2>1. d * (a + b + c) = d * a + d * b + d * c BY <1>1, <1>3
  <2>2. d * a \in Nat /\ d * b \in Nat /\ d * c \in Nat BY <1>1, <1>3
  <2>3. r1 + r2 = d * c + r3 BY <1>3
  <2> HIDE DEF z
  <2> QED BY <1>1, <1>3, <2>1, <2>2, <2>3
<1> DEFINE k == a + b + c
           s == x + y
<1>5. k \in Int /\ s \in Int /\ r3 \in Int /\ 0 <= r3 /\ r3 < d /\ s = r3 + d * k BY <1>1, <1>3, <1>4
<1> HIDE DEF k, s
<1>6. s % d = r3 BY <1>5, RemainderUnique
<1> QED BY <1>6 DEF s, r3, z, r1, r2

(* Remainders of a number and the next.                                    *)
Neighbours(a, b, h, o) == a = h % o /\ b = (h + 1) % o

(* A rung of the ladder doubles one point and adds both to the other.      *)
LEMMA OneRung ==
  ASSUME NEW o \in Nat, o > 0, NEW h \in Nat, NEW a, NEW b, Neighbours(a, b, h, o)
  PROVE  /\ Neighbours((2 * a) % o, (a + b) % o, 2 * h, o)
         /\ Neighbours((b + a) % o, (2 * b) % o, 2 * h + 1, o)
<1>1. a = h % o /\ b = (h + 1) % o /\ h + 1 \in Nat BY DEF Neighbours
<1>2. a \in 0..(o - 1) /\ b \in 0..(o - 1) BY <1>1, DivMod
<1>3. ((h % o) + (h % o)) % o = (h + h) % o BY SumOfRemainders
<1>4. ((h % o) + ((h + 1) % o)) % o = (h + (h + 1)) % o BY <1>1, SumOfRemainders
<1>5. (((h + 1) % o) + ((h + 1) % o)) % o = ((h + 1) + (h + 1)) % o BY <1>1, SumOfRemainders
<1>6. /\ 2 * a = a + a /\ 2 * b = b + b /\ b + a = a + b
      /\ h + h = 2 * h /\ h + (h + 1) = 2 * h + 1 /\ (h + 1) + (h + 1) = (2 * h + 1) + 1
  BY <1>2
<1>7. /\ (a + a) % o = (2 * h) % o /\ (a + b) % o = (2 * h + 1) % o
      /\ (b + b) % o = ((2 * h + 1) + 1) % o
  BY <1>1, <1>3, <1>4, <1>5, <1>6, Zenon
<1> QED BY <1>6, <1>7, Zenon DEF Neighbours

(* Neighbours differ by the remainder of one.                              *)
LEMMA NeighboursDiffer ==
  ASSUME NEW o \in Nat, o > 0, NEW h \in Nat, NEW a, NEW b, Neighbours(a, b, h, o)
  PROVE  (b - a) % o = 1 % o
<1> DEFINE h1 == h + 1
           c == h \div o
           d == h1 \div o
           one == 1
           e == one \div o
           r1 == one % o
<1>1. a = h % o /\ b = h1 % o /\ h1 \in Nat /\ one \in Nat BY DEF Neighbours
<1> HIDE DEF one
<1>2. a \in 0..(o - 1) /\ c \in Nat /\ h = o * c + a BY <1>1, DivMod
<1>3. b \in 0..(o - 1) /\ d \in Nat /\ h1 = o * d + b
  <2> HIDE DEF h1
  <2> QED BY <1>1, DivMod
<1>4. r1 \in 0..(o - 1) /\ e \in Nat /\ one = o * e + r1 BY <1>1, DivMod
<1> HIDE DEF c, d, e, r1
<1> DEFINE k == e - d + c
           x == b - a
<1>5. k \in Int /\ x \in Int /\ r1 \in Int /\ 0 <= r1 /\ r1 < o /\ x = r1 + o * k
  <2>1. o * k = o * e - o * d + o * c BY <1>2, <1>3, <1>4
  <2>2. o * e \in Int /\ o * d \in Int /\ o * c \in Int BY <1>2, <1>3, <1>4
  <2>3. h + 1 = o * d + b /\ one = 1 BY <1>3 DEF one
  <2>4. x = r1 + o * k
    <3> HIDE DEF k
    <3> QED BY <1>2, <1>3, <1>4, <2>1, <2>2, <2>3
  <2> QED BY <1>2, <1>3, <1>4, <2>4
<1> HIDE DEF k, x
<1>6. x % o = r1 BY <1>5, RemainderUnique
<1> QED BY <1>6 DEF x, r1, one

(* A multiple of eight annihilates a peer only if eight does.              *)
LEMMA SmallOrdersAnnihilate ==
  ASSUME NEW o \in PeerOrders, NEW m1 \in Nat, 0 < m1,
         m1 < Montgomery!Pow2[KeyBits - 4]
  PROVE  (2 * ((8 * m1) % o)) % o = 0 <=> 8 % o = 0
<1>1. /\ o \in Nat /\ o > 0
      /\ \/ 8 % o = 0
         \/ \E d \in 1..o : d % 2 = 1 /\ o % d = 0 /\ d >= Montgomery!Pow2[KeyBits - 4]
  BY LadderAssumption, Zenon
<1> DEFINE x == 8 * m1
           y == 2 * (x % o)
<1>2. y % o = (16 * m1) % o
  <2>1. x \in Nat OBVIOUS
  <2>2. x + x = 16 * m1 OBVIOUS
  <2> HIDE DEF x
  <2>3. x % o \in Nat BY <1>1, <2>1, DivMod
  <2>4. y = (x % o) + (x % o) BY <2>3
  <2>5. ((x % o) + (x % o)) % o = (x + x) % o BY <1>1, <2>1, SumOfRemainders
  <2> QED BY <2>2, <2>4, <2>5
<1> DEFINE z == 16 * m1
           t == z \div o
<1>3. z \in Nat OBVIOUS
<1>4. t \in Nat /\ z = o * t + (z % o) /\ z % o \in Nat
  <2> HIDE DEF z
  <2> QED BY <1>1, <1>3, DivMod
<1> HIDE DEF t
<1>5. ASSUME 8 % o = 0 PROVE z % o = 0
  <2> DEFINE eight == 8
             u == eight \div o
  <2>1. eight \in Nat OBVIOUS
  <2> HIDE DEF eight
  <2>2. u \in Nat /\ eight = o * u + (eight % o) /\ eight % o \in Nat BY <1>1, <2>1, DivMod
  <2> HIDE DEF u
  <2>3. 8 = o * u
    <3>1. o * u \in Int BY <1>1, <2>2
    <3>2. eight % o = 0 BY <1>5 DEF eight
    <3> QED BY <2>2, <3>1, <3>2 DEF eight
  <2> DEFINE v == u * (2 * m1)
             zero == 0
  <2>4. z = zero + o * v
    <3>1. z = 8 * (2 * m1) OBVIOUS
    <3>2. o * v = (o * u) * (2 * m1) BY <1>1, <2>2
    <3>3. o * v = 8 * (2 * m1) BY <2>3, <3>2
    <3>4. z = o * v BY <3>1, <3>3
    <3> QED BY <3>4, <1>3
  <2>5. v \in Int BY <2>2
  <2>6. zero \in Int /\ 0 <= zero /\ zero < o /\ z \in Int BY <1>1
  <2> HIDE DEF z, v, zero
  <2>7. z % o = zero BY <1>1, <2>4, <2>5, <2>6, RemainderUnique
  <2> QED BY <2>7 DEF zero
<1>6. ASSUME 8 % o # 0, z % o = 0 PROVE FALSE
  <2>1. PICK d \in 1..o : d % 2 = 1 /\ o % d = 0 /\ d >= Montgomery!Pow2[KeyBits - 4] BY <1>1, <1>6
  <2>2. d \in Nat /\ d > 0 /\ d > m1
    <3>1. d \in Nat /\ d > 0 BY <1>1
    <3>2. Montgomery!Pow2[KeyBits - 4] \in Nat
      <4>1. KeyBits - 4 \in Nat BY LadderAssumption
      <4> DEFINE k == KeyBits - 4
      <4> HIDE DEF k
      <4>2. Montgomery!Pow2[k] \in Nat BY <4>1, PowersOfTwo DEF k
      <4> QED BY <4>2 DEF k
    <3> QED BY <2>1, <3>1, <3>2
  <2> DEFINE w == o \div d
  <2>3. w \in Nat /\ o = d * w
    <3>1. w \in Nat /\ o = d * w + (o % d) BY <1>1, <2>2, DivMod
    <3>2. d * w \in Nat BY <2>2, <3>1
    <3> QED BY <2>1, <3>1, <3>2
  <2> HIDE DEF w
  <2> DEFINE k4 == w * t
             a1 == m1
             a2 == 2 * m1
             a3 == 4 * m1
             a4 == 8 * m1
  <2>4. k4 \in Int /\ 2 * a4 = d * k4
    <3>1. k4 \in Int BY <1>4, <2>3
    <3>2. z = o * t
      <4>1. o * t \in Nat BY <1>1, <1>4
      <4> HIDE DEF z
      <4> QED BY <1>4, <1>6, <4>1
    <3>3. d * k4 = (d * w) * t BY <1>4, <2>2, <2>3
    <3>4. 2 * a4 = z OBVIOUS
    <3> QED BY <2>3, <3>1, <3>2, <3>3, <3>4
  <2> HIDE DEF k4
  <2>5. a4 \in Nat /\ a3 \in Nat /\ a2 \in Nat /\ a4 = 2 * a3 /\ a3 = 2 * a2 /\ a2 = 2 * m1 OBVIOUS
  <2> HIDE DEF a2, a3, a4
  <2>6. PICK k3 \in Int : a4 = d * k3 BY <2>1, <2>2, <2>4, <2>5, OddHalves
  <2>7. PICK k2 \in Int : a3 = d * k2 BY <2>1, <2>2, <2>5, <2>6, OddHalves
  <2>8. PICK k1 \in Int : a2 = d * k1 BY <2>1, <2>2, <2>5, <2>7, OddHalves
  <2>9. PICK k0 \in Int : m1 = d * k0 BY <2>1, <2>2, <2>5, <2>8, OddHalves
  <2> DEFINE zero == 0
  <2>10. zero \in Nat /\ zero < d /\ m1 - zero = d * k0 BY <2>2, <2>9
  <2> HIDE DEF zero
  <2>11. m1 = zero BY <2>2, <2>10, NoMultipleBetween
  <2> QED BY <2>11 DEF zero
<1> QED BY <1>2, <1>5, <1>6

(* While the ladder runs its points, exchanged if they wait to be, are the *)
(* multiples by the bits taken of the clamped secret and by one more; then *)
(* the first is the secret's.                                              *)
Taken == Montgomery!Clamp(s1) \div Montgomery!Pow2[s6 + 1]

LadderInv ==
  unit = "ladder" =>
    /\ s1 \in Nat /\ s2 \in PeerOrders /\ s6 \in -1..(KeyBits - 2)
    /\ s7 = "running" =>
         \/ s5 = 0 /\ Neighbours(s3, s4, Taken, s2)
         \/ s5 = 1 /\ Neighbours(s4, s3, Taken, s2)
    /\ s7 # "running" => /\ s6 = -1
                         /\ s3 = Montgomery!Clamp(s1) % s2
                         /\ s7 = "None" <=> (2 * s3) % s2 = 0

(* The first point is the identity, the second the peer's.                 *)
LEMMA LadderInit == BenchInit => LadderInv
<1> SUFFICES ASSUME Montgomery!Init
             PROVE  /\ s1 \in Nat /\ s2 \in PeerOrders /\ s6 \in -1..(KeyBits - 2)
                    /\ s7 = "running" /\ s5 = 0 /\ Neighbours(s3, s4, Taken, s2)
  <2>1. ASSUME s7 = "running" PROVE ~(s7 # "running") BY <2>1
  <2> QED BY <2>1, Zenon DEF BenchInit, LadderInv
<1>1. /\ s1 \in 0..(Montgomery!Pow2[KeyBits] - 1) /\ s2 \in PeerOrders
      /\ s3 = 0 /\ s4 = 1 % s2 /\ s5 = 0 /\ s6 = KeyBits - 2 /\ s7 = "running"
  BY Zenon DEF Montgomery!Init
<1>2. KeyBits \in Nat /\ KeyBits > 4 BY LadderAssumption, Zenon
<1>3. s1 \in Nat
  <2>1. Montgomery!Pow2[KeyBits] \in Nat BY <1>2, PowersOfTwo
  <2> QED BY <1>1, <2>1
<1>4. s2 \in Nat /\ s2 > 0 BY <1>1, LadderAssumption, Zenon
<1>5. Taken = 0
  <2> DEFINE c == Montgomery!Clamp(s1)
             d == Montgomery!Pow2[KeyBits - 1]
  <2>1. PICK m1 \in Nat : c = 8 * m1 /\ c < d BY <1>3, ClampedIs
  <2>2. c \in Nat BY <2>1
  <2>3. d \in Nat /\ d > 0
    <3>1. KeyBits - 1 \in Nat BY <1>2
    <3> DEFINE k == KeyBits - 1
    <3> HIDE DEF k
    <3>2. Montgomery!Pow2[k] \in Nat /\ Montgomery!Pow2[k] > 0 BY <3>1, PowersOfTwo DEF k
    <3> QED BY <3>2 DEF k
  <2>4. s6 + 1 = KeyBits - 1 BY <1>1, <1>2
  <2> HIDE DEF c, d
  <2>5. c \div d = 0 BY <2>1, <2>2, <2>3
  <2> QED BY <2>4, <2>5, Zenon DEF c, d, Taken
<1>6. 0 % s2 = 0 /\ 0 + 1 = 1 BY <1>4
<1>7. Neighbours(s3, s4, Taken, s2) BY <1>1, <1>5, <1>6, Zenon DEF Neighbours
<1> QED BY <1>1, <1>2, <1>3, <1>7

(* A rung takes the next bit; the last step undoes the exchange.           *)
LEMMA LadderStep == LadderInv /\ [BenchNext]_bench => LadderInv'
<1> SUFFICES ASSUME LadderInv, [BenchNext]_bench, unit' = "ladder"
             PROVE  /\ s1' \in Nat /\ s2' \in PeerOrders /\ s6' \in -1..(KeyBits - 2)
                    /\ s7' = "running" =>
                         \/ s5' = 0 /\ Neighbours(s3', s4', Taken', s2')
                         \/ s5' = 1 /\ Neighbours(s4', s3', Taken', s2')
                    /\ s7' # "running" => /\ s6' = -1
                                          /\ s3' = Montgomery!Clamp(s1') % s2'
                                          /\ s7' = "None" <=> (2 * s3') % s2' = 0
  BY DEF LadderInv, Neighbours
<1>1. unit = "ladder" BY DEF BenchNext, RestUntouched, bench
<1>2. /\ s1 \in Nat /\ s2 \in PeerOrders /\ s6 \in -1..(KeyBits - 2)
      /\ s7 = "running" =>
           \/ s5 = 0 /\ Neighbours(s3, s4, Taken, s2)
           \/ s5 = 1 /\ Neighbours(s4, s3, Taken, s2)
      /\ s7 # "running" => /\ s6 = -1
                           /\ s3 = Montgomery!Clamp(s1) % s2
                           /\ s7 = "None" <=> (2 * s3) % s2 = 0
  BY <1>1, Zenon DEF LadderInv
<1>3. s2 \in Nat /\ s2 > 0 BY <1>2, LadderAssumption, Zenon
<1>4. KeyBits \in Nat /\ KeyBits > 4 BY LadderAssumption, Zenon
<1> DEFINE c == Montgomery!Clamp(s1)
<1>5. c \in Nat
  <2>1. PICK m1 \in Nat : c = 8 * m1 BY <1>2, ClampedIs
  <2> QED BY <2>1
<1>6. Montgomery!Next \/ UNCHANGED <<s1, s2, s3, s4, s5, s6, s7>>
  <2>1. ASSUME BenchNext PROVE Montgomery!Next BY <1>1, <2>1, Zenon DEF BenchNext
  <2>2. ASSUME UNCHANGED bench PROVE UNCHANGED <<s1, s2, s3, s4, s5, s6, s7>>
    BY <2>2 DEF bench, slots
  <2> QED BY <2>1, <2>2
<1>7. CASE UNCHANGED <<s1, s2, s3, s4, s5, s6, s7>>
  <2>1. Taken' = Taken BY <1>7 DEF Taken, Montgomery!Clamp
  <2> QED BY <1>2, <1>7, <2>1
<1>8. CASE Montgomery!Rung
  <2> DEFINE bit == Montgomery!BitOf(c, s6)
             pair == Montgomery!Swapped((s5 + bit) % 2)
  <2>1. /\ s6 >= 0
        /\ s3' = (2 * pair[1]) % s2 /\ s4' = (pair[1] + pair[2]) % s2 /\ s5' = bit
        /\ s6' = s6 - 1 /\ s1' = s1 /\ s2' = s2 /\ s7' = s7
    BY <1>8, Zenon DEF Montgomery!Rung
  <2>2. s7 = "running" /\ s6 \in Nat /\ s6' + 1 = s6 BY <1>2, <1>4, <2>1
  <2>3. /\ bit \in {0, 1} /\ Taken \in Nat /\ c \div Montgomery!Pow2[s6] = 2 * Taken + bit
    BY <1>5, <2>2, NextBit, Zenon DEF Taken
  <2>4. Taken' = 2 * Taken + bit
    <3>1. Taken' = Montgomery!Clamp(s1') \div Montgomery!Pow2[s6' + 1]
      BY Zenon DEF Taken, Montgomery!Clamp
    <3> QED BY <2>1, <2>2, <2>3, <3>1, Zenon
  <2> HIDE DEF bit
  <2>5. s5 \in {0, 1} => pair = IF s5 = bit THEN <<s3, s4>> ELSE <<s4, s3>>
    BY <2>3 DEF Montgomery!Swapped
  <2> HIDE DEF pair
  <2>6. CASE s5 = 0
    <3>1. Neighbours(s3, s4, Taken, s2) BY <1>2, <2>2, <2>6
    <3>2. /\ Neighbours((2 * s3) % s2, (s3 + s4) % s2, 2 * Taken, s2)
          /\ Neighbours((s4 + s3) % s2, (2 * s4) % s2, 2 * Taken + 1, s2)
      BY <1>3, <2>3, <3>1, OneRung
    <3>3. CASE bit = 0
      <4>1. pair[1] = s3 /\ pair[2] = s4 BY <2>5, <2>6, <3>3
      <4>2. Taken' = 2 * Taken BY <2>3, <2>4, <3>3
      <4>3. s5' = 0 /\ Neighbours(s3', s4', Taken', s2') BY <2>1, <3>2, <3>3, <4>1, <4>2
      <4> QED BY <1>2, <1>4, <2>1, <2>2, <4>3
    <3>4. CASE bit = 1
      <4>1. pair[1] = s4 /\ pair[2] = s3 BY <2>5, <2>6, <3>4
      <4>2. Taken' = 2 * Taken + 1 BY <2>4, <3>4
      <4>3. s5' = 1 /\ Neighbours(s4', s3', Taken', s2') BY <2>1, <3>2, <3>4, <4>1, <4>2
      <4> QED BY <1>2, <1>4, <2>1, <2>2, <4>3
    <3> QED BY <2>3, <3>3, <3>4
  <2>7. CASE s5 = 1
    <3>1. Neighbours(s4, s3, Taken, s2) BY <1>2, <2>2, <2>7
    <3>2. /\ Neighbours((2 * s4) % s2, (s4 + s3) % s2, 2 * Taken, s2)
          /\ Neighbours((s3 + s4) % s2, (2 * s3) % s2, 2 * Taken + 1, s2)
      BY <1>3, <2>3, <3>1, OneRung
    <3>3. CASE bit = 0
      <4>1. pair[1] = s4 /\ pair[2] = s3 BY <2>5, <2>7, <3>3
      <4>2. Taken' = 2 * Taken BY <2>3, <2>4, <3>3
      <4>3. s5' = 0 /\ Neighbours(s3', s4', Taken', s2') BY <2>1, <3>2, <3>3, <4>1, <4>2
      <4> QED BY <1>2, <1>4, <2>1, <2>2, <4>3
    <3>4. CASE bit = 1
      <4>1. pair[1] = s3 /\ pair[2] = s4 BY <2>5, <2>7, <3>4
      <4>2. Taken' = 2 * Taken + 1 BY <2>4, <3>4
      <4>3. s5' = 1 /\ Neighbours(s4', s3', Taken', s2') BY <2>1, <3>2, <3>4, <4>1, <4>2
      <4> QED BY <1>2, <1>4, <2>1, <2>2, <4>3
    <3> QED BY <2>3, <3>3, <3>4
  <2> QED BY <1>2, <2>2, <2>6, <2>7
<1>9. CASE Montgomery!Finish
  <2> DEFINE pair == Montgomery!Swapped(s5)
  <2>1. /\ s6 = -1 /\ s7 = "running" /\ s3' = pair[1]
        /\ s7' = (IF Montgomery!EncodesZero(s3)' THEN "None" ELSE "Some")
        /\ s1' = s1 /\ s2' = s2 /\ s6' = s6
    BY <1>9, Zenon DEF Montgomery!Finish, Montgomery!EncodesZero
  <2>2. Montgomery!EncodesZero(s3)' <=> (2 * s3') % s2' = 0 BY Zenon DEF Montgomery!EncodesZero
  <2>3. s7' # "running" /\ (s7' = "None" <=> (2 * s3') % s2' = 0) BY <2>1, <2>2
  <2>4. Taken = c
    <3> DEFINE zero == 0
    <3>1. s6 + 1 = zero BY <2>1
    <3>2. Montgomery!Pow2[zero] = 1 BY PowersOfTwo
    <3>3. c \div 1 = c
      <4> HIDE DEF c
      <4> QED BY <1>5
    <3> QED BY <3>1, <3>2, <3>3, Zenon DEF Taken
  <2>5. s3' = c % s2
    <3>1. CASE s5 = 0
      <4>1. pair[1] = s3 BY <3>1 DEF Montgomery!Swapped
      <4> QED BY <1>2, <2>1, <2>4, <3>1, <4>1 DEF Neighbours
    <3>2. CASE s5 = 1
      <4>1. pair[1] = s4 BY <3>2 DEF Montgomery!Swapped
      <4> QED BY <1>2, <2>1, <2>4, <3>2, <4>1 DEF Neighbours
    <3> QED BY <1>2, <2>1, <3>1, <3>2
  <2>6. Montgomery!Clamp(s1') = c BY <2>1, Zenon
  <2> QED BY <1>2, <2>1, <2>3, <2>5, <2>6
<1> QED BY <1>6, <1>7, <1>8, <1>9, Zenon DEF Montgomery!Next

(* montgomery.rs: for secrets of any length and peers of any order a point *)
(* can have, the two points differ by the peer's own after every rung, the *)
(* ladder ends at the clamped secret's multiple, and a shared secret is    *)
(* refused exactly to peers of small order.                                *)
THEOREM LadderMultiplies == BenchSpec => []LadderIsExact
<1>1. LadderInv => LadderIsExact
  <2> SUFFICES ASSUME LadderInv, unit = "ladder"
               PROVE  /\ Montgomery!DifferenceIsThePoint
                      /\ Montgomery!ComputesMultiple /\ Montgomery!RefusesSmallOrder
    BY Zenon DEF LadderIsExact
  <2>1. /\ s1 \in Nat /\ s2 \in PeerOrders /\ s6 \in -1..(KeyBits - 2)
        /\ s7 = "running" =>
             \/ s5 = 0 /\ Neighbours(s3, s4, Taken, s2)
             \/ s5 = 1 /\ Neighbours(s4, s3, Taken, s2)
        /\ s7 # "running" => /\ s3 = Montgomery!Clamp(s1) % s2
                             /\ s7 = "None" <=> (2 * s3) % s2 = 0
    BY Zenon DEF LadderInv
  <2>2. s2 \in Nat /\ s2 > 0 BY <2>1, LadderAssumption, Zenon
  <2>3. PICK m1 \in Nat : /\ Montgomery!Clamp(s1) = 8 * m1 /\ 0 < m1
                          /\ m1 < Montgomery!Pow2[KeyBits - 4]
    BY <2>1, ClampedIs
  <2>4. Montgomery!DifferenceIsThePoint
    <3> SUFFICES ASSUME s7 = "running"
                 PROVE  (IF s5 = 1 THEN s3 - s4 ELSE s4 - s3) % s2 = 1 % s2
      BY Zenon DEF Montgomery!DifferenceIsThePoint
    <3>1. Taken \in Nat
      <4> DEFINE c == Montgomery!Clamp(s1)
                 k == s6 + 1
      <4>1. c \in Nat BY <2>3
      <4>2. k \in Nat
        <5>1. KeyBits \in Nat BY LadderAssumption, Zenon
        <5> QED BY <2>1, <5>1
      <4> HIDE DEF c, k
      <4>3. c \div Montgomery!Pow2[k] \in Nat BY <4>1, <4>2, NextBit
      <4> QED BY <4>3 DEF c, k, Taken
    <3>2. CASE s5 = 0
      <4>1. (s4 - s3) % s2 = 1 % s2 BY <2>1, <2>2, <3>1, <3>2, NeighboursDiffer
      <4> QED BY <3>2, <4>1
    <3>3. CASE s5 = 1
      <4>1. (s3 - s4) % s2 = 1 % s2 BY <2>1, <2>2, <3>1, <3>3, NeighboursDiffer
      <4> QED BY <3>3, <4>1
    <3> QED BY <2>1, <3>2, <3>3
  <2>5. Montgomery!ComputesMultiple BY <2>1, Zenon DEF Montgomery!ComputesMultiple
  <2>6. Montgomery!RefusesSmallOrder
    <3> SUFFICES ASSUME s7 # "running" PROVE s7 = "None" <=> 8 % s2 = 0
      BY Zenon DEF Montgomery!RefusesSmallOrder
    <3>1. (2 * ((8 * m1) % s2)) % s2 = 0 <=> 8 % s2 = 0 BY <2>1, <2>3, SmallOrdersAnnihilate
    <3> QED BY <2>1, <2>3, <3>1, Zenon
  <2> QED BY <2>4, <2>5, <2>6
<1> QED BY <1>1, LadderInit, LadderStep, PTL DEF BenchSpec

-----------------------------------------------------------------------------
(* The powers of two, as either component has them.                        *)
Power(k) == Montgomery!Pow2[k]

(* The powers of two are the same function in both modules.                *)
LEMMA PowerIs ==
  /\ Power(0) = 1
  /\ \A k \in Nat : /\ Power(k) \in Nat /\ Power(k) > 0 /\ Power(k + 1) = 2 * Power(k)
                    /\ Power(k) = Multiples!Pow2[k]
<1>1. Multiples!Pow2 = Montgomery!Pow2 BY Zenon DEF Multiples!Pow2, Montgomery!Pow2
<1> QED BY <1>1, PowersOfTwo DEF Power

(* Exponents add.                                                          *)
LEMMA PowersAdd ==
  ASSUME NEW i \in Nat, NEW j \in Nat
  PROVE  Power(i + j) = Power(i) * Power(j)
<1> DEFINE S == { k \in Nat : Power(i + k) # Power(i) * Power(k) }
<1>1. S = {}
  <2>1. SUFFICES ASSUME S # {} PROVE FALSE OBVIOUS
  <2>2. PICK k \in S : \A h \in S : k <= h
    <3>1. S \subseteq Nat OBVIOUS
    <3> HIDE DEF S
    <3> QED BY <2>1, <3>1, LeastOf
  <2>3. k \in Nat /\ Power(i + k) # Power(i) * Power(k) OBVIOUS
  <2>4. k # 0
    <3>1. ASSUME k = 0 PROVE FALSE
      <4>1. Power(k) = 1 BY <3>1, PowerIs
      <4>2. Power(i) \in Nat /\ i + k = i BY <3>1, PowerIs
      <4>3. Power(i) * Power(k) = Power(i) BY <4>1, <4>2
      <4> QED BY <2>3, <4>2, <4>3
    <3> QED BY <3>1
  <2> DEFINE h == k - 1
             l == i + h
  <2>5. h \in Nat /\ k = h + 1 /\ h < k /\ l \in Nat /\ i + k = l + 1 BY <2>3, <2>4
  <2>6. Power(l) = Power(i) * Power(h)
    <3>1. h \notin S BY <2>2, <2>5
    <3> QED BY <2>5, <3>1
  <2> HIDE DEF h, l
  <2>7. /\ Power(k) = 2 * Power(h) /\ Power(i + k) = 2 * Power(l)
        /\ Power(i) \in Nat /\ Power(h) \in Nat
    BY <2>5, PowerIs
  <2>8. 2 * (Power(i) * Power(h)) = Power(i) * (2 * Power(h)) BY <2>7
  <2> QED BY <2>3, <2>6, <2>7, <2>8
<1> QED BY <1>1

(* A smaller power divides a larger one.                                   *)
LEMMA PowersDivide ==
  ASSUME NEW i \in Nat, NEW j \in Nat, i <= j
  PROVE  /\ j - i \in Nat /\ Power(j - i) \in Nat /\ Power(j - i) > 0
         /\ Power(j) = Power(i) * Power(j - i) /\ Power(i) <= Power(j)
         /\ i < j => 2 * Power(i) <= Power(j)
<1> DEFINE k == j - i
<1>1. k \in Nat /\ i + k = j OBVIOUS
<1> HIDE DEF k
<1>2. /\ Power(k) \in Nat /\ Power(k) > 0 /\ Power(i) \in Nat /\ Power(i) > 0
      /\ Power(j) = Power(i) * Power(k)
  BY <1>1, PowersAdd, PowerIs
<1>3. Power(i) <= Power(j) BY <1>2
<1>4. ASSUME i < j PROVE 2 * Power(i) <= Power(j)
  <2>1. k # 0 BY <1>1, <1>4
  <2> DEFINE h == k - 1
  <2>2. h \in Nat /\ k = h + 1 BY <1>1, <2>1
  <2> HIDE DEF h
  <2>3. Power(k) = 2 * Power(h) /\ Power(h) \in Nat /\ Power(h) > 0 BY <2>2, PowerIs
  <2>4. Power(k) >= 2 BY <2>3
  <2> QED BY <1>2, <2>4
<1> QED BY <1>1, <1>2, <1>3, <1>4 DEF k

(* What bounds a quotient and makes it unique.                             *)
LEMMA QuotientUnique ==
  ASSUME NEW a \in Nat, NEW d \in Nat, d > 0, NEW k \in Nat, NEW r \in Nat, r < d,
         a = d * k + r
  PROVE  a \div d = k /\ a % d = r
OBVIOUS

(* Division by a product, one factor at a time.                            *)
LEMMA DivideTwice ==
  ASSUME NEW a \in Nat, NEW d \in Nat, d > 0, NEW e \in Nat, e > 0
  PROVE  /\ (a \div d) \div e = a \div (d * e)
         /\ (a % (d * e)) \div d = (a \div d) % e
         /\ (a % (d * e)) % d = a % d
<1> DEFINE x == a \div d
           y == x \div e
           r == a % d
           t == x % e
<1>1. x \in Nat /\ r \in 0..(d - 1) /\ a = d * x + r BY DivMod
<1> HIDE DEF x, r
<1>2. y \in Nat /\ t \in 0..(e - 1) /\ x = e * y + t BY <1>1, DivMod
<1> HIDE DEF y, t
<1> DEFINE f == d * e
           h == d * t + r
<1>3. f \in Nat /\ f > 0 BY SMT
<1>4. a = f * y + h
  <2>1. d * x = (d * e) * y + d * t BY <1>1, <1>2
  <2>2. (d * e) * y \in Nat /\ d * t \in Nat BY <1>2
  <2> QED BY <1>1, <1>2, <2>1, <2>2
<1>5. h \in Nat /\ h < f
  <2>1. d * t <= d * (e - 1) BY <1>2
  <2>2. d * (e - 1) = d * e - d /\ d * e \in Nat /\ d * t \in Nat BY <1>2
  <2> QED BY <1>1, <2>1, <2>2
<1>6. h \div d = t /\ h % d = r
  <2>1. t \in Nat /\ r \in Nat /\ r < d BY <1>1, <1>2
  <2>2. h = d * t + r OBVIOUS
  <2> HIDE DEF h
  <2> QED BY <1>5, <2>1, <2>2, QuotientUnique
<1> HIDE DEF f, h
<1>7. a \div f = y /\ a % f = h BY <1>2, <1>3, <1>4, <1>5, QuotientUnique
<1> QED BY <1>6, <1>7, Zenon DEF f, x, y, r, t

(* The bits at and above a position.                                       *)
From(s, k) == s \div Power(k)

Splits(s, k, w) ==
  /\ From(s, k) \in Nat
  /\ From(s, k + w) = From(s, k) \div Power(w)
  /\ From(s, k) % Power(w) \in Nat /\ From(s, k) % Power(w) < Power(w)
  /\ From(s, k) = Power(w) * From(s, k + w) + (From(s, k) % Power(w))

(* A number splits at a place into what is above it and what is below.     *)
LEMMA FromIs ==
  ASSUME NEW s \in Nat, NEW k \in Nat, NEW w \in Nat
  PROVE  From(s, 0) = s /\ Splits(s, k, w)
<1>1. /\ Power(k) \in Nat /\ Power(k) > 0 /\ Power(w) \in Nat /\ Power(w) > 0
      /\ Power(k + w) = Power(k) * Power(w) /\ Power(0) = 1
  BY PowerIs, PowersAdd
<1>2. (s \div Power(k)) \div Power(w) = s \div (Power(k) * Power(w)) BY <1>1, DivideTwice
<1>3. From(s, k + w) = From(s, k) \div Power(w) BY <1>1, <1>2, Zenon DEF From
<1>4. From(s, k) \in Nat BY <1>1, DivMod DEF From
<1> DEFINE x == From(s, k)
           d == Power(w)
<1>5. x \div d \in Nat /\ x % d \in 0..(d - 1) /\ x = d * (x \div d) + (x % d)
  <2> HIDE DEF x, d
  <2>1. x \in Nat /\ d \in Nat /\ d > 0 BY <1>1, <1>4 DEF x, d
  <2> QED BY <2>1, DivMod
<1>6. From(s, 0) = s BY <1>1 DEF From
<1> HIDE DEF From
<1>7. x % d \in Nat /\ x % d < d BY <1>1, <1>5
<1> QED BY <1>3, <1>4, <1>5, <1>6, <1>7, Zenon DEF Splits

(* A number below a power of two has no bits from its exponent on.         *)
LEMMA NothingAbove ==
  ASSUME NEW s \in Nat, NEW j \in Nat, s < Power(j), NEW k \in Nat, j <= k
  PROVE  From(s, k) = 0
<1>1. Power(j) \in Nat /\ Power(j) <= Power(k) /\ Power(k) \in Nat /\ Power(k) > 0
  BY PowerIs, PowersDivide
<1> DEFINE d == Power(k)
<1>2. d \in Nat /\ s < d BY <1>1
<1> HIDE DEF d
<1>3. s \div d = 0 BY <1>2
<1> QED BY <1>3 DEF From, d

(* A window of at most a word's bits, read from one word or two.           *)
LEMMA WindowIs ==
  ASSUME NEW s \in Nat, NEW w \in 2..MulWordBits,
         NEW place \in Nat, s7 = place
  PROVE  Multiples!Window(s, w) = s8 + (From(s, place) % Power(w))
<1> DEFINE B == MulWordBits
           word == place \div B
           bit == place % B
           X == From(s, B * word)
           Y == From(s, place)
           rest == B - bit
           Z == From(s, B * (word + 1))
<1>1. B \in Nat /\ B >= 2 BY MultiplesAssumption
<1>2. word \in Nat /\ bit \in 0..(B - 1) /\ place = B * word + bit
  <2> HIDE DEF B
  <2> QED BY <1>1, DivMod
<1> DEFINE at0 == B * word
<1> HIDE DEF B, word, bit
<1>3. /\ bit \in Nat /\ rest \in Nat /\ rest > 0 /\ rest <= B /\ bit + rest = B
      /\ at0 \in Nat /\ place = at0 + bit /\ B * (word + 1) = at0 + B /\ at0 + B = place + rest
      /\ w \in Nat /\ w <= B /\ (bit < B - w <=> w < rest)
  BY <1>1, <1>2 DEF B
<1> HIDE DEF at0, rest
<1> DEFINE pb == Power(bit)
           pr == Power(rest)
           pB == Power(B)
           pw == Power(w)
<1>4. /\ pb \in Nat /\ pb > 0 /\ pr \in Nat /\ pr > 0 /\ pw \in Nat /\ pw > 0
      /\ pB \in Nat /\ pB > 0 /\ pB = pb * pr
  BY <1>1, <1>3, PowerIs, PowersAdd
<1>5. /\ X \in Nat /\ Y \in Nat /\ Z \in Nat /\ Y = X \div pb
      /\ Z = X \div pB /\ Y = pr * Z + (Y % pr) /\ Y % pr \in Nat /\ Y % pr < pr
  <2>1. X = From(s, at0) /\ Z = From(s, at0 + B) /\ Z = From(s, place + rest) /\ Y = From(s, at0 + bit)
    BY <1>3, Zenon DEF at0
  <2> HIDE DEF X, Y, Z
  <2>2. X \in Nat /\ Y = X \div pb
    <3>1. at0 \in Nat /\ bit \in Nat BY <1>3
    <3>2. Splits(s, at0, bit) BY <3>1, FromIs, Zenon
    <3> QED BY <2>1, <3>2, Zenon DEF Splits
  <2>3. Z \in Nat /\ Z = X \div pB
    <3>1. at0 \in Nat /\ B \in Nat /\ place \in Nat /\ rest \in Nat BY <1>1, <1>3
    <3> HIDE DEF B
    <3>2. Splits(s, at0, B) BY <3>1, FromIs, Zenon
    <3>3. From(s, at0 + B) \in Nat
      <4> DEFINE j == at0 + B
                 i == 0
      <4>1. j \in Nat /\ i \in Nat BY <3>1
      <4> HIDE DEF j, i
      <4>2. Splits(s, j, i) BY <4>1, FromIs, Zenon
      <4> QED BY <4>2 DEF Splits, j
    <3> QED BY <2>1, <3>2, <3>3, Zenon DEF Splits
  <2>4. Y \in Nat /\ Y = pr * Z + (Y % pr) /\ Y % pr \in Nat /\ Y % pr < pr
    <3>1. rest \in Nat BY <1>3
    <3>2. Splits(s, place, rest) BY <3>1, FromIs, Zenon
    <3> QED BY <2>1, <3>2, Zenon DEF Y, Splits
  <2> QED BY <2>2, <2>3, <2>4
<1>6. /\ Multiples!Word(s, word) = X % pB /\ Multiples!Word(s, word + 1) = Z % pB
  <2>1. /\ Multiples!Pow2[B * word] = Power(B * word) /\ Multiples!Pow2[B] = pB
        /\ Multiples!Pow2[B * (word + 1)] = Power(B * (word + 1))
    <3>1. B * word \in Nat /\ B * (word + 1) \in Nat BY <1>1, <1>2, <1>3 DEF at0
    <3> QED BY <1>1, <3>1, PowerIs
  <2> QED BY <2>1, Zenon DEF Multiples!Word, From, B
<1> DEFINE low == Multiples!Word(s, word) \div pb
           high == (Multiples!Word(s, word + 1) * pr) % pB
           bits == IF bit < B - w THEN low ELSE low + high
<1>7. Multiples!Window(s, w) = s8 + (bits % pw)
  <2>1. Multiples!Pow2[bit] = pb /\ Multiples!Pow2[B - bit] = pr /\ Multiples!Pow2[B] = pB
        /\ Multiples!Pow2[w] = pw
    <3>1. B - bit \in Nat BY <1>3 DEF rest
    <3> QED BY <1>1, <1>3, <3>1, PowerIs DEF rest
  <2> QED BY <2>1, Zenon DEF Multiples!Window, word, bit, B
<1>8. low = Y % pr
  <2>1. (X % (pb * pr)) \div pb = (X \div pb) % pr
    <3> HIDE DEF X, pb, pr
    <3> QED BY <1>4, <1>5, DivideTwice
  <2> QED BY <1>4, <1>5, <1>6, <2>1, Zenon
<1> HIDE DEF X, Y, Z, low, high, pb, pr, pB, pw
<1>9. bits % pw = Y % pw
  <2>1. CASE bit < B - w
    <3>1. w \in Nat /\ rest \in Nat /\ w <= rest BY <1>3, <2>1
    <3> DEFINE e == Power(rest - w)
    <3>2. e \in Nat /\ e > 0 /\ pr = pw * e BY <3>1, PowersDivide DEF pr, pw
    <3> HIDE DEF e
    <3>3. (Y % (pw * e)) % pw = Y % pw
      <4>1. Y \in Nat /\ pw \in Nat /\ pw > 0 /\ e \in Nat /\ e > 0 BY <1>4, <1>5, <3>2
      <4> QED BY <4>1, DivideTwice
    <3> QED BY <1>8, <2>1, <3>2, <3>3, Zenon
  <2>2. CASE ~(bit < B - w)
    <3> DEFINE e == Power(B - w)
               t == Z % pB
               h == t * pr
    <3>1. e \in Nat /\ e > 0 /\ pB = pw * e BY <1>1, <1>3, PowersDivide DEF pB, pw
    <3>2. t \in Nat /\ Z \div pB \in Nat /\ Z = pB * (Z \div pB) + t
      <4>1. t \in 0..(pB - 1) /\ Z \div pB \in Nat /\ Z = pB * (Z \div pB) + t BY <1>4, <1>5, DivMod
      <4> QED BY <1>4, <4>1
    <3> DEFINE c == Z \div pB
    <3> HIDE DEF e, t, c
    <3>3. h \in Nat BY <1>4, <3>2
    <3>4. high = h % pB BY <1>6, Zenon DEF high, t
    <3> HIDE DEF h
    <3>5. high \in Nat /\ h \div pB \in Nat /\ h = pB * (h \div pB) + high
      <4>1. h % pB \in 0..(pB - 1) /\ h \div pB \in Nat /\ h = pB * (h \div pB) + (h % pB)
        BY <1>4, <3>3, DivMod
      <4> QED BY <1>4, <3>4, <4>1
    <3> DEFINE d == h \div pB
    <3> HIDE DEF d
    (* The word's bits are Y's but for a multiple of the word's range.     *)
    <3>6. Y = (low + high) + (c * pr + d) * pB
      <4>1. h = t * pr BY DEF h
      <4>2. pr * Z = (c * pr) * pB + t * pr BY <1>4, <1>5, <3>2 DEF c
      <4>3. h = d * pB + high BY <1>4, <3>5 DEF d
      <4>4. d * pB \in Nat /\ (c * pr) * pB \in Nat BY <1>4, <3>2, <3>5 DEF c, d
      <4>5. (c * pr + d) * pB = (c * pr) * pB + d * pB BY <1>4, <3>2, <3>5 DEF c, d
      <4>6. low \in Nat /\ Y = pr * Z + low BY <1>5, <1>8
      <4> QED BY <3>3, <3>5, <4>1, <4>2, <4>3, <4>4, <4>5, <4>6
    <3> DEFINE r == low + high
               k == (c * pr + d) * e
    <3>7. r \in Nat /\ k \in Nat /\ Y = r + k * pw
      <4>1. low \in Nat BY <1>5, <1>8
      <4>2. c * pr + d \in Nat
        <5>1. c \in Nat /\ pr \in Nat /\ d \in Nat BY <1>4, <3>2, <3>5 DEF c, d
        <5> QED BY <5>1
      <4> DEFINE g == c * pr + d
      <4> HIDE DEF g
      <4>3. g \in Nat /\ Y = r + g * pB BY <3>6, <4>2 DEF g
      <4>4. g * pB = (g * e) * pw /\ g * e \in Nat BY <1>4, <3>1, <4>3
      <4> QED BY <3>5, <4>1, <4>3, <4>4 DEF g
    <3> HIDE DEF r, k
    <3>8. (r + k * pw) % pw = r % pw
      <4>1. r \in Nat /\ k \in Nat /\ pw \in Nat /\ pw > 0 BY <1>4, <3>7
      <4> QED BY <4>1, SameResidue
    <3>9. bits = r BY <2>2 DEF r
    <3> QED BY <3>7, <3>8, <3>9, Zenon
  <2> QED BY <2>1, <2>2
<1> QED BY <1>7, <1>9, Zenon DEF Y, pw

(* The number that a form's digits below k spell, g bits to a place.       *)
DigitAt(f, k) == IF k \in DOMAIN f THEN f[k] ELSE 0
Spellable(f) == \A k \in Nat : DigitAt(f, k) \in Int
Adding(f, g) == [k \in Nat |-> [x \in Int |-> x + DigitAt(f, k) * Power(g * k)]]
Spelt(f, g) == CHOOSE h \in [Nat -> Int] : Unrolls(h, 0, Adding(f, g))

(* The sum exists: one digit more adds its part.                           *)
LEMMA SpeltIs ==
  ASSUME NEW f, Spellable(f), NEW g \in Nat
  PROVE  /\ Spelt(f, g)[0] = 0
         /\ \A k \in Nat : /\ Spelt(f, g)[k] \in Int
                           /\ Spelt(f, g)[k + 1] = Spelt(f, g)[k] + DigitAt(f, k) * Power(g * k)
<1> DEFINE zero == 0
           set == Int
           step == Adding(f, g)
<1>1. step \in [Nat -> [set -> set]]
  <2>1. ASSUME NEW k \in Nat, NEW x \in Int PROVE x + DigitAt(f, k) * Power(g * k) \in Int
    <3>1. g * k \in Nat OBVIOUS
    <3> DEFINE j == g * k
    <3> HIDE DEF j
    <3>2. Power(j) \in Int BY <3>1, PowerIs DEF j
    <3>3. DigitAt(f, k) \in Int BY DEF Spellable
    <3> DEFINE d == DigitAt(f, k)
               e == Power(j)
    <3> HIDE DEF d, e
    <3>4. x + d * e \in Int BY <3>2, <3>3 DEF d, e
    <3> QED BY <3>4 DEF d, e, j
  <2> QED BY <2>1 DEF Adding
<1>2. zero \in set OBVIOUS
<1> HIDE DEF step, zero, set
<1>3. \E h \in [Nat -> set] : Unrolls(h, zero, step) BY <1>1, <1>2, Recursion, Zenon
<1> DEFINE s == Spelt(f, g)
<1>4. s \in [Nat -> Int] /\ Unrolls(s, zero, step)
  <2>1. s = CHOOSE h \in [Nat -> set] : Unrolls(h, zero, step) BY Zenon DEF Spelt, zero, set, step
  <2> HIDE DEF s
  <2>2. s \in [Nat -> set] /\ Unrolls(s, zero, step) BY <1>3, <2>1, Zenon
  <2> QED BY <2>2 DEF set
<1> HIDE DEF s
<1>5. s[0] = 0 BY <1>4 DEF Unrolls, zero
<1>6. ASSUME NEW k \in Nat
      PROVE  s[k] \in Int /\ s[k + 1] = s[k] + DigitAt(f, k) * Power(g * k)
  <2>1. s[k] \in Int /\ s[k + 1] = step[k][s[k]] BY <1>4 DEF Unrolls
  <2> QED BY <2>1, Zenon DEF step, Adding
<1> QED BY <1>5, <1>6, Zenon DEF s

(* Forms with the same digits below a place spell the same there.          *)
LEMMA SpeltAlike ==
  ASSUME NEW e, Spellable(e), NEW f, Spellable(f), NEW g \in Nat, NEW top \in Nat,
         \A k \in Nat : k < top => DigitAt(e, k) = DigitAt(f, k)
  PROVE  \A k \in Nat : k <= top => Spelt(e, g)[k] = Spelt(f, g)[k]
<1> DEFINE S == { k \in Nat : k <= top /\ Spelt(e, g)[k] # Spelt(f, g)[k] }
<1>1. SUFFICES ASSUME S # {} PROVE FALSE OBVIOUS
<1>2. PICK k \in S : \A h \in S : k <= h
  <2>1. S \subseteq Nat OBVIOUS
  <2> HIDE DEF S
  <2> QED BY <1>1, <2>1, LeastOf
<1>3. k \in Nat /\ k <= top /\ Spelt(e, g)[k] # Spelt(f, g)[k] OBVIOUS
<1>4. Spelt(e, g)[0] = 0 /\ Spelt(f, g)[0] = 0 BY SpeltIs
<1>5. k # 0 BY <1>3, <1>4
<1> DEFINE l == k - 1
<1>6. l \in Nat /\ k = l + 1 /\ l < k /\ l <= top /\ l < top BY <1>3, <1>5
<1>7. Spelt(e, g)[l] = Spelt(f, g)[l] BY <1>2, <1>6
<1> HIDE DEF l
<1>8. /\ Spelt(e, g)[l + 1] = Spelt(e, g)[l] + DigitAt(e, l) * Power(g * l)
      /\ Spelt(f, g)[l + 1] = Spelt(f, g)[l] + DigitAt(f, l) * Power(g * l)
  BY <1>6, SpeltIs, Zenon
<1>9. DigitAt(e, l) = DigitAt(f, l) BY <1>6
<1> QED BY <1>3, <1>6, <1>7, <1>8, <1>9, Zenon

(* Zeros add nothing.                                                      *)
LEMMA ZerosSpellNothing ==
  ASSUME NEW f, Spellable(f), NEW g \in Nat, NEW bot \in Nat,
         NEW top \in Nat, bot <= top,
         \A k \in Nat : bot <= k /\ k < top => DigitAt(f, k) = 0
  PROVE  Spelt(f, g)[top] = Spelt(f, g)[bot]
<1> DEFINE S == { k \in Nat : bot <= k /\ k <= top /\ Spelt(f, g)[k] # Spelt(f, g)[bot] }
<1>1. SUFFICES ASSUME S # {} PROVE FALSE
  <2>1. top \notin S BY <1>1
  <2> QED BY <2>1
<1>2. PICK k \in S : \A h \in S : k <= h
  <2>1. S \subseteq Nat OBVIOUS
  <2> HIDE DEF S
  <2> QED BY <1>1, <2>1, LeastOf
<1>3. k \in Nat /\ bot <= k /\ k <= top /\ Spelt(f, g)[k] # Spelt(f, g)[bot] OBVIOUS
<1>5. k # bot BY <1>3
<1> DEFINE l == k - 1
<1>6. l \in Nat /\ k = l + 1 /\ l < k /\ bot <= l /\ l < top BY <1>3, <1>5
<1>7. Spelt(f, g)[l] = Spelt(f, g)[bot] BY <1>2, <1>6
<1> HIDE DEF l
<1>8. Spelt(f, g)[l + 1] = Spelt(f, g)[l] + DigitAt(f, l) * Power(g * l) /\ Spelt(f, g)[l] \in Int
  BY <1>6, SpeltIs, Zenon
<1>9. DigitAt(f, l) = 0 BY <1>6
<1>10. Power(g * l) \in Int
  <2> DEFINE j == g * l
  <2>1. j \in Nat BY <1>6
  <2> HIDE DEF j
  <2>2. Power(j) \in Int BY <2>1, PowerIs
  <2> QED BY <2>2 DEF j
<1> DEFINE e == Power(g * l)
           s == Spelt(f, g)[l]
<1> HIDE DEF e, s
<1>11. s + 0 * e = s BY <1>8, <1>10 DEF e, s
<1> QED BY <1>3, <1>6, <1>7, <1>8, <1>9, <1>11, Zenon DEF e, s

-----------------------------------------------------------------------------
(* A scalar leaves the top three bits free.                                *)
Scalars == { s \in Nat : s < Power(Multiples!Positions - 3) }

(* The run's scalars are scalars.                                          *)
LEMMA PositionsAre ==
  /\ Multiples!Positions \in Nat /\ Multiples!Positions >= 4 /\ Multiples!Positions % 4 = 0
  /\ MulAs \subseteq Scalars /\ MulBs \subseteq Scalars
<1> DEFINE P1 == MulWordBits * MulWords
<1>1. P1 \in Nat /\ P1 >= 2
  <2>1. MulWordBits \in Nat /\ MulWordBits >= 2 /\ MulWords \in Nat /\ MulWords >= 1
    BY MultiplesAssumption
  <2>2. MulWordBits * 1 <= MulWordBits * MulWords BY <2>1
  <2> QED BY <2>1, <2>2
<1>2. Multiples!Positions = P1 BY DEF Multiples!Positions
<1> HIDE DEF P1
<1>3. P1 % 4 = 0 /\ P1 >= 4
  <2>1. P1 % 4 = 0 BY <1>2, MultiplesAssumption
  <2> QED BY <1>1, <2>1
<1> DEFINE d == Power(P1 - 3)
<1>4. d \in Nat /\ Multiples!Pow2[Multiples!Positions - 3] = d
  <2>1. P1 - 3 \in Nat BY <1>1, <1>3
  <2> QED BY <1>2, <2>1, PowerIs
<1>5. MulAs \cup MulBs \subseteq 0..(d - 1) BY <1>4, MultiplesAssumption
<1>6. Scalars = { s \in Nat : s < d } BY <1>2 DEF Scalars
<1> HIDE DEF d
<1>7. 0..(d - 1) \subseteq Scalars BY <1>4, <1>6
<1> QED BY <1>1, <1>2, <1>3, <1>5, <1>7

(* What is left of a number from a place on.                               *)
LEMMA FromBelow ==
  ASSUME NEW s \in Nat, NEW j \in Nat, s < Power(j), NEW k \in Nat, k <= j
  PROVE  From(s, k) < Power(j - k)
<1>1. /\ Power(k) \in Nat /\ Power(k) > 0 /\ Power(j - k) \in Nat
      /\ Power(j) = Power(k) * Power(j - k)
  BY PowerIs, PowersDivide
<1> DEFINE d == Power(k)
           e == Power(j - k)
<1>2. d \in Nat /\ d > 0 /\ e \in Nat /\ s < d * e BY <1>1
<1> HIDE DEF d, e
<1>3. s \div d < e BY <1>2, DivLess
<1> QED BY <1>3 DEF d, e, From

(* A form made up to a place: with what is left of the scalar from there   *)
(* on and the carry it spells the scalar.                                  *)
Building(f, s, pos, c) ==
  /\ pos \in Nat /\ c \in {0, 1}
  /\ f \in [0..(Multiples!Positions - 1) -> Int]
  /\ \A k \in Nat : pos <= k => DigitAt(f, k) = 0
  /\ s = Spelt(f, 1)[pos] + Power(pos) * (From(s, pos) + c)
  /\ pos >= Multiples!Positions => c = 0

(* Zero, or odd and below half the window's range.                         *)
NafDigit(d, w) ==
  d \in Int /\ (d = 0 \/ (d % 2 = 1 /\ -Power(w - 1) < d /\ d < Power(w - 1)))

(* A form is digits, zero outside its places.                              *)
LEMMA FormsAreDigits ==
  ASSUME NEW top \in Nat, NEW f \in [0..(top - 1) -> Int]
  PROVE  /\ Spellable(f)
         /\ \A k \in 0..(top - 1) : DigitAt(f, k) = f[k]
         /\ \A k \in Nat : k >= top => DigitAt(f, k) = 0
<1>1. ASSUME NEW k \in Nat PROVE DigitAt(f, k) \in Int BY DEF DigitAt
<1>2. ASSUME NEW k \in 0..(top - 1) PROVE DigitAt(f, k) = f[k] BY DEF DigitAt
<1>3. ASSUME NEW k \in Nat, k >= top PROVE DigitAt(f, k) = 0
  <2>1. k \notin 0..(top - 1) BY <1>3
  <2> QED BY <2>1 DEF DigitAt
<1> QED BY <1>1, <1>2, <1>3 DEF Spellable

(* The next digit's part of the sum.                                       *)
LEMMA SpeltNext ==
  ASSUME NEW f, Spellable(f), NEW k \in Nat
  PROVE  /\ Spelt(f, 1)[k] \in Int
         /\ Spelt(f, 1)[k + 1] = Spelt(f, 1)[k] + DigitAt(f, k) * Power(k)
<1> DEFINE one == 1
<1>1. one \in Nat /\ one * k = k OBVIOUS
<1> HIDE DEF one
<1>2. /\ Spelt(f, one)[k] \in Int
      /\ Spelt(f, one)[k + 1] = Spelt(f, one)[k] + DigitAt(f, k) * Power(one * k)
  BY <1>1, SpeltIs, Zenon
<1>3. /\ Spelt(f, one)[k] \in Int
      /\ Spelt(f, one)[k + 1] = Spelt(f, one)[k] + DigitAt(f, k) * Power(k)
  BY <1>1, <1>2, Zenon
<1> QED BY <1>3, Zenon DEF one

(* The low bit of a window, and of the number it is cut from.              *)
LEMMA LowBit ==
  ASSUME NEW s \in Nat, NEW k \in Nat, NEW w \in Nat, w >= 1
  PROVE  /\ (From(s, k) % Power(w)) % 2 = From(s, k) % 2
         /\ From(s, k) = 2 * From(s, k + 1) + (From(s, k) % 2)
         /\ From(s, k) \in Nat /\ From(s, k + 1) \in Nat /\ From(s, k) % 2 \in {0, 1}
<1> DEFINE one == 1
           j == w - 1
           x == From(s, k)
           e == Power(j)
           two == 2
           l == k + 1
           zero == 0
<1>1. one \in Nat /\ j \in Nat /\ one + j = w /\ l \in Nat /\ zero \in Nat OBVIOUS
<1>2. Power(one) = 2
  <2>1. Power(0 + 1) = 2 * Power(0) /\ Power(0) = 1
    <3> HIDE DEF zero
    <3>1. Power(zero + 1) = 2 * Power(zero) BY <1>1, PowerIs
    <3> QED BY <3>1, PowerIs DEF zero
  <2> QED BY <2>1
<1> HIDE DEF one, j, l, zero
<1>3. e \in Nat /\ e > 0 BY <1>1, PowerIs
<1>4. Power(w) = two * e
  <2>1. Power(one + j) = Power(one) * Power(j) BY <1>1, PowersAdd
  <2> QED BY <1>1, <1>2, <2>1, Zenon DEF e, two
<1>5. Splits(s, k, one) /\ Splits(s, l, zero) BY <1>1, FromIs, Zenon
<1>6. two \in Nat /\ two > 0 OBVIOUS
<1>7. x \in Nat BY <1>5 DEF Splits
<1> HIDE DEF x, e, two
<1>8. (x % (two * e)) % two = x % two BY <1>3, <1>6, <1>7, DivideTwice
<1>9. From(s, k + 1) \in Nat BY <1>5 DEF Splits, l
<1>10. x = 2 * From(s, k + 1) + (x % 2) BY <1>2, <1>5, Zenon DEF Splits, x, one
<1>11. x % 2 \in {0, 1} BY <1>7
<1> QED BY <1>4, <1>7, <1>8, <1>9, <1>10, <1>11 DEF x, two

(* An even window keeps the sum without a digit.                           *)
LEMMA SkipKeeps ==
  ASSUME NEW s \in Scalars, NEW f, NEW pos, NEW c, Building(f, s, pos, c),
         pos < Multiples!Positions, NEW w \in Nat, w >= 2,
         (c + (From(s, pos) % Power(w))) % 2 = 0
  PROVE  Building(f, s, pos + 1, c)
<1> DEFINE x == From(s, pos)
           y == From(s, pos + 1)
           t == From(s, pos) % Power(w)
           e == Power(pos)
           v == Spelt(f, 1)[pos]
<1>1. /\ pos \in Nat /\ c \in {0, 1} /\ s \in Nat
      /\ f \in [0..(Multiples!Positions - 1) -> Int]
      /\ \A k \in Nat : pos <= k => DigitAt(f, k) = 0
      /\ s = v + e * (x + c)
  BY DEF Building, Scalars
<1>2. Multiples!Positions \in Nat /\ Multiples!Positions >= 4 BY PositionsAre
<1>3. x % 2 = t % 2 /\ x = 2 * y + (x % 2) /\ x \in Nat /\ y \in Nat BY <1>1, LowBit
<1>4. t \in Nat
  <2>1. Splits(s, pos, w) BY <1>1, FromIs, Zenon
  <2> QED BY <2>1 DEF Splits
<1>5. Spellable(f) BY <1>1, <1>2, FormsAreDigits
<1>6. v \in Int /\ Spelt(f, 1)[pos + 1] = v
  <2>1. v \in Int /\ Spelt(f, 1)[pos + 1] = v + DigitAt(f, pos) * e BY <1>1, <1>5, SpeltNext, Zenon
  <2>2. DigitAt(f, pos) = 0 /\ e \in Int BY <1>1, PowerIs
  <2> HIDE DEF v, e
  <2>3. v + 0 * e = v BY <2>1, <2>2
  <2> QED BY <2>1, <2>2, <2>3, Zenon
<1>7. e \in Nat /\ Power(pos + 1) = 2 * e /\ pos + 1 \in Nat BY <1>1, PowerIs
<1> HIDE DEF x, y, t, e, v
<1>8. x % 2 = c
  <2>1. (c + t) % 2 = 0 BY Zenon DEF t
  <2> QED BY <1>1, <1>3, <1>4, <2>1
<1>9. s = v + (2 * e) * (y + c)
  <2>1. x + c = 2 * (y + c) BY <1>1, <1>3, <1>8
  <2>2. e * (2 * (y + c)) = (2 * e) * (y + c) BY <1>1, <1>3, <1>7
  <2> QED BY <1>1, <2>1, <2>2
<1>10. ASSUME pos + 1 >= Multiples!Positions PROVE c = 0
  <2> DEFINE j == Multiples!Positions - 3
  <2>1. j \in Nat /\ j <= pos /\ s < Power(j) BY <1>1, <1>2, <1>10 DEF Scalars
  <2> HIDE DEF j
  <2>2. From(s, pos) = 0 BY <1>1, <2>1, NothingAbove
  <2>3. x = 0 BY <2>2 DEF x
  <2> QED BY <1>3, <1>8, <2>3
<1>11. \A k \in Nat : pos + 1 <= k => DigitAt(f, k) = 0 BY <1>1
<1>12. s = Spelt(f, 1)[pos + 1] + Power(pos + 1) * (From(s, pos + 1) + c)
  BY <1>6, <1>7, <1>9, Zenon DEF y
<1> QED BY <1>1, <1>7, <1>10, <1>11, <1>12, Zenon DEF Building

(* A form made to the end spells the scalar.                               *)
LEMMA FormSpells ==
  ASSUME NEW s \in Scalars, NEW f, NEW pos, NEW c, Building(f, s, pos, c),
         pos >= Multiples!Positions
  PROVE  Spelt(f, 1)[Multiples!Positions] = s
<1> DEFINE top == Multiples!Positions
           j == top - 3
           one == 1
<1>1. /\ pos \in Nat /\ c = 0 /\ s \in Nat /\ s < Power(j)
      /\ f \in [0..(top - 1) -> Int]
      /\ s = Spelt(f, 1)[pos] + Power(pos) * (From(s, pos) + c)
  BY DEF Building, Scalars
<1>2. top \in Nat /\ j \in Nat /\ j <= pos /\ top <= pos /\ one \in Nat BY <1>1, PositionsAre
<1> HIDE DEF top, j, one
<1>3. From(s, pos) = 0 BY <1>1, <1>2, NothingAbove
<1>4. Spellable(f) /\ \A k \in Nat : top <= k => DigitAt(f, k) = 0 BY <1>1, <1>2, FormsAreDigits
<1>5. Spelt(f, one)[pos] = Spelt(f, one)[top] BY <1>1, <1>2, <1>4, ZerosSpellNothing
<1>6. Spelt(f, 1)[pos] \in Int BY <1>1, <1>4, SpeltNext
<1>7. Power(pos) \in Int BY <1>1, PowerIs
<1> DEFINE v == Spelt(f, 1)[pos]
           e == Power(pos)
<1> HIDE DEF v, e
<1>8. s = v BY <1>1, <1>3, <1>6, <1>7 DEF v, e
<1> QED BY <1>5, <1>8, Zenon DEF v, one, top

(* What is left above a window at the form's end is less than half of it.  *)
LEMMA LastWindow ==
  ASSUME NEW s \in Scalars, NEW k \in Nat, NEW w \in Nat, w >= 2,
         k + w >= Multiples!Positions
  PROVE  From(s, k) + 1 < Power(w - 1)
<1> DEFINE j == Multiples!Positions - 3
           l == w - 1
<1>1. j \in Nat /\ l \in Nat /\ l >= 1 /\ s \in Nat /\ s < Power(j)
  BY PositionsAre DEF Scalars
<1>2. Power(l) \in Nat /\ Power(l) >= 2
  <2> DEFINE h == l - 1
  <2>1. h \in Nat /\ l = h + 1 BY <1>1
  <2> HIDE DEF h, l
  <2>2. Power(h) \in Nat /\ Power(h) > 0 /\ Power(l) = 2 * Power(h) BY <2>1, PowerIs
  <2> QED BY <2>2
<1>3. CASE j <= k
  <2> HIDE DEF j, l
  <2>1. From(s, k) = 0 BY <1>1, <1>3, NothingAbove
  <2> QED BY <1>2, <2>1 DEF l
<1>4. CASE k < j
  <2> DEFINE h == j - k
             i == l - h
  <2>1. h \in Nat /\ h <= l /\ h < l /\ k <= j BY <1>1, <1>4, PositionsAre
  <2>2. From(s, k) \in Nat
    <3>1. Power(k) \in Nat /\ Power(k) > 0 BY PowerIs
    <3> QED BY <1>1, <3>1, DivMod DEF From
  <2> HIDE DEF j, l
  <2>3. From(s, k) < Power(h) BY <1>1, <2>1, FromBelow
  <2> HIDE DEF h
  <2>4. 2 * Power(h) <= Power(l) /\ Power(h) \in Nat /\ Power(h) > 0
    BY <1>1, <2>1, PowersDivide, PowerIs
  <2>5. From(s, k) + 1 < Power(l) \/ Power(l) <= 1 + From(s, k) BY <1>2, <2>2
  <2>6. From(s, k) + 1 <= Power(h) BY <2>2, <2>3, <2>4
  <2> QED BY <1>2, <2>2, <2>4, <2>6 DEF l
<1> QED BY <1>1, <1>3, <1>4

(* An odd window keeps the sum with its digit, which is in range.          *)
LEMMA EmitKeeps ==
  ASSUME NEW s \in Scalars, NEW f, NEW pos, NEW c, Building(f, s, pos, c),
         pos < Multiples!Positions, NEW w \in Nat, w >= 2,
         NEW t, t = c + (From(s, pos) % Power(w)), t % 2 = 1,
         NEW d, d = IF t < Power(w - 1) THEN t ELSE t - 2 * Power(w - 1),
         NEW u, u = IF t < Power(w - 1) THEN 0 ELSE 1
  PROVE  Building([f EXCEPT ![pos] = d], s, pos + w, u) /\ NafDigit(d, w)
<1> DEFINE x == From(s, pos)
           y == From(s, pos + w)
           r == From(s, pos) % Power(w)
           e == Power(pos)
           h == Power(w - 1)
           v == Spelt(f, 1)[pos]
           g == [f EXCEPT ![pos] = d]
           top == Multiples!Positions
<1>1. /\ pos \in Nat /\ c \in {0, 1} /\ s \in Nat
      /\ f \in [0..(top - 1) -> Int]
      /\ \A k \in Nat : pos <= k => DigitAt(f, k) = 0
      /\ s = v + e * (x + c)
  BY DEF Building, Scalars
<1>2. top \in Nat /\ top >= 4 BY PositionsAre
<1>3. /\ x \in Nat /\ y \in Nat /\ r \in Nat /\ r < Power(w) /\ x = Power(w) * y + r
  <2> DEFINE k == pos + w
             zero == 0
  <2>1. k \in Nat /\ zero \in Nat BY <1>1
  <2> HIDE DEF k, zero
  <2>2. Splits(s, pos, w) /\ Splits(s, k, zero) BY <1>1, <2>1, FromIs, Zenon
  <2> QED BY <2>2, Zenon DEF Splits, k
<1>4. h \in Nat /\ h >= 2 /\ Power(w) = 2 * h /\ h % 2 = 0
  <2> DEFINE i == w - 1
             j == w - 2
  <2>1. i \in Nat /\ j \in Nat /\ w = i + 1 /\ i = j + 1 OBVIOUS
  <2> HIDE DEF i, j
  <2>2. /\ Power(j) \in Nat /\ Power(j) > 0 /\ Power(i) = 2 * Power(j)
        /\ Power(i) \in Nat /\ Power(w) = 2 * Power(i)
    BY <2>1, PowerIs
  <2> QED BY <2>2 DEF i
<1>5. e \in Nat /\ Power(pos + w) = e * (2 * h) /\ pos + w \in Nat
  BY <1>1, <1>4, PowerIs, PowersAdd
<1> HIDE DEF x, y, r, e, h, v, g, top
<1>6. t \in Nat /\ t = c + r /\ t < 2 * h + 1 /\ t # 2 * h
  <2>1. t = c + r BY Zenon DEF r
  <2>2. t % 2 = 1 OBVIOUS
  <2>3. t \in Nat /\ t < 2 * h + 1 BY <1>1, <1>3, <1>4, <2>1
  <2>4. (2 * h) % 2 = 0 BY <1>4
  <2> QED BY <2>1, <2>2, <2>3, <2>4
<1>7. /\ d = (IF t < h THEN t ELSE t - 2 * h) /\ u = (IF t < h THEN 0 ELSE 1)
  BY Zenon DEF h
<1>8. /\ d \in Int /\ u \in {0, 1} /\ t = d + (2 * h) * u BY <1>4, <1>6, <1>7
<1>9. d % 2 = 1 /\ -h < d /\ d < h
  <2>1. t # h
    <3>1. t % 2 = 1 OBVIOUS
    <3> QED BY <1>4, <3>1
  <2>2. -h < d /\ d < h BY <1>4, <1>6, <1>7, <2>1
  <2>3. d % 2 = 1
    <3>1. t % 2 = 1 OBVIOUS
    <3>2. CASE t < h BY <1>7, <3>1, <3>2
    <3>3. CASE ~(t < h) BY <1>4, <1>6, <1>7, <3>1, <3>3
    <3> QED BY <3>2, <3>3
  <2> QED BY <2>2, <2>3
<1>10. NafDigit(d, w) BY <1>8, <1>9 DEF NafDigit, h
<1>11. g \in [0..(top - 1) -> Int] /\ pos \in 0..(top - 1) /\ g[pos] = d
       /\ \A k \in 0..(top - 1) : k # pos => g[k] = f[k]
  <2>1. pos \in 0..(top - 1) BY <1>1, <1>2 DEF top
  <2> QED BY <1>1, <1>8, <2>1 DEF g
<1>12. Spellable(f) /\ Spellable(g) /\ DigitAt(g, pos) = d
       /\ \A k \in Nat : k # pos => DigitAt(g, k) = DigitAt(f, k)
  <2>1. /\ Spellable(f) /\ \A k \in 0..(top - 1) : DigitAt(f, k) = f[k]
        /\ \A k \in Nat : k >= top => DigitAt(f, k) = 0
    BY <1>1, <1>2, FormsAreDigits
  <2>2. /\ Spellable(g) /\ \A k \in 0..(top - 1) : DigitAt(g, k) = g[k]
        /\ \A k \in Nat : k >= top => DigitAt(g, k) = 0
    BY <1>2, <1>11, FormsAreDigits
  <2>3. ASSUME NEW k \in Nat, k # pos PROVE DigitAt(g, k) = DigitAt(f, k)
    <3>1. k \in 0..(top - 1) \/ k >= top BY <1>2
    <3> QED BY <1>11, <2>1, <2>2, <2>3, <3>1
  <2> QED BY <1>11, <2>1, <2>2, <2>3
<1>13. \A k \in Nat : pos + w <= k => DigitAt(g, k) = 0
  <2>1. ASSUME NEW k \in Nat, pos + w <= k PROVE DigitAt(g, k) = 0
    <3>1. k # pos /\ pos <= k BY <1>1, <2>1
    <3> QED BY <1>1, <1>12, <3>1
  <2> QED BY <2>1
<1>14. Spelt(g, 1)[pos + w] = v + d * e /\ v \in Int
  <2> DEFINE one == 1
             bot == pos + 1
             end == pos + w
  <2>1. one \in Nat /\ bot \in Nat /\ end \in Nat /\ bot <= end /\ pos <= pos BY <1>1
  <2> HIDE DEF one, bot, end
  <2>2. Spelt(g, one)[pos] = Spelt(f, one)[pos]
    <3>1. \A k \in Nat : k < pos => DigitAt(g, k) = DigitAt(f, k) BY <1>1, <1>12
    <3>2. \A k \in Nat : k <= pos => Spelt(g, one)[k] = Spelt(f, one)[k]
      <4>1. Spellable(g) /\ Spellable(f) /\ one \in Nat /\ pos \in Nat BY <1>1, <1>12, <2>1
      <4> QED BY <3>1, <4>1, SpeltAlike
    <3> QED BY <1>1, <2>1, <3>2, Zenon
  <2>3. Spelt(g, one)[end] = Spelt(g, one)[bot]
    <3>1. \A k \in Nat : bot <= k /\ k < end => DigitAt(g, k) = 0
      <4>1. ASSUME NEW k \in Nat, bot <= k PROVE DigitAt(g, k) = 0
        <5>1. k # pos /\ pos <= k BY <1>1, <4>1 DEF bot
        <5> QED BY <1>1, <1>12, <5>1
      <4> QED BY <4>1
    <3> QED BY <1>12, <2>1, <3>1, ZerosSpellNothing
  <2>4. Spelt(g, 1)[pos + 1] = Spelt(g, 1)[pos] + DigitAt(g, pos) * Power(pos)
    BY <1>1, <1>12, SpeltNext, Zenon
  <2>5. v \in Int
    <3>1. Spelt(f, 1)[pos] \in Int BY <1>1, <1>12, SpeltNext, Zenon
    <3> QED BY <3>1 DEF v
  <2> QED BY <1>12, <2>2, <2>3, <2>4, <2>5, Zenon DEF one, bot, end, v, e
<1>15. s = (v + d * e) + (e * (2 * h)) * (y + u)
  <2> DEFINE a == 2 * h
             k == y + u
             l == a * k
  <2>1. a \in Nat /\ k \in Int /\ l \in Int BY <1>3, <1>4, <1>8
  <2>2. x + c = d + l
    <3>1. a * y + a * u = l /\ a * y \in Int /\ a * u \in Int BY <1>3, <1>4, <1>8
    <3>2. x = a * y + r BY <1>3, <1>4, Zenon DEF a
    <3>3. c + r = d + a * u BY <1>6, <1>8, Zenon DEF a
    <3>4. x \in Int /\ c \in Int /\ r \in Int /\ d \in Int /\ l \in Int BY <1>1, <1>3, <1>8, <2>1
    <3> DEFINE i == a * y
               j == a * u
    <3> HIDE DEF a, l, k, i, j
    <3>5. /\ i \in Int /\ j \in Int /\ i + j = l /\ x = i + r /\ c + r = d + j
      BY <3>1, <3>2, <3>3 DEF i, j
    <3>6. x + c = (i + r) + c BY <3>5, Zenon
    <3>7. (i + r) + c = i + (c + r) BY <3>4, <3>5
    <3>8. i + (c + r) = i + (d + j) BY <3>5, Zenon
    <3>9. i + (d + j) = d + (i + j) BY <3>4, <3>5
    <3>10. d + (i + j) = d + l BY <3>5, Zenon
    <3> QED BY <3>6, <3>7, <3>8, <3>9, <3>10, Zenon
  <2> HIDE DEF a, l
  <2>3. e * (d + l) = d * e + e * l /\ e * l \in Int /\ d * e \in Int BY <1>5, <1>8, <2>1
  <2>4. e * l = (e * a) * k BY <1>5, <2>1 DEF l
  <2>5. s = (v + d * e) + e * l BY <1>1, <1>14, <2>2, <2>3
  <2> QED BY <2>4, <2>5, Zenon DEF a, k
<1>16. ASSUME pos + w >= Multiples!Positions PROVE u = 0
  <2>1. x + 1 < h BY <1>1, <1>16, LastWindow DEF x, h
  <2>2. r <= x
    <3>1. Power(w) * y \in Nat BY <1>3, <1>4
    <3> QED BY <1>3, <3>1
  <2>3. c \in {0, 1} /\ r \in Nat /\ x \in Nat /\ h \in Nat /\ t = c + r
    BY <1>1, <1>3, <1>4, <1>6
  <2>4. t < h BY <2>1, <2>2, <2>3
  <2> QED BY <1>7, <2>4
<1>17. s = Spelt(g, 1)[pos + w] + Power(pos + w) * (From(s, pos + w) + u)
  BY <1>5, <1>14, <1>15, Zenon DEF y
<1>18. Building(g, s, pos + w, u)
  BY <1>5, <1>8, <1>11, <1>13, <1>16, <1>17, Zenon DEF Building, top
<1> QED BY <1>10, <1>18 DEF g

-----------------------------------------------------------------------------
(* The powers a nibble is cut by.                                          *)
LEMMA SmallPowers == Power(1) = 2 /\ Power(4) = 16
<1> DEFINE i0 == 0
           i1 == 1
           i2 == 2
           i3 == 3
<1>1. i0 \in Nat /\ i1 \in Nat /\ i2 \in Nat /\ i3 \in Nat OBVIOUS
<1>2. i1 = i0 + 1 /\ i2 = i1 + 1 /\ i3 = i2 + 1 /\ 4 = i3 + 1 OBVIOUS
<1> HIDE DEF i0, i1, i2, i3
<1>3. /\ Power(i0 + 1) = 2 * Power(i0) /\ Power(i1 + 1) = 2 * Power(i1)
      /\ Power(i2 + 1) = 2 * Power(i2) /\ Power(i3 + 1) = 2 * Power(i3)
  BY <1>1, PowerIs
<1>4. Power(i0) = 1 BY PowerIs DEF i0
<1>5. Power(i1) = 2 BY <1>2, <1>3, <1>4
<1>6. Power(i2) = 4 BY <1>2, <1>3, <1>5
<1>7. Power(i3) = 8 BY <1>2, <1>3, <1>6
<1>8. Power(4) = 16 BY <1>2, <1>3, <1>7
<1> QED BY <1>5, <1>8 DEF i1

(* A scalar is a whole number of nibbles, the topmost at most one.         *)
LEMMA NibblesAre ==
  /\ Multiples!Nibbles \in Nat /\ Multiples!Nibbles >= 1
  /\ Multiples!Positions = 4 * Multiples!Nibbles
BY PositionsAre DEF Multiples!Nibbles

(* A nibble is what a number has between two places.                       *)
LEMMA NibbleIs ==
  ASSUME NEW s \in Nat, NEW k \in Nat
  PROVE  /\ Multiples!Nibble(s, k) \in 0..15
         /\ From(s, 4 * k) \in Nat /\ From(s, 4 * (k + 1)) \in Nat
         /\ From(s, 4 * k) = 16 * From(s, 4 * (k + 1)) + Multiples!Nibble(s, k)
         /\ Power(4 * k) \in Nat /\ Power(4 * (k + 1)) = 16 * Power(4 * k)
<1> DEFINE i == 4 * k
           j == 4 * (k + 1)
           four == 4
           zero == 0
<1>1. i \in Nat /\ j \in Nat /\ j = i + four /\ four \in Nat /\ zero \in Nat OBVIOUS
<1>2. Power(four) = 16 BY SmallPowers
<1> HIDE DEF i, j, four, zero
<1>3. Splits(s, i, four) /\ Splits(s, j, zero) BY <1>1, FromIs, Zenon
<1>4. Multiples!Nibble(s, k) = From(s, i) % 16
  <2>1. Power(i) = Multiples!Pow2[i] BY <1>1, PowerIs
  <2> QED BY <2>1, Zenon DEF Multiples!Nibble, From, i
<1>5. /\ From(s, i) \in Nat /\ From(s, j) \in Nat
      /\ From(s, i) = 16 * From(s, j) + (From(s, i) % 16)
  BY <1>1, <1>2, <1>3, Zenon DEF Splits
<1>6. From(s, i) % 16 \in 0..15
  <2> DEFINE x == From(s, i)
  <2> HIDE DEF x
  <2>1. x \in Nat BY <1>5 DEF x
  <2>2. x % 16 \in 0..15 BY <2>1
  <2> QED BY <2>2 DEF x
<1>7. Power(i) \in Nat /\ Power(j) = 16 * Power(i)
  <2>1. Power(i + four) = Power(i) * Power(four) /\ Power(i) \in Nat BY <1>1, PowerIs, PowersAdd
  <2>2. Power(i) * 16 = 16 * Power(i) BY <2>1
  <2> QED BY <1>1, <1>2, <2>1, <2>2, Zenon
<1> QED BY <1>4, <1>5, <1>6, <1>7, Zenon DEF i, j

(* The carries of the signed nibbles are bits.                             *)
Carried16(s, h) ==
  /\ h[0] = 0
  /\ \A k \in 0..Multiples!Nibbles : h[k] \in {0, 1}
  /\ \A k \in 0..(Multiples!Nibbles - 1) :
       h[k + 1] = (Multiples!Nibble(s, k) + h[k] + 8) \div 16
  /\ Multiples!Radix16(s) =
       [k \in 0..(Multiples!Nibbles - 1) |->
          Multiples!Nibble(s, k) + h[k] - (IF k < Multiples!Nibbles - 1 THEN 16 * h[k + 1] ELSE 0)]

(* The carries exist.                                                      *)
LEMMA CarriesAre ==
  ASSUME NEW s \in Nat
  PROVE  \E h : Carried16(s, h)
<1> DEFINE Body(h) == [k \in 0..Multiples!Nibbles |->
                         IF k = 0 THEN 0 ELSE (Multiples!Nibble(s, k - 1) + h[k - 1] + 8) \div 16]
           h0 == CHOOSE h : h = Body(h)
           step == [k \in Nat |-> [x \in {0, 1} |-> (Multiples!Nibble(s, k) + x + 8) \div 16]]
           top == Multiples!Nibbles
<1>0. top \in Nat /\ top >= 1 BY NibblesAre
<1>1. Multiples!Radix16(s) =
        [k \in 0..(Multiples!Nibbles - 1) |->
           Multiples!Nibble(s, k) + h0[k] - (IF k < Multiples!Nibbles - 1 THEN 16 * h0[k + 1] ELSE 0)]
  BY Zenon DEF Multiples!Radix16
<1>2. ASSUME NEW k \in Nat, NEW x \in {0, 1}
      PROVE  (Multiples!Nibble(s, k) + x + 8) \div 16 \in {0, 1}
  <2> DEFINE d == Multiples!Nibble(s, k)
  <2>1. d \in 0..15 BY NibbleIs
  <2> HIDE DEF d
  <2>2. (d + x + 8) \div 16 \in {0, 1} BY <2>1
  <2> QED BY <2>2 DEF d
<1>3. PICK g \in [Nat -> {0, 1}] :
        g[0] = 0 /\ \A k \in Nat : g[k + 1] = (Multiples!Nibble(s, k) + g[k] + 8) \div 16
  <2> DEFINE zero == 0
             set == {0, 1}
  <2>1. step \in [Nat -> [set -> set]] BY <1>2
  <2>2. zero \in set OBVIOUS
  <2> HIDE DEF step, zero, set
  <2>3. PICK g \in [Nat -> set] : Unrolls(g, zero, step) BY <2>1, <2>2, Recursion, Zenon
  <2>4. ASSUME NEW k \in Nat PROVE g[k + 1] = (Multiples!Nibble(s, k) + g[k] + 8) \div 16
    <3>1. g[k + 1] = step[k][g[k]] /\ g[k] \in set BY <2>3 DEF Unrolls
    <3> QED BY <3>1, Zenon DEF step, set
  <2>5. g[0] = 0 BY <2>3 DEF Unrolls, zero
  <2> QED BY <2>3, <2>4, <2>5 DEF set
<1> DEFINE b == [k \in 0..top |-> g[k]]
<1>4. b = Body(b)
  <2>1. ASSUME NEW k \in 0..top, k # 0
        PROVE  g[k] = (Multiples!Nibble(s, k - 1) + b[k - 1] + 8) \div 16
    <3> DEFINE l == k - 1
    <3>1. l \in Nat /\ l + 1 = k /\ l \in 0..top BY <1>0, <2>1
    <3> HIDE DEF l, top
    <3>2. g[l + 1] = (Multiples!Nibble(s, l) + g[l] + 8) \div 16 /\ b[l] = g[l] BY <1>3, <3>1
    <3> QED BY <3>1, <3>2, Zenon DEF l
  <2>2. \A k \in 0..top : g[k] = IF k = 0 THEN 0
                                 ELSE (Multiples!Nibble(s, k - 1) + b[k - 1] + 8) \div 16
    BY <1>3, <2>1
  <2> HIDE DEF top
  <2> QED BY <2>2, Zenon DEF top
<1>5. h0 = Body(h0)
  <2> HIDE DEF Body
  <2> QED BY <1>4
<1> HIDE DEF h0
<1>6. h0[0] = 0 BY <1>0, <1>5
<1>7. ASSUME NEW k \in 0..(top - 1)
      PROVE  h0[k + 1] = (Multiples!Nibble(s, k) + h0[k] + 8) \div 16
  <2> DEFINE l == k + 1
  <2>1. l \in 0..top /\ l # 0 /\ l - 1 = k BY <1>0
  <2> HIDE DEF l
  <2>2. h0[l] = (Multiples!Nibble(s, l - 1) + h0[l - 1] + 8) \div 16 BY <1>5, <2>1
  <2> QED BY <2>1, <2>2, Zenon DEF l
<1> DEFINE S == { k \in Nat : k <= top /\ h0[k] \notin {0, 1} }
<1>8. S = {}
  <2>1. SUFFICES ASSUME S # {} PROVE FALSE OBVIOUS
  <2>2. PICK k \in S : \A j \in S : k <= j
    <3>1. S \subseteq Nat OBVIOUS
    <3> HIDE DEF S
    <3> QED BY <2>1, <3>1, LeastOf
  <2>3. k \in Nat /\ k <= top /\ k # 0 /\ h0[k] \notin {0, 1} BY <1>6
  <2> DEFINE l == k - 1
  <2>4. l \in Nat /\ l < k /\ l <= top /\ l + 1 = k /\ l \in 0..(top - 1) BY <1>0, <2>3
  <2>5. h0[l] \in {0, 1} BY <2>2, <2>4
  <2> HIDE DEF l
  <2>6. h0[l + 1] \in {0, 1} BY <1>2, <1>7, <2>4, <2>5
  <2> QED BY <2>3, <2>4, <2>6
<1>9. \A k \in 0..top : h0[k] \in {0, 1} BY <1>0, <1>8
<1> HIDE DEF S, Body
<1>10. Carried16(s, h0) BY <1>1, <1>6, <1>7, <1>9, Zenon DEF Carried16, top
<1> QED BY <1>10

(* The signed nibbles are within -8..8 and spell the scalar.               *)
RadixOf(s) == Multiples!Radix16(s)

(* Signed nibbles: at most one is lent, and none is lost at the top.       *)
LEMMA RadixSpells ==
  ASSUME NEW s \in Scalars
  PROVE  /\ RadixOf(s) \in [0..(Multiples!Nibbles - 1) -> Int]
         /\ \A k \in 0..(Multiples!Nibbles - 1) : RadixOf(s)[k] \in (-8)..8
         /\ Spelt(RadixOf(s), 4)[Multiples!Nibbles] = s
<1> DEFINE top == Multiples!Nibbles
           f == RadixOf(s)
           four == 4
<1>1. s \in Nat /\ s < Power(Multiples!Positions - 3) BY DEF Scalars
<1>2. top \in Nat /\ top >= 1 /\ Multiples!Positions = 4 * top BY NibblesAre
<1>3. PICK h : Carried16(s, h) BY <1>1, CarriesAre
<1>4. /\ h[0] = 0 /\ \A k \in 0..top : h[k] \in {0, 1}
      /\ \A k \in 0..(top - 1) : h[k + 1] = (Multiples!Nibble(s, k) + h[k] + 8) \div 16
      /\ f = [k \in 0..(top - 1) |->
                Multiples!Nibble(s, k) + h[k] - (IF k < top - 1 THEN 16 * h[k + 1] ELSE 0)]
  BY <1>3, Zenon DEF Carried16, RadixOf
<1> HIDE DEF top, f
(* A digit below the topmost borrows from the next.                        *)
<1>5. ASSUME NEW k \in 0..(top - 1), k < top - 1
      PROVE  /\ f[k] \in (-8)..7 /\ h[k + 1] \in {0, 1}
             /\ Multiples!Nibble(s, k) + h[k] = f[k] + 16 * h[k + 1]
  <2> DEFINE x == Multiples!Nibble(s, k)
             y == h[k]
             z == h[k + 1]
  <2>1. k \in Nat /\ k \in 0..top /\ k + 1 \in 0..top BY <1>2
  <2>2. x \in 0..15 BY <1>1, <2>1, NibbleIs
  <2>3. y \in {0, 1} /\ z \in {0, 1} /\ z = (x + y + 8) \div 16 BY <1>4, <2>1
  <2>4. f[k] = x + y - 16 * z BY <1>4, <1>5
  <2> HIDE DEF x, y, z
  <2>5. x + y - 16 * z \in (-8)..7 BY <2>2, <2>3
  <2>6. x + y = (x + y - 16 * z) + 16 * z BY <2>2, <2>3
  <2> QED BY <2>3, <2>4, <2>5, <2>6 DEF x, y, z
<1>6. /\ f[top - 1] = Multiples!Nibble(s, top - 1) + h[top - 1]
      /\ Multiples!Nibble(s, top - 1) \in {0, 1} /\ h[top - 1] \in {0, 1}
      /\ From(s, 4 * (top - 1)) = Multiples!Nibble(s, top - 1)
  <2> DEFINE k == top - 1
  <2>1. k \in Nat /\ k \in 0..(top - 1) /\ k \in 0..top /\ ~(k < top - 1) /\ k + 1 = top BY <1>2
  <2> HIDE DEF k
  <2>2. f[k] = Multiples!Nibble(s, k) + h[k] - 0 BY <1>4, <2>1
  <2>3. h[k] \in {0, 1} /\ Multiples!Nibble(s, k) \in 0..15 BY <1>1, <1>4, <2>1, NibbleIs
  <2>4. f[k] = Multiples!Nibble(s, k) + h[k] BY <2>2, <2>3
  <2> DEFINE j == Multiples!Positions - 3
             i == 4 * k
             l == 4 * (k + 1)
             one == 1
  <2>5. j \in Nat /\ i \in Nat /\ l \in Nat /\ i <= j /\ j <= l /\ j - i = one BY <1>2, <2>1
  <2> HIDE DEF j, i, l, one
  <2>6. From(s, i) < Power(j - i) BY <1>1, <2>5, FromBelow DEF j
  <2>7. From(s, l) = 0 BY <1>1, <2>5, NothingAbove DEF j
  <2>8. Power(j - i) = 2 BY <2>5, SmallPowers DEF one
  <2>9. From(s, i) = 16 * From(s, l) + Multiples!Nibble(s, k) BY <1>1, <2>1, NibbleIs, Zenon DEF i, l
  <2>10. From(s, i) = Multiples!Nibble(s, k) BY <2>3, <2>7, <2>9
  <2>11. Multiples!Nibble(s, k) \in {0, 1} BY <2>3, <2>6, <2>8, <2>10
  <2> QED BY <2>3, <2>4, <2>10, <2>11, Zenon DEF k, i
<1>7. \A k \in 0..(top - 1) : f[k] \in (-8)..8
  <2>1. ASSUME NEW k \in 0..(top - 1) PROVE f[k] \in (-8)..8
    <3>1. CASE k < top - 1
      <4>1. f[k] \in (-8)..7 BY <1>5, <3>1
      <4> QED BY <4>1
    <3>2. CASE ~(k < top - 1)
      <4>1. k = top - 1 BY <1>2, <3>2
      <4> QED BY <1>6, <4>1
    <3> QED BY <3>1, <3>2
  <2> QED BY <2>1
<1>8. f \in [0..(top - 1) -> Int]
  <2>1. f = [k \in 0..(top - 1) |-> f[k]] BY <1>4
  <2>2. \A k \in 0..(top - 1) : f[k] \in Int BY <1>7
  <2> QED BY <2>1, <2>2
<1>9. Spellable(f) /\ \A k \in 0..(top - 1) : DigitAt(f, k) = f[k] BY <1>2, <1>8, FormsAreDigits
<1>10. ASSUME NEW k \in Nat
       PROVE  /\ Spelt(f, 4)[k] \in Int
              /\ Spelt(f, 4)[k + 1] = Spelt(f, 4)[k] + DigitAt(f, k) * Power(4 * k)
  <2>1. four \in Nat OBVIOUS
  <2> HIDE DEF four
  <2>2. /\ Spelt(f, four)[k] \in Int
        /\ Spelt(f, four)[k + 1] = Spelt(f, four)[k] + DigitAt(f, k) * Power(four * k)
    BY <1>9, <2>1, SpeltIs, Zenon
  <2> QED BY <2>2, Zenon DEF four
(* Below the topmost digit what is left and the carry make up the scalar.  *)
<1> DEFINE Made(k) == s = Spelt(f, 4)[k] + Power(4 * k) * (From(s, 4 * k) + h[k])
           S == { k \in Nat : k <= top - 1 /\ ~Made(k) }
<1>11. S = {}
  <2>1. SUFFICES ASSUME S # {} PROVE FALSE OBVIOUS
  <2>2. PICK k \in S : \A j \in S : k <= j
    <3>1. S \subseteq Nat OBVIOUS
    <3> HIDE DEF S
    <3> QED BY <2>1, <3>1, LeastOf
  <2>3. k \in Nat /\ k <= top - 1 /\ ~Made(k) OBVIOUS
  <2>4. Made(0)
    <3> DEFINE zero == 0
    <3>1. zero \in Nat /\ 4 * zero = zero OBVIOUS
    <3> HIDE DEF zero
    <3>2. From(s, zero) = s BY <1>1, <3>1, FromIs DEF zero
    <3>3. Power(zero) = 1 BY PowerIs DEF zero
    <3>4. Spelt(f, 4)[zero] = 0
      <4>1. four \in Nat OBVIOUS
      <4> HIDE DEF four
      <4>2. Spelt(f, four)[0] = 0 BY <1>9, <4>1, SpeltIs
      <4> QED BY <4>2 DEF four, zero
    <3>5. h[zero] = 0 BY <1>4 DEF zero
    <3>6. s = 0 + 1 * (s + 0) BY <1>1
    <3>7. Made(zero) BY <3>1, <3>2, <3>3, <3>4, <3>5, <3>6, Zenon
    <3> QED BY <3>7 DEF zero
  <2>5. k # 0 BY <2>3, <2>4
  <2> DEFINE l == k - 1
  <2>6. l \in Nat /\ l < k /\ l < top - 1 /\ l <= top - 1 /\ l + 1 = k /\ l \in 0..(top - 1)
    BY <1>2, <2>3, <2>5
  <2>7. Made(l) BY <2>2, <2>6
  <2> HIDE DEF l, S
  <2> DEFINE e == Power(4 * l)
             x == From(s, 4 * l)
             y == From(s, 4 * (l + 1))
             d == f[l]
             b == h[l]
             c == h[l + 1]
             v == Spelt(f, 4)[l]
             t == Multiples!Nibble(s, l)
  <2>8. /\ t \in 0..15 /\ x \in Nat /\ y \in Nat /\ x = 16 * y + t
        /\ e \in Nat /\ Power(4 * (l + 1)) = 16 * e
    BY <1>1, <2>6, NibbleIs, Zenon
  <2>9. d \in Int /\ c \in {0, 1} /\ t + b = d + 16 * c
    <3>1. d \in (-8)..7 /\ c \in {0, 1} /\ t + b = d + 16 * c BY <1>5, <2>6
    <3> QED BY <3>1
  <2>10. v \in Int /\ Spelt(f, 4)[l + 1] = v + d * e BY <1>9, <1>10, <2>6
  <2>11. b \in {0, 1}
    <3>1. l \in 0..top BY <1>2, <2>6
    <3> QED BY <1>4, <3>1
  <2>12. s = v + e * (x + b) BY <2>7, Zenon
  <2> HIDE DEF Made, e, x, y, d, b, c, v, t
  <2>13. s = (v + d * e) + (16 * e) * (y + c)
    <3>1. x + b = 16 * (y + c) + d BY <2>8, <2>9, <2>11
    <3> DEFINE w == y + c
    <3>2. w \in Int BY <2>8, <2>9
    <3>3. x + b = 16 * w + d BY <3>1
    <3> HIDE DEF w
    <3>4. e * (16 * w + d) = (16 * e) * w + d * e BY <2>8, <2>9, <3>2
    <3>5. (16 * e) * w \in Int /\ d * e \in Int BY <2>8, <2>9, <3>2
    <3> DEFINE g1 == (16 * e) * w
               g2 == d * e
    <3>6. s = v + (g1 + g2) BY <2>12, <3>3, <3>4, Zenon
    <3> HIDE DEF g1, g2
    <3>7. g1 \in Int /\ g2 \in Int BY <3>5 DEF g1, g2
    <3>8. s = (v + g2) + g1 BY <2>10, <3>6, <3>7
    <3> QED BY <3>8, Zenon DEF g1, g2, w
  <2>14. Made(l + 1) BY <2>8, <2>10, <2>13, Zenon DEF Made, y, c
  <2> QED BY <2>3, <2>6, <2>14
<1>12. Spelt(f, 4)[top] = s
  <2> DEFINE k == top - 1
  <2>1. k \in Nat /\ k <= top - 1 /\ k + 1 = top /\ k \in 0..(top - 1) BY <1>2
  <2>2. k \notin S BY <1>11
  <2>3. Made(k) BY <2>1, <2>2
  <2> HIDE DEF S, k
  <2>4. From(s, 4 * k) + h[k] = f[k] BY <1>6 DEF k
  <2>5. Spelt(f, 4)[k + 1] = Spelt(f, 4)[k] + f[k] * Power(4 * k) BY <1>9, <1>10, <2>1
  <2>6. Power(4 * k) \in Int /\ f[k] \in Int
    <3>1. Power(4 * k) \in Nat BY <1>1, <2>1, NibbleIs, Zenon
    <3>2. f[k] \in Int BY <1>8, <2>1
    <3> DEFINE e == Power(4 * k)
    <3> HIDE DEF e
    <3>3. e \in Int BY <3>1 DEF e
    <3> QED BY <3>2, <3>3 DEF e
  <2> DEFINE e == Power(4 * k)
             d == f[k]
  <2>7. s = Spelt(f, 4)[k] + e * d BY <2>3, <2>4, Zenon
  <2>8. Spelt(f, 4)[k + 1] = Spelt(f, 4)[k] + d * e BY <2>5
  <2> HIDE DEF e, d
  <2>9. e * d = d * e BY <2>6 DEF e, d
  <2> QED BY <2>1, <2>7, <2>8, <2>9, Zenon
<1> QED BY <1>7, <1>8, <1>12, Zenon DEF top, f

(* A digit's entry of the table, negated for a negative digit.             *)
LEMMA SelectSignedIs ==
  ASSUME NEW x \in Int, NEW y \in Int, NEW d \in (-8)..8
  PROVE  Multiples!SelectSigned(Multiples!Point(x, y), d) = Multiples!Point(d * x, d * y)
<1> DEFINE l == IF d < 0 THEN -d ELSE d
           pt == Multiples!Point(x, y)
           chosen == IF l \in 1..8 THEN Multiples!Times(l, pt) ELSE Multiples!Identity
<1>1. /\ Multiples!SelectSigned(pt, d)
           = IF d < 0 THEN Multiples!Times(-1, chosen) ELSE chosen
  BY Zenon DEF Multiples!SelectSigned
<1>2. pt.A = x /\ pt.B = y BY DEF Multiples!Point
<1>3. CASE d = 0
  <2>1. l = 0 /\ l \notin 1..8 /\ ~(d < 0) BY <1>3
  <2>2. d * x = 0 /\ d * y = 0 BY <1>3
  <2> HIDE DEF l, pt
  <2>3. Multiples!SelectSigned(pt, d) = Multiples!Point(0, 0)
    BY <1>1, <2>1, Zenon DEF Multiples!Identity
  <2> QED BY <2>2, <2>3, Zenon DEF pt
<1>4. CASE d > 0
  <2>1. l = d /\ l \in 1..8 /\ ~(d < 0) BY <1>4
  <2> HIDE DEF l, pt
  <2>2. Multiples!SelectSigned(pt, d) = Multiples!Times(d, pt) BY <1>1, <2>1, Zenon
  <2> QED BY <1>2, <2>2, Zenon DEF pt, Multiples!Times
<1>5. CASE d < 0
  <2>1. l = -d /\ l \in 1..8 /\ l \in Int BY <1>5
  <2>2. (-1) * (l * x) = d * x /\ (-1) * (l * y) = d * y BY <1>5
  <2> HIDE DEF l, pt
  <2>3. Multiples!SelectSigned(pt, d) = Multiples!Times(-1, Multiples!Times(l, pt))
    BY <1>1, <1>5, <2>1, Zenon
  <2>4. Multiples!Times(l, pt) = Multiples!Point(l * x, l * y) BY <1>2, Zenon DEF Multiples!Times
  <2>5. Multiples!Times(-1, Multiples!Point(l * x, l * y))
          = Multiples!Point((-1) * (l * x), (-1) * (l * y))
    <3> DEFINE c == Multiples!Point(l * x, l * y)
    <3>1. c.A = l * x /\ c.B = l * y BY DEF Multiples!Point
    <3> HIDE DEF c
    <3>2. Multiples!Times(-1, c) = Multiples!Point((-1) * (l * x), (-1) * (l * y))
      BY <3>1, Zenon DEF Multiples!Times
    <3> QED BY <3>2 DEF c
  <2> QED BY <2>2, <2>3, <2>4, <2>5, Zenon DEF pt
<1> QED BY <1>3, <1>4, <1>5

(* A point with a digit's multiple added, if there is a digit: an odd one's *)
(* entry of the table is its magnitude.                                    *)
Adds(x, y, a, b, d) ==
  (IF d # 0 THEN Multiples!AddSigned(Multiples!Point(x, y), Multiples!Point(a, b), d)
            ELSE Multiples!Point(x, y))
    = Multiples!Point(x + d * a, y + d * b)

(* It is added with its sign.                                              *)
LEMMA MaybeAdded ==
  ASSUME NEW x \in Int, NEW y \in Int, NEW a \in Int, NEW b \in Int, NEW d \in Int,
         d # 0 => d % 2 = 1
  PROVE  Adds(x, y, a, b, d)
<1>1. CASE d = 0
  <2>1. x + d * a = x /\ y + d * b = y BY <1>1
  <2> QED BY <1>1, <2>1, Zenon DEF Adds
<1>2. CASE d # 0
  <2> DEFINE l == Multiples!Magnitude(d)
             entry == 2 * (l \div 2) + 1
             pt == Multiples!Point(x, y)
             by == Multiples!Point(a, b)
  <2>1. entry = IF d < 0 THEN -d ELSE d
    <3>1. l = IF d < 0 THEN -d ELSE d BY DEF Multiples!Magnitude
    <3>2. d % 2 = 1 BY <1>2
    <3> HIDE DEF l
    <3>3. CASE d < 0
      <4>1. l = -d /\ l \in Nat BY <3>1, <3>3
      <4>2. l % 2 = 1 BY <3>2, <4>1
      <4> QED BY <3>3, <4>1, <4>2
    <3>4. CASE ~(d < 0)
      <4>1. l = d /\ l \in Nat BY <3>1, <3>4
      <4> QED BY <3>2, <3>4, <4>1
    <3> QED BY <3>3, <3>4
  <2> HIDE DEF l, entry
  <2>2. (IF d > 0 THEN entry ELSE -entry) = d BY <1>2, <2>1
  <2>3. Multiples!AddSigned(pt, by, d) = Multiples!Plus(pt, Multiples!Times(d, by))
    BY <2>2, Zenon DEF Multiples!AddSigned, entry, l
  <2>4. pt.A = x /\ pt.B = y /\ by.A = a /\ by.B = b BY DEF Multiples!Point
  <2> HIDE DEF pt, by
  <2>5. Multiples!Times(d, by) = Multiples!Point(d * a, d * b) BY <2>4, Zenon DEF Multiples!Times
  <2> DEFINE c == Multiples!Point(d * a, d * b)
  <2>6. c.A = d * a /\ c.B = d * b BY DEF Multiples!Point
  <2> HIDE DEF c
  <2>7. Multiples!Plus(pt, c) = Multiples!Point(x + d * a, y + d * b)
    BY <2>4, <2>6, Zenon DEF Multiples!Plus
  <2> QED BY <1>2, <2>3, <2>5, <2>7, Zenon DEF Adds, pt, by, c
<1> QED BY <1>1, <1>2

(* A doubling and a digit lower what the sum below a place leaves.         *)
Lowers(x, v, d, e, g, s) == s = x * (g * e) + (v + d * e) => s = (g * x + d) * e + v

(* So a turn of the loop keeps the sum.                                    *)
LEMMA TurnLowers ==
  ASSUME NEW x \in Int, NEW v \in Int, NEW d \in Int, NEW e \in Int, NEW g \in Int, NEW s
  PROVE  Lowers(x, v, d, e, g, s)
<1> SUFFICES ASSUME s = x * (g * e) + (v + d * e)
             PROVE  s = (g * x + d) * e + v
  BY DEF Lowers
<1> DEFINE i == x * (g * e)
           j == d * e
<1>1. (g * x + d) * e = i + j /\ i \in Int /\ j \in Int OBVIOUS
<1>2. s = i + (v + j) OBVIOUS
<1> HIDE DEF i, j
<1>3. s = (i + j) + v BY <1>1, <1>2
<1> QED BY <1>1, <1>3, Zenon

-----------------------------------------------------------------------------
(* A form that is complete, and what a loop has of a scalar above a place. *)
Complete(f, s) ==
  /\ f \in [0..(Multiples!Positions - 1) -> Int]
  /\ Spelt(f, 1)[Multiples!Positions] = s

(* Each way's state: a form being made, then the other; the digits from    *)
(* the loop's place on in the accumulated point, or those below it.        *)
MakingA ==
  /\ s1 = "verify" /\ s5 = "naf_a" /\ Building(s6.A, s2, s7, s8)
  /\ s6.B = Multiples!NoForm /\ s10 = Multiples!Point(0, 0)

MakingB ==
  /\ s1 = "verify" /\ s5 = "naf_b" /\ Complete(s6.A, s2) /\ Building(s6.B, s3, s7, s8)
  /\ s10 = Multiples!Point(0, 0)

Verifying ==
  /\ s1 = "verify" /\ s5 = "loop" /\ Complete(s6.A, s2) /\ Complete(s6.B, s3)
  /\ s9 \in 0..(Multiples!Positions - 1)
  /\ \E x, y \in Int : /\ s10 = Multiples!Point(x, y)
                       /\ s2 = x * Power(s9 + 1) + Spelt(s6.A, 1)[s9 + 1]
                       /\ s3 = y * Power(s9 + 1) + Spelt(s6.B, 1)[s9 + 1]

Multiplying ==
  /\ s1 = "mul" /\ s5 = "loop" /\ s9 \in 0..(Multiples!Nibbles - 1)
  /\ \E x \in Int : /\ s10 = Multiples!Point(x, 0)
                    /\ s2 = x * Power(4 * (s9 + 1)) + Spelt(RadixOf(s2), 4)[s9 + 1]

Adding16 ==
  /\ s1 = "mul_base" /\ s5 = "loop" /\ s9 \in 0..(Multiples!Nibbles - 1)
  /\ s10 = Multiples!Point(0, Spelt(RadixOf(s2), 4)[s9])

Finished ==
  /\ s5 = "done"
  /\ \/ s1 = "mul"      /\ s10 = Multiples!Point(s2, 0)
     \/ s1 = "mul_base" /\ s10 = Multiples!Point(0, s2)
     \/ s1 = "verify"   /\ s10 = Multiples!Point(s2, s3)

Forms(naf, w) ==
  /\ naf = [A |-> naf.A, B |-> naf.B]
  /\ naf.A \in [0..(Multiples!Positions - 1) -> Int]
  /\ naf.B \in [0..(Multiples!Positions - 1) -> Int]
  /\ \A k \in 0..(Multiples!Positions - 1) :
       NafDigit(naf.A[k], w) /\ NafDigit(naf.B[k], MulBaseWidth)

MulTyped == s2 \in MulAs /\ s3 \in MulBs /\ s4 \in 2..MulWordBits /\ Forms(s6, s4)
MulPhase == MakingA \/ MakingB \/ Verifying \/ Multiplying \/ Adding16 \/ Finished
MulInv   == unit = "mul" => MulTyped /\ MulPhase

(* No digits spell nothing.                                                *)
LEMMA NoFormIs ==
  /\ Multiples!NoForm \in [0..(Multiples!Positions - 1) -> Int]
  /\ \A k \in 0..(Multiples!Positions - 1) : Multiples!NoForm[k] = 0
  /\ \A s \in Scalars : Building(Multiples!NoForm, s, 0, 0)
<1> DEFINE top == Multiples!Positions
           f == Multiples!NoForm
           zero == 0
<1>1. top \in Nat /\ top >= 4 BY PositionsAre
<1>2. f \in [0..(top - 1) -> Int] /\ \A k \in 0..(top - 1) : f[k] = 0 BY DEF Multiples!NoForm
<1> HIDE DEF f, top
<1>3. /\ Spellable(f) /\ \A k \in 0..(top - 1) : DigitAt(f, k) = f[k]
      /\ \A k \in Nat : k >= top => DigitAt(f, k) = 0
  BY <1>1, <1>2, FormsAreDigits
<1>4. ASSUME NEW k \in Nat PROVE DigitAt(f, k) = 0
  <2>1. k \in 0..(top - 1) \/ k >= top BY <1>1
  <2> QED BY <1>2, <1>3, <2>1
<1>5. zero \in Nat /\ zero \in {0, 1} OBVIOUS
<1>6. ASSUME NEW s \in Scalars PROVE Building(f, s, zero, zero)
  <2>1. s \in Nat BY DEF Scalars
  <2>2. s = Spelt(f, 1)[zero] + Power(zero) * (From(s, zero) + zero)
    <3> DEFINE one == 1
    <3>1. one \in Nat OBVIOUS
    <3> HIDE DEF one
    <3>2. Spelt(f, one)[0] = 0 BY <1>3, <3>1, SpeltIs
    <3>3. Spelt(f, 1)[zero] = 0 BY <3>2 DEF one, zero
    <3>4. Power(zero) = 1 BY PowerIs DEF zero
    <3> HIDE DEF zero
    <3>5. From(s, 0) = s BY <1>5, <2>1, FromIs
    <3>6. From(s, zero) = s BY <3>5 DEF zero
    <3>7. s = 0 + 1 * (s + zero) BY <2>1 DEF zero
    <3> QED BY <3>3, <3>4, <3>6, <3>7, Zenon
  <2>3. zero >= top => zero = 0 BY <1>1
  <2>4. \A k \in Nat : zero <= k => DigitAt(f, k) = 0 BY <1>4
  <2> HIDE DEF zero
  <2> QED BY <1>2, <1>5, <2>2, <2>3, <2>4, Zenon DEF Building, top
<1> QED BY <1>2, <1>6 DEF f, top, zero

(* A form without digits has none out of range.                            *)
LEMMA ZeroIsNafDigit == ASSUME NEW w PROVE NafDigit(0, w)
BY DEF NafDigit

(* The ways begin without a digit.                                         *)
LEMMA MulInit == BenchInit => MulInv
<1> SUFFICES ASSUME Multiples!Init
             PROVE  /\ s2 \in MulAs /\ s3 \in MulBs /\ s4 \in 2..MulWordBits
                    /\ Forms(s6, s4) /\ (MakingA \/ Multiplying \/ Adding16)
  BY Zenon DEF BenchInit, MulInv, MulTyped, MulPhase
<1> DEFINE none == Multiples!NoForm
           last == Multiples!Nibbles - 1
<1>1. /\ s1 \in {"mul", "mul_base", "verify"}
      /\ s2 \in MulAs /\ s3 \in MulBs /\ s4 \in MulKeyWidths
      /\ s1 # "verify" => s4 = MulBaseWidth
      /\ s5 = (IF s1 = "verify" THEN "naf_a" ELSE "loop")
      /\ s6 = [A |-> none, B |-> none]
      /\ s7 = 0 /\ s8 = 0
      /\ s9 = (IF s1 = "mul_base" THEN 0 ELSE last)
      /\ s10 = Multiples!Point(0, 0)
  BY Zenon DEF Multiples!Init, Multiples!Identity
<1>2. s4 \in 2..MulWordBits /\ s2 \in Scalars
  BY <1>1, MultiplesAssumption, PositionsAre
<1>3. /\ none \in [0..(Multiples!Positions - 1) -> Int]
      /\ \A k \in 0..(Multiples!Positions - 1) : none[k] = 0
      /\ Building(none, s2, 0, 0)
  BY <1>2, NoFormIs
<1> HIDE DEF none
<1>4. s6.A = none /\ s6.B = none /\ s6 = [A |-> s6.A, B |-> s6.B] BY <1>1
<1>5. Forms(s6, s4) BY <1>3, <1>4, ZeroIsNafDigit DEF Forms
<1>6. ASSUME s1 = "verify" PROVE MakingA BY <1>1, <1>3, <1>4, <1>6, Zenon DEF MakingA, none
<1>7. last \in Nat /\ last \in 0..(Multiples!Nibbles - 1) /\ last + 1 = Multiples!Nibbles
      /\ Multiples!Nibbles \in Nat /\ 0 \in 0..(Multiples!Nibbles - 1)
  BY NibblesAre
<1> HIDE DEF last
<1>8. /\ RadixOf(s2) \in [0..(Multiples!Nibbles - 1) -> Int]
      /\ Spelt(RadixOf(s2), 4)[Multiples!Nibbles] = s2
  BY <1>2, RadixSpells
<1>9. ASSUME s1 = "mul" PROVE Multiplying
  <2> DEFINE e == Power(4 * (last + 1))
             zero == 0
  <2>1. zero * e = 0
    <3> DEFINE j == 4 * (last + 1)
    <3>1. j \in Nat BY <1>7
    <3> HIDE DEF j
    <3>2. Power(j) \in Nat BY <3>1, PowerIs
    <3>3. e \in Nat BY <3>2 DEF j
    <3> HIDE DEF e
    <3> QED BY <3>3
  <2>2. s2 = 0 + s2 /\ zero \in Int BY <1>2 DEF Scalars
  <2> HIDE DEF zero
  <2>3. s2 = zero * Power(4 * (last + 1)) + Spelt(RadixOf(s2), 4)[last + 1]
    BY <1>7, <1>8, <2>1, <2>2, Zenon
  <2>4. s10 = Multiples!Point(zero, 0) BY <1>1 DEF zero
  <2>5. s9 = last /\ s5 = "loop" BY <1>1, <1>9
  <2> QED BY <1>7, <1>9, <2>2, <2>3, <2>4, <2>5, Zenon DEF Multiplying
<1>10. ASSUME s1 = "mul_base" PROVE Adding16
  <2> DEFINE four == 4
             f == RadixOf(s2)
  <2>1. four \in Nat OBVIOUS
  <2>2. Spellable(f) BY <1>7, <1>8, FormsAreDigits
  <2> HIDE DEF four, f
  <2>3. Spelt(f, four)[0] = 0 BY <2>1, <2>2, SpeltIs
  <2>4. s9 = 0 /\ s5 = "loop" BY <1>1, <1>10
  <2> QED BY <1>1, <1>7, <1>10, <2>3, <2>4, Zenon DEF Adding16, four, f
<1> QED BY <1>1, <1>2, <1>5, <1>6, <1>9, <1>10

(* An entry of one of the two forms.                                       *)
Changes(a, b, k, d) ==
  /\ [[A |-> a, B |-> b] EXCEPT !["A"][k] = d] = [A |-> [a EXCEPT ![k] = d], B |-> b]
  /\ [[A |-> a, B |-> b] EXCEPT !["B"][k] = d] = [A |-> a, B |-> [b EXCEPT ![k] = d]]

(* A pair of forms with an entry changed.                                  *)
LEMMA PairChanged == ASSUME NEW a, NEW b, NEW k, NEW d PROVE Changes(a, b, k, d)
<1>1. [[A |-> a, B |-> b] EXCEPT !["A"][k] = d] = [A |-> [a EXCEPT ![k] = d], B |-> b]
  OBVIOUS
<1>2. [[A |-> a, B |-> b] EXCEPT !["B"][k] = d] = [A |-> a, B |-> [b EXCEPT ![k] = d]]
  OBVIOUS
<1> QED BY <1>1, <1>2 DEF Changes

(* The same of a pair given as a record.                                   *)
LEMMA EntryChanged ==
  ASSUME NEW r, r = [A |-> r.A, B |-> r.B], NEW k, NEW d
  PROVE  /\ [r EXCEPT !["A"][k] = d] = [A |-> [r.A EXCEPT ![k] = d], B |-> r.B]
         /\ [r EXCEPT !["B"][k] = d] = [A |-> r.A, B |-> [r.B EXCEPT ![k] = d]]
<1> DEFINE a == r.A
           b == r.B
<1>1. r = [A |-> a, B |-> b] OBVIOUS
<1> HIDE DEF a, b
<1>2. Changes(a, b, k, d) BY PairChanged
<1>3. /\ [r EXCEPT !["A"][k] = d] = [A |-> [a EXCEPT ![k] = d], B |-> b]
      /\ [r EXCEPT !["B"][k] = d] = [A |-> a, B |-> [b EXCEPT ![k] = d]]
  BY <1>1, <1>2, Zenon DEF Changes
<1> QED BY <1>3 DEF a, b

(* What is multiplied, and the windows.                                    *)
LEMMA MulTypes ==
  ASSUME MulTyped
  PROVE  /\ s2 \in Scalars /\ s3 \in Scalars
         /\ s4 \in Nat /\ s4 >= 2 /\ MulBaseWidth \in Nat /\ MulBaseWidth >= 2
         /\ s4 \in 2..MulWordBits /\ MulBaseWidth \in 2..MulWordBits
  BY MultiplesAssumption, PositionsAre DEF MulTyped

(* A place without a digit.                                                *)
LEMMA SkipStep ==
  ASSUME MulTyped, MakingA \/ MakingB, Multiples!Skip
  PROVE  MulTyped' /\ MulPhase'
<1>1. /\ s2 \in Scalars /\ s3 \in Scalars
      /\ s4 \in Nat /\ s4 >= 2 /\ MulBaseWidth \in Nat /\ MulBaseWidth >= 2
      /\ s4 \in 2..MulWordBits /\ MulBaseWidth \in 2..MulWordBits
  BY MulTypes
<1>2. /\ s7 < Multiples!Positions /\ Multiples!TheWindow % 2 = 0 /\ s7' = s7 + 1
      /\ s1' = s1 /\ s2' = s2 /\ s3' = s3 /\ s4' = s4 /\ s5' = s5 /\ s6' = s6
      /\ s8' = s8 /\ s9' = s9 /\ s10' = s10
  BY Zenon DEF Multiples!Skip
<1>3. MulTyped' BY <1>2, Zenon DEF MulTyped
<1>4. s2 \in Nat /\ s3 \in Nat BY <1>1 DEF Scalars
<1>5. CASE MakingA
  <2>1. s5 = "naf_a" /\ Building(s6.A, s2, s7, s8) /\ s7 \in Nat BY <1>5 DEF MakingA, Building
  <2>2. Multiples!Window(s2, s4) = s8 + (From(s2, s7) % Power(s4)) BY <1>1, <1>4, <2>1, WindowIs
  <2>3. (s8 + (From(s2, s7) % Power(s4))) % 2 = 0
    BY <1>2, <2>1, <2>2, Zenon DEF Multiples!TheWindow
  <2>4. Building(s6.A, s2, s7 + 1, s8) BY <1>1, <1>2, <2>1, <2>3, SkipKeeps
  <2>5. MakingA' BY <1>2, <1>5, <2>4, Zenon DEF MakingA
  <2> QED BY <1>3, <2>5 DEF MulPhase
<1>6. CASE MakingB
  <2>1. s5 = "naf_b" /\ Building(s6.B, s3, s7, s8) /\ s7 \in Nat BY <1>6 DEF MakingB, Building
  <2>2. Multiples!Window(s3, MulBaseWidth) = s8 + (From(s3, s7) % Power(MulBaseWidth))
    BY <1>1, <1>4, <2>1, WindowIs
  <2>3. (s8 + (From(s3, s7) % Power(MulBaseWidth))) % 2 = 0
    <3>1. s5 # "naf_a" BY <2>1
    <3> QED BY <1>2, <2>2, <3>1, Zenon DEF Multiples!TheWindow
  <2>4. Building(s6.B, s3, s7 + 1, s8) BY <1>1, <1>2, <2>1, <2>3, SkipKeeps
  <2>5. MakingB' BY <1>2, <1>6, <2>4, Zenon DEF MakingB
  <2> QED BY <1>3, <2>5 DEF MulPhase
<1> QED BY <1>5, <1>6

(* A form stays one of digits in range when it gets another.               *)
LEMMA FormExtended ==
  ASSUME NEW f \in [0..(Multiples!Positions - 1) -> Int], NEW w,
         \A k \in 0..(Multiples!Positions - 1) : NafDigit(f[k], w),
         NEW at, NEW d, NafDigit(d, w)
  PROVE  /\ [f EXCEPT ![at] = d] \in [0..(Multiples!Positions - 1) -> Int]
         /\ \A k \in 0..(Multiples!Positions - 1) : NafDigit([f EXCEPT ![at] = d][k], w)
<1>1. d \in Int BY DEF NafDigit
<1> QED BY <1>1

(* A place with a digit.                                                   *)
LEMMA EmitStep ==
  ASSUME MulTyped, MakingA \/ MakingB, Multiples!Emit
  PROVE  MulTyped' /\ MulPhase'
<1> DEFINE t == Multiples!TheWindow
           w == Multiples!ItsWidth
           half == Multiples!Pow2[w - 1]
           d == IF t < half THEN t ELSE t - 2 * half
           u == IF t < half THEN 0 ELSE 1
<1>1. /\ s2 \in Scalars /\ s3 \in Scalars
      /\ s4 \in Nat /\ s4 >= 2 /\ MulBaseWidth \in Nat /\ MulBaseWidth >= 2
      /\ s4 \in 2..MulWordBits /\ MulBaseWidth \in 2..MulWordBits
  BY MulTypes
<1>2. /\ s7 < Multiples!Positions /\ t % 2 = 1 /\ s7' = s7 + w
      /\ s6' = [s6 EXCEPT ![Multiples!Making][s7] = d] /\ s8' = u
      /\ s1' = s1 /\ s2' = s2 /\ s3' = s3 /\ s4' = s4 /\ s5' = s5
      /\ s9' = s9 /\ s10' = s10
  BY Zenon DEF Multiples!Emit
<1>3. s2 \in Nat /\ s3 \in Nat BY <1>1 DEF Scalars
<1>4. /\ s2 \in MulAs /\ s3 \in MulBs /\ s4 \in 2..MulWordBits
      /\ s6 = [A |-> s6.A, B |-> s6.B]
      /\ s6.A \in [0..(Multiples!Positions - 1) -> Int]
      /\ s6.B \in [0..(Multiples!Positions - 1) -> Int]
      /\ \A k \in 0..(Multiples!Positions - 1) : NafDigit(s6.A[k], s4)
      /\ \A k \in 0..(Multiples!Positions - 1) : NafDigit(s6.B[k], MulBaseWidth)
  BY Zenon DEF MulTyped, Forms
<1>5. CASE MakingA
  <2>1. s5 = "naf_a" /\ Building(s6.A, s2, s7, s8) /\ s7 \in Nat BY <1>5 DEF MakingA, Building
  <2>2. w = s4 /\ t = Multiples!Window(s2, s4) /\ Multiples!Making = "A"
    BY <2>1, Zenon DEF Multiples!ItsWidth, Multiples!TheWindow, Multiples!Making
  <2>3. t = s8 + (From(s2, s7) % Power(s4)) BY <1>1, <1>3, <2>1, <2>2, WindowIs
  <2>4. half = Power(s4 - 1)
    <3>1. s4 - 1 \in Nat BY <1>1
    <3> QED BY <2>2, <3>1, PowerIs
  <2>5. /\ d = IF t < Power(s4 - 1) THEN t ELSE t - 2 * Power(s4 - 1)
        /\ u = IF t < Power(s4 - 1) THEN 0 ELSE 1
    BY <2>4, Zenon
  <2>6. s6' = [A |-> [s6.A EXCEPT ![s7] = d], B |-> s6.B] BY <1>2, <1>4, <2>2, EntryChanged, Zenon
  <2> HIDE DEF t, w, half, d, u
  <2>7. Building([s6.A EXCEPT ![s7] = d], s2, s7 + s4, u) /\ NafDigit(d, s4)
    BY <1>1, <1>2, <2>1, <2>3, <2>5, EmitKeeps
  <2>8. s6'.A = [s6.A EXCEPT ![s7] = d] /\ s6'.B = s6.B BY <2>6
  <2>9. MakingA' BY <1>2, <1>5, <2>2, <2>7, <2>8, Zenon DEF MakingA
  <2>10. Forms(s6', s4)
    <3>1. /\ [s6.A EXCEPT ![s7] = d] \in [0..(Multiples!Positions - 1) -> Int]
          /\ \A k \in 0..(Multiples!Positions - 1) : NafDigit([s6.A EXCEPT ![s7] = d][k], s4)
      BY <1>4, <2>7, FormExtended
    <3>2. s6' = [A |-> s6'.A, B |-> s6'.B] BY <2>6, <2>8, Zenon
    <3> QED BY <1>4, <2>8, <3>1, <3>2, Zenon DEF Forms
  <2> QED BY <1>2, <1>4, <2>9, <2>10, Zenon DEF MulTyped, MulPhase
<1>6. CASE MakingB
  <2>1. s5 = "naf_b" /\ Building(s6.B, s3, s7, s8) /\ s7 \in Nat BY <1>6 DEF MakingB, Building
  <2>2. w = MulBaseWidth /\ t = Multiples!Window(s3, MulBaseWidth) /\ Multiples!Making = "B"
    <3>1. s5 # "naf_a" BY <2>1
    <3> QED BY <3>1, Zenon DEF Multiples!ItsWidth, Multiples!TheWindow, Multiples!Making
  <2>3. t = s8 + (From(s3, s7) % Power(MulBaseWidth)) BY <1>1, <1>3, <2>1, <2>2, WindowIs
  <2>4. half = Power(MulBaseWidth - 1)
    <3>1. MulBaseWidth - 1 \in Nat BY <1>1
    <3> QED BY <2>2, <3>1, PowerIs
  <2>5. /\ d = IF t < Power(MulBaseWidth - 1) THEN t ELSE t - 2 * Power(MulBaseWidth - 1)
        /\ u = IF t < Power(MulBaseWidth - 1) THEN 0 ELSE 1
    BY <2>4, Zenon
  <2>6. s6' = [A |-> s6.A, B |-> [s6.B EXCEPT ![s7] = d]] BY <1>2, <1>4, <2>2, EntryChanged, Zenon
  <2> HIDE DEF t, w, half, d, u
  <2>7. Building([s6.B EXCEPT ![s7] = d], s3, s7 + MulBaseWidth, u) /\ NafDigit(d, MulBaseWidth)
    BY <1>1, <1>2, <2>1, <2>3, <2>5, EmitKeeps
  <2>8. s6'.B = [s6.B EXCEPT ![s7] = d] /\ s6'.A = s6.A BY <2>6
  <2>9. MakingB' BY <1>2, <1>6, <2>2, <2>7, <2>8, Zenon DEF MakingB
  <2>10. Forms(s6', s4)
    <3>1. /\ [s6.B EXCEPT ![s7] = d] \in [0..(Multiples!Positions - 1) -> Int]
          /\ \A k \in 0..(Multiples!Positions - 1) :
               NafDigit([s6.B EXCEPT ![s7] = d][k], MulBaseWidth)
      BY <1>4, <2>7, FormExtended
    <3>2. s6' = [A |-> s6'.A, B |-> s6'.B] BY <2>6, <2>8, Zenon
    <3> QED BY <1>4, <2>8, <3>1, <3>2, Zenon DEF Forms
  <2> QED BY <1>2, <1>4, <2>9, <2>10, Zenon DEF MulTyped, MulPhase
<1> QED BY <1>5, <1>6

(* The topmost place with a digit: above it both forms are zero.           *)
LEMMA TopDigitIs ==
  /\ Multiples!TopDigit \in 0..(Multiples!Positions - 1)
  /\ \A k \in 0..(Multiples!Positions - 1) :
       Multiples!TopDigit < k => s6.A[k] = 0 /\ s6.B[k] = 0
<1> DEFINE top == Multiples!Positions
           used == { k \in 0..(top - 1) : s6.A[k] # 0 \/ s6.B[k] # 0 }
           highest == CHOOSE k \in used : \A j \in used : j <= k
<1>1. top \in Nat /\ top >= 4 BY PositionsAre
<1>2. Multiples!TopDigit = IF used = {} THEN 0 ELSE highest BY Zenon DEF Multiples!TopDigit
<1>3. CASE used = {}
  <2>1. Multiples!TopDigit = 0 BY <1>2, <1>3
  <2> QED BY <1>1, <1>3, <2>1
<1>4. CASE used # {}
  <2> DEFINE S == { top - k : k \in used }
  <2>1. S \subseteq Nat /\ S # {} BY <1>1, <1>4
  <2>2. PICK x \in S : \A y \in S : x <= y
    <3> HIDE DEF S
    <3> QED BY <2>1, LeastOf
  <2>3. PICK k \in used : x = top - k OBVIOUS
  <2>4. \A j \in used : j <= k
    <3>1. ASSUME NEW j \in used PROVE j <= k
      <4>1. top - j \in S OBVIOUS
      <4>2. top - k <= top - j BY <2>2, <2>3, <4>1
      <4>3. j \in 0..(top - 1) /\ k \in 0..(top - 1) OBVIOUS
      <4> QED BY <1>1, <4>2, <4>3
    <3> QED BY <3>1
  <2>5. highest \in used /\ \A j \in used : j <= highest
    <3> HIDE DEF used
    <3> QED BY <2>3, <2>4
  <2>6. Multiples!TopDigit = highest BY <1>2, <1>4
  <2> HIDE DEF highest
  <2>7. highest \in 0..(top - 1) BY <2>5
  <2>8. ASSUME NEW j \in 0..(top - 1), highest < j PROVE s6.A[j] = 0 /\ s6.B[j] = 0
    <3>1. j \notin used BY <1>1, <2>5, <2>7, <2>8
    <3> QED BY <3>1
  <2> QED BY <2>6, <2>7, <2>8
<1> QED BY <1>3, <1>4

(* The forms are complete: the other is made next, or the loop begins at   *)
(* the topmost digit of either.                                            *)
LEMMA FormDoneStep ==
  ASSUME MulTyped, MakingA \/ MakingB, Multiples!FormDone
  PROVE  MulTyped' /\ MulPhase'
<1>1. s2 \in Scalars /\ s3 \in Scalars BY MulTypes
<1>2. /\ s7 >= Multiples!Positions /\ s7' = 0 /\ s8' = 0
      /\ (IF s5 = "naf_a" THEN s5' = "naf_b" /\ s9' = s9
                          ELSE s5' = "loop" /\ s9' = Multiples!TopDigit)
      /\ s1' = s1 /\ s2' = s2 /\ s3' = s3 /\ s4' = s4 /\ s6' = s6 /\ s10' = s10
  BY Zenon DEF Multiples!FormDone
<1>3. MulTyped' BY <1>2, Zenon DEF MulTyped
<1>4. CASE MakingA
  <2>1. /\ s1 = "verify" /\ s5 = "naf_a" /\ Building(s6.A, s2, s7, s8)
        /\ s6.B = Multiples!NoForm /\ s10 = Multiples!Point(0, 0)
    BY Zenon, <1>4 DEF MakingA
  <2>2. Complete(s6.A, s2)
    <3>1. Spelt(s6.A, 1)[Multiples!Positions] = s2 BY <1>1, <1>2, <2>1, FormSpells
    <3>2. s6.A \in [0..(Multiples!Positions - 1) -> Int] BY <2>1, Zenon DEF Building
    <3> QED BY <3>1, <3>2 DEF Complete
  <2>3. Building(s6.B, s3, 0, 0) BY <1>1, <2>1, NoFormIs, Zenon
  <2>4. s5' = "naf_b" BY <1>2, <2>1
  <2>5. MakingB' BY <1>2, <2>1, <2>2, <2>3, <2>4, Zenon DEF MakingB
  <2> QED BY <1>3, <2>5 DEF MulPhase
<1>5. CASE MakingB
  <2>1. /\ s1 = "verify" /\ s5 = "naf_b" /\ Complete(s6.A, s2)
        /\ Building(s6.B, s3, s7, s8) /\ s10 = Multiples!Point(0, 0)
    BY Zenon, <1>5 DEF MakingB
  <2>2. Complete(s6.B, s3)
    <3>1. Spelt(s6.B, 1)[Multiples!Positions] = s3 BY <1>1, <1>2, <2>1, FormSpells
    <3>2. s6.B \in [0..(Multiples!Positions - 1) -> Int] BY <2>1, Zenon DEF Building
    <3> QED BY <3>1, <3>2 DEF Complete
  <2>3. s5' = "loop" /\ s9' = Multiples!TopDigit BY <1>2, <2>1
  <2> DEFINE top == Multiples!Positions
             at0 == Multiples!TopDigit
             bot == at0 + 1
             one == 1
             zero == 0
  <2>4. /\ top \in Nat /\ at0 \in 0..(top - 1) /\ bot \in Nat /\ bot <= top
        /\ \A k \in 0..(top - 1) : at0 < k => s6.A[k] = 0 /\ s6.B[k] = 0
        /\ one \in Nat /\ zero \in Int
    BY PositionsAre, TopDigitIs
  <2>5. /\ s6.A \in [0..(top - 1) -> Int] /\ Spelt(s6.A, one)[top] = s2
        /\ s6.B \in [0..(top - 1) -> Int] /\ Spelt(s6.B, one)[top] = s3
    BY <2>1, <2>2, Zenon DEF Complete
  <2> HIDE DEF at0, top, one
  <2>6. /\ Spellable(s6.A) /\ \A k \in 0..(top - 1) : DigitAt(s6.A, k) = s6.A[k]
        /\ Spellable(s6.B) /\ \A k \in 0..(top - 1) : DigitAt(s6.B, k) = s6.B[k]
    BY <2>4, <2>5, FormsAreDigits
  <2>7. \A k \in Nat : bot <= k /\ k < top => DigitAt(s6.A, k) = 0 /\ DigitAt(s6.B, k) = 0
    <3>1. ASSUME NEW k \in Nat, bot <= k, k < top
          PROVE  DigitAt(s6.A, k) = 0 /\ DigitAt(s6.B, k) = 0
      <4>1. k \in 0..(top - 1) /\ at0 < k BY <2>4, <3>1
      <4> QED BY <2>4, <2>6, <4>1
    <3> QED BY <3>1
  <2> HIDE DEF bot, zero
  <2>8. Spelt(s6.A, one)[top] = Spelt(s6.A, one)[bot]
    <3>1. \A k \in Nat : bot <= k /\ k < top => DigitAt(s6.A, k) = 0 BY <2>7
    <3> QED BY <2>4, <2>6, <3>1, ZerosSpellNothing
  <2>9. Spelt(s6.B, one)[top] = Spelt(s6.B, one)[bot]
    <3>1. \A k \in Nat : bot <= k /\ k < top => DigitAt(s6.B, k) = 0 BY <2>7
    <3> QED BY <2>4, <2>6, <3>1, ZerosSpellNothing
  <2>10. zero * Power(bot) = 0 /\ s2 = 0 + s2 /\ s3 = 0 + s3
    <3>1. Power(bot) \in Nat BY <2>4, PowerIs
    <3> DEFINE e == Power(bot)
    <3> HIDE DEF e
    <3>2. zero * e = 0 BY <3>1 DEF e, zero
    <3>3. s2 \in Nat /\ s3 \in Nat BY <1>1 DEF Scalars
    <3> QED BY <3>2, <3>3 DEF e
  <2>11. /\ s2 = zero * Power(bot) + Spelt(s6.A, one)[bot]
         /\ s3 = zero * Power(bot) + Spelt(s6.B, one)[bot]
    BY <2>5, <2>8, <2>9, <2>10, Zenon
  <2>12. s10 = Multiples!Point(zero, zero) BY <2>1 DEF zero
  <2>13. Verifying'
    <3>1. /\ s2' = zero * Power(s9' + 1) + Spelt(s6'.A, 1)[s9' + 1]
          /\ s3' = zero * Power(s9' + 1) + Spelt(s6'.B, 1)[s9' + 1]
      BY <1>2, <2>3, <2>11, Zenon DEF bot, at0, one
    <3>2. s9' \in 0..(Multiples!Positions - 1) BY <2>3, <2>4 DEF at0, top
    <3>3. s10' = Multiples!Point(zero, zero) /\ zero \in Int BY <1>2, <2>4, <2>12
    <3>4. \E x, y \in Int : /\ s10' = Multiples!Point(x, y)
                            /\ s2' = x * Power(s9' + 1) + Spelt(s6'.A, 1)[s9' + 1]
                            /\ s3' = y * Power(s9' + 1) + Spelt(s6'.B, 1)[s9' + 1]
      BY <3>1, <3>3, Zenon
    <3> QED BY <1>2, <2>1, <2>2, <2>3, <3>2, <3>4, Zenon DEF Verifying
  <2> QED BY <1>3, <2>13 DEF MulPhase
<1> QED BY <1>4, <1>5

(* double_scalar_mul: a doubling and the digits of either form.            *)
LEMMA VerifyStep ==
  ASSUME MulTyped, Verifying, Multiples!VerifyTurn
  PROVE  MulTyped' /\ MulPhase'
<1> DEFINE top == Multiples!Positions
           da == s6.A[s9]
           db == s6.B[s9]
           doubled == Multiples!Times(2, s10)
           withA == IF da # 0 THEN Multiples!AddSigned(doubled, Multiples!KeyPoint, da) ELSE doubled
<1>1. /\ s10' = IF db # 0 THEN Multiples!AddSigned(withA, Multiples!BasePoint, db) ELSE withA
      /\ (IF s9 = 0 THEN s5' = "done" /\ s9' = s9 ELSE s5' = s5 /\ s9' = s9 - 1)
      /\ s1' = s1 /\ s2' = s2 /\ s3' = s3 /\ s4' = s4 /\ s6' = s6 /\ s7' = s7 /\ s8' = s8
  BY Zenon DEF Multiples!VerifyTurn
<1>2. MulTyped' BY <1>1, Zenon DEF MulTyped
<1>3. /\ s1 = "verify" /\ s5 = "loop" /\ Complete(s6.A, s2) /\ Complete(s6.B, s3)
      /\ s9 \in 0..(top - 1)
  BY Zenon DEF Verifying
<1>4. PICK x, y \in Int : /\ s10 = Multiples!Point(x, y)
                          /\ s2 = x * Power(s9 + 1) + Spelt(s6.A, 1)[s9 + 1]
                          /\ s3 = y * Power(s9 + 1) + Spelt(s6.B, 1)[s9 + 1]
  BY Zenon DEF Verifying
<1>5. top \in Nat /\ s9 \in Nat BY <1>3, PositionsAre
<1>6. s6.A \in [0..(top - 1) -> Int] /\ s6.B \in [0..(top - 1) -> Int]
  BY <1>3, Zenon DEF Complete
<1>7. (da # 0 => da % 2 = 1) /\ (db # 0 => db % 2 = 1)
  <2>1. NafDigit(da, s4) /\ NafDigit(db, MulBaseWidth) BY <1>3, Zenon DEF MulTyped, Forms
  <2> QED BY <2>1, Zenon DEF NafDigit
<1>8. da \in Int /\ db \in Int BY <1>3, <1>6
<1>9. s10' = Multiples!Point(2 * x + da, 2 * y + db)
  <2>1. doubled = Multiples!Point(2 * x, 2 * y)
    <3> DEFINE pt == Multiples!Point(x, y)
    <3>1. pt.A = x /\ pt.B = y BY DEF Multiples!Point
    <3> HIDE DEF pt
    <3>2. Multiples!Times(2, pt) = Multiples!Point(2 * x, 2 * y) BY <3>1, Zenon DEF Multiples!Times
    <3> QED BY <1>4, <3>2, Zenon DEF pt
  <2> DEFINE x2 == 2 * x
             y2 == 2 * y
             one == 1
             zero == 0
  <2>2. /\ x2 \in Int /\ y2 \in Int /\ one \in Int /\ zero \in Int
        /\ x2 + da * one = x2 + da /\ y2 + da * zero = y2
        /\ x2 + da \in Int /\ y2 + db * one = y2 + db
        /\ (x2 + da) + db * zero = x2 + da
    BY <1>8
  <2>3. Multiples!KeyPoint = Multiples!Point(one, zero) /\ Multiples!BasePoint = Multiples!Point(zero, one)
    BY DEF Multiples!KeyPoint, Multiples!BasePoint
  <2>4. s10' = IF db # 0 THEN Multiples!AddSigned(withA, Multiples!Point(zero, one), db) ELSE withA
    BY <1>1, <2>3, Zenon
  <2>5. withA = IF da # 0 THEN Multiples!AddSigned(Multiples!Point(x2, y2), Multiples!Point(one, zero), da)
                ELSE Multiples!Point(x2, y2)
    BY <2>1, <2>3, Zenon
  <2> HIDE DEF da, db, withA, doubled, x2, y2, one, zero
  <2>6. withA = Multiples!Point(x2 + da * one, y2 + da * zero)
    <3>1. Adds(x2, y2, one, zero, da)
      <4>1. x2 \in Int /\ y2 \in Int /\ one \in Int /\ zero \in Int BY <2>2
      <4> QED BY <1>7, <1>8, <4>1, MaybeAdded
    <3> QED BY <2>5, <3>1, Zenon DEF Adds
  <2> DEFINE x3 == x2 + da
  <2>7. withA = Multiples!Point(x3, y2) /\ x3 \in Int BY <2>2, <2>6, Zenon
  <2>8. x3 + db * zero = x3 BY <2>2
  <2> HIDE DEF x3
  <2>9. s10' = Multiples!Point(x3 + db * zero, y2 + db * one)
    <3>1. Adds(x3, y2, zero, one, db)
      <4>1. x3 \in Int /\ y2 \in Int /\ one \in Int /\ zero \in Int BY <2>2, <2>7
      <4> QED BY <1>7, <1>8, <4>1, MaybeAdded
    <3> QED BY <2>4, <2>7, <3>1, Zenon DEF Adds
  <2> QED BY <2>2, <2>8, <2>9, Zenon DEF x3, x2, y2
<1> DEFINE e == Power(s9)
           va == Spelt(s6.A, 1)[s9]
           vb == Spelt(s6.B, 1)[s9]
<1>10. /\ e \in Int /\ Power(s9 + 1) = 2 * e
       /\ va \in Int /\ Spelt(s6.A, 1)[s9 + 1] = va + da * e
       /\ vb \in Int /\ Spelt(s6.B, 1)[s9 + 1] = vb + db * e
  <2>1. /\ Spellable(s6.A) /\ DigitAt(s6.A, s9) = da /\ Spellable(s6.B) /\ DigitAt(s6.B, s9) = db
    BY <1>3, <1>5, <1>6, FormsAreDigits
  <2>2. /\ Spelt(s6.A, 1)[s9] \in Int
        /\ Spelt(s6.A, 1)[s9 + 1] = Spelt(s6.A, 1)[s9] + DigitAt(s6.A, s9) * Power(s9)
        /\ Spelt(s6.B, 1)[s9] \in Int
        /\ Spelt(s6.B, 1)[s9 + 1] = Spelt(s6.B, 1)[s9] + DigitAt(s6.B, s9) * Power(s9)
    BY <1>5, <2>1, SpeltNext, Zenon
  <2>3. e \in Int /\ Power(s9 + 1) = 2 * e BY <1>5, PowerIs
  <2> QED BY <2>1, <2>2, <2>3, Zenon
<1> HIDE DEF da, db, e, va, vb, top
<1>11. s2 = (2 * x + da) * e + va /\ s3 = (2 * y + db) * e + vb
  <2> DEFINE two == 2
  <2>1. two \in Int OBVIOUS
  <2>2. s2 = x * (two * e) + (va + da * e) /\ s3 = y * (two * e) + (vb + db * e)
    BY <1>4, <1>10, Zenon
  <2> HIDE DEF two
  <2>3. va \in Int /\ vb \in Int /\ e \in Int BY <1>10
  <2>4. Lowers(x, va, da, e, two, s2) /\ Lowers(y, vb, db, e, two, s3)
    BY <1>8, <2>1, <2>3, TurnLowers, Zenon
  <2> QED BY <2>2, <2>4, Zenon DEF Lowers, two
<1> DEFINE nx == 2 * x + da
           ny == 2 * y + db
<1>12. nx \in Int /\ ny \in Int BY <1>8
<1>13. s2 = nx * e + va /\ s3 = ny * e + vb /\ s10' = Multiples!Point(nx, ny) BY <1>9, <1>11
<1> HIDE DEF nx, ny
<1>14. CASE s9 = 0
  <2>1. s5' = "done" BY <1>1, <1>14
  <2>2. e = 1 BY <1>14, PowerIs DEF e
  <2>3. va = 0 /\ vb = 0
    <3> DEFINE one == 1
    <3>1. one \in Nat /\ Spellable(s6.A) /\ Spellable(s6.B) BY <1>5, <1>6, FormsAreDigits DEF top
    <3> HIDE DEF one
    <3>2. Spelt(s6.A, one)[0] = 0 /\ Spelt(s6.B, one)[0] = 0 BY <3>1, SpeltIs
    <3> QED BY <1>14, <3>2 DEF one, va, vb
  <2>4. s2 = nx /\ s3 = ny BY <1>12, <1>13, <2>2, <2>3
  <2>5. Finished' BY <1>1, <1>3, <1>13, <2>1, <2>4, Zenon DEF Finished
  <2> QED BY <1>2, <2>5 DEF MulPhase
<1>15. CASE s9 # 0
  <2>1. s5' = "loop" /\ s9' = s9 - 1 /\ s9' \in 0..(top - 1) /\ s9' + 1 = s9
    BY <1>1, <1>3, <1>5, <1>15
  <2>2. /\ s2' = nx * Power(s9' + 1) + Spelt(s6'.A, 1)[s9' + 1]
        /\ s3' = ny * Power(s9' + 1) + Spelt(s6'.B, 1)[s9' + 1]
    BY <1>1, <1>13, <2>1, Zenon DEF e, va, vb
  <2>3. \E x3, y3 \in Int : /\ s10' = Multiples!Point(x3, y3)
                            /\ s2' = x3 * Power(s9' + 1) + Spelt(s6'.A, 1)[s9' + 1]
                            /\ s3' = y3 * Power(s9' + 1) + Spelt(s6'.B, 1)[s9' + 1]
    BY <1>12, <1>13, <2>2, Zenon
  <2>4. Verifying' BY <1>1, <1>3, <2>1, <2>3, Zenon DEF Verifying, top
  <2> QED BY <1>2, <2>4 DEF MulPhase
<1> QED BY <1>14, <1>15

(* A scalar's digit in radix 16, and the sum with it.                      *)
LEMMA RadixTurn ==
  ASSUME NEW s \in Scalars, NEW k \in 0..(Multiples!Nibbles - 1)
  PROVE  /\ k \in Nat /\ RadixOf(s)[k] \in (-8)..8
         /\ Power(4 * k) \in Int /\ Power(4 * (k + 1)) = 16 * Power(4 * k)
         /\ Spelt(RadixOf(s), 4)[k] \in Int /\ Spelt(RadixOf(s), 4)[0] = 0
         /\ Spelt(RadixOf(s), 4)[k + 1]
              = Spelt(RadixOf(s), 4)[k] + RadixOf(s)[k] * Power(4 * k)
<1> DEFINE top == Multiples!Nibbles
           f == RadixOf(s)
           four == 4
<1>1. /\ top \in Nat /\ k \in 0..(top - 1) BY NibblesAre
<1>2. k \in Nat BY <1>1
<1>3. s \in Nat BY DEF Scalars
<1>4. f \in [0..(top - 1) -> Int] /\ f[k] \in (-8)..8 BY <1>1, RadixSpells
<1>5. Power(4 * k) \in Nat /\ Power(4 * (k + 1)) = 16 * Power(4 * k) BY <1>2, <1>3, NibbleIs, Zenon
<1>6. four \in Nat OBVIOUS
<1> HIDE DEF top, f, four
<1>7. Spellable(f) /\ DigitAt(f, k) = f[k] BY <1>1, <1>4, FormsAreDigits
<1>8. /\ Spelt(f, four)[0] = 0 /\ Spelt(f, four)[k] \in Int
      /\ Spelt(f, four)[k + 1] = Spelt(f, four)[k] + DigitAt(f, k) * Power(four * k)
  BY <1>2, <1>6, <1>7, SpeltIs, Zenon
<1>9. /\ Spelt(f, 4)[k] \in Int /\ Spelt(f, 4)[0] = 0
      /\ Spelt(f, 4)[k + 1] = Spelt(f, 4)[k] + f[k] * Power(4 * k)
  BY <1>7, <1>8, Zenon DEF four
<1>10. Power(4 * k) \in Int
  <2> DEFINE e == Power(4 * k)
  <2>1. e \in Nat BY <1>5
  <2> HIDE DEF e
  <2>2. e \in Int BY <2>1
  <2> QED BY <2>2 DEF e
<1> QED BY <1>2, <1>4, <1>5, <1>9, <1>10, Zenon DEF f

(* Sums and multiples of points, coefficient by coefficient.               *)
Sums(x, y, a, b) ==
  Multiples!Plus(Multiples!Point(x, y), Multiples!Point(a, b)) = Multiples!Point(x + a, y + b)
MultipliesPoint(i, x, y) == Multiples!Times(i, Multiples!Point(x, y)) = Multiples!Point(i * x, i * y)

(* The sum of two points.                                                  *)
LEMMA PlusIs == ASSUME NEW x, NEW y, NEW a, NEW b PROVE Sums(x, y, a, b)
<1> DEFINE pt == Multiples!Point(x, y)
           by == Multiples!Point(a, b)
<1>1. pt.A = x /\ pt.B = y /\ by.A = a /\ by.B = b BY DEF Multiples!Point
<1> HIDE DEF pt, by
<1>2. Multiples!Plus(pt, by) = Multiples!Point(x + a, y + b) BY <1>1, Zenon DEF Multiples!Plus
<1> QED BY <1>2 DEF Sums, pt, by

(* The multiple of a point.                                                *)
LEMMA TimesIs == ASSUME NEW i, NEW x, NEW y PROVE MultipliesPoint(i, x, y)
<1> DEFINE pt == Multiples!Point(x, y)
<1>1. pt.A = x /\ pt.B = y BY DEF Multiples!Point
<1> HIDE DEF pt
<1>2. Multiples!Times(i, pt) = Multiples!Point(i * x, i * y) BY <1>1, Zenon DEF Multiples!Times
<1> QED BY <1>2 DEF MultipliesPoint, pt

(* mul: four doublings and a digit.                                        *)
LEMMA MulTurnStep ==
  ASSUME MulTyped, Multiplying, Multiples!MulTurn
  PROVE  MulTyped' /\ MulPhase'
<1> DEFINE d == RadixOf(s2)[s9]
           e == Power(4 * s9)
           v == Spelt(RadixOf(s2), 4)[s9]
<1>1. /\ s10' = Multiples!Plus(Multiples!Times(16, s10),
                               Multiples!SelectSigned(Multiples!KeyPoint, d))
      /\ (IF s9 = 0 THEN s5' = "done" /\ s9' = s9 ELSE s5' = s5 /\ s9' = s9 - 1)
      /\ s1' = s1 /\ s2' = s2 /\ s3' = s3 /\ s4' = s4 /\ s6' = s6 /\ s7' = s7 /\ s8' = s8
  BY Zenon DEF Multiples!MulTurn, RadixOf
<1>2. MulTyped' BY <1>1, Zenon DEF MulTyped
<1>3. s1 = "mul" /\ s5 = "loop" /\ s9 \in 0..(Multiples!Nibbles - 1) BY Zenon DEF Multiplying
<1>4. PICK x \in Int : /\ s10 = Multiples!Point(x, 0)
                       /\ s2 = x * Power(4 * (s9 + 1)) + Spelt(RadixOf(s2), 4)[s9 + 1]
  BY Zenon DEF Multiplying
<1>5. s2 \in Scalars BY MulTypes
<1>6. /\ s9 \in Nat /\ d \in (-8)..8 /\ e \in Int /\ Power(4 * (s9 + 1)) = 16 * e
      /\ v \in Int /\ Spelt(RadixOf(s2), 4)[0] = 0
      /\ Spelt(RadixOf(s2), 4)[s9 + 1] = v + d * e
  BY <1>3, <1>5, RadixTurn, Zenon
<1> HIDE DEF d, e, v
<1> DEFINE nx == 16 * x + d
<1>7. nx \in Int /\ d \in Int BY <1>6
<1>8. s10' = Multiples!Point(nx, 0)
  <2> DEFINE one == 1
             zero == 0
  <2>1. /\ one \in Int /\ zero \in Int /\ 16 * x + d * one = nx
        /\ 16 * zero + d * zero = zero
    BY <1>7
  <2> HIDE DEF one, zero
  <2>2. Multiples!SelectSigned(Multiples!Point(one, zero), d) = Multiples!Point(d * one, d * zero)
    BY <1>6, <2>1, SelectSignedIs
  <2>3. Multiples!KeyPoint = Multiples!Point(one, zero) BY DEF Multiples!KeyPoint, one, zero
  <2>4. s10 = Multiples!Point(x, zero) BY <1>4 DEF zero
  <2>5. Multiples!Times(16, s10) = Multiples!Point(16 * x, 16 * zero)
    <3>1. MultipliesPoint(16, x, zero) BY TimesIs
    <3> QED BY <2>4, <3>1, Zenon DEF MultipliesPoint
  <2>6. s10' = Multiples!Plus(Multiples!Point(16 * x, 16 * zero), Multiples!Point(d * one, d * zero))
    BY <1>1, <2>2, <2>3, <2>5, Zenon
  <2>7. s10' = Multiples!Point(16 * x + d * one, 16 * zero + d * zero)
    <3>1. Sums(16 * x, 16 * zero, d * one, d * zero) BY PlusIs, Zenon
    <3> QED BY <2>6, <3>1, Zenon DEF Sums
  <2>8. s10' = Multiples!Point(nx, zero) BY <2>1, <2>7, Zenon
  <2> QED BY <2>8 DEF zero
<1>9. s2 = nx * e + v
  <2> DEFINE g == 16
  <2>1. g \in Int OBVIOUS
  <2>2. s2 = x * (g * e) + (v + d * e) BY <1>4, <1>6, Zenon
  <2> HIDE DEF g
  <2>3. v \in Int /\ e \in Int BY <1>6
  <2>4. Lowers(x, v, d, e, g, s2) BY <1>7, <2>1, <2>3, TurnLowers, Zenon
  <2> QED BY <2>2, <2>4, Zenon DEF Lowers, g
<1> HIDE DEF nx
<1>10. CASE s9 = 0
  <2>1. s5' = "done" BY <1>1, <1>10
  <2>2. e = 1
    <3> DEFINE i == 4 * s9
    <3>1. i = 0 BY <1>10
    <3> HIDE DEF i
    <3>2. Power(i) = 1 BY <3>1, PowerIs, Zenon
    <3> QED BY <3>2 DEF i, e
  <2>3. v = 0 BY <1>6, <1>10, Zenon DEF v
  <2>4. s2 = nx BY <1>7, <1>9, <2>2, <2>3
  <2>5. Finished' BY <1>1, <1>3, <1>8, <2>1, <2>4, Zenon DEF Finished
  <2> QED BY <1>2, <2>5 DEF MulPhase
<1>11. CASE s9 # 0
  <2>1. Multiples!Nibbles \in Nat BY NibblesAre
  <2>2. s5' = "loop" /\ s9' = s9 - 1 /\ s9' \in 0..(Multiples!Nibbles - 1) /\ s9' + 1 = s9
    BY <1>1, <1>3, <1>6, <1>11, <2>1
  <2>3. s2' = nx * Power(4 * (s9' + 1)) + Spelt(RadixOf(s2'), 4)[s9' + 1]
    BY <1>1, <1>9, <2>2, Zenon DEF e, v
  <2>4. \E x3 \in Int : /\ s10' = Multiples!Point(x3, 0)
                        /\ s2' = x3 * Power(4 * (s9' + 1)) + Spelt(RadixOf(s2'), 4)[s9' + 1]
    BY <1>7, <1>8, <2>3, Zenon
  <2>5. s1' = "mul" BY <1>1, <1>3
  <2>6. Multiplying' BY <2>2, <2>4, <2>5, Zenon DEF Multiplying
  <2> QED BY <1>2, <2>6 DEF MulPhase
<1> QED BY <1>10, <1>11

(* mul_base: a row of the table of the base point's multiples.             *)
LEMMA MulBaseTurnStep ==
  ASSUME MulTyped, Adding16, Multiples!MulBaseTurn
  PROVE  MulTyped' /\ MulPhase'
<1> DEFINE d == RadixOf(s2)[s9]
           e == Power(4 * s9)
           v == Spelt(RadixOf(s2), 4)[s9]
           top == Multiples!Nibbles
<1>1. /\ s10' = Multiples!Plus(s10, Multiples!SelectSigned(
                   Multiples!Times(Multiples!Pow2[4 * s9], Multiples!BasePoint), d))
      /\ (IF s9 = top - 1 THEN s5' = "done" /\ s9' = s9 ELSE s5' = s5 /\ s9' = s9 + 1)
      /\ s1' = s1 /\ s2' = s2 /\ s3' = s3 /\ s4' = s4 /\ s6' = s6 /\ s7' = s7 /\ s8' = s8
  BY Zenon DEF Multiples!MulBaseTurn, RadixOf
<1>2. MulTyped' BY <1>1, Zenon DEF MulTyped
<1>3. s1 = "mul_base" /\ s5 = "loop" /\ s9 \in 0..(top - 1) /\ s10 = Multiples!Point(0, v)
  BY Zenon DEF Adding16
<1>4. s2 \in Scalars BY MulTypes
<1>5. /\ s9 \in Nat /\ d \in (-8)..8 /\ e \in Int /\ v \in Int
      /\ Spelt(RadixOf(s2), 4)[s9 + 1] = v + d * e
  BY <1>3, <1>4, RadixTurn, Zenon
<1>6. Multiples!Pow2[4 * s9] = e
  <2> DEFINE i == 4 * s9
  <2>1. i \in Nat BY <1>5
  <2> HIDE DEF i
  <2>2. Multiples!Pow2[i] = Power(i) BY <2>1, PowerIs
  <2> QED BY <2>2 DEF i
<1>7. top \in Nat BY NibblesAre
<1> HIDE DEF d, e, v, top
<1>8. s10' = Multiples!Point(0, v + d * e)
  <2> DEFINE one == 1
             zero == 0
  <2>1. one \in Int /\ zero \in Int /\ e * one = e /\ e * zero = zero BY <1>5
  <2>2. zero + d * zero = zero BY <1>5
  <2>3. Multiples!BasePoint = Multiples!Point(zero, one) BY DEF Multiples!BasePoint
  <2>4. s10 = Multiples!Point(zero, v) BY <1>3
  <2> HIDE DEF one, zero
  <2>5. Multiples!Times(e, Multiples!BasePoint) = Multiples!Point(zero, e)
    <3>1. MultipliesPoint(e, zero, one) BY TimesIs
    <3> QED BY <2>1, <2>3, <3>1, Zenon DEF MultipliesPoint
  <2>6. Multiples!SelectSigned(Multiples!Point(zero, e), d) = Multiples!Point(d * zero, d * e)
    <3>1. zero \in Int /\ e \in Int /\ d \in (-8)..8 BY <1>5, <2>1
    <3> QED BY <3>1, SelectSignedIs
  <2>7. s10' = Multiples!Plus(Multiples!Point(zero, v), Multiples!Point(d * zero, d * e))
    BY <1>1, <1>6, <2>4, <2>5, <2>6, Zenon
  <2>8. s10' = Multiples!Point(zero + d * zero, v + d * e)
    <3>1. Sums(zero, v, d * zero, d * e) BY PlusIs, Zenon
    <3> QED BY <2>7, <3>1, Zenon DEF Sums
  <2> QED BY <2>2, <2>8, Zenon DEF zero
<1>9. s10' = Multiples!Point(0, Spelt(RadixOf(s2), 4)[s9 + 1]) BY <1>5, <1>8, Zenon
<1>10. CASE s9 = top - 1
  <2>1. s5' = "done" BY <1>1, <1>10
  <2>2. s9 + 1 = top BY <1>5, <1>7, <1>10
  <2>3. Spelt(RadixOf(s2), 4)[top] = s2 BY <1>4, RadixSpells DEF top
  <2>4. s10' = Multiples!Point(0, s2') BY <1>1, <1>9, <2>2, <2>3, Zenon
  <2>5. s1' = "mul_base" BY <1>1, <1>3
  <2>6. Finished' BY <2>1, <2>4, <2>5, Zenon DEF Finished
  <2> QED BY <1>2, <2>6 DEF MulPhase
<1>11. CASE s9 # top - 1
  <2>1. s5' = "loop" /\ s9' = s9 + 1 /\ s9' \in 0..(top - 1) BY <1>1, <1>3, <1>5, <1>7, <1>11
  <2>2. s10' = Multiples!Point(0, Spelt(RadixOf(s2'), 4)[s9']) BY <1>1, <1>9, <2>1, Zenon
  <2>3. s1' = "mul_base" BY <1>1, <1>3
  <2>4. Adding16' BY <2>1, <2>2, <2>3, Zenon DEF Adding16, top
  <2> QED BY <1>2, <2>4 DEF MulPhase
<1> QED BY <1>10, <1>11

(* Every step keeps the invariant.                                         *)
LEMMA MulStep == MulInv /\ [BenchNext]_bench => MulInv'
<1> SUFFICES ASSUME MulInv, [BenchNext]_bench, unit' = "mul"
             PROVE  MulTyped' /\ MulPhase'
  BY Zenon DEF MulInv
<1>1. CASE UNCHANGED bench
  <2>1. unit = "mul" BY <1>1, Zenon DEF bench
  <2>2. /\ s1' = s1 /\ s2' = s2 /\ s3' = s3 /\ s4' = s4 /\ s5' = s5
        /\ s6' = s6 /\ s7' = s7 /\ s8' = s8 /\ s9' = s9 /\ s10' = s10
    BY <1>1 DEF bench, slots
  <2>3. MulTyped /\ MulPhase BY <2>1, Zenon DEF MulInv
  <2>4. MulTyped' BY <2>2, <2>3, Zenon DEF MulTyped
  <2>5. MulPhase'
    BY <2>2, <2>3, Zenon
       DEF MulPhase, MakingA, MakingB, Verifying, Multiplying, Adding16, Finished
  <2> QED BY <2>4, <2>5
<1>2. CASE BenchNext
  <2>1. unit = "mul" /\ Multiples!Next
    <3>1. unit = "mul" BY <1>2, Zenon DEF BenchNext, RestUntouched
    <3> QED BY <1>2, <3>1 DEF BenchNext
  <2>2. MulTyped /\ MulPhase BY <2>1, Zenon DEF MulInv
  <2>3. s5 \in {"naf_a", "naf_b"} => MakingA \/ MakingB
    BY <2>2, Zenon DEF MulPhase, Verifying, Multiplying, Adding16, Finished
  <2>4. CASE Multiples!Skip
    <3>1. MakingA \/ MakingB BY <2>3, <2>4, Zenon DEF Multiples!Skip
    <3> QED BY <2>2, <2>4, <3>1, SkipStep
  <2>5. CASE Multiples!Emit
    <3>1. MakingA \/ MakingB BY <2>3, <2>5, Zenon DEF Multiples!Emit
    <3> QED BY <2>2, <2>5, <3>1, EmitStep
  <2>6. CASE Multiples!FormDone
    <3>1. MakingA \/ MakingB BY <2>3, <2>6, Zenon DEF Multiples!FormDone
    <3> QED BY <2>2, <2>6, <3>1, FormDoneStep
  <2>7. CASE Multiples!VerifyTurn
    <3>1. s1 = "verify" /\ s5 = "loop" BY <2>7, Zenon DEF Multiples!VerifyTurn
    <3>2. Verifying
      BY <2>2, <3>1, Zenon DEF MulPhase, MakingA, MakingB, Multiplying, Adding16, Finished
    <3> QED BY <2>2, <2>7, <3>2, VerifyStep
  <2>8. CASE Multiples!MulTurn
    <3>1. s1 = "mul" /\ s5 = "loop" BY <2>8, Zenon DEF Multiples!MulTurn
    <3>2. Multiplying
      BY <2>2, <3>1, Zenon DEF MulPhase, MakingA, MakingB, Verifying, Adding16, Finished
    <3> QED BY <2>2, <2>8, <3>2, MulTurnStep
  <2>9. CASE Multiples!MulBaseTurn
    <3>1. s1 = "mul_base" /\ s5 = "loop" BY <2>9, Zenon DEF Multiples!MulBaseTurn
    <3>2. Adding16
      BY <2>2, <3>1, Zenon DEF MulPhase, MakingA, MakingB, Verifying, Multiplying, Finished
    <3> QED BY <2>2, <2>9, <3>2, MulBaseTurnStep
  <2> QED BY <2>1, <2>4, <2>5, <2>6, <2>7, <2>8, <2>9, Zenon DEF Multiples!Next
<1> QED BY <1>1, <1>2

(* Half of a digit in range is an entry of its table.                      *)
LEMMA DigitFits ==
  ASSUME NEW d, NEW w \in Nat, w >= 2, NafDigit(d, w)
  PROVE  /\ Multiples!Magnitude(d) \div 2 < Multiples!TableSize(w)
         /\ d # 0 => d % 2 = 1
<1> DEFINE l == Multiples!Magnitude(d)
           i == w - 2
           e == Power(i)
<1>1. i \in Nat /\ i + 1 = w - 1 OBVIOUS
<1>2. e \in Nat /\ e > 0 /\ Power(i + 1) = 2 * e /\ Multiples!Pow2[i] = e
  <2> HIDE DEF i
  <2> QED BY <1>1, PowerIs
<1>3. Multiples!TableSize(w) = e BY <1>2, Zenon DEF Multiples!TableSize
<1>4. d \in Int /\ (d = 0 \/ (d % 2 = 1 /\ -(2 * e) < d /\ d < 2 * e))
  BY <1>1, <1>2, Zenon DEF NafDigit
<1>5. l = IF d < 0 THEN -d ELSE d BY DEF Multiples!Magnitude
<1> HIDE DEF l, i, e
<1>6. l \in Nat /\ l < 2 * e BY <1>2, <1>4, <1>5
<1>7. l \div 2 < e BY <1>2, <1>6
<1> QED BY <1>3, <1>4, <1>7 DEF l

(* edwards.rs and scalar.rs: for scalars of any width below the group's    *)
(* order and windows of any width, mul, mul_base and double_scalar_mul end *)
(* at the scalars' multiples, and every digit names an entry of its table. *)
THEOREM WaysMultiply == BenchSpec => []MultiplesAreExact
<1>1. MulInv => MultiplesAreExact
  <2> SUFFICES ASSUME MulInv, unit = "mul"
               PROVE  Multiples!EndsAtMultiple /\ Multiples!DigitsFitTables
    BY Zenon DEF MultiplesAreExact
  <2>1. MulTyped /\ MulPhase BY Zenon DEF MulInv
  <2>2. Multiples!EndsAtMultiple
    <3> SUFFICES ASSUME s5 = "done"
                 PROVE  s10 = CASE s1 = "mul"      -> Multiples!Point(s2, 0)
                                [] s1 = "mul_base" -> Multiples!Point(0, s2)
                                [] s1 = "verify"   -> Multiples!Point(s2, s3)
      BY Zenon DEF Multiples!EndsAtMultiple
    <3>1. Finished BY <2>1, Zenon DEF MulPhase, MakingA, MakingB, Verifying, Multiplying, Adding16
    <3>2. \/ s1 = "mul"      /\ s10 = Multiples!Point(s2, 0)
          \/ s1 = "mul_base" /\ s10 = Multiples!Point(0, s2)
          \/ s1 = "verify"   /\ s10 = Multiples!Point(s2, s3)
      BY <3>1, Zenon DEF Finished
    <3> QED BY <3>2
  <2>3. Multiples!DigitsFitTables
    <3>1. /\ s2 \in Scalars /\ s4 \in Nat /\ s4 >= 2
          /\ MulBaseWidth \in Nat /\ MulBaseWidth >= 2
      BY <2>1, MulTypes
    <3>2. ASSUME NEW k \in 0..(Multiples!Nibbles - 1)
          PROVE  Multiples!Magnitude(Multiples!Radix16(s2)[k]) <= 8
      <4> DEFINE d == Multiples!Radix16(s2)[k]
      <4>1. d \in (-8)..8 BY <3>1, <3>2, RadixSpells, Zenon DEF RadixOf
      <4> HIDE DEF d
      <4>2. Multiples!Magnitude(d) <= 8 BY <4>1 DEF Multiples!Magnitude
      <4> QED BY <4>2 DEF d
    <3>3. ASSUME NEW k \in 0..(Multiples!Positions - 1)
          PROVE  /\ Multiples!Magnitude(s6.A[k]) \div 2 < Multiples!TableSize(s4)
                 /\ Multiples!Magnitude(s6.B[k]) \div 2 < Multiples!TableSize(MulBaseWidth)
                 /\ s6.A[k] # 0 => s6.A[k] % 2 = 1
                 /\ s6.B[k] # 0 => s6.B[k] % 2 = 1
      <4>1. NafDigit(s6.A[k], s4) /\ NafDigit(s6.B[k], MulBaseWidth)
        BY <2>1, Zenon DEF MulTyped, Forms
      <4> DEFINE da == s6.A[k]
                 db == s6.B[k]
      <4> HIDE DEF da, db
      <4>2. NafDigit(da, s4) /\ NafDigit(db, MulBaseWidth) BY <4>1 DEF da, db
      <4>3. Multiples!Magnitude(da) \div 2 < Multiples!TableSize(s4) /\ (da # 0 => da % 2 = 1)
        BY <3>1, <4>2, DigitFits
      <4>4. /\ Multiples!Magnitude(db) \div 2 < Multiples!TableSize(MulBaseWidth)
            /\ (db # 0 => db % 2 = 1)
        BY <3>1, <4>2, DigitFits
      <4> QED BY <4>3, <4>4, Zenon DEF da, db
    <3> QED BY <3>2, <3>3, Zenon DEF Multiples!DigitsFitTables
  <2> QED BY <2>2, <2>3
<1> QED BY <1>1, MulInit, MulStep, PTL DEF BenchSpec

-----------------------------------------------------------------------------
(* field/, montgomery.rs, edwards/ and scalar/mod.rs: limbs stay small and *)
(* stand for the numbers computed, the ladder and every other way to       *)
(* multiply end at the multiples they are for, for limbs, scalars, windows *)
(* and orders of any size.                                                 *)
THEOREM ArithmeticHolds == ASSUME Sizes PROVE BenchSpec => []ArithmeticIsExact
<1>1. FieldIsExact /\ LadderIsExact /\ MultiplesAreExact => ArithmeticIsExact
  BY Zenon DEF ArithmeticIsExact
<1>2. BenchSpec => []FieldIsExact BY FieldStandsForNumbers
<1> QED BY <1>1, <1>2, LadderMultiplies, WaysMultiply, PTL

-----------------------------------------------------------------------------
(* A seed below the order gives a key of large order.                      *)
LEMMA SeedKeyIs ==
  ASSUME NEW seed \in 1..(Order - 1)
  PROVE  /\ Signing!PublicKey(seed) = 8 * seed /\ Signing!PublicKey(seed) \in Signing!Points
         /\ Signing!KeyError(Signing!PublicKey(seed)) = "none"
<1> DEFINE pk == Signing!PublicKey(seed)
<1>0. Order \in Nat /\ Order > 1 /\ Order % 2 = 1 /\ seed \in Nat /\ seed >= 1 /\ seed < Order
  BY SigningAssumption
<1>1. pk = 8 * seed
  BY <1>0, RemainderUnique DEF Signing!PublicKey, Signing!Base
<1>2. pk \in 0..(8 * Order - 1)
  BY <1>0, <1>1
<1>3. (8 * pk) % (8 * Order) # 0
  <2>1. SUFFICES ASSUME (8 * pk) % (8 * Order) = 0 PROVE FALSE OBVIOUS
  <2> DEFINE k == (8 * pk) \div (8 * Order)
  <2>2. k \in Int /\ 8 * pk = (8 * Order) * k
    <3> DEFINE a == 8 * pk
               d == 8 * Order
    <3>1. a \in Int /\ d \in Nat /\ d > 0 /\ a % d = 0 BY <1>0, <1>2, <2>1
    <3> HIDE DEF a, d
    <3>2. a \div d \in Int /\ a = d * (a \div d) + (a % d) BY <3>1, QuotientIs
    <3>3. d * (a \div d) \in Int BY <3>1, <3>2
    <3>4. a = d * (a \div d) BY <3>1, <3>2, <3>3
    <3> QED BY <3>2, <3>4 DEF a, d
  <2> HIDE DEF k, pk
  <2>3. 2 * (4 * seed) = Order * k BY <1>0, <1>1, <2>2
  <2>4. PICK j1 \in Int : 4 * seed = Order * j1
    <3>1. 4 * seed \in Nat BY <1>0
    <3> QED BY <3>1, <1>0, <2>2, <2>3, OddHalves
  <2>5. PICK j2 \in Int : 2 * seed = Order * j2
    <3>1. 2 * seed \in Nat /\ 2 * (2 * seed) = Order * j1 BY <1>0, <2>4
    <3> QED BY <3>1, <1>0, OddHalves
  <2>6. PICK j3 \in Int : seed = Order * j3
    BY <1>0, <2>5, OddHalves
  <2>7. seed = 0
    <3>1. seed - 0 = Order * j3 BY <1>0, <2>6
    <3> QED BY <3>1, <1>0, NoMultipleBetween
  <2> QED BY <1>0, <2>7
<1> QED BY <1>0, <1>1, <1>2, <1>3 DEF Signing!KeyError, Signing!Points, Signing!None

(* The verification equation for what sign made.                           *)
LEMMA SignedVerifies ==
  ASSUME NEW seed \in 1..(Order - 1), NEW text \in Signed
  PROVE  Signing!VerifyTail(Signing!PublicKey(seed), Signing!Negated(Signing!PublicKey(seed)),
                            text, Signing!Sign(seed, text)) = "Ok"
<1> DEFINE pk == Signing!PublicKey(seed)
           e  == Nonces[seed][text]
           r  == 8 * e
           k  == Challenges[r][pk][text]
           s  == (k * seed + e) % Order
           j  == (k * seed + e) \div Order
           big == 8 * Order
<1>0. Order \in Nat /\ Order > 1 /\ seed \in Nat /\ seed >= 1 /\ seed < Order
  BY SigningAssumption
<1>1. pk = 8 * seed /\ pk \in 0..(8 * Order)
  BY <1>0, SeedKeyIs
<1>2. e \in 0..(Order - 1)
  BY SigningAssumption
<1>3. r \in 0..(8 * Order)
  BY <1>0, <1>2
<1>4. k \in 0..(Order - 1)
  <2> HIDE DEF pk, r
  <2>1. Challenges[r] \in [0..(8 * Order) -> [Signed -> 0..(Order - 1)]]
    BY <1>3, SigningAssumption
  <2>2. Challenges[r][pk] \in [Signed -> 0..(Order - 1)]
    BY <1>1, <2>1
  <2> QED BY <2>2
<1>5. Signing!Sign(seed, text) = [r |-> r, s |-> s]
  <2>1. (e * 8) % (8 * Order) = r
    <3> DEFINE a == e * 8
    <3>1. a \in Int /\ a = r + big * 0 /\ r \in Int /\ 0 <= r /\ r < big /\ big \in Nat /\ big > 0
      BY <1>0, <1>2
    <3> HIDE DEF big, a, r
    <3>2. a % big = r BY <3>1, RemainderUnique
    <3> QED BY <3>2 DEF a, big
  <2> QED BY <2>1 DEF Signing!Sign, Signing!Base
<1>6. s \in 0..(Order - 1) /\ j \in Int /\ k * seed + e = Order * j + s
  <2> DEFINE a == k * seed + e
  <2>1. a \in Int BY <1>0, <1>2, <1>4
  <2> HIDE DEF a
  <2>2. a \div Order \in Int /\ a % Order \in 0..(Order - 1)
        /\ a = Order * (a \div Order) + (a % Order)
    BY <2>1, <1>0, QuotientIs
  <2> QED BY <2>2 DEF a
<1>7. Signing!Negated(pk) = 8 * Order - 8 * seed
  <2>1. (8 * Order - pk) \in Int /\ 8 * Order - pk = (8 * Order - 8 * seed) + (8 * Order) * 0
    BY <1>0, <1>1
  <2> QED BY <2>1, <1>0, <1>1, RemainderUnique DEF Signing!Negated
<1> HIDE DEF pk, k, e, s, j
<1>8. (s * 8 + k * (8 * Order - 8 * seed)) % (8 * Order) = r
  <2>1. s = k * seed + e - Order * j
    <3>1. k * seed \in Int /\ Order * j \in Int BY <1>0, <1>4, <1>6
    <3> QED BY <3>1, <1>2, <1>6
  <2>2. s * 8 + k * (8 * Order - 8 * seed) = r + big * (k - j)
    <3>1. k \in Int /\ j \in Int /\ e \in Int BY <1>2, <1>4, <1>6
    <3> QED BY <2>1, <3>1, <1>0
  <2>3. k - j \in Int /\ big \in Nat /\ big > 0 /\ r \in Int /\ 0 <= r /\ r < big
    BY <1>0, <1>2, <1>4, <1>6
  <2>4. s * 8 + k * (8 * Order - 8 * seed) \in Int
    <3>1. r \in Int /\ big * (k - j) \in Int BY <2>3
    <3> HIDE DEF r, big
    <3> QED BY <2>2, <3>1
  <2> DEFINE a == s * 8 + k * (8 * Order - 8 * seed)
             f == k - j
  <2>5. a % big = r
    <3>1. a \in Int /\ f \in Int /\ a = r + big * f BY <2>2, <2>3, <2>4
    <3> HIDE DEF a, f, r, big
    <3> QED BY <3>1, <2>3, RemainderUnique
  <2> QED BY <2>5
<1> DEFINE sg == [r |-> r, s |-> s]
<1>9. sg.r = r /\ sg.s = s /\ ~ (s >= Order)
  BY <1>0, <1>6
<1>10. Signing!VerifyTail(pk, Signing!Negated(pk), text, sg) = "Ok"
  BY <1>7, <1>8, <1>9 DEF Signing!VerifyTail, Signing!Base, k
<1> QED BY <1>5, <1>10 DEF pk

(* Points and the bytes that name none, as numbers.                        *)
LEMMA EncodingIs ==
  /\ Signing!Encoding = 0..(8 * Order)
  /\ \A pk \in Signing!Encoding : pk \in Nat /\ pk <= 8 * Order
<1>0. Order \in Nat /\ Order > 1
  BY SigningAssumption
<1> QED BY <1>0 DEF Signing!Encoding, Signing!Points, Signing!None

(* What sign makes has the form of a signature.                            *)
LEMMA SignIs ==
  ASSUME NEW seed \in 1..(Order - 1), NEW text \in Signed
  PROVE  Signing!Sign(seed, text) \in [r : Signing!Encoding, s : Nat]
<1>0. Order \in Nat /\ Order > 1 /\ seed \in Nat
  BY SigningAssumption
<1> DEFINE r == (Nonces[seed][text] * 8) % (8 * Order)
           k == Challenges[r][Signing!PublicKey(seed)][text]
           s == (k * seed + Nonces[seed][text]) % Order
<1>1. Nonces[seed][text] \in 0..(Order - 1)
  BY SigningAssumption
<1>2. r \in 0..(8 * Order)
  <2> DEFINE a == Nonces[seed][text] * 8
             big == 8 * Order
  <2>1. a \in Int /\ big \in Nat /\ big > 0
    BY <1>0, <1>1
  <2> HIDE DEF a, big
  <2>2. a % big \in 0..(big - 1)
    BY <2>1, QuotientIs
  <2> QED BY <1>0, <2>1, <2>2 DEF a, big
<1>3. Signing!PublicKey(seed) \in 0..(8 * Order)
  BY <1>0, SeedKeyIs
<1> HIDE DEF r
<1>4. k \in 0..(Order - 1)
  <2> DEFINE pk == Signing!PublicKey(seed)
  <2> HIDE DEF pk
  <2>1. Challenges[r] \in [0..(8 * Order) -> [Signed -> 0..(Order - 1)]]
    BY <1>2, SigningAssumption
  <2>2. Challenges[r][pk] \in [Signed -> 0..(Order - 1)]
    BY <1>3, <2>1 DEF pk
  <2> QED BY <2>2 DEF pk
<1> HIDE DEF k
<1>5. s \in Nat
  <2> DEFINE a == k * seed + Nonces[seed][text]
  <2>1. a \in Int
    BY <1>0, <1>1, <1>4
  <2> HIDE DEF a
  <2>2. a % Order \in 0..(Order - 1)
    BY <1>0, <2>1, QuotientIs
  <2> QED BY <1>0, <2>2 DEF a
<1> HIDE DEF s
<1>6. r \in Signing!Encoding
  BY <1>0, <1>2 DEF Signing!Encoding, Signing!Points, Signing!None
<1>7. Signing!Sign(seed, text) = [r |-> r, s |-> s]
  BY Zenon DEF Signing!Sign, Signing!Base, r, s, k
<1> QED BY <1>5, <1>6, <1>7

(* With its R, one second half below the order satisfies the equation.     *)
LEMMA OneSecondHalf ==
  ASSUME NEW pk, NEW neg \in Nat, NEW text, NEW sg, NEW s \in Nat, NEW k \in Nat,
         sg.s \in Nat, k = Challenges[sg.r][pk][text],
         Signing!VerifyTail(pk, neg, text, sg) = "Ok",
         Signing!VerifyTail(pk, neg, text, [sg EXCEPT !.s = s]) = "Ok",
         sg = [r |-> sg.r, s |-> sg.s]
  PROVE  s = sg.s
<1> DEFINE other == [sg EXCEPT !.s = s]
           b == k * neg
           big == 8 * Order
<1>0. Order \in Nat /\ Order > 1
  BY SigningAssumption
<1>1. other.r = sg.r /\ other.s = s
  OBVIOUS
<1>2. sg.s < Order /\ (sg.s * 8 + b) % big = sg.r
  BY <1>0 DEF Signing!VerifyTail, Signing!Base
<1>3. s < Order /\ (s * 8 + b) % big = sg.r
  BY <1>0, <1>1 DEF Signing!VerifyTail, Signing!Base
<1>4. b \in Int
  OBVIOUS
<1> HIDE DEF b
<1> DEFINE x == sg.s * 8 + b
           y == s * 8 + b
<1>5. big \in Nat /\ big > 0 /\ x \in Int /\ y \in Int
  BY <1>0, <1>4
<1>6. x = big * (x \div big) + (x % big) /\ y = big * (y \div big) + (y % big)
      /\ x \div big \in Int /\ y \div big \in Int /\ x % big \in Int
  <2> HIDE DEF x, y, big
  <2> QED BY <1>5, QuotientIs
<1>7. x - y = big * ((x \div big) - (y \div big))
  <2> DEFINE xd == x \div big
             yd == y \div big
  <2>1. xd \in Int /\ yd \in Int /\ x % big = y % big
    BY <1>2, <1>3, <1>6
  <2>2. x = big * xd + (x % big) /\ y = big * yd + (x % big)
    BY <1>6, <2>1
  <2> HIDE DEF x, y, big, xd, yd
  <2>3. big * (xd - yd) = big * xd - big * yd
    BY <1>5, <2>1
  <2>4. big * xd \in Int /\ big * yd \in Int
    BY <1>5, <2>1
  <2> QED BY <1>5, <1>6, <2>1, <2>2, <2>3, <2>4 DEF xd, yd
<1> DEFINE d == (x \div big) - (y \div big)
<1>8. d \in Int /\ sg.s - s = Order * d
  <2>1. d \in Int BY <1>6
  <2>2. x - y = 8 * (sg.s - s) BY <1>4
  <2>3. x - y = 8 * (Order * d)
    <3> HIDE DEF d
    <3> QED BY <1>0, <1>7, <2>1 DEF d
  <2> HIDE DEF d, x, y
  <2>4. Order * d \in Int BY <1>0, <2>1
  <2> QED BY <2>1, <2>2, <2>3, <2>4
<1> HIDE DEF d
<1>9. sg.s = s
  BY <1>0, <1>2, <1>3, <1>8, NoMultipleBetween
<1> QED BY <1>9

-----------------------------------------------------------------------------
(* What verify_strict of the key's bytes returns, what preparing the key   *)
(* leaves, and what the prepared key then returns.                         *)
EquationVerdict    == Signing!VerifyTail(s1, Signing!Negated(s1), s2, s3)
Strict  == IF Signing!KeyError(s1) # "none" THEN Signing!KeyError(s1) ELSE EquationVerdict
Made    == IF Signing!KeyError(s1) # "none" THEN Signing!KeyError(s1) ELSE "table"

Verified ==
  /\ s2 \in Signed /\ s1 \in Signing!Encoding
  /\ s3 \in [r : Signing!Encoding, s : Nat]

Signer == \E seed \in 1..(Order - 1) : s1 = Signing!PublicKey(seed) /\ s3 = Signing!Sign(seed, s2)

SignatureInv ==
  unit = "signature" =>
    /\ Verified
    /\ s4 \in BOOLEAN /\ (s4 = TRUE => Signer)
    /\ s5 \in {"", Strict} /\ s6 \in {"unprepared", Made}
    /\ s7 \in {"", EquationVerdict} /\ (s7 # "" => s6 = "table")

(* A key's signature, or any text and signature, starts without a verdict. *)
LEMMA SignatureInit == BenchInit => SignatureInv
<1> SUFFICES ASSUME Signing!Init
             PROVE  /\ Verified
                    /\ s4 \in BOOLEAN /\ (s4 = TRUE => Signer)
                    /\ s5 = "" /\ s6 = "unprepared" /\ s7 = ""
  BY Zenon DEF BenchInit, SignatureInv
<1>1. s2 \in Signed /\ s5 = "" /\ s6 = "unprepared" /\ s7 = ""
  BY DEF Signing!Init
<1>2. CASE /\ s4 = TRUE
           /\ \E seed \in 1..(Order - 1) : s1 = Signing!PublicKey(seed) /\ s3 = Signing!Sign(seed, s2)
  <2>1. PICK seed \in 1..(Order - 1) : s1 = Signing!PublicKey(seed) /\ s3 = Signing!Sign(seed, s2)
    BY <1>2
  <2>2. s1 \in Signing!Encoding
    BY <2>1, SeedKeyIs DEF Signing!Encoding
  <2>3. s3 \in [r : Signing!Encoding, s : Nat]
    BY <1>1, <2>1, SignIs
  <2> QED BY <1>1, <1>2, <2>2, <2>3 DEF Verified, Signer
<1>3. CASE s4 = FALSE /\ s1 \in Signing!Encoding /\ s3 \in [r : Signing!Encoding, s : SecondHalves]
  <2>1. s3 \in [r : Signing!Encoding, s : Nat]
    BY <1>3, SigningAssumption
  <2> QED BY <1>1, <1>3, <2>1 DEF Verified
<1> QED BY <1>2, <1>3 DEF Signing!Init

(* Strict verification, the key's preparation and verification with the    *)
(* prepared table each leave what a check of the same signature gives.     *)
LEMMA SignatureStep == SignatureInv /\ [BenchNext]_bench => SignatureInv'
<1> SUFFICES ASSUME SignatureInv, [BenchNext]_bench, unit' = "signature"
             PROVE  SignatureInv'
  BY DEF SignatureInv
<1>1. unit = "signature"
  BY DEF BenchNext, RestUntouched, bench
<1>2. /\ Verified /\ s4 \in BOOLEAN /\ (s4 = TRUE => Signer)
      /\ s5 \in {"", Strict} /\ s6 \in {"unprepared", Made}
      /\ s7 \in {"", EquationVerdict} /\ (s7 # "" => s6 = "table")
  BY <1>1 DEF SignatureInv
<1>3. ASSUME s1' = s1, s2' = s2, s3' = s3, s4' = s4
      PROVE  /\ Verified' /\ Strict' = Strict /\ Made' = Made /\ EquationVerdict' = EquationVerdict
             /\ s4' \in BOOLEAN /\ (s4' = TRUE => Signer')
  <2>1. EquationVerdict' = EquationVerdict
    BY <1>3 DEF EquationVerdict
  <2>2. Strict' = Strict /\ Made' = Made
    BY <1>3, <2>1 DEF Strict, Made
  <2>3. Verified'
    BY <1>2, <1>3 DEF Verified
  <2>4. s4 = TRUE => Signer'
    BY <1>2, <1>3 DEF Signer
  <2> QED BY <1>2, <1>3, <2>1, <2>2, <2>3, <2>4
<1>4. Signing!Next \/ UNCHANGED <<s1, s2, s3, s4, s5, s6, s7>>
  <2>1. ASSUME BenchNext PROVE Signing!Next
    BY <1>1, <2>1 DEF BenchNext
  <2>2. ASSUME UNCHANGED bench PROVE UNCHANGED <<s1, s2, s3, s4, s5, s6, s7>>
    BY <2>2 DEF bench, slots
  <2> QED BY <2>1, <2>2
<1>5. /\ s1' = s1 /\ s2' = s2 /\ s3' = s3 /\ s4' = s4
      /\ s5' \in {s5, Strict} /\ s6' \in {s6, Made} /\ s7' \in {s7, EquationVerdict}
      /\ (s6' = s6 \/ s6 = "unprepared") /\ (s7' = s7 \/ s6 = "table")
  <2>1. CASE UNCHANGED <<s1, s2, s3, s4, s5, s6, s7>>
    BY <2>1
  <2>2. CASE Signing!VerifyFree
    BY <2>2 DEF Signing!VerifyFree, Strict, EquationVerdict
  <2>3. CASE Signing!Prepare
    BY <2>3 DEF Signing!Prepare, Made
  <2>4. CASE Signing!VerifyPrepared
    BY <2>4 DEF Signing!VerifyPrepared, EquationVerdict
  <2> QED BY <1>4, <2>1, <2>2, <2>3, <2>4 DEF Signing!Next
<1>6. /\ s5' \in {"", Strict} /\ s6' \in {"unprepared", Made}
      /\ s7' \in {"", EquationVerdict} /\ (s7' # "" => s6' = "table")
  BY <1>2, <1>5
<1> QED BY <1>3, <1>5, <1>6 DEF SignatureInv

(* The verdicts there are.                                                 *)
LEMMA Verdicts ==
  ASSUME NEW pk, NEW neg, NEW text, NEW sg
  PROVE  /\ Signing!VerifyTail(pk, neg, text, sg)
              \in {"NonCanonicalSignatureS", "Ok", "InvalidSignatureR", "VerificationFailed"}
         /\ Signing!KeyError(pk) \in {"InvalidPublicKey", "SmallOrderPublicKey", "none"}
BY DEF Signing!VerifyTail, Signing!KeyError

(* verify_strict (edwards/keys.rs:112) and a PreparedVerifier              *)
(* (keys.rs:193) never disagree on a signature, what sign returned         *)
(* (keys.rs:63) passes both, and for one R, key and message no second S    *)
(* passes that is below the order (keys.rs:143).                           *)
THEOREM VerdictsAgree == BenchSpec => []OneVerdictPerSignature
<1>1. SignatureInv => OneVerdictPerSignature
  <2> SUFFICES ASSUME SignatureInv, unit = "signature"
               PROVE  Signing!GenuineVerifies /\ Signing!WaysAgree /\ Signing!OneSForR
    BY DEF OneVerdictPerSignature
  <2>1. /\ Verified /\ s4 \in BOOLEAN /\ (s4 = TRUE => Signer)
        /\ s5 \in {"", Strict} /\ s6 \in {"unprepared", Made}
        /\ s7 \in {"", EquationVerdict} /\ (s7 # "" => s6 = "table")
    BY DEF SignatureInv
  <2>2. /\ EquationVerdict \in {"NonCanonicalSignatureS", "Ok", "InvalidSignatureR", "VerificationFailed"}
        /\ Signing!KeyError(s1) \in {"InvalidPublicKey", "SmallOrderPublicKey", "none"}
    BY Verdicts, Zenon DEF EquationVerdict
  <2>3. Signing!GenuineVerifies
    <3>1. ASSUME s4 = TRUE PROVE EquationVerdict = "Ok" /\ Signing!KeyError(s1) = "none"
      BY <2>1, <3>1, SeedKeyIs, SignedVerifies DEF Signer, Verified, EquationVerdict
    <3> QED BY <2>1, <3>1 DEF Signing!GenuineVerifies, Strict, Made
  <2>4. Signing!WaysAgree
    BY <2>1, <2>2 DEF Signing!WaysAgree, Strict, Made
  <2>5. Signing!OneSForR
    <3> SUFFICES ASSUME s5 = "Ok", NEW s \in SecondHalves,
                        Signing!VerifyTail(s1, Signing!Negated(s1), s2, [s3 EXCEPT !.s = s]) = "Ok"
                 PROVE  s = s3.s
      BY DEF Signing!OneSForR
    <3>1. EquationVerdict = "Ok"
      BY <2>1, <2>2 DEF Strict
    <3>2. s \in Nat /\ s3.s \in Nat /\ s3 = [r |-> s3.r, s |-> s3.s]
      BY <2>1, SigningAssumption DEF Verified
    <3>3. Signing!Negated(s1) \in Nat
      <4> DEFINE a == 8 * Order - s1
                 big == 8 * Order
      <4>1. s1 \in Nat /\ Order \in Nat /\ Order > 1
        BY <2>1, EncodingIs, SigningAssumption DEF Verified
      <4>2. a \in Int /\ big \in Nat /\ big > 0
        BY <4>1
      <4> HIDE DEF a, big
      <4>3. a % big \in Nat
        BY <4>2, QuotientIs
      <4> QED BY <4>3 DEF Signing!Negated, a, big
    <3>4. Challenges[s3.r][s1][s2] \in Nat
      <4>0. Order \in Nat BY SigningAssumption
      <4>1. s3.r \in 0..(8 * Order) /\ s1 \in 0..(8 * Order) /\ s2 \in Signed
        BY <2>1, EncodingIs DEF Verified
      <4>2. Challenges[s3.r] \in [0..(8 * Order) -> [Signed -> 0..(Order - 1)]]
        BY <4>1, SigningAssumption
      <4>3. Challenges[s3.r][s1] \in [Signed -> 0..(Order - 1)]
        BY <4>1, <4>2
      <4>4. Challenges[s3.r][s1][s2] \in 0..(Order - 1)
        BY <4>1, <4>3
      <4> QED BY <4>0, <4>4
    <3> QED BY <3>1, <3>2, <3>3, <3>4, OneSecondHalf DEF EquationVerdict
  <2> QED BY <2>3, <2>4, <2>5
<1> QED BY <1>1, SignatureInit, SignatureStep, PTL DEF BenchSpec

-----------------------------------------------------------------------------
(* Byte strings, of whatever terms.                                        *)
IsBytes(x) == \E S : x \in Seq(S)

(* Short byte strings.                                                     *)
LEMMA ShortStrings ==
  /\ IsBytes(<<>>) /\ Len(<<>>) = 0
  /\ \A a : IsBytes(<<a>>) /\ Len(<<a>>) = 1 /\ <<a>>[1] = a
  /\ \A a, b : IsBytes(<<a, b>>) /\ Len(<<a, b>>) = 2 /\ <<a, b>>[1] = a /\ <<a, b>>[2] = b
  /\ \A a, b, c : IsBytes(<<a, b, c>>) /\ Len(<<a, b, c>>) = 3
  /\ \A a, b, c, d : IsBytes(<<a, b, c, d>>) /\ Len(<<a, b, c, d>>) = 4
<1>1. IsBytes(<<>>) /\ Len(<<>>) = 0
  <2>1. <<>> \in Seq({}) OBVIOUS
  <2> QED BY <2>1 DEF IsBytes
<1>2. ASSUME NEW a PROVE IsBytes(<<a>>) /\ Len(<<a>>) = 1 /\ <<a>>[1] = a
  <2>1. <<a>> \in Seq({a}) OBVIOUS
  <2> QED BY <2>1 DEF IsBytes
<1>3. ASSUME NEW a, NEW b
      PROVE  IsBytes(<<a, b>>) /\ Len(<<a, b>>) = 2 /\ <<a, b>>[1] = a /\ <<a, b>>[2] = b
  <2>1. <<a, b>> \in Seq({a, b}) OBVIOUS
  <2> QED BY <2>1 DEF IsBytes
<1>4. ASSUME NEW a, NEW b, NEW c PROVE IsBytes(<<a, b, c>>) /\ Len(<<a, b, c>>) = 3
  <2>1. <<a, b, c>> \in Seq({a, b, c}) OBVIOUS
  <2> QED BY <2>1 DEF IsBytes
<1>5. ASSUME NEW a, NEW b, NEW c, NEW d
      PROVE  IsBytes(<<a, b, c, d>>) /\ Len(<<a, b, c, d>>) = 4
  <2>1. <<a, b, c, d>> \in Seq({a, b, c, d}) OBVIOUS
  <2> QED BY <2>1 DEF IsBytes
<1> QED BY <1>1, <1>2, <1>3, <1>4, <1>5

(* Two byte strings are over one set of terms, and so is one after the     *)
(* other.                                                                  *)
LEMMA Together ==
  ASSUME NEW x, NEW y, IsBytes(x), IsBytes(y)
  PROVE  \E S : x \in Seq(S) /\ y \in Seq(S) /\ x \o y \in Seq(S)
<1>1. PICK S : x \in Seq(S) BY DEF IsBytes
<1>2. PICK T : y \in Seq(T) BY DEF IsBytes
<1> DEFINE U == S \cup T
<1>3. x \in Seq(U) BY <1>1
<1>4. y \in Seq(U) BY <1>2
<1> HIDE DEF U
<1>5. x \o y \in Seq(U) BY <1>3, <1>4, ConcatProperties
<1> QED BY <1>3, <1>4, <1>5

(* Two byte strings make one.                                              *)
LEMMA ConcatIsBytes ==
  ASSUME NEW x, NEW y, IsBytes(x), IsBytes(y)
  PROVE  IsBytes(x \o y)
BY Together DEF IsBytes

(* After beginnings of one length, equal byte strings go on alike.         *)
LEMMA Cancel ==
  ASSUME NEW p1, NEW p2, NEW x, NEW y,
         IsBytes(p1), IsBytes(p2), IsBytes(x), IsBytes(y), Len(p1) = Len(p2), p1 \o x = p2 \o y
  PROVE  x = y
<1>1. PICK S : p1 \in Seq(S) /\ x \in Seq(S) BY Together
<1>2. PICK T : p2 \in Seq(T) /\ y \in Seq(T) BY Together
<1> DEFINE k == Len(p1)
           f == p1 \o x
<1>3. /\ k \in Nat /\ Len(x) \in Nat /\ Len(f) = k + Len(x)
      /\ \A i \in 1..Len(x) : f[i + k] = x[i]
  <2>1. /\ Len(f) = k + Len(x) /\ k \in Nat /\ Len(x) \in Nat
        /\ \A i \in 1..(k + Len(x)) : f[i] = IF i <= k THEN p1[i] ELSE x[i - k]
    BY <1>1, ConcatProperties
  <2> HIDE DEF f, k
  <2>2. ASSUME NEW i \in 1..Len(x) PROVE f[i + k] = x[i]
    <3>1. i + k \in 1..(k + Len(x)) /\ ~ (i + k <= k) /\ (i + k) - k = i
      BY <2>1
    <3> QED BY <2>1, <3>1
  <2> QED BY <2>1, <2>2
<1>4. /\ Len(y) \in Nat /\ Len(f) = k + Len(y)
      /\ \A i \in 1..Len(y) : f[i + k] = y[i]
  <2>0. f = p2 \o y /\ k = Len(p2) OBVIOUS
  <2>1. /\ Len(f) = k + Len(y) /\ k \in Nat /\ Len(y) \in Nat
        /\ \A i \in 1..(k + Len(y)) : f[i] = IF i <= k THEN p2[i] ELSE y[i - k]
    <3> HIDE DEF f, k
    <3> QED BY <1>2, <2>0, ConcatProperties
  <2> HIDE DEF f, k
  <2>2. ASSUME NEW i \in 1..Len(y) PROVE f[i + k] = y[i]
    <3>1. i + k \in 1..(k + Len(y)) /\ ~ (i + k <= k) /\ (i + k) - k = i
      BY <2>1
    <3> QED BY <2>1, <3>1
  <2> QED BY <2>1, <2>2
<1> HIDE DEF f, k
<1>5. Len(x) = Len(y) BY <1>3, <1>4
<1>6. \A i \in 1..Len(x) : x[i] = y[i] BY <1>3, <1>4, <1>5
<1>7. x \in Seq(S \cup T) /\ y \in Seq(S \cup T) BY <1>1, <1>2
<1> QED BY <1>5, <1>6, <1>7, SeqEqual

(* And begin alike.                                                        *)
LEMMA BeginsWith ==
  ASSUME NEW x, NEW y, IsBytes(x), IsBytes(y), Len(x) = 2
  PROVE  (x \o y)[1] = x[1] /\ (x \o y)[2] = x[2]
<1>1. PICK S : x \in Seq(S) /\ y \in Seq(S) BY Together
<1> DEFINE f == x \o y
           k == Len(y)
           h == Len(x)
<1>2. k \in Nat /\ \A i \in 1..(h + k) : f[i] = IF i <= h THEN x[i] ELSE y[i - h]
  <2>1. \A z \in Seq(S) : Len(z) \in Nat /\ \A i \in 1..(Len(z) + Len(y)) :
          (z \o y)[i] = IF i <= Len(z) THEN z[i] ELSE y[i - Len(z)]
    BY <1>1, ConcatProperties
  <2>2. k \in Nat
    BY <1>1
  <2> QED BY <1>1, <2>1, <2>2, Zenon
<1> HIDE DEF f, h, k
<1>3. 1 \in 1..(h + k) /\ 2 \in 1..(h + k) /\ h = 2
  BY <1>2 DEF h
<1>4. f[1] = x[1] /\ f[2] = x[2]
  BY <1>2, <1>3
<1> QED BY <1>4 DEF f

-----------------------------------------------------------------------------
(* An extract is one term, which its salt and its input determine.         *)
LEMMA ExtractDetermines ==
  ASSUME NEW a, NEW i, NEW w, NEW x, NEW b, NEW j, NEW o, NEW y, IsBytes(x), IsBytes(y)
  PROVE  /\ IsBytes(LabeledExtract(a, i, w, x)) /\ Len(LabeledExtract(a, i, w, x)) = 1
         /\ LabeledExtract(a, i, w, x) = LabeledExtract(b, j, o, y) => a = b /\ x = y
<1> DEFINE u == << <<"HPKE-v1">>, i, <<w>> >>
           v == << <<"HPKE-v1">>, j, <<o>> >>
           f == u \o x
           g == v \o y
           d == <<"extract", a, f>>
           e == <<"extract", b, g>>
<1>1. LabeledExtract(a, i, w, x) = <<d>> /\ LabeledExtract(b, j, o, y) = <<e>>
  BY DEF LabeledExtract, Extract
<1>2. IsBytes(u) /\ IsBytes(v) /\ Len(u) = Len(v)
  BY ShortStrings, Zenon
<1> HIDE DEF u, v
<1>3. f = g => x = y
  BY <1>2, Cancel
<1> HIDE DEF f, g
<1>4. d = e => a = b /\ f = g
  OBVIOUS
<1> HIDE DEF d, e
<1>5. <<d>> = <<e>> => d = e
  OBVIOUS
<1>6. IsBytes(<<d>>) /\ Len(<<d>>) = 1
  BY ShortStrings, Zenon
<1> QED BY <1>1, <1>3, <1>4, <1>5, <1>6, Zenon

(* And an expand, by its key and its info.                                 *)
LEMMA ExpandDetermines ==
  ASSUME NEW a, NEW i, NEW w, NEW x, NEW k, NEW b, NEW j, NEW o, NEW y, NEW l,
         IsBytes(x), IsBytes(y)
  PROVE  /\ IsBytes(LabeledExpand(a, i, w, x, k))
         /\ LabeledExpand(a, i, w, x, k) = LabeledExpand(b, j, o, y, l) => a = b /\ x = y
<1> DEFINE u == << <<"length", k>>, <<"HPKE-v1">>, i, <<w>> >>
           v == << <<"length", l>>, <<"HPKE-v1">>, j, <<o>> >>
           f == u \o x
           g == v \o y
           d == <<"expand", a, f, k>>
           e == <<"expand", b, g, l>>
<1>1. LabeledExpand(a, i, w, x, k) = <<d>> /\ LabeledExpand(b, j, o, y, l) = <<e>>
  BY DEF LabeledExpand, Expand
<1>2. IsBytes(u) /\ IsBytes(v) /\ Len(u) = Len(v)
  BY ShortStrings, Zenon
<1> HIDE DEF u, v
<1>3. f = g => x = y
  BY <1>2, Cancel
<1> HIDE DEF f, g
<1>4. d = e => a = b /\ f = g
  OBVIOUS
<1> HIDE DEF d, e
<1>5. <<d>> = <<e>> => d = e
  OBVIOUS
<1>6. IsBytes(<<d>>)
  BY ShortStrings, Zenon
<1> QED BY <1>1, <1>3, <1>4, <1>5, <1>6, Zenon

(* The shared secret binds both public keys and the sender's.              *)
LEMMA SharedDetermines ==
  ASSUME NEW d1, NEW from, NEW enc, NEW recipient, NEW d2, NEW from2, NEW enc2, NEW recipient2,
         IsBytes(from), IsBytes(from2),
         ExtractAndExpand(d1, <<enc, recipient>> \o from)
           = ExtractAndExpand(d2, <<enc2, recipient2>> \o from2)
  PROVE  enc = enc2 /\ recipient = recipient2 /\ from = from2
<1> DEFINE c  == <<enc, recipient>> \o from
           c2 == <<enc2, recipient2>> \o from2
           b  == <<enc, recipient>>
           b2 == <<enc2, recipient2>>
<1>1. IsBytes(b) /\ IsBytes(b2) /\ Len(b) = 2 /\ Len(b2) = 2
  BY ShortStrings, Zenon
<1>2. IsBytes(c) /\ IsBytes(c2)
  <2> HIDE DEF b, b2
  <2>1. IsBytes(b \o from) /\ IsBytes(b2 \o from2)
    BY <1>1, ConcatIsBytes
  <2> QED BY <2>1 DEF b, b2
<1>3. c = c2
  <2> HIDE DEF c, c2
  <2>1. \A a1, i1, w1, k1, a2, i2, w2, k2 :
          LabeledExpand(a1, i1, w1, c, k1) = LabeledExpand(a2, i2, w2, c2, k2) => c = c2
    BY <1>2, ExpandDetermines
  <2>2. \E a1, a2 : LabeledExpand(a1, KemSuiteId, "shared_secret", c, 32)
                    = LabeledExpand(a2, KemSuiteId, "shared_secret", c2, 32)
    BY Zenon DEF ExtractAndExpand, c, c2
  <2> QED BY <2>1, <2>2, Zenon
<1>4. from = from2
  <2> HIDE DEF b, b2
  <2>1. b \o from = b2 \o from2 BY <1>3 DEF b, b2
  <2> QED BY <1>1, <2>1, Cancel
<1>5. enc = enc2 /\ recipient = recipient2
  <2>1. (b \o from)[1] = b[1] /\ (b \o from)[2] = b[2]
        /\ (b2 \o from2)[1] = b2[1] /\ (b2 \o from2)[2] = b2[2]
    <3> HIDE DEF b, b2
    <3>1. (b \o from)[1] = b[1] /\ (b \o from)[2] = b[2]
      BY <1>1, BeginsWith
    <3>2. (b2 \o from2)[1] = b2[1] /\ (b2 \o from2)[2] = b2[2]
      BY <1>1, BeginsWith
    <3> QED BY <3>1, <3>2
  <2>2. b \o from = b2 \o from2 BY <1>3
  <2>3. b[1] = enc /\ b[2] = recipient /\ b2[1] = enc2 /\ b2[2] = recipient2
    BY ShortStrings, Zenon
  <2> HIDE DEF b, b2
  <2> QED BY <2>1, <2>2, <2>3
<1> QED BY <1>4, <1>5

(* And the key of a schedule, the shared secret and the info.              *)
LEMMA KeyDetermines ==
  ASSUME NEW suite, NEW m1, NEW sh1, NEW in1, NEW suite2, NEW m2, NEW sh2, NEW in2,
         IsBytes(in1), IsBytes(in2),
         KeySchedule(suite, m1, sh1, in1).key = KeySchedule(suite2, m2, sh2, in2).key
  PROVE  sh1 = sh2 /\ in1 = in2
<1> DEFINE i1 == HpkeSuiteId(suite)
           i2 == HpkeSuiteId(suite2)
           b1 == << <<m1>> >> \o LabeledExtract(<<>>, i1, "psk_id_hash", <<>>)
           b2 == << <<m2>> >> \o LabeledExtract(<<>>, i2, "psk_id_hash", <<>>)
           h1 == LabeledExtract(<<>>, i1, "info_hash", in1)
           h2 == LabeledExtract(<<>>, i2, "info_hash", in2)
           x1 == LabeledExtract(sh1, i1, "secret", <<>>)
           x2 == LabeledExtract(sh2, i2, "secret", <<>>)
           c1 == b1 \o h1
           c2 == b2 \o h2
<1>1. LabeledExpand(x1, i1, "key", c1, 32) = LabeledExpand(x2, i2, "key", c2, 32)
  BY DEF KeySchedule
<1> HIDE DEF i1, i2
<1>2. /\ IsBytes(h1) /\ IsBytes(h2)
      /\ h1 = h2 => in1 = in2
  BY ExtractDetermines
<1>3. x1 = x2 => sh1 = sh2
  BY ShortStrings, ExtractDetermines
<1>4. IsBytes(b1) /\ IsBytes(b2) /\ Len(b1) = Len(b2)
  <2> DEFINE p1 == << <<m1>> >>
             p2 == << <<m2>> >>
             q1 == LabeledExtract(<<>>, i1, "psk_id_hash", <<>>)
             q2 == LabeledExtract(<<>>, i2, "psk_id_hash", <<>>)
  <2>1. IsBytes(p1) /\ IsBytes(p2) /\ Len(p1) = 1 /\ Len(p2) = 1
    BY ShortStrings, Zenon
  <2>2. IsBytes(q1) /\ IsBytes(q2) /\ Len(q1) = 1 /\ Len(q2) = 1
    BY ShortStrings, ExtractDetermines
  <2> HIDE DEF p1, p2, q1, q2
  <2>3. PICK S : p1 \in Seq(S) /\ q1 \in Seq(S) /\ p1 \o q1 \in Seq(S)
    BY <2>1, <2>2, Together
  <2>4. PICK T : p2 \in Seq(T) /\ q2 \in Seq(T) /\ p2 \o q2 \in Seq(T)
    BY <2>1, <2>2, Together
  <2>5. Len(p1 \o q1) = 2 /\ Len(p2 \o q2) = 2
    <3>1. Len(p1 \o q1) = Len(p1) + Len(q1)
      BY <2>3, ConcatProperties
    <3>2. Len(p2 \o q2) = Len(p2) + Len(q2)
      BY <2>4, ConcatProperties
    <3> QED BY <2>1, <2>2, <3>1, <3>2
  <2>6. IsBytes(p1 \o q1) /\ IsBytes(p2 \o q2)
    BY <2>3, <2>4 DEF IsBytes
  <2> QED BY <2>5, <2>6 DEF p1, p2, q1, q2
<1> HIDE DEF b1, b2, h1, h2, x1, x2
<1>5. IsBytes(c1) /\ IsBytes(c2)
  <2>1. IsBytes(c1)
    BY <1>2, <1>4, ConcatIsBytes
  <2>2. IsBytes(c2)
    BY <1>2, <1>4, ConcatIsBytes
  <2> QED BY <2>1, <2>2
<1>6. c1 = c2 => h1 = h2
  <2> SUFFICES ASSUME c1 = c2 PROVE h1 = h2
    OBVIOUS
  <2>1. b1 \o h1 = b2 \o h2
    BY Zenon
  <2>2. IsBytes(b1) /\ IsBytes(b2) /\ IsBytes(h1) /\ IsBytes(h2) /\ Len(b1) = Len(b2)
    BY <1>2, <1>4
  <2> HIDE DEF c1, c2
  <2> QED BY <2>1, <2>2, Cancel, ZenonT(60)
<1> HIDE DEF c1, c2
<1>7. x1 = x2 /\ c1 = c2
  BY <1>1, <1>5, ExpandDetermines
<1> QED BY <1>2, <1>3, <1>6, <1>7

-----------------------------------------------------------------------------
(* A sequence of one element or none.                                      *)
AtMostOne(x) == x = <<>> \/ \E a : x = <<a>>

(* A peer that may be absent is a byte string too.                         *)
LEMMA AtMostOneIsBytes ==
  ASSUME NEW x, AtMostOne(x)
  PROVE  IsBytes(x)
BY ShortStrings, Zenon DEF AtMostOne

(* One element, and one more or none.                                      *)
LEMMA OneAndMore ==
  /\ \A a : <<a>> \o <<>> = <<a>>
  /\ \A a, b : <<a>> \o <<b>> = <<a, b>>
<1>1. ASSUME NEW a PROVE <<a>> \o <<>> = <<a>>
  OBVIOUS
<1>2. ASSUME NEW a, NEW b PROVE <<a>> \o <<b>> = <<a, b>>
  <2> DEFINE S == {a, b}
             x == <<a>>
             y == <<b>>
             z == <<a, b>>
             k == x \o y
  <2>1. x \in Seq(S) /\ Len(x) = 1 /\ x[1] = a /\ y \in Seq(S) /\ Len(y) = 1 /\ y[1] = b
    OBVIOUS
  <2>2. z \in Seq(S) /\ Len(z) = 2 /\ z[1] = a /\ z[2] = b
    OBVIOUS
  <2> HIDE DEF x, y, z, S
  <2>3. k \in Seq(S) /\ Len(k) = Len(x) + Len(y)
        /\ \A i \in 1..(Len(x) + Len(y)) : k[i] = IF i <= Len(x) THEN x[i] ELSE y[i - Len(x)]
    BY <2>1, ConcatProperties
  <2> HIDE DEF k
  <2>4. Len(k) = 2 /\ k[1] = a /\ k[2] = b
    BY <2>1, <2>3
  <2>5. \A i \in 1..Len(k) : k[i] = z[i]
    BY <2>2, <2>4
  <2>6. k = z
    BY <2>2, <2>3, <2>4, <2>5, SeqEqual
  <2> QED BY <2>6 DEF k, x, y, z
<1> QED BY <1>1, <1>2

PublicsOf(sender) == [i \in DOMAIN sender |-> PublicKey(sender[i])]

(* The sender's public keys, one or none, are its secrets' keys in order.  *)
LEMMA PublicsAre ==
  /\ PublicsOf(<<>>) = <<>>
  /\ \A s : PublicsOf(<<s>>) = <<PublicKey(s)>>
<1>1. PublicsOf(<<>>) = <<>>
  BY DEF PublicsOf
<1>2. ASSUME NEW s PROVE PublicsOf(<<s>>) = <<PublicKey(s)>>
  BY DEF PublicsOf
<1> QED BY <1>1, <1>2

(* What the two sides agree on: the ephemeral and the sender's secret with *)
(* the recipient, the recipient's with the encapsulated and the pinned key.*)
SendersSide(eph, sender, recipient) ==
  [i \in DOMAIN (<<eph>> \o sender) |->
     DiffieHellman((<<eph>> \o sender)[i], <<recipient, recipient>>[i])]
RecipientsSide(secret, peers) ==
  [i \in DOMAIN [k \in DOMAIN peers |-> secret] |->
     DiffieHellman([k \in DOMAIN peers |-> secret][i], peers[i])]

(* Both sides compute the same secrets: what the sender computes with its  *)
(* ephemeral and its own secret is what the recipient computes with the    *)
(* encapsulated key and the pinned one.                                    *)
LEMMA SidesAgree ==
  ASSUME NEW eph, NEW sender, NEW secret, AtMostOne(sender)
  PROVE  SendersSide(eph, sender, PublicKey(secret))
           = RecipientsSide(secret, <<PublicKey(eph)>> \o PublicsOf(sender))
<1> DEFINE dh(a, b) == <<"dh", {a, b}>>
<1>0. \A a, b : dh(a, b) = dh(b, a)
  OBVIOUS
<1>1. \A a, b : DiffieHellman(a, PublicKey(b)) = dh(a, b)
  BY DEF DiffieHellman, PublicKey
<1> HIDE DEF dh
<1>2. CASE sender = <<>>
  <2>1. <<eph>> \o sender = <<eph>> /\ <<PublicKey(eph)>> \o PublicsOf(sender) = <<PublicKey(eph)>>
    BY <1>2, OneAndMore, PublicsAre
  <2>2. SendersSide(eph, sender, PublicKey(secret)) = [i \in {1} |-> dh(eph, secret)]
    <3>1. ASSUME NEW i \in {1}
          PROVE  DiffieHellman(<<eph>>[i], <<PublicKey(secret), PublicKey(secret)>>[i]) = dh(eph, secret)
      <4>1. <<eph>>[i] = eph /\ <<PublicKey(secret), PublicKey(secret)>>[i] = PublicKey(secret)
        OBVIOUS
      <4> QED BY <1>1, <4>1
    <3>2. DOMAIN <<eph>> = {1}
      OBVIOUS
    <3> QED BY <2>1, <3>1, <3>2, Zenon DEF SendersSide
  <2>3. RecipientsSide(secret, <<PublicKey(eph)>>) = [i \in {1} |-> dh(eph, secret)]
    <3> DEFINE peers == <<PublicKey(eph)>>
    <3>1. DOMAIN peers = {1} /\ \A i \in {1} : peers[i] = PublicKey(eph)
      OBVIOUS
    <3> HIDE DEF peers
    <3>2. \A i \in {1} : DiffieHellman(secret, peers[i]) = dh(eph, secret)
      BY <1>0, <1>1, <3>1
    <3>3. DOMAIN [k \in DOMAIN peers |-> secret] = {1}
          /\ \A i \in {1} : [k \in DOMAIN peers |-> secret][i] = secret
      BY <3>1
    <3>4. RecipientsSide(secret, peers) = [i \in {1} |-> dh(eph, secret)]
      BY <3>2, <3>3, Zenon DEF RecipientsSide
    <3> QED BY <3>4 DEF peers
  <2> QED BY <2>1, <2>2, <2>3
<1>3. ASSUME NEW s, sender = <<s>>
      PROVE  SendersSide(eph, sender, PublicKey(secret))
               = RecipientsSide(secret, <<PublicKey(eph)>> \o PublicsOf(sender))
  <2>1. <<eph>> \o sender = <<eph, s>>
        /\ <<PublicKey(eph)>> \o PublicsOf(sender) = <<PublicKey(eph), PublicKey(s)>>
    BY <1>3, OneAndMore, PublicsAre, Zenon
  <2> DEFINE both == [i \in {1, 2} |-> IF i = 1 THEN dh(eph, secret) ELSE dh(s, secret)]
  <2>2. SendersSide(eph, sender, PublicKey(secret)) = both
    <3> DEFINE ours == <<eph, s>>
               theirs == <<PublicKey(secret), PublicKey(secret)>>
    <3>1. DOMAIN ours = {1, 2} /\ ours[1] = eph /\ ours[2] = s
          /\ theirs[1] = PublicKey(secret) /\ theirs[2] = PublicKey(secret)
      OBVIOUS
    <3> HIDE DEF ours, theirs
    <3>2. \A i \in {1, 2} :
            DiffieHellman(ours[i], theirs[i]) = IF i = 1 THEN dh(eph, secret) ELSE dh(s, secret)
      BY <1>1, <3>1
    <3>3. SendersSide(eph, sender, PublicKey(secret))
            = [i \in DOMAIN ours |-> DiffieHellman(ours[i], theirs[i])]
      BY <2>1, Zenon DEF SendersSide, ours, theirs
    <3> QED BY <3>1, <3>2, <3>3
  <2>3. RecipientsSide(secret, <<PublicKey(eph), PublicKey(s)>>) = both
    <3> DEFINE peers == <<PublicKey(eph), PublicKey(s)>>
    <3>1. DOMAIN peers = {1, 2} /\ peers[1] = PublicKey(eph) /\ peers[2] = PublicKey(s)
      OBVIOUS
    <3> HIDE DEF peers
    <3>2. \A i \in {1, 2} :
            DiffieHellman(secret, peers[i]) = IF i = 1 THEN dh(eph, secret) ELSE dh(s, secret)
      BY <1>0, <1>1, <3>1
    <3>3. DOMAIN [k \in DOMAIN peers |-> secret] = {1, 2}
          /\ \A i \in {1, 2} : [k \in DOMAIN peers |-> secret][i] = secret
      BY <3>1
    <3>4. RecipientsSide(secret, peers) = both
      BY <3>2, <3>3, Zenon DEF RecipientsSide
    <3> QED BY <3>4 DEF peers
  <2> QED BY <2>1, <2>2, <2>3
<1> QED BY <1>2, <1>3 DEF AtMostOne

-----------------------------------------------------------------------------
(* A payload as seal makes it, when it does.                               *)
Sealed(suite, eph, recipient, sender, info, aad, text) ==
  [ enc |-> <<PublicKey(eph)>>,
    ciphertext |->
      Ciphertext(suite,
        KeySchedule(suite, Mode(sender),
          ExtractAndExpand(SendersSide(eph, sender, recipient),
                           <<PublicKey(eph), recipient>> \o PublicsOf(sender)), info), aad, text) ]

(* Sealing succeeds with a usable recipient and suite, and gives Sealed.   *)
LEMMA SealWithIs ==
  ASSUME NEW suite, NEW eph, NEW recipient, NEW sender, NEW info, NEW aad, NEW text
  PROVE  LET result == SealWith(suite, eph, recipient, sender, info, aad, text)
         IN  /\ result.kind \in {"ok", "err"}
             /\ result.kind = "ok" <=> Agrees(recipient) /\ TakesBaseNonce(suite)
             /\ result.kind = "ok" =>
                  result.value = Sealed(suite, eph, recipient, sender, info, aad, text)
<1> DEFINE result == SealWith(suite, eph, recipient, sender, info, aad, text)
           made   == Sealed(suite, eph, recipient, sender, info, aad, text)
<1>1. result = IF ~Agrees(recipient) THEN Err("InvalidPeerKey")
               ELSE IF ~TakesBaseNonce(suite) THEN Err("Unsupported")
               ELSE Ok(made)
  BY Zenon DEF SealWith, Sealed, Agreed, SendersSide, PublicsOf
<1> HIDE DEF result, made
<1>2. /\ result.kind \in {"ok", "err"}
      /\ result.kind = "ok" <=> Agrees(recipient) /\ TakesBaseNonce(suite)
      /\ result.kind = "ok" => result.value = made
  BY <1>1 DEF Err, Ok
<1> QED BY <1>2 DEF result, made

(* What opens is what was sealed, and was sealed to the one who opens it.  *)
Same(suite, eph, recipient, sender, info, aad, suite2, secret, enc, pin, info2, aad2) ==
  /\ suite2 = suite /\ PublicKey(secret) = recipient /\ enc = <<PublicKey(eph)>>
  /\ pin = PublicsOf(sender) /\ info2 = info /\ aad2 = aad

(* A schedule's key tells both public keys, the senders' and the info.     *)
LEMMA ScheduleTells ==
  ASSUME NEW suite, NEW eph, NEW recipient, NEW sender, NEW info,
         NEW suite2, NEW secret, NEW enc, NEW pin, NEW info2, NEW m1, NEW m2, NEW d1, NEW d2,
         IsBytes(info), IsBytes(info2), AtMostOne(sender), AtMostOne(pin),
         KeySchedule(suite, m1, ExtractAndExpand(d1, <<PublicKey(eph), recipient>> \o PublicsOf(sender)),
                     info).key
         = KeySchedule(suite2, m2, ExtractAndExpand(d2, <<enc, PublicKey(secret)>> \o pin), info2).key
  PROVE  /\ PublicKey(secret) = recipient /\ enc = PublicKey(eph) /\ pin = PublicsOf(sender)
         /\ info = info2
<1> DEFINE h1 == ExtractAndExpand(d1, <<PublicKey(eph), recipient>> \o PublicsOf(sender))
           h2 == ExtractAndExpand(d2, <<enc, PublicKey(secret)>> \o pin)
           from == PublicsOf(sender)
           me == PublicKey(secret)
           e == PublicKey(eph)
<1>1. h1 = h2 /\ info = info2
  <2> HIDE DEF h1, h2
  <2>1. KeySchedule(suite, m1, h1, info).key = KeySchedule(suite2, m2, h2, info2).key
    BY DEF h1, h2
  <2> QED BY <2>1, KeyDetermines
<1>2. IsBytes(from) /\ IsBytes(pin)
  <2>1. AtMostOne(from)
    BY PublicsAre, Zenon DEF AtMostOne
  <2> HIDE DEF from
  <2> QED BY <2>1, AtMostOneIsBytes
<1> HIDE DEF from, me, e
<1>3. ExtractAndExpand(d1, <<e, recipient>> \o from) = ExtractAndExpand(d2, <<enc, me>> \o pin)
  BY <1>1 DEF from, me, e
<1>4. e = enc /\ recipient = me /\ from = pin
  BY <1>2, <1>3, SharedDetermines
<1> QED BY <1>1, <1>4 DEF from, me, e

(* What open_inner returns.                                                *)
Opening(suite, secret, enc, pin, info, aad, text, e) ==
  LET peers == enc \o pin
      made  == Ciphertext(suite,
                 KeySchedule(suite, Mode(pin),
                   ExtractAndExpand(RecipientsSide(secret, peers),
                                    <<e, PublicKey(secret)>> \o pin), info), aad, text[6])
      result == OpenWith(suite, secret, enc, pin, info, aad, text)
  IN  /\ result.kind \in {"ok", "err"}
      /\ result.kind = "ok" => text = made /\ result = Ok(text[6])
      /\ (/\ \A i \in DOMAIN peers : Agrees(peers[i])
          /\ TakesBaseNonce(suite) /\ text = made) => result = Ok(text[6])

(* Opening succeeds only with what this side's keys would have sealed.     *)
LEMMA OpenWithIs ==
  ASSUME NEW suite, NEW secret, NEW enc, NEW pin, NEW info, NEW aad, NEW text, NEW e,
         enc = <<e>>
  PROVE  Opening(suite, secret, enc, pin, info, aad, text, e)
<1> DEFINE peers == enc \o pin
           made  == Ciphertext(suite,
                        KeySchedule(suite, Mode(pin),
                          ExtractAndExpand(RecipientsSide(secret, peers),
                                           <<e, PublicKey(secret)>> \o pin), info), aad, text[6])
           result == OpenWith(suite, secret, enc, pin, info, aad, text)
<1>0. Len(enc) = 1 /\ enc[1] = e
  BY ShortStrings
<1>1. result = IF Len(enc) # 1 THEN Err("InvalidPeerKey")
               ELSE IF \E i \in DOMAIN peers : ~Agrees(peers[i]) THEN Err("InvalidPeerKey")
               ELSE IF ~TakesBaseNonce(suite) THEN Err("Unauthenticated")
               ELSE IF text # made THEN Err("Unauthenticated")
               ELSE Ok(text[6])
  <2>1. <<enc[1], PublicKey(secret)>> = <<e, PublicKey(secret)>>
    BY <1>0
  <2> QED BY <2>1, Zenon DEF OpenWith, Agreed, RecipientsSide
<1> HIDE DEF result, made, peers
<1>2. /\ result.kind \in {"ok", "err"}
      /\ result.kind = "ok" => text = made /\ result = Ok(text[6])
      /\ (/\ \A i \in DOMAIN peers : Agrees(peers[i])
          /\ TakesBaseNonce(suite) /\ text = made) => result = Ok(text[6])
  BY <1>0, <1>1 DEF Err, Ok
<1> QED BY <1>2, Zenon DEF Opening, result, made, peers

Arguments(enc, sender, pin, info, info2) ==
  /\ IsBytes(info) /\ IsBytes(info2) /\ AtMostOne(sender) /\ AtMostOne(pin) /\ AtMostOne(enc)

(* Opening what was sealed: it gives the text to the one it was sealed to, *)
(* and to any other an error.                                              *)
Opens(suite, eph, recipient, sender, info, aad, text, suite2, secret, enc, pin, info2, aad2) ==
  LET result == OpenWith(suite2, secret, enc, pin, info2, aad2,
                         Sealed(suite, eph, recipient, sender, info, aad, text).ciphertext)
  IN  IF Same(suite, eph, recipient, sender, info, aad, suite2, secret, enc, pin, info2, aad2)
      THEN result = Ok(text) ELSE result.kind = "err"

(* What the sealing side made opens on the other side with the same suite, *)
(* recipient, sender, info and additional data, and with no others.        *)
LEMMA OpensWhatIsSealed ==
  ASSUME NEW suite, NEW eph, NEW recipient, NEW sender, NEW info, NEW aad, NEW text,
         NEW suite2, NEW secret, NEW enc, NEW pin, NEW info2, NEW aad2,
         TakesBaseNonce(suite), Arguments(enc, sender, pin, info, info2)
  PROVE  Opens(suite, eph, recipient, sender, info, aad, text,
               suite2, secret, enc, pin, info2, aad2)
<1> DEFINE sent == Sealed(suite, eph, recipient, sender, info, aad, text).ciphertext
           result == OpenWith(suite2, secret, enc, pin, info2, aad2, sent)
           same == Same(suite, eph, recipient, sender, info, aad, suite2, secret, enc, pin, info2, aad2)
           shared == ExtractAndExpand(SendersSide(eph, sender, recipient),
                                      <<PublicKey(eph), recipient>> \o PublicsOf(sender))
           schedule == KeySchedule(suite, Mode(sender), shared, info)
<1>1. sent = <<"sealed", suite, schedule.key, schedule.base_nonce, aad, text>>
  BY Zenon DEF Sealed, Ciphertext
<1>2. sent[6] = text
  <2> HIDE DEF sent, schedule
  <2> QED BY <1>1
<1>3. CASE enc = <<>>
  <2>1. Len(enc) # 1
    BY <1>3, ShortStrings
  <2>2. result = Err("InvalidPeerKey")
    BY <2>1, Zenon DEF OpenWith
  <2>3. ~ same
    BY <1>3 DEF Same
  <2>4. result.kind = "err"
    <3> HIDE DEF result
    <3> QED BY <2>2 DEF Err
  <2> QED BY <2>3, <2>4, Zenon DEF Opens
<1>4. ASSUME NEW e, enc = <<e>>
      PROVE  IF same THEN result = Ok(text) ELSE result.kind = "err"
  <2> DEFINE peers == enc \o pin
             shared2 == ExtractAndExpand(RecipientsSide(secret, peers), <<e, PublicKey(secret)>> \o pin)
             schedule2 == KeySchedule(suite2, Mode(pin), shared2, info2)
             made == Ciphertext(suite2, schedule2, aad2, sent[6])
  <2>1. /\ result.kind \in {"ok", "err"}
        /\ result.kind = "ok" => sent = made /\ result = Ok(sent[6])
        /\ (/\ \A i \in DOMAIN peers : Agrees(peers[i])
            /\ TakesBaseNonce(suite2) /\ sent = made) => result = Ok(sent[6])
    <3>1. Opening(suite2, secret, enc, pin, info2, aad2, sent, e)
      <4> HIDE DEF sent
      <4> QED BY <1>4, OpenWithIs
    <3> QED BY <3>1, Zenon DEF Opening
  <2>2. made = <<"sealed", suite2, schedule2.key, schedule2.base_nonce, aad2, text>>
    BY <1>2, Zenon DEF Ciphertext
  <2>3. ASSUME sent = made PROVE same
    <3>1. suite = suite2 /\ schedule.key = schedule2.key /\ aad = aad2
      <4> HIDE DEF sent, made, schedule, schedule2
      <4> QED BY <1>1, <2>2, <2>3
    <3>2. /\ PublicKey(secret) = recipient /\ e = PublicKey(eph) /\ pin = PublicsOf(sender)
          /\ info = info2
      <4>1. KeySchedule(suite, Mode(sender), ExtractAndExpand(SendersSide(eph, sender, recipient),
                         <<PublicKey(eph), recipient>> \o PublicsOf(sender)), info).key
            = KeySchedule(suite2, Mode(pin), ExtractAndExpand(RecipientsSide(secret, peers),
                         <<e, PublicKey(secret)>> \o pin), info2).key
        BY <3>1
      <4> HIDE DEF peers
      <4> QED BY <4>1, ScheduleTells DEF Arguments
    <3> QED BY <1>4, <3>1, <3>2, Zenon DEF Same
  <2>4. ASSUME same PROVE result = Ok(text)
    <3>1. /\ suite2 = suite /\ PublicKey(secret) = recipient /\ e = PublicKey(eph)
          /\ pin = PublicsOf(sender) /\ info2 = info /\ aad2 = aad
      BY <1>4, <2>4 DEF Same
    <3>2. peers = <<PublicKey(eph)>> \o PublicsOf(sender)
      BY <1>4, <3>1
    <3>3. \A i \in DOMAIN peers : Agrees(peers[i])
      <4>1. CASE sender = <<>>
        <5>1. peers = <<PublicKey(eph)>>
          BY <3>2, <4>1, OneAndMore, PublicsAre, Zenon
        <5> QED BY <5>1 DEF Agrees, PublicKey, SmallOrder
      <4>2. ASSUME NEW s, sender = <<s>> PROVE \A i \in DOMAIN peers : Agrees(peers[i])
        <5>1. peers = <<PublicKey(eph), PublicKey(s)>>
          BY <3>2, <4>2, OneAndMore, PublicsAre, Zenon
        <5> QED BY <5>1 DEF Agrees, PublicKey, SmallOrder
      <4> QED BY <4>1, <4>2 DEF Arguments, AtMostOne
    <3>4. RecipientsSide(secret, peers) = SendersSide(eph, sender, recipient)
      BY <3>1, <3>2, SidesAgree DEF Arguments
    <3>5. Mode(pin) = Mode(sender)
      <4>1. CASE sender = <<>>
        BY <3>1, <4>1, PublicsAre DEF Mode
      <4>2. ASSUME NEW s, sender = <<s>> PROVE Mode(pin) = Mode(sender)
        <5>1. pin = <<PublicKey(s)>>
          BY <3>1, <4>2, PublicsAre, Zenon
        <5> QED BY <4>2, <5>1 DEF Mode
      <4> QED BY <4>1, <4>2 DEF Arguments, AtMostOne
    <3>6. schedule2 = schedule
      BY <3>1, <3>4, <3>5
    <3>7. sent = made
      <4> HIDE DEF sent, made, schedule, schedule2
      <4> QED BY <1>1, <2>2, <3>1, <3>6
    <3>8. result = Ok(sent[6])
      <4> HIDE DEF result, peers, made, sent
      <4> QED BY <2>1, <3>1, <3>3, <3>7
    <3> QED BY <1>2, <3>8
  <2>5. same \/ result.kind = "err"
    <3> HIDE DEF same, result, made, sent
    <3> QED BY <2>1, <2>3
  <2> QED BY <2>4, <2>5, Zenon
<1> QED BY <1>3, <1>4, Zenon DEF Opens, Arguments, AtMostOne

-----------------------------------------------------------------------------
(* The terms of the HPKE module are these.                                 *)
LEMMA SealingTerms ==
  /\ \A x : Sealing!PublicKey(x) = PublicKey(x)
  /\ \A suite, eph, recipient, sender, info, aad, text :
       Sealing!SealWith(suite, eph, recipient, sender, info, aad, text)
         = SealWith(suite, eph, recipient, sender, info, aad, text)
  /\ \A suite, secret, enc, pin, info, aad, text :
       Sealing!OpenWith(suite, secret, enc, pin, info, aad, text)
         = OpenWith(suite, secret, enc, pin, info, aad, text)
  /\ \A x : Sealing!Ok(x) = Ok(x) /\ Sealing!Err(x) = Err(x)
<1>1. \A x : Sealing!PublicKey(x) = PublicKey(x)
  BY Zenon DEF Sealing!PublicKey, PublicKey
<1>2. \A x : Sealing!Ok(x) = Ok(x) /\ Sealing!Err(x) = Err(x)
  BY Zenon DEF Sealing!Ok, Ok, Sealing!Err, Err
<1>3. ASSUME NEW suite, NEW eph, NEW recipient, NEW sender, NEW info, NEW aad, NEW text
      PROVE  Sealing!SealWith(suite, eph, recipient, sender, info, aad, text)
               = SealWith(suite, eph, recipient, sender, info, aad, text)
  BY Zenon DEF Sealing!PublicKey, PublicKey, Sealing!Ok, Ok, Sealing!Err, Err,
     Sealing!SmallOrder, SmallOrder, Sealing!Agrees, Agrees, Sealing!DiffieHellman, DiffieHellman,
     Sealing!Extract, Extract, Sealing!Expand, Expand, Sealing!AeadId, AeadId,
     Sealing!KemSuiteId, KemSuiteId, Sealing!HpkeSuiteId, HpkeSuiteId,
     Sealing!LabeledExtract, LabeledExtract, Sealing!LabeledExpand, LabeledExpand,
     Sealing!ExtractAndExpand, ExtractAndExpand, Sealing!KeySchedule, KeySchedule,
     Sealing!TakesBaseNonce, TakesBaseNonce, Sealing!Ciphertext, Ciphertext,
     Sealing!Agreed, Agreed, Sealing!Mode, Mode, Sealing!SealWith, SealWith
<1>4. ASSUME NEW suite, NEW secret, NEW enc, NEW pin, NEW info, NEW aad, NEW text
      PROVE  Sealing!OpenWith(suite, secret, enc, pin, info, aad, text)
               = OpenWith(suite, secret, enc, pin, info, aad, text)
  BY Zenon DEF Sealing!PublicKey, PublicKey, Sealing!Ok, Ok, Sealing!Err, Err,
     Sealing!SmallOrder, SmallOrder, Sealing!Agrees, Agrees, Sealing!DiffieHellman, DiffieHellman,
     Sealing!Extract, Extract, Sealing!Expand, Expand, Sealing!AeadId, AeadId,
     Sealing!KemSuiteId, KemSuiteId, Sealing!HpkeSuiteId, HpkeSuiteId,
     Sealing!LabeledExtract, LabeledExtract, Sealing!LabeledExpand, LabeledExpand,
     Sealing!ExtractAndExpand, ExtractAndExpand, Sealing!KeySchedule, KeySchedule,
     Sealing!TakesBaseNonce, TakesBaseNonce, Sealing!Ciphertext, Ciphertext,
     Sealing!Agreed, Agreed, Sealing!Mode, Mode, Sealing!OpenWith, OpenWith
<1> QED BY <1>1, <1>2, <1>3, <1>4

(* What was sealed, with whose secrets, and what was last answered.        *)
Call(suite, sender, recipient, input) ==
  [suite |-> suite, sender |-> sender, recipient |-> recipient, input |-> input]

SealedAs(i, suite, sender, recipient, input) ==
  [call |-> Call(suite, sender, recipient, input),
   out |-> Sealed(suite, HpkeEphemerals[i], recipient, sender, input.info, input.aad,
                  Call(suite, sender, recipient, input))]

WasSealed(x, i) ==
  \E suite, recipient, sender, input :
    /\ input \in HpkeInputs /\ AtMostOne(sender) /\ TakesBaseNonce(suite)
    /\ x = SealedAs(i, suite, sender, recipient, input)

OpenedAs(suite, secret, enc, pin, input, i, sealed) ==
  [op |-> "open",
   call |-> [suite |-> suite, secret |-> secret, enc |-> enc, pin |-> pin,
             input |-> input, payload |-> i],
   result |-> OpenWith(suite, secret, enc, pin, input.info, input.aad, sealed[i].out.ciphertext)]

WasOpened(x, sealed) ==
  \E suite, secret, enc, pin, input, i :
    /\ input \in HpkeInputs /\ AtMostOne(enc) /\ AtMostOne(pin) /\ i \in DOMAIN sealed
    /\ x = OpenedAs(suite, secret, enc, pin, input, i, sealed)

AllSealed(sealed) ==
  /\ IsBytes(sealed) /\ Len(sealed) <= Len(HpkeEphemerals)
  /\ \A i \in DOMAIN sealed : WasSealed(sealed[i], i)

Answered(x, sealed) == x = Nothing \/ x.op = "seal" \/ WasOpened(x, sealed)

HpkeInv == unit = "hpke" => AllSealed(s1) /\ Answered(s2, s1)

(* No payload is sealed at first.                                          *)
LEMMA HpkeInit == BenchInit => HpkeInv
<1> SUFFICES ASSUME Sealing!Init PROVE AllSealed(s1) /\ Answered(s2, s1)
  BY Zenon DEF BenchInit, HpkeInv
<1>1. s1 = <<>> /\ s2 = Nothing
  BY DEF Sealing!Init
<1>2. Len(HpkeEphemerals) \in Nat
  BY SealingAssumption
<1>3. Len(s1) = 0 /\ IsBytes(s1) /\ DOMAIN s1 = {}
  BY <1>1, ShortStrings
<1> QED BY <1>1, <1>2, <1>3 DEF AllSealed, Answered

(* One payload more.                                                       *)
LEMMA SealedOneMore ==
  ASSUME NEW sealed, NEW x, AllSealed(sealed), Len(sealed) < Len(HpkeEphemerals),
         WasSealed(x, Len(sealed) + 1)
  PROVE  AllSealed(Append(sealed, x))
<1>1. PICK S : sealed \in Seq(S)
  BY DEF AllSealed, IsBytes
<1> DEFINE t == Append(sealed, x)
           k == Len(sealed)
           T == S \cup {x}
<1>2. sealed \in Seq(T) /\ x \in T
  BY <1>1
<1> HIDE DEF T
<1>3. /\ t \in Seq(T) /\ Len(t) = k + 1 /\ k \in Nat /\ DOMAIN sealed = 1..k /\ DOMAIN t = 1..(k + 1)
      /\ t[k + 1] = x /\ \A i \in 1..k : t[i] = sealed[i]
  BY <1>2
<1>4. Len(HpkeEphemerals) \in Nat
  BY SealingAssumption
<1> HIDE DEF t
<1>5. Len(t) <= Len(HpkeEphemerals)
  <2> DEFINE most == Len(HpkeEphemerals)
  <2>1. k < most /\ most \in Nat BY <1>4
  <2> HIDE DEF k, most
  <2>2. Len(t) <= most BY <1>3, <2>1
  <2> QED BY <2>2 DEF most
<1>6. ASSUME NEW i \in 1..(k + 1) PROVE WasSealed(t[i], i)
  <2>1. CASE i = k + 1
    BY <1>3, <2>1
  <2>2. CASE i # k + 1
    <3>1. i \in 1..k
      <4> HIDE DEF k
      <4> QED BY <1>3, <2>2
    <3>2. WasSealed(sealed[i], i)
      BY <1>3, <3>1 DEF AllSealed
    <3> QED BY <1>3, <3>1, <3>2
  <2> QED BY <2>1, <2>2
<1>7. AllSealed(t)
  BY <1>3, <1>5, <1>6 DEF AllSealed, IsBytes
<1> QED BY <1>7 DEF t

(* A call of seal or open keeps what is sealed as sealing made it, and     *)
(* answers an opening as opening that payload does.                        *)
LEMMA HpkeStep == HpkeInv /\ [BenchNext]_bench => HpkeInv'
<1> SUFFICES ASSUME HpkeInv, [BenchNext]_bench, unit' = "hpke"
             PROVE  AllSealed(s1') /\ Answered(s2', s1')
  BY DEF HpkeInv
<1>1. unit = "hpke"
  BY DEF BenchNext, RestUntouched, bench
<1>2. AllSealed(s1) /\ Answered(s2, s1)
  BY <1>1 DEF HpkeInv
<1>3. CASE UNCHANGED <<s1, s2>>
  BY <1>2, <1>3
<1>4. Sealing!Next \/ UNCHANGED <<s1, s2>>
  <2>1. ASSUME BenchNext PROVE Sealing!Next
    BY <1>1, <2>1 DEF BenchNext
  <2>2. ASSUME UNCHANGED bench PROVE UNCHANGED <<s1, s2>>
    BY <2>2 DEF bench, slots
  <2> QED BY <2>1, <2>2
<1>5. ASSUME NEW suite \in Ciphers, NEW sender \in Sealing!Senders,
             NEW recipient \in Sealing!Publics, NEW input \in HpkeInputs,
             Sealing!Seal(suite, sender, recipient, input)
      PROVE  AllSealed(s1') /\ Answered(s2', s1')
  <2> DEFINE eph == HpkeEphemerals[Len(s1) + 1]
             call == Call(suite, sender, recipient, input)
             result == SealWith(suite, eph, recipient, sender, input.info, input.aad, call)
  <2>1. /\ s2 = Nothing /\ Len(s1) < Len(HpkeEphemerals)
        /\ IF result.kind = "ok"
           THEN s1' = Append(s1, [call |-> call, out |-> result.value]) /\ s2' = s2
           ELSE s2' = [op |-> "seal", call |-> call, result |-> result] /\ s1' = s1
    BY <1>5, SealingTerms, Zenon DEF Sealing!Seal, Call
  <2>2. AtMostOne(sender)
    BY DEF Sealing!Senders, Sealing!None, AtMostOne
  <2>3. CASE result.kind = "ok"
    <3>1. /\ TakesBaseNonce(suite)
          /\ result.value = Sealed(suite, eph, recipient, sender, input.info, input.aad, call)
      <4> HIDE DEF eph, call
      <4> QED BY <2>3, SealWithIs
    <3> DEFINE x == SealedAs(Len(s1) + 1, suite, sender, recipient, input)
    <3>2. [call |-> call, out |-> result.value] = x
      BY <3>1, Zenon DEF SealedAs
    <3>3. s1' = Append(s1, x) /\ s2' = Nothing
      BY <2>1, <2>3, <3>2
    <3>4. WasSealed(x, Len(s1) + 1)
      BY <2>2, <3>1, Zenon DEF WasSealed
    <3> HIDE DEF x
    <3>5. AllSealed(Append(s1, x))
      BY <1>2, <2>1, <3>4, SealedOneMore
    <3> QED BY <3>3, <3>5 DEF Answered
  <2>4. CASE result.kind # "ok"
    <3>1. s1' = s1 /\ s2'.op = "seal"
      <4> HIDE DEF result, call
      <4> QED BY <2>1, <2>4
    <3> QED BY <1>2, <3>1 DEF Answered
  <2> QED BY <2>3, <2>4
<1>6. CASE Sealing!SealWithoutRandomness
  <2>1. s1' = s1 /\ s2'.op = "seal"
    BY <1>6 DEF Sealing!SealWithoutRandomness
  <2> QED BY <1>2, <2>1 DEF Answered
<1>7. ASSUME NEW suite \in Ciphers, NEW secret \in HpkeSecrets, NEW enc \in Sealing!Encs,
             NEW pin \in { <<x>> : x \in Sealing!Publics } \cup {Sealing!None},
             NEW input \in HpkeInputs, NEW i \in DOMAIN s1,
             Sealing!Open(suite, secret, enc, pin, input, i)
      PROVE  AllSealed(s1') /\ Answered(s2', s1')
  <2>1. s2' = OpenedAs(suite, secret, enc, pin, input, i, s1) /\ s1' = s1
    BY <1>7, SealingTerms, Zenon DEF Sealing!Open, OpenedAs
  <2>2. AtMostOne(pin)
    BY DEF Sealing!None, AtMostOne
  <2>3. AtMostOne(enc)
    <3>1. CASE enc \in { <<Sealing!SmallOrder>>, <<>> }
      BY <3>1 DEF AtMostOne
    <3>2. ASSUME NEW j \in DOMAIN s1, enc = s1[j].out.enc PROVE AtMostOne(enc)
      <4>1. WasSealed(s1[j], j)
        BY <1>2 DEF AllSealed
      <4>2. PICK y : s1[j].out.enc = <<y>>
        BY <4>1 DEF WasSealed, SealedAs, Sealed
      <4> QED BY <3>2, <4>2 DEF AtMostOne
    <3> QED BY <3>1, <3>2 DEF Sealing!Encs
  <2>4. WasOpened(s2', s1)
    BY <2>1, <2>2, <2>3, Zenon DEF WasOpened
  <2> QED BY <1>2, <2>1, <2>4 DEF Answered
<1> QED BY <1>3, <1>4, <1>5, <1>6, <1>7 DEF Sealing!Next

(* The key a payload is sealed under.                                      *)
KeyOf(suite, eph, recipient, sender, info) ==
  KeySchedule(suite, Mode(sender),
    ExtractAndExpand(SendersSide(eph, sender, recipient),
                     <<PublicKey(eph), recipient>> \o PublicsOf(sender)), info).key

(* The key a payload names is the one its key schedule derived.            *)
LEMMA SealedKey ==
  ASSUME NEW suite, NEW eph, NEW recipient, NEW sender, NEW info, NEW aad, NEW text
  PROVE  Sealed(suite, eph, recipient, sender, info, aad, text).ciphertext[3]
           = KeyOf(suite, eph, recipient, sender, info)
<1> DEFINE schedule == KeySchedule(suite, Mode(sender),
             ExtractAndExpand(SendersSide(eph, sender, recipient),
                     <<PublicKey(eph), recipient>> \o PublicsOf(sender)), info)
           sent == Sealed(suite, eph, recipient, sender, info, aad, text).ciphertext
<1>1. sent = <<"sealed", suite, schedule.key, schedule.base_nonce, aad, text>>
  BY Zenon DEF Sealed, Ciphertext
<1>2. schedule.key = KeyOf(suite, eph, recipient, sender, info)
  BY Zenon DEF KeyOf
<1> HIDE DEF sent, schedule
<1>3. sent[3] = schedule.key
  BY <1>1
<1> QED BY <1>2, <1>3 DEF sent

(* A key schedule's key has its ephemeral in it: one key, one ephemeral.   *)
LEMMA KeysTell ==
  ASSUME NEW suite, NEW eph, NEW recipient, NEW sender, NEW info,
         NEW suite2, NEW eph2, NEW recipient2, NEW sender2, NEW info2,
         IsBytes(info), IsBytes(info2), AtMostOne(sender), AtMostOne(sender2),
         KeyOf(suite, eph, recipient, sender, info) = KeyOf(suite2, eph2, recipient2, sender2, info2)
  PROVE  eph = eph2
<1> DEFINE from == PublicsOf(sender)
           from2 == PublicsOf(sender2)
           e == PublicKey(eph)
           e2 == PublicKey(eph2)
           d == SendersSide(eph, sender, recipient)
           d2 == SendersSide(eph2, sender2, recipient2)
           h == ExtractAndExpand(d, <<e, recipient>> \o from)
           h2 == ExtractAndExpand(d2, <<e2, recipient2>> \o from2)
<1>1. KeySchedule(suite, Mode(sender), h, info).key = KeySchedule(suite2, Mode(sender2), h2, info2).key
  BY Zenon DEF KeyOf
<1>2. IsBytes(from) /\ IsBytes(from2)
  <2>1. AtMostOne(from) /\ AtMostOne(from2)
    BY PublicsAre, Zenon DEF AtMostOne
  <2> HIDE DEF from, from2
  <2> QED BY <2>1, AtMostOneIsBytes
<1>3. h = h2
  <2> HIDE DEF h, h2
  <2> QED BY <1>1, KeyDetermines
<1>4. e = e2
  <2> HIDE DEF d, d2, from, from2, e, e2
  <2> QED BY <1>2, <1>3, SharedDetermines
<1> QED BY <1>4 DEF PublicKey

(* No two payloads are sealed under one key, for every seal has an         *)
(* ephemeral of its own.                                                   *)
LEMMA SealedKeysFresh ==
  ASSUME AllSealed(s1)
  PROVE  Sealing!KeysAreFresh
<1> SUFFICES ASSUME NEW i \in DOMAIN s1, NEW j \in DOMAIN s1,
                    s1[i].out.ciphertext[3] = s1[j].out.ciphertext[3]
             PROVE  i = j
  BY DEF Sealing!KeysAreFresh
<1>0. i \in DOMAIN HpkeEphemerals /\ j \in DOMAIN HpkeEphemerals
  <2>1. PICK S : s1 \in Seq(S)
    BY DEF AllSealed, IsBytes
  <2>2. DOMAIN s1 = 1..Len(s1) /\ Len(s1) \in Nat
    BY <2>1
  <2>3. DOMAIN HpkeEphemerals = 1..Len(HpkeEphemerals) /\ Len(HpkeEphemerals) \in Nat
    BY SealingAssumption
  <2>4. Len(s1) <= Len(HpkeEphemerals)
    BY DEF AllSealed
  <2> QED BY <2>2, <2>3, <2>4
<1>1. ASSUME NEW x \in DOMAIN s1
      PROVE  \E suite, recipient, sender, info :
               /\ IsBytes(info) /\ AtMostOne(sender)
               /\ s1[x].out.ciphertext[3] = KeyOf(suite, HpkeEphemerals[x], recipient, sender, info)
  <2>1. PICK suite, recipient, sender, input :
          /\ input \in HpkeInputs /\ AtMostOne(sender) /\ TakesBaseNonce(suite)
          /\ s1[x] = SealedAs(x, suite, sender, recipient, input)
    BY DEF AllSealed, WasSealed
  <2>2. s1[x].out = Sealed(suite, HpkeEphemerals[x], recipient, sender, input.info, input.aad,
                           Call(suite, sender, recipient, input))
    BY <2>1 DEF SealedAs
  <2>3. s1[x].out.ciphertext[3] = KeyOf(suite, HpkeEphemerals[x], recipient, sender, input.info)
    BY <2>2, SealedKey
  <2>4. IsBytes(input.info)
    BY <2>1, SealingAssumption DEF IsBytes
  <2> QED BY <2>1, <2>3, <2>4
<1>2. PICK suite, recipient, sender, info :
        /\ IsBytes(info) /\ AtMostOne(sender)
        /\ s1[i].out.ciphertext[3] = KeyOf(suite, HpkeEphemerals[i], recipient, sender, info)
  BY <1>1
<1>3. PICK suite2, recipient2, sender2, info2 :
        /\ IsBytes(info2) /\ AtMostOne(sender2)
        /\ s1[j].out.ciphertext[3] = KeyOf(suite2, HpkeEphemerals[j], recipient2, sender2, info2)
  BY <1>1
<1>4. HpkeEphemerals[i] = HpkeEphemerals[j]
  <2> DEFINE eph == HpkeEphemerals[i]
             eph2 == HpkeEphemerals[j]
  <2>1. KeyOf(suite, eph, recipient, sender, info) = KeyOf(suite2, eph2, recipient2, sender2, info2)
    BY <1>2, <1>3
  <2>2. IsBytes(info) /\ IsBytes(info2) /\ AtMostOne(sender) /\ AtMostOne(sender2)
    BY <1>2, <1>3
  <2> HIDE DEF eph, eph2
  <2>3. eph = eph2
    BY <2>1, <2>2, KeysTell
  <2> QED BY <2>3 DEF eph, eph2
<1> QED BY <1>0, <1>4, SealingAssumption

(* Every answer to open is the sealed text for the right arguments and an  *)
(* error for all others.                                                   *)
LEMMA SealedOpens ==
  ASSUME AllSealed(s1), Answered(s2, s1)
  PROVE  Sealing!OpensAsSealed
<1>1. CASE s2 = Nothing \/ s2.op = "seal"
  BY <1>1 DEF Sealing!OpensAsSealed
<1>2. CASE WasOpened(s2, s1)
  <2>1. PICK suite2, secret, enc, pin, input2, i :
          /\ input2 \in HpkeInputs /\ AtMostOne(enc) /\ AtMostOne(pin) /\ i \in DOMAIN s1
          /\ s2 = OpenedAs(suite2, secret, enc, pin, input2, i, s1)
    BY <1>2 DEF WasOpened
  <2>2. PICK suite, recipient, sender, input :
          /\ input \in HpkeInputs /\ AtMostOne(sender) /\ TakesBaseNonce(suite)
          /\ s1[i] = SealedAs(i, suite, sender, recipient, input)
    BY <2>1 DEF AllSealed, WasSealed
  <2> DEFINE eph == HpkeEphemerals[i]
             call == Call(suite, sender, recipient, input)
             out == Sealed(suite, eph, recipient, sender, input.info, input.aad, call)
             result == OpenWith(suite2, secret, enc, pin, input2.info, input2.aad, out.ciphertext)
             same == Same(suite, eph, recipient, sender, input.info, input.aad,
                          suite2, secret, enc, pin, input2.info, input2.aad)
  <2>3. s1[i].call = call /\ s1[i].out = out
    BY <2>2 DEF SealedAs
  <2>4. /\ s2.call.suite = suite2 /\ s2.call.secret = secret /\ s2.call.enc = enc
        /\ s2.call.pin = pin /\ s2.call.input = input2 /\ s2.call.payload = i
        /\ s2.result = result
    BY <2>1, <2>3 DEF OpenedAs
  <2>5. IF same THEN result = Ok(call) ELSE result.kind = "err"
    <3>1. IsBytes(input.info) /\ IsBytes(input2.info)
      BY <2>1, <2>2, SealingAssumption DEF IsBytes
    <3>2. Arguments(enc, sender, pin, input.info, input2.info)
      BY <2>1, <2>2, <3>1 DEF Arguments
    <3>3. Opens(suite, eph, recipient, sender, input.info, input.aad, call,
                suite2, secret, enc, pin, input2.info, input2.aad)
      <4> HIDE DEF eph, call
      <4> QED BY <2>2, <3>2, OpensWhatIsSealed
    <3> QED BY <3>3, Zenon DEF Opens
  <2>6. call.suite = suite /\ call.sender = sender /\ call.recipient = recipient /\ call.input = input
        /\ out.enc = <<PublicKey(eph)>>
    BY DEF Call, Sealed
  <2>7. input2 = input <=> input2.info = input.info /\ input2.aad = input.aad
    BY <2>1, <2>2, SealingAssumption
  <2>8. [x \in DOMAIN sender |-> Sealing!PublicKey(sender[x])] = PublicsOf(sender)
    BY SealingTerms, Zenon DEF PublicsOf
  <2> DEFINE c == s2.call
             d == s1[c.payload]
             asked == /\ c.suite = d.call.suite
                      /\ Sealing!PublicKey(c.secret) = d.call.recipient
                      /\ c.enc = d.out.enc
                      /\ c.pin = [x \in DOMAIN d.call.sender |-> Sealing!PublicKey(d.call.sender[x])]
                      /\ c.input = d.call.input
  <2>9. d.call = call /\ d.out = out
    BY <2>3, <2>4
  <2>10. asked = /\ suite2 = suite /\ PublicKey(secret) = recipient /\ enc = <<PublicKey(eph)>>
                 /\ pin = PublicsOf(sender) /\ input2 = input
    <3>1. Sealing!PublicKey(c.secret) = PublicKey(secret)
      BY <2>4, SealingTerms
    <3> HIDE DEF call, out, eph, c, d
    <3>2. /\ c.suite = suite2 /\ c.enc = enc /\ c.pin = pin /\ c.input = input2
          /\ d.call.suite = suite /\ d.call.recipient = recipient /\ d.call.input = input
          /\ d.call.sender = sender /\ d.out.enc = <<PublicKey(eph)>>
      BY <2>4, <2>6, <2>9 DEF c
    <3> QED BY <2>8, <3>1, <3>2
  <2>11. asked <=> same
    <3> HIDE DEF asked
    <3> QED BY <2>7, <2>10 DEF Same
  <2>12. IF asked THEN s2.result = Sealing!Ok(d.call) ELSE s2.result.kind = "err"
    <3>1. d.call = call /\ Sealing!Ok(call) = Ok(call)
      BY <2>9, SealingTerms, Zenon
    <3> HIDE DEF asked, same, result, call, d
    <3> QED BY <2>4, <2>5, <2>11, <3>1
  <2> QED BY <2>12, Zenon DEF Sealing!OpensAsSealed
<1> QED BY <1>1, <1>2 DEF Answered

-----------------------------------------------------------------------------
(* The terms of the envelopes are these.                                   *)
LEMMA WrappingTerms ==
  /\ \A x : Wrapping!PublicKey(x) = PublicKey(x)
  /\ \A suite, eph, recipient, sender, info, aad, text :
       Wrapping!SealWith(suite, eph, recipient, sender, info, aad, text)
         = SealWith(suite, eph, recipient, sender, info, aad, text)
  /\ \A suite, secret, enc, pin, info, aad, text :
       Wrapping!OpenWith(suite, secret, enc, pin, info, aad, text)
         = OpenWith(suite, secret, enc, pin, info, aad, text)
<1>1. \A x : Wrapping!PublicKey(x) = PublicKey(x)
  BY Zenon DEF Wrapping!PublicKey, PublicKey
<1>3. ASSUME NEW suite, NEW eph, NEW recipient, NEW sender, NEW info, NEW aad, NEW text
      PROVE  Wrapping!SealWith(suite, eph, recipient, sender, info, aad, text)
               = SealWith(suite, eph, recipient, sender, info, aad, text)
  BY Zenon DEF Wrapping!PublicKey, PublicKey, Wrapping!Ok, Ok, Wrapping!Err, Err,
     Wrapping!SmallOrder, SmallOrder, Wrapping!Agrees, Agrees, Wrapping!DiffieHellman, DiffieHellman,
     Wrapping!Extract, Extract, Wrapping!Expand, Expand, Wrapping!AeadId, AeadId,
     Wrapping!KemSuiteId, KemSuiteId, Wrapping!HpkeSuiteId, HpkeSuiteId,
     Wrapping!LabeledExtract, LabeledExtract, Wrapping!LabeledExpand, LabeledExpand,
     Wrapping!ExtractAndExpand, ExtractAndExpand, Wrapping!KeySchedule, KeySchedule,
     Wrapping!TakesBaseNonce, TakesBaseNonce, Wrapping!Ciphertext, Ciphertext,
     Wrapping!Agreed, Agreed, Wrapping!Mode, Mode, Wrapping!SealWith, SealWith
<1>4. ASSUME NEW suite, NEW secret, NEW enc, NEW pin, NEW info, NEW aad, NEW text
      PROVE  Wrapping!OpenWith(suite, secret, enc, pin, info, aad, text)
               = OpenWith(suite, secret, enc, pin, info, aad, text)
  BY Zenon DEF Wrapping!PublicKey, PublicKey, Wrapping!Ok, Ok, Wrapping!Err, Err,
     Wrapping!SmallOrder, SmallOrder, Wrapping!Agrees, Agrees, Wrapping!DiffieHellman, DiffieHellman,
     Wrapping!Extract, Extract, Wrapping!Expand, Expand, Wrapping!AeadId, AeadId,
     Wrapping!KemSuiteId, KemSuiteId, Wrapping!HpkeSuiteId, HpkeSuiteId,
     Wrapping!LabeledExtract, LabeledExtract, Wrapping!LabeledExpand, LabeledExpand,
     Wrapping!ExtractAndExpand, ExtractAndExpand, Wrapping!KeySchedule, KeySchedule,
     Wrapping!TakesBaseNonce, TakesBaseNonce, Wrapping!Ciphertext, Ciphertext,
     Wrapping!Agreed, Agreed, Wrapping!Mode, Mode, Wrapping!OpenWith, OpenWith
<1> QED BY <1>1, <1>3, <1>4

-----------------------------------------------------------------------------
(* A device, and a recipient whose key is a device's.                      *)
Device(id, epoch, secret) == Wrapping!Assemble(id, epoch, secret)
Reader(id, epoch, secret) == Wrapping!Descriptor(id, epoch, PublicKey(secret))
Pin(id, epoch, secret)    == <<id, epoch, Wrapping!RecipientKeyId(PublicKey(secret))>>

(* What assembling a device and describing its key give.                   *)
LEMMA DeviceIs ==
  ASSUME NEW id, NEW epoch, NEW secret
  PROVE  /\ Device(id, epoch, secret).secret = secret
         /\ Device(id, epoch, secret).recipient = Reader(id, epoch, secret)
         /\ Reader(id, epoch, secret).id = id /\ Reader(id, epoch, secret).epoch = epoch
         /\ Reader(id, epoch, secret).public = PublicKey(secret)
         /\ Reader(id, epoch, secret).key_id = Wrapping!RecipientKeyId(PublicKey(secret))
<1>1. Device(id, epoch, secret) = [recipient |-> Reader(id, epoch, secret), secret |-> secret]
  BY WrappingTerms, Zenon DEF Device, Reader, Wrapping!Assemble
<1> DEFINE key == Wrapping!RecipientKeyId(PublicKey(secret))
           public == PublicKey(secret)
<1>2. Reader(id, epoch, secret) = [id |-> id, epoch |-> epoch, key_id |-> key, public |-> public]
  BY Zenon DEF Reader, Wrapping!Descriptor
<1> HIDE DEF key, public
<1>3. /\ Reader(id, epoch, secret).id = id /\ Reader(id, epoch, secret).epoch = epoch
      /\ Reader(id, epoch, secret).public = public
      /\ Reader(id, epoch, secret).key_id = key
  BY <1>2
<1>4. /\ Device(id, epoch, secret).secret = secret
      /\ Device(id, epoch, secret).recipient = Reader(id, epoch, secret)
  BY <1>1
<1> QED BY <1>3, <1>4 DEF key, public

(* A fingerprint is one key's.                                             *)
LEMMA FingerprintTells ==
  ASSUME NEW x, NEW y, Wrapping!RecipientKeyId(x) = Wrapping!RecipientKeyId(y)
  PROVE  x = y
<1>1. << <<"sha256">>, <<"recipient-key-id/v1">>, x >> = << <<"sha256">>, <<"recipient-key-id/v1">>, y >>
  BY DEF Wrapping!RecipientKeyId
<1> QED BY <1>1

(* A fingerprint is one secret's.                                          *)
LEMMA KeyIdTells ==
  ASSUME NEW a, NEW b, Wrapping!RecipientKeyId(PublicKey(a)) = Wrapping!RecipientKeyId(PublicKey(b))
  PROVE  a = b
<1>1. PublicKey(a) = PublicKey(b)
  BY FingerprintTells
<1> QED BY <1>1 DEF PublicKey

(* What an envelope binds.                                                 *)
AllBound(c, d, r, s) ==
  /\ Wrapping!HpkeInfo(c, r) = Wrapping!HpkeInfo(d, s) =>
       c = d /\ r.id = s.id /\ r.epoch = s.epoch /\ r.key_id = s.key_id
  /\ c = d /\ r.id = s.id /\ r.epoch = s.epoch /\ r.key_id = s.key_id =>
       /\ Wrapping!HpkeInfo(c, r) = Wrapping!HpkeInfo(d, s)
       /\ Wrapping!HpkeAad(c, r) = Wrapping!HpkeAad(d, s)

(* The info of an envelope determines the context and the recipient, and   *)
(* they the info and the additional data.                                  *)
LEMMA BindingTells ==
  ASSUME NEW c, NEW d, NEW r, NEW s
  PROVE  IsBytes(Wrapping!HpkeInfo(c, r)) /\ AllBound(c, d, r, s)
<1> DEFINE x == Wrapping!Binding(c, r)
           y == Wrapping!Binding(d, s)
           h == << <<"hpke-dek/v1">> >>
<1>1. IsBytes(x) /\ IsBytes(y) /\ IsBytes(h)
  BY ShortStrings, Zenon DEF Wrapping!Binding
<1>2. x = y => c = d /\ r.id = s.id /\ r.epoch = s.epoch /\ r.key_id = s.key_id
  BY DEF Wrapping!Binding
<1>3. c = d /\ r.id = s.id /\ r.epoch = s.epoch /\ r.key_id = s.key_id => x = y
  BY DEF Wrapping!Binding
<1> HIDE DEF x, y, h
<1>4. IsBytes(h \o x) /\ (h \o x = h \o y => x = y)
  BY <1>1, ConcatIsBytes, Cancel
<1>5. Wrapping!HpkeInfo(c, r) = h \o x /\ Wrapping!HpkeInfo(d, s) = h \o y
  BY Zenon DEF Wrapping!HpkeInfo, x, y, h
<1>6. x = y => Wrapping!HpkeAad(c, r) = Wrapping!HpkeAad(d, s)
  BY Zenon DEF Wrapping!HpkeAad, x, y
<1> QED BY <1>2, <1>3, <1>4, <1>5, <1>6, Zenon DEF AllBound

-----------------------------------------------------------------------------
Object(i) == <<"object", i>>
Text(i)   == <<"text", i>>
Fresh(i, r) == <<"ephemeral", i, r.id, r.epoch>>

Wrapped(i, context, r) ==
  Sealed("chacha20poly1305", Fresh(i, r), r.public, <<>>,
         Wrapping!HpkeInfo(context, r), Wrapping!HpkeAad(context, r), Object(i))

(* Wrapping an object secret for a device succeeds, and gives Wrapped.     *)
LEMMA WrapIs ==
  ASSUME NEW i, NEW context, NEW id, NEW epoch, NEW secret
  PROVE  LET r == Reader(id, epoch, secret)
             result == Wrapping!WrapDek(r, Fresh(i, r), Object(i), context)
         IN  result.kind = "ok" /\ result.value = Wrapped(i, context, r)
<1> DEFINE r == Reader(id, epoch, secret)
           result == Wrapping!WrapDek(r, Fresh(i, r), Object(i), context)
           info == Wrapping!HpkeInfo(context, r)
           aad == Wrapping!HpkeAad(context, r)
           eph == Fresh(i, r)
           suite == "chacha20poly1305"
           none == <<>>
           text == Object(i)
           public == r.public
<1>1. result = SealWith(suite, eph, public, none, info, aad, text)
  BY WrappingTerms, Zenon DEF Wrapping!WrapDek
<1>2. Agrees(public) /\ TakesBaseNonce(suite)
  <2>1. public = PublicKey(secret)
    BY DeviceIs
  <2> HIDE DEF public
  <2> QED BY <2>1 DEF Agrees, TakesBaseNonce, PublicKey, SmallOrder
<1> HIDE DEF info, aad, eph, suite, none, text, public, result
<1>3. result.kind = "ok" /\ result.value = Sealed(suite, eph, public, none, info, aad, text)
  BY <1>1, <1>2, SealWithIs
<1> QED BY <1>3, Zenon DEF Wrapped, info, aad, eph, suite, none, text, public, result

(* An envelope gives its object secret to its own recipient in its own     *)
(* context, and an error to all others.                                    *)
Unwraps(i, context, id, epoch, secret, context2, id2, epoch2, secret2, e) ==
  LET dek == Wrapping!UnwrapDek(context2, e, Device(id2, epoch2, secret2))
  IN  IF context2 = context /\ id2 = id /\ epoch2 = epoch /\ secret2 = secret
      THEN dek = Ok(Object(i)) ELSE dek.kind = "err"

(* Unwrapping gives the object secret with the device and context it was   *)
(* wrapped for, and an error with any other.                               *)
LEMMA UnwrapIs ==
  ASSUME NEW i, NEW context, NEW id, NEW epoch, NEW secret, NEW context2, NEW id2, NEW epoch2,
         NEW secret2, NEW e, e.sealed = Wrapped(i, context, Reader(id, epoch, secret))
  PROVE  Unwraps(i, context, id, epoch, secret, context2, id2, epoch2, secret2, e)
<1> DEFINE r == Reader(id, epoch, secret)
           k == Device(id2, epoch2, secret2)
           info == Wrapping!HpkeInfo(context, r)
           aad == Wrapping!HpkeAad(context, r)
           info2 == Wrapping!HpkeInfo(context2, k.recipient)
           aad2 == Wrapping!HpkeAad(context2, k.recipient)
           eph == Fresh(i, r)
           suite == "chacha20poly1305"
           none == <<>>
           text == Object(i)
           public == r.public
           enc == <<PublicKey(eph)>>
           sent == Sealed(suite, eph, public, none, info, aad, text)
           dek == Wrapping!UnwrapDek(context2, e, k)
           same == Same(suite, eph, public, none, info, aad, suite, secret2, enc, none, info2, aad2)
           right == context2 = context /\ id2 = id /\ epoch2 = epoch /\ secret2 = secret
<1>1. e.sealed = sent
  BY Zenon DEF Wrapped
<1>2. e.sealed.enc = enc
  BY <1>1 DEF Sealed
<1>3. k.secret = secret2
  BY DeviceIs
<1>4. dek = OpenWith(suite, secret2, enc, none, info2, aad2, sent.ciphertext)
  <2>1. dek = OpenWith(suite, k.secret, e.sealed.enc, none, info2, aad2, e.sealed.ciphertext)
    BY WrappingTerms, Zenon DEF Wrapping!UnwrapDek
  <2> HIDE DEF dek, info2, aad2, sent, enc, k
  <2> QED BY <1>1, <1>2, <1>3, <2>1
<1>5. IF same THEN dek = Ok(text) ELSE dek.kind = "err"
  <2>1. TakesBaseNonce(suite)
    BY DEF TakesBaseNonce
  <2>2. IsBytes(info) /\ IsBytes(info2)
    BY BindingTells
  <2>3. AtMostOne(enc) /\ AtMostOne(none)
    BY Zenon DEF AtMostOne
  <2> HIDE DEF info, info2, enc, none, aad, aad2, eph, suite, text, public
  <2>4. Arguments(enc, none, none, info, info2)
    BY <2>2, <2>3 DEF Arguments
  <2>5. Opens(suite, eph, public, none, info, aad, text, suite, secret2, enc, none, info2, aad2)
    BY <2>1, <2>4, OpensWhatIsSealed
  <2> HIDE DEF same, dek
  <2> QED BY <1>4, <2>5, Zenon DEF Opens, same, sent
<1>6. same <=> right
  <2>1. /\ k.recipient = Reader(id2, epoch2, secret2)
        /\ r.id = id /\ r.epoch = epoch /\ r.key_id = Wrapping!RecipientKeyId(PublicKey(secret))
        /\ public = PublicKey(secret)
        /\ k.recipient.id = id2 /\ k.recipient.epoch = epoch2
        /\ k.recipient.key_id = Wrapping!RecipientKeyId(PublicKey(secret2))
    BY DeviceIs
  <2>2. none = PublicsOf(none)
    BY PublicsAre
  <2> DEFINE reader == k.recipient
  <2>5. AllBound(context2, context, reader, r)
    <3> HIDE DEF reader, r
    <3> QED BY BindingTells
  <2>3. ASSUME same PROVE right
    <3>1. info2 = info
      BY <2>3 DEF Same
    <3>2. context2 = context /\ k.recipient.id = r.id /\ k.recipient.epoch = r.epoch
          /\ k.recipient.key_id = r.key_id
      BY <2>5, <3>1, Zenon DEF AllBound
    <3>3. secret2 = secret
      BY <2>1, <3>2, KeyIdTells
    <3> QED BY <2>1, <3>2, <3>3
  <2>4. ASSUME right PROVE same
    <3>1. context2 = context /\ k.recipient.id = r.id /\ k.recipient.epoch = r.epoch
          /\ k.recipient.key_id = r.key_id
      BY <2>1, <2>4
    <3>2. info2 = info /\ aad2 = aad
      BY <2>5, <3>1, Zenon DEF AllBound
    <3> QED BY <2>1, <2>2, <2>4, <3>2, Zenon DEF Same
  <2> QED BY <2>3, <2>4
<1>7. IF right THEN dek = Ok(text) ELSE dek.kind = "err"
  <2> HIDE DEF same, right, dek, text
  <2> QED BY <1>5, <1>6
<1> QED BY <1>7, Zenon DEF Unwraps

-----------------------------------------------------------------------------
(* The keys of a record, and its payload.                                  *)
DataKey(object, context) == Wrapping!DeriveObjectKeys(object, context).data

(* A data key is one object secret's.                                      *)
LEMMA DataKeyTells ==
  ASSUME NEW x, NEW c, NEW y, NEW d, DataKey(x, c) = DataKey(y, d)
  PROVE  x = y
<1> DEFINE pc == Wrapping!Extract(<< <<c>> >>, << <<x>> >>)
           pd == Wrapping!Extract(<< <<d>> >>, << <<y>> >>)
           info == << <<"data-key/v1">> >>
<1>1. DataKey(x, c) = << <<"expand", pc, info, 32>> >> /\ DataKey(y, d) = << <<"expand", pd, info, 32>> >>
  <2>1. Wrapping!DeriveObjectKeys(x, c).data = Wrapping!Expand(pc, info, 32)
        /\ Wrapping!DeriveObjectKeys(y, d).data = Wrapping!Expand(pd, info, 32)
    BY DEF Wrapping!DeriveObjectKeys
  <2> QED BY <2>1, Zenon DEF DataKey, Wrapping!Expand
<1>2. pc = pd
  <2> HIDE DEF pc, pd, info
  <2>1. << <<"expand", pc, info, 32>> >> = << <<"expand", pd, info, 32>> >>
    BY <1>1
  <2> DEFINE a == <<"expand", pc, info, 32>>
             b == <<"expand", pd, info, 32>>
  <2>2. a = b
    <3>1. <<a>> = <<b>> BY <2>1
    <3> HIDE DEF a, b
    <3> QED BY <3>1
  <2> QED BY <2>2
<1>3. << <<"extract", << <<c>> >>, << <<x>> >> >> >> = << <<"extract", << <<d>> >>, << <<y>> >> >> >>
  BY <1>2, Zenon DEF Wrapping!Extract
<1> QED BY <1>3

Body(i, suite, context) ==
  Wrapping!Payload(DataKey(Object(i), context), <<"nonce", i>>, suite, context, Text(i))

(* The parts of a payload that the properties look at.                     *)
LEMMA BodyIs ==
  ASSUME NEW i, NEW suite, NEW context
  PROVE  /\ Body(i, suite, context)[6] = Text(i)
         /\ Body(i, suite, context)[3] = <<"nonce", i>>
         /\ Body(i, suite, context)[2] = DataKey(Object(i), context)
<1> DEFINE k == DataKey(Object(i), context)
           t == Text(i)
           o == <<"nonce", i>>
           b == Body(i, suite, context)
<1>1. b = <<"payload", k, o, suite, context, t>>
  BY Zenon DEF Body, Wrapping!Payload
<1> HIDE DEF k, t, b, o
<1>2. b[6] = t /\ b[3] = o /\ b[2] = k
  BY <1>1
<1> QED BY <1>2 DEF k, t, b, o

(* What opening a payload returns.                                         *)
PayloadOpens(x, object) ==
  LET result == Wrapping!OpenPayload(x, object)
      key    == DataKey(object, x.context)
      made   == Wrapping!Payload(key, x.payload[3], x.suite, x.context, x.payload[6])
      commit == Wrapping!CommitKey(Wrapping!DeriveObjectKeys(object, x.context).commitment,
                                   x.suite, x.context)
  IN  /\ result.kind \in {"ok", "err"}
      /\ result.kind = "ok" => x.payload = made /\ result = Ok(x.payload[6])
      /\ x.commitment = commit /\ x.payload = made => result = Ok(x.payload[6])

(* A payload opens only under the key, suite and context it carries.       *)
LEMMA OpenPayloadIs ==
  ASSUME NEW x, NEW object
  PROVE  PayloadOpens(x, object)
<1> DEFINE result == Wrapping!OpenPayload(x, object)
           key    == DataKey(object, x.context)
           made   == Wrapping!Payload(key, x.payload[3], x.suite, x.context, x.payload[6])
           commit == Wrapping!CommitKey(Wrapping!DeriveObjectKeys(object, x.context).commitment,
                                        x.suite, x.context)
<1>1. result = IF x.commitment # commit THEN Err("PayloadOpen")
               ELSE IF x.payload # made THEN Err("PayloadOpen")
               ELSE Ok(x.payload[6])
  BY Zenon DEF Wrapping!OpenPayload, DataKey, Wrapping!Err, Err, Wrapping!Ok, Ok
<1> HIDE DEF result, made, commit
<1>2. /\ result.kind \in {"ok", "err"}
      /\ result.kind = "ok" => x.payload = made /\ result = Ok(x.payload[6])
      /\ x.commitment = commit /\ x.payload = made => result = Ok(x.payload[6])
  BY <1>1 DEF Err, Ok
<1> QED BY <1>2, Zenon DEF PayloadOpens, result, made, commit

-----------------------------------------------------------------------------
Envelope(i, context, r) ==
  [id |-> r.id, epoch |-> r.epoch, key_id |-> r.key_id, sealed |-> Wrapped(i, context, r)]

RecordAs(i, context, suite, for) ==
  [context |-> context, suite |-> suite,
   commitment |-> Wrapping!CommitKey(Wrapping!DeriveObjectKeys(Object(i), context).commitment,
                                     suite, context),
   payload |-> Body(i, suite, context),
   envelopes |-> { Envelope(i, context, r) : r \in for }]

IsReader(r, pinned) ==
  \E id, epoch : \E secret \in Wrapping!Statics :
    r = Reader(id, epoch, secret) /\ Pin(id, epoch, secret) \in pinned

WasRecorded(x, i, pinned) ==
  \E context, suite, for :
    (\A r \in for : IsReader(r, pinned)) /\ x = RecordAs(i, context, suite, for)

IsDevice(k) == \E id, epoch : \E secret \in Wrapping!Statics : k = Device(id, epoch, secret)

Returned(c, x, y, e, records) ==
  [context |-> records[c].context, suite |-> records[x].suite, payload |-> records[x].payload,
   commitment |-> records[y].commitment, envelopes |-> records[e].envelopes]

ReadAs(k, c, x, y, e, records) ==
  [key |-> k, from |-> {c, x, y, e}, record |-> e,
   result |-> Wrapping!OpenValidated(k, Returned(c, x, y, e, records))]

WasRead(answer, records) ==
  \E k, c, x, y, e :
    /\ IsDevice(k) /\ c \in DOMAIN records /\ x \in DOMAIN records /\ y \in DOMAIN records
    /\ e \in DOMAIN records
    /\ answer = ReadAs(k, c, x, y, e, records)

PinnedOnly(pinned) ==
  \A x \in pinned : \E id, epoch : \E secret \in Wrapping!Statics : x = Pin(id, epoch, secret)

AllRecorded(records, pinned) ==
  IsBytes(records) /\ \A i \in DOMAIN records : WasRecorded(records[i], i, pinned)

Held(keypairs, pinned, recipients, records, answer) ==
  /\ \A k \in keypairs : IsDevice(k)
  /\ PinnedOnly(pinned)
  /\ \A r \in recipients : IsReader(r, pinned)
  /\ AllRecorded(records, pinned)
  /\ answer = <<>> \/ WasRead(answer, records)

EnvelopeInv == unit = "envelopes" => Held(s1, s2, s3, s4, s5)

(* No device, pin, recipient or record is there at first.                  *)
LEMMA EnvelopeInit == BenchInit => EnvelopeInv
<1> SUFFICES ASSUME Wrapping!Init PROVE Held(s1, s2, s3, s4, s5)
  BY Zenon DEF BenchInit, EnvelopeInv
<1>1. s1 = {} /\ s2 = {} /\ s3 = {} /\ s4 = <<>> /\ s5 = <<>>
  BY DEF Wrapping!Init, Wrapping!NoAnswer
<1>2. IsBytes(s4) /\ DOMAIN s4 = {}
  BY <1>1, ShortStrings
<1> QED BY <1>1, <1>2 DEF Held, PinnedOnly, AllRecorded

(* A step that leaves the records and adds to the rest.                    *)
LEMMA MorePinned ==
  ASSUME NEW pinned, NEW pinned2, pinned \subseteq pinned2
  PROVE  /\ \A r : IsReader(r, pinned) => IsReader(r, pinned2)
         /\ \A records : AllRecorded(records, pinned) => AllRecorded(records, pinned2)
<1>1. \A r : IsReader(r, pinned) => IsReader(r, pinned2)
  BY DEF IsReader
<1>2. \A x, i : WasRecorded(x, i, pinned) => WasRecorded(x, i, pinned2)
  BY <1>1, Zenon DEF WasRecorded
<1> QED BY <1>1, <1>2, Zenon DEF AllRecorded

(* One record more.                                                        *)
LEMMA RecordedOneMore ==
  ASSUME NEW records, NEW pinned, NEW x, AllRecorded(records, pinned),
         WasRecorded(x, Len(records) + 1, pinned)
  PROVE  AllRecorded(Append(records, x), pinned)
<1>1. PICK S : records \in Seq(S)
  BY DEF AllRecorded, IsBytes
<1> DEFINE t == Append(records, x)
           k == Len(records)
           T == S \cup {x}
<1>2. records \in Seq(T) /\ x \in T
  BY <1>1
<1> HIDE DEF T
<1>3. /\ t \in Seq(T) /\ Len(t) = k + 1 /\ k \in Nat /\ DOMAIN records = 1..k /\ DOMAIN t = 1..(k + 1)
      /\ t[k + 1] = x /\ \A i \in 1..k : t[i] = records[i]
  BY <1>2
<1> HIDE DEF t
<1>4. ASSUME NEW i \in 1..(k + 1) PROVE WasRecorded(t[i], i, pinned)
  <2>1. CASE i = k + 1
    BY <1>3, <2>1
  <2>2. CASE i # k + 1
    <3>1. i \in 1..k
      <4> HIDE DEF k
      <4> QED BY <1>3, <2>2
    <3>2. WasRecorded(records[i], i, pinned)
      BY <1>3, <3>1 DEF AllRecorded
    <3> QED BY <1>3, <3>1, <3>2
  <2> QED BY <2>1, <2>2
<1>5. AllRecorded(t, pinned)
  BY <1>3, <1>4 DEF AllRecorded, IsBytes
<1> QED BY <1>5 DEF t

(* Making a device, pinning it, handing out or resolving a recipient,      *)
(* creating a record and reading one each keep what is held.               *)
LEMMA EnvelopeStep == EnvelopeInv /\ [BenchNext]_bench => EnvelopeInv'
<1> SUFFICES ASSUME EnvelopeInv, [BenchNext]_bench, unit' = "envelopes"
             PROVE  Held(s1', s2', s3', s4', s5')
  BY DEF EnvelopeInv
<1>1. unit = "envelopes"
  BY DEF BenchNext, RestUntouched, bench
<1>2. Held(s1, s2, s3, s4, s5)
  BY <1>1 DEF EnvelopeInv
<1>3. CASE UNCHANGED <<s1, s2, s3, s4, s5>>
  BY <1>2, <1>3
<1>4. Wrapping!Next \/ UNCHANGED <<s1, s2, s3, s4, s5>>
  <2>1. ASSUME BenchNext PROVE Wrapping!Next
    BY <1>1, <2>1 DEF BenchNext
  <2>2. ASSUME UNCHANGED bench PROVE UNCHANGED <<s1, s2, s3, s4, s5>>
    BY <2>2 DEF bench, slots
  <2> QED BY <2>1, <2>2
<1> SUFFICES ASSUME Wrapping!Next PROVE Held(s1', s2', s3', s4', s5')
  BY <1>3, <1>4
<1>5. s5 = <<>>
  BY DEF Wrapping!Next, Wrapping!NoAnswer
<1>6. ASSUME NEW id \in DeviceIds, NEW epoch \in DeviceEpochs, NEW secret \in Wrapping!Statics,
             Wrapping!Generate(id, epoch, secret)
      PROVE  Held(s1', s2', s3', s4', s5')
  <2>1. /\ s1' = s1 \cup {Device(id, epoch, secret)} /\ s2' = s2 \cup {Pin(id, epoch, secret)}
        /\ s3' = s3 /\ s4' = s4 /\ s5' = s5
    BY <1>6, WrappingTerms DEF Wrapping!Generate, Device, Pin
  <2>2. \A k \in s1' : IsDevice(k)
    BY <1>2, <2>1 DEF Held, IsDevice
  <2>3. PinnedOnly(s2')
    BY <1>2, <2>1 DEF Held, PinnedOnly
  <2>4. s2 \subseteq s2'
    BY <2>1
  <2>5. (\A r \in s3' : IsReader(r, s2')) /\ AllRecorded(s4', s2')
    BY <1>2, <2>1, <2>4, MorePinned DEF Held
  <2> QED BY <1>5, <2>1, <2>2, <2>3, <2>5 DEF Held
<1>7. ASSUME NEW id \in DeviceIds, NEW epoch \in DeviceEpochs, NEW secret \in Wrapping!Statics,
             Wrapping!Restore(id, epoch, secret)
      PROVE  Held(s1', s2', s3', s4', s5')
  <2>1. /\ s1' = s1 \cup {Device(id, epoch, secret)}
        /\ s2' = s2 /\ s3' = s3 /\ s4' = s4 /\ s5' = s5
    BY <1>7 DEF Wrapping!Restore, Device
  <2>2. \A k \in s1' : IsDevice(k)
    BY <1>2, <2>1 DEF Held, IsDevice
  <2> QED BY <1>2, <2>1, <2>2 DEF Held
<1>8. ASSUME NEW x \in s2, NEW public \in Wrapping!Publics,
             Wrapping!FromVerifiedKey(x[1], x[2], public, x[3])
      PROVE  Held(s1', s2', s3', s4', s5')
  <2>1. PICK id, epoch : \E secret \in Wrapping!Statics : x = Pin(id, epoch, secret)
    BY <1>2 DEF Held, PinnedOnly
  <2>2. PICK secret \in Wrapping!Statics : x = Pin(id, epoch, secret)
    BY <2>1
  <2>3. x[1] = id /\ x[2] = epoch /\ x[3] = Wrapping!RecipientKeyId(PublicKey(secret))
    <3> DEFINE key == Wrapping!RecipientKeyId(PublicKey(secret))
    <3>1. x = <<id, epoch, key>>
      BY <2>2, Zenon DEF Pin
    <3> HIDE DEF key
    <3>2. x[1] = id /\ x[2] = epoch /\ x[3] = key
      BY <3>1
    <3> QED BY <3>2 DEF key
  <2>4. /\ Wrapping!RecipientKeyId(public) = x[3]
        /\ s3' = s3 \cup { Wrapping!Descriptor(x[1], x[2], public) }
        /\ s1' = s1 /\ s2' = s2 /\ s4' = s4 /\ s5' = s5
    BY <1>8 DEF Wrapping!FromVerifiedKey
  <2>5. public = PublicKey(secret)
    BY <2>3, <2>4, FingerprintTells
  <2>6. s3' = s3 \cup {Reader(id, epoch, secret)}
    BY <2>3, <2>4, <2>5 DEF Reader
  <2>7. IsReader(Reader(id, epoch, secret), s2)
    BY <2>2, Zenon DEF IsReader
  <2>8. \A r \in s3' : IsReader(r, s2')
    BY <1>2, <2>4, <2>6, <2>7 DEF Held
  <2> QED BY <1>2, <2>4, <2>8 DEF Held
<1>9. ASSUME NEW context \in RecordContexts, NEW suite \in Ciphers, NEW for \in SUBSET s3,
             Wrapping!Seal(context, suite, for)
      PROVE  Held(s1', s2', s3', s4', s5')
  <2> DEFINE i == Len(s4) + 1
             wrapped(r) == Wrapping!WrapDek(r, <<"ephemeral", i, r.id, r.epoch>>, <<"object", i>>, context)
             keys == Wrapping!DeriveObjectKeys(<<"object", i>>, context)
             made == [context |-> context, suite |-> suite,
                      commitment |-> Wrapping!CommitKey(keys.commitment, suite, context),
                      payload |-> Wrapping!Payload(keys.data, <<"nonce", i>>, suite, context, <<"text", i>>),
                      envelopes |-> { [id |-> r.id, epoch |-> r.epoch, key_id |-> r.key_id,
                                       sealed |-> wrapped(r).value] : r \in for }]
  <2>1. s4' = Append(s4, made) /\ s1' = s1 /\ s2' = s2 /\ s3' = s3 /\ s5' = s5
    BY <1>9, Zenon DEF Wrapping!Seal
  <2>2. \A r \in for : IsReader(r, s2)
    BY <1>2 DEF Held
  <2>3. \A r \in for : wrapped(r).value = Wrapped(i, context, r)
    <3> SUFFICES ASSUME NEW r \in for PROVE wrapped(r).value = Wrapped(i, context, r)
      OBVIOUS
    <3>1. PICK id, epoch, secret : r = Reader(id, epoch, secret)
      BY <2>2 DEF IsReader
    <3>2. Wrapping!WrapDek(r, Fresh(i, r), Object(i), context).value = Wrapped(i, context, r)
      <4> HIDE DEF i
      <4>1. Wrapping!WrapDek(Reader(id, epoch, secret), Fresh(i, Reader(id, epoch, secret)), Object(i), context).value
              = Wrapped(i, context, Reader(id, epoch, secret))
        BY WrapIs
      <4> QED BY <3>1, <4>1
    <3> QED BY <3>2, Zenon DEF Fresh, Object
  <2>4. { [id |-> r.id, epoch |-> r.epoch, key_id |-> r.key_id, sealed |-> wrapped(r).value] : r \in for }
          = { Envelope(i, context, r) : r \in for }
    <3> HIDE DEF i, wrapped
    <3>1. \A r \in for : [id |-> r.id, epoch |-> r.epoch, key_id |-> r.key_id, sealed |-> wrapped(r).value]
                           = Envelope(i, context, r)
      BY <2>3 DEF Envelope
    <3> QED BY <3>1
  <2>5. made = RecordAs(i, context, suite, for)
    BY <2>4, Zenon DEF RecordAs, Body, DataKey, Object, Text
  <2>6. WasRecorded(made, i, s2)
    <3> HIDE DEF made, i
    <3> QED BY <2>2, <2>5, Zenon DEF WasRecorded
  <2>7. AllRecorded(Append(s4, made), s2)
    <3> HIDE DEF made
    <3> QED BY <1>2, <2>6, RecordedOneMore DEF Held
  <2> HIDE DEF made
  <2> QED BY <1>2, <1>5, <2>1, <2>7 DEF Held
<1>10. ASSUME NEW k \in s1, NEW c \in DOMAIN s4, NEW x \in DOMAIN s4, NEW y \in DOMAIN s4,
              NEW e \in DOMAIN s4, Wrapping!Open(k, c, x, y, e)
       PROVE  Held(s1', s2', s3', s4', s5')
  <2>1. /\ s5' = ReadAs(k, c, x, y, e, s4)
        /\ s1' = s1 /\ s2' = s2 /\ s3' = s3 /\ s4' = s4
    BY <1>10, Zenon DEF Wrapping!Open, ReadAs, Returned
  <2>2. IsDevice(k)
    BY <1>2 DEF Held
  <2>3. WasRead(s5', s4)
    BY <2>1, <2>2, Zenon DEF WasRead
  <2> QED BY <1>2, <2>1, <2>3 DEF Held
<1>11. ASSUME NEW k \in s1, Wrapping!HandOut(k)
       PROVE  Held(s1', s2', s3', s4', s5')
  <2>1. PICK id, epoch : \E secret \in Wrapping!Statics : k = Device(id, epoch, secret)
    BY <1>2 DEF Held, IsDevice
  <2>2. PICK secret \in Wrapping!Statics : k = Device(id, epoch, secret)
    BY <2>1
  <2> DEFINE r == Reader(id, epoch, secret)
             x == Pin(id, epoch, secret)
  <2>3. k.recipient = r /\ <<k.recipient.id, k.recipient.epoch, k.recipient.key_id>> = x
    <3>1. /\ k.recipient = r /\ k.recipient.id = id /\ k.recipient.epoch = epoch
          /\ k.recipient.key_id = Wrapping!RecipientKeyId(PublicKey(secret))
      BY <2>2, DeviceIs
    <3> QED BY <3>1, Zenon DEF Pin
  <2>4. s1' = s1 /\ s2' = s2 \cup {x} /\ s3' = s3 \cup {r} /\ s4' = s4 /\ s5' = s5
    BY <1>11, <2>3, Zenon DEF Wrapping!HandOut
  <2>5. s2 \subseteq s2' /\ x \in s2'
    BY <2>4
  <2>6. IsReader(r, s2')
    BY <2>2, <2>5, Zenon DEF IsReader
  <2>7. PinnedOnly(s2')
    BY <1>2, <2>2, <2>4 DEF Held, PinnedOnly
  <2> HIDE DEF r, x
  <2>8. (\A v \in s3' : IsReader(v, s2')) /\ AllRecorded(s4', s2')
    BY <1>2, <2>4, <2>5, <2>6, MorePinned DEF Held
  <2> QED BY <1>2, <1>5, <2>4, <2>7, <2>8 DEF Held
<1> QED BY <1>6, <1>7, <1>8, <1>9, <1>10, <1>11 DEF Wrapping!Next

-----------------------------------------------------------------------------
(* An envelope of a record, and the reader it was made for.                *)
LEMMA EnvelopeOf ==
  ASSUME NEW records, NEW pinned, AllRecorded(records, pinned),
         NEW i \in DOMAIN records, NEW e \in records[i].envelopes
  PROVE  \E id, epoch : \E secret \in Wrapping!Statics :
           /\ e.id = id /\ e.epoch = epoch
           /\ e.key_id = Wrapping!RecipientKeyId(PublicKey(secret))
           /\ e.sealed = Wrapped(i, records[i].context, Reader(id, epoch, secret))
           /\ <<e.id, e.epoch, e.key_id>> \in pinned
<1>1. PICK context, suite, for :
        (\A r \in for : IsReader(r, pinned)) /\ records[i] = RecordAs(i, context, suite, for)
  BY DEF AllRecorded, WasRecorded
<1>2. records[i].envelopes = { Envelope(i, context, r) : r \in for } /\ records[i].context = context
  BY <1>1 DEF RecordAs
<1>3. PICK r \in for : e = Envelope(i, context, r)
  BY <1>2
<1>4. PICK id, epoch : \E secret \in Wrapping!Statics :
        r = Reader(id, epoch, secret) /\ Pin(id, epoch, secret) \in pinned
  BY <1>1 DEF IsReader
<1>5. PICK secret \in Wrapping!Statics :
        r = Reader(id, epoch, secret) /\ Pin(id, epoch, secret) \in pinned
  BY <1>4
<1>6. e.id = r.id /\ e.epoch = r.epoch /\ e.key_id = r.key_id /\ e.sealed = Wrapped(i, context, r)
  BY <1>3 DEF Envelope
<1>7. /\ r.id = id /\ r.epoch = epoch /\ r.key_id = Wrapping!RecipientKeyId(PublicKey(secret))
  BY <1>5, DeviceIs
<1>8. <<e.id, e.epoch, e.key_id>> = Pin(id, epoch, secret)
  BY <1>6, <1>7 DEF Pin
<1> QED BY <1>2, <1>5, <1>6, <1>7, <1>8

(* An envelope goes to a pinned key only, and never to the server's.       *)
LEMMA PinnedGetEnvelopes ==
  ASSUME AllRecorded(s4, s2)
  PROVE  Wrapping!OnlyPinnedKeysGetEnvelopes
<1> SUFFICES ASSUME NEW i \in DOMAIN s4, NEW e \in s4[i].envelopes
             PROVE  /\ <<e.id, e.epoch, e.key_id>> \in s2
                    /\ e.key_id # Wrapping!RecipientKeyId(Wrapping!PublicKey(Wrapping!Server))
  BY Zenon DEF Wrapping!OnlyPinnedKeysGetEnvelopes
<1>1. PICK secret \in Wrapping!Statics :
        /\ e.key_id = Wrapping!RecipientKeyId(PublicKey(secret))
        /\ <<e.id, e.epoch, e.key_id>> \in s2
  BY EnvelopeOf
<1>2. secret # Wrapping!Server
  <2>1. PICK x \in DeviceSecrets : secret = <<"static", x>>
    BY DEF Wrapping!Statics
  <2>2. x # ServerSecret
    BY DevicesAssumption
  <2> QED BY <2>1, <2>2 DEF Wrapping!Server
<1>3. ASSUME e.key_id = Wrapping!RecipientKeyId(Wrapping!PublicKey(Wrapping!Server)) PROVE FALSE
  <2>1. Wrapping!RecipientKeyId(PublicKey(secret)) = Wrapping!RecipientKeyId(PublicKey(Wrapping!Server))
    BY <1>1, <1>3, WrappingTerms
  <2> QED BY <1>2, <2>1, KeyIdTells
<1> QED BY <1>1, <1>3

(* An envelope moved to another record unwraps for no one.                 *)
LEMMA ContextsKept ==
  ASSUME AllRecorded(s4, s2), \A k \in s1 : IsDevice(k)
  PROVE  Wrapping!EnvelopeStaysInContext
<1> SUFFICES ASSUME NEW i \in DOMAIN s4, NEW j \in DOMAIN s4, NEW k \in s1, NEW e \in s4[i].envelopes,
                    Wrapping!UnwrapDek(s4[j].context, e, k).kind = "ok"
             PROVE  /\ s4[i].context = s4[j].context
                    /\ <<e.id, e.epoch>> = <<k.recipient.id, k.recipient.epoch>>
  BY Zenon DEF Wrapping!EnvelopeStaysInContext
<1>0. PICK id, epoch : \E secret \in Wrapping!Statics :
        /\ e.id = id /\ e.epoch = epoch
        /\ e.key_id = Wrapping!RecipientKeyId(PublicKey(secret))
        /\ e.sealed = Wrapped(i, s4[i].context, Reader(id, epoch, secret))
        /\ <<e.id, e.epoch, e.key_id>> \in s2
  BY EnvelopeOf
<1>1. PICK secret \in Wrapping!Statics :
        /\ e.id = id /\ e.epoch = epoch
        /\ e.sealed = Wrapped(i, s4[i].context, Reader(id, epoch, secret))
  BY <1>0
<1>2. PICK id2, epoch2, secret2 : k = Device(id2, epoch2, secret2)
  BY DEF IsDevice
<1> DEFINE c == s4[i].context
           d == s4[j].context
<1>3. Unwraps(i, c, id, epoch, secret, d, id2, epoch2, secret2, e)
  <2> HIDE DEF c, d
  <2>1. e.sealed = Wrapped(i, c, Reader(id, epoch, secret))
    BY <1>1 DEF c
  <2> QED BY <2>1, UnwrapIs
<1>4. d = c /\ id2 = id /\ epoch2 = epoch
  <2> DEFINE dek == Wrapping!UnwrapDek(d, e, Device(id2, epoch2, secret2))
  <2>1. dek.kind = "ok"
    BY <1>2
  <2>2. IF d = c /\ id2 = id /\ epoch2 = epoch /\ secret2 = secret
        THEN dek = Ok(Object(i)) ELSE dek.kind = "err"
    BY <1>3, Zenon DEF Unwraps
  <2> HIDE DEF dek, c, d
  <2> QED BY <2>1, <2>2
<1>5. k.recipient.id = id2 /\ k.recipient.epoch = epoch2
  BY <1>2, DeviceIs
<1> QED BY <1>1, <1>4, <1>5

(* What a device reads, of one record or put together of several.          *)
LEMMA ReadsOwn ==
  ASSUME AllRecorded(s4, s2), s5 = <<>> \/ WasRead(s5, s4)
  PROVE  Wrapping!ReadsOnlyItsRecords
<1> SUFFICES ASSUME s5 # <<>>
             PROVE  /\ Wrapping!Whole /\ Wrapping!WasFor(s5.key, s5.record) =>
                         s5.result = Wrapping!Ok(<<"text", s5.record>>)
                    /\ s5.result.kind = "ok" =>
                         /\ Wrapping!WasFor(s5.key, s5.record)
                         /\ s5.result.value = <<"text", s5.record>>
  BY Zenon DEF Wrapping!ReadsOnlyItsRecords, Wrapping!NoAnswer
<1>1. PICK k, c, x, y, e :
        /\ IsDevice(k) /\ c \in DOMAIN s4 /\ x \in DOMAIN s4 /\ y \in DOMAIN s4
        /\ e \in DOMAIN s4
        /\ s5 = ReadAs(k, c, x, y, e, s4)
  BY DEF WasRead
<1> DEFINE whole  == Returned(c, x, y, e, s4)
           mine   == { v \in s4[e].envelopes : Wrapping!Matches(v, k.recipient) }
           mail   == CHOOSE v \in mine : TRUE
           dek    == Wrapping!UnwrapDek(s4[c].context, mail, k)
           result == Wrapping!OpenValidated(k, whole)
           for_me == Wrapping!WasFor(k, e)
<1>2. s5.key = k /\ s5.from = {c, x, y, e} /\ s5.record = e /\ s5.result = result
  BY <1>1 DEF ReadAs
<1>3. /\ whole.context = s4[c].context /\ whole.suite = s4[x].suite /\ whole.payload = s4[x].payload
      /\ whole.commitment = s4[y].commitment /\ whole.envelopes = s4[e].envelopes
  BY DEF Returned
<1>4. result = IF mine = {} THEN Err("NoEnvelopeForRecipient")
               ELSE IF dek.kind = "err" THEN Err("HpkeOpen")
               ELSE Wrapping!OpenPayload(whole, dek.value)
  <2> HIDE DEF whole
  <2>1. result = IF { v \in whole.envelopes : Wrapping!Matches(v, k.recipient) } = {}
                 THEN Err("NoEnvelopeForRecipient")
                 ELSE IF Wrapping!UnwrapDek(whole.context,
                           CHOOSE v \in { v \in whole.envelopes : Wrapping!Matches(v, k.recipient) } : TRUE,
                           k).kind = "err" THEN Err("HpkeOpen")
                 ELSE Wrapping!OpenPayload(whole, Wrapping!UnwrapDek(whole.context,
                           CHOOSE v \in { v \in whole.envelopes : Wrapping!Matches(v, k.recipient) } : TRUE,
                           k).value)
    BY Zenon DEF Wrapping!OpenValidated, Wrapping!Err, Err
  <2> QED BY <1>3, <2>1, Zenon
<1>5. mine # {} <=> for_me
  <2>1. \A v : Wrapping!Matches(v, k.recipient) <=>
                 <<v.id, v.epoch, v.key_id>>
                   = <<k.recipient.id, k.recipient.epoch, k.recipient.key_id>>
    BY DEF Wrapping!Matches
  <2> QED BY <2>1, Zenon DEF Wrapping!WasFor
<1>6. CASE mine = {}
  <2>1. result.kind = "err" /\ ~ for_me
    <3> HIDE DEF result, mine, dek, for_me
    <3> QED BY <1>4, <1>5, <1>6 DEF Err
  <2> HIDE DEF result, for_me
  <2> QED BY <1>2, <2>1 DEF for_me
<1>7. CASE mine # {}
  <2>1. mail \in mine
    <3> HIDE DEF mine
    <3> QED BY <1>7
  <2>2. mail \in s4[e].envelopes /\ Wrapping!Matches(mail, k.recipient)
    <3> HIDE DEF mail
    <3> QED BY <2>1
  <2> HIDE DEF mail
  <2>13. PICK id, epoch : \E secret \in Wrapping!Statics :
           /\ mail.id = id /\ mail.epoch = epoch
           /\ mail.key_id = Wrapping!RecipientKeyId(PublicKey(secret))
           /\ mail.sealed = Wrapped(e, s4[e].context, Reader(id, epoch, secret))
           /\ <<mail.id, mail.epoch, mail.key_id>> \in s2
    BY <1>1, <2>2, EnvelopeOf
  <2>3. PICK secret \in Wrapping!Statics :
          /\ mail.id = id /\ mail.epoch = epoch
          /\ mail.key_id = Wrapping!RecipientKeyId(PublicKey(secret))
          /\ mail.sealed = Wrapped(e, s4[e].context, Reader(id, epoch, secret))
    BY <2>13
  <2>4. PICK id2, epoch2, secret2 : k = Device(id2, epoch2, secret2)
    BY <1>1 DEF IsDevice
  <2>5. id2 = id /\ epoch2 = epoch /\ secret2 = secret
    <3>1. /\ k.recipient.id = id2 /\ k.recipient.epoch = epoch2
          /\ k.recipient.key_id = Wrapping!RecipientKeyId(PublicKey(secret2))
      BY <2>4, DeviceIs
    <3>2. mail.id = k.recipient.id /\ mail.epoch = k.recipient.epoch /\ mail.key_id = k.recipient.key_id
      BY <2>2 DEF Wrapping!Matches
    <3> QED BY <2>3, <3>1, <3>2, KeyIdTells
  <2>6. IF s4[c].context = s4[e].context THEN dek = Ok(Object(e)) ELSE dek.kind = "err"
    <3> DEFINE f == s4[e].context
               d == s4[c].context
    <3>1. Unwraps(e, f, id, epoch, secret, d, id2, epoch2, secret2, mail)
      <4>1. mail.sealed = Wrapped(e, f, Reader(id, epoch, secret))
        BY <2>3
      <4> HIDE DEF f, d
      <4> QED BY <4>1, UnwrapIs
    <3>2. IF d = f /\ id2 = id /\ epoch2 = epoch /\ secret2 = secret
          THEN Wrapping!UnwrapDek(d, mail, Device(id2, epoch2, secret2)) = Ok(Object(e))
          ELSE Wrapping!UnwrapDek(d, mail, Device(id2, epoch2, secret2)).kind = "err"
      BY <3>1, Zenon DEF Unwraps
    <3>3. dek = Wrapping!UnwrapDek(d, mail, Device(id2, epoch2, secret2))
      BY <2>4
    <3> HIDE DEF f, d, dek
    <3>4. IF d = f THEN dek = Ok(Object(e)) ELSE dek.kind = "err"
      BY <2>5, <3>2, <3>3
    <3> QED BY <3>4 DEF f, d
  <2> HIDE DEF dek, mine
  <2>7. ASSUME dek.kind # "err"
        PROVE  result = Wrapping!OpenPayload(whole, Object(e)) /\ s4[c].context = s4[e].context
    <3>1. dek = Ok(Object(e)) /\ s4[c].context = s4[e].context
      BY <2>6, <2>7
    <3>2. dek.value = Object(e)
      BY <3>1 DEF Ok
    <3> QED BY <1>4, <1>7, <2>7, <3>1, <3>2
  <2>8. PayloadOpens(whole, Object(e))
    <3> HIDE DEF whole
    <3> QED BY OpenPayloadIs
  <2> DEFINE opened == Wrapping!OpenPayload(whole, Object(e))
             key    == DataKey(Object(e), whole.context)
             made   == Wrapping!Payload(key, whole.payload[3], whole.suite, whole.context, whole.payload[6])
             commit == Wrapping!CommitKey(Wrapping!DeriveObjectKeys(Object(e), whole.context).commitment,
                                          whole.suite, whole.context)
  <2>9. /\ opened.kind \in {"ok", "err"}
        /\ opened.kind = "ok" => whole.payload = made /\ opened = Ok(whole.payload[6])
        /\ whole.commitment = commit /\ whole.payload = made => opened = Ok(whole.payload[6])
    BY <2>8, Zenon DEF PayloadOpens
  <2>10. ASSUME result.kind = "ok" PROVE s5.result.value = <<"text", s5.record>>
    <3>1. dek.kind # "err"
      <4> HIDE DEF result
      <4> QED BY <1>4, <1>7, <2>10 DEF Err
    <3>2. opened = result
      BY <2>7, <3>1
    <3>3. whole.payload = made /\ result = Ok(whole.payload[6])
      <4> HIDE DEF opened, result, made, whole
      <4> QED BY <2>9, <2>10, <3>2
    <3>4. PICK context, suite, for :
            (\A r \in for : IsReader(r, s2)) /\ s4[x] = RecordAs(x, context, suite, for)
      BY <1>1 DEF AllRecorded, WasRecorded
    <3>5. whole.payload = Body(x, suite, context)
      <4>1. s4[x].payload = Body(x, suite, context)
        BY <3>4 DEF RecordAs
      <4> QED BY <1>3, <4>1
    <3>6. key = DataKey(Object(x), context)
      <4>1. Body(x, suite, context)[2] = DataKey(Object(x), context)
        BY BodyIs
      <4>2. made[2] = key
        <5> DEFINE a3 == whole.payload[3]
                   a4 == whole.suite
                   a5 == whole.context
                   a6 == whole.payload[6]
        <5>1. made = <<"payload", key, a3, a4, a5, a6>>
          BY Zenon DEF Wrapping!Payload
        <5> HIDE DEF made, key, a3, a4, a5, a6
        <5> QED BY <5>1
      <4> HIDE DEF made, key, whole
      <4> QED BY <3>3, <3>5, <4>1, <4>2
    <3>7. Object(e) = Object(x)
      BY <3>6, DataKeyTells
    <3>8. e = x
      BY <3>7 DEF Object
    <3>9. whole.payload[6] = Text(e)
      <4> HIDE DEF whole
      <4> QED BY <3>5, <3>8, BodyIs
    <3> HIDE DEF result, whole
    <3> QED BY <1>2, <3>3, <3>9 DEF Ok, Text
  <2>11. ASSUME Wrapping!Whole PROVE s5.result = Wrapping!Ok(<<"text", s5.record>>)
    <3>1. c = e /\ x = e /\ y = e
      BY <1>2, <2>11 DEF Wrapping!Whole
    <3>2. dek = Ok(Object(e))
      BY <2>6, <3>1
    <3>3. result = opened
      <4>1. dek.kind # "err"
        BY <3>2 DEF Ok
      <4> QED BY <2>7, <4>1
    <3>4. PICK context, suite, for :
            (\A r \in for : IsReader(r, s2)) /\ s4[e] = RecordAs(e, context, suite, for)
      BY <1>1 DEF AllRecorded, WasRecorded
    <3>5. /\ whole.context = context /\ whole.suite = suite
          /\ whole.payload = Body(e, suite, context)
          /\ whole.commitment = Wrapping!CommitKey(
               Wrapping!DeriveObjectKeys(Object(e), context).commitment, suite, context)
      <4>1. /\ s4[e].context = context /\ s4[e].suite = suite
            /\ s4[e].payload = Body(e, suite, context)
            /\ s4[e].commitment = Wrapping!CommitKey(
                 Wrapping!DeriveObjectKeys(Object(e), context).commitment, suite, context)
        BY <3>4 DEF RecordAs
      <4> HIDE DEF whole
      <4> QED BY <1>3, <3>1, <4>1
    <3>6. whole.payload[6] = Text(e) /\ whole.payload[3] = <<"nonce", e>>
      <4> HIDE DEF whole
      <4> QED BY <3>5, BodyIs
    <3>7. whole.commitment = commit /\ whole.payload = made
      <4> HIDE DEF whole
      <4>1. made = Wrapping!Payload(DataKey(Object(e), context), <<"nonce", e>>, suite, context, Text(e))
        BY <3>5, <3>6
      <4>2. whole.payload = made
        BY <3>5, <4>1, Zenon DEF Body
      <4>3. whole.commitment = commit
        BY <3>5
      <4> QED BY <4>2, <4>3
    <3>8. result = Ok(Text(e))
      <4> HIDE DEF result, opened, whole, made, commit
      <4> QED BY <2>9, <3>3, <3>6, <3>7
    <3> HIDE DEF result
    <3> QED BY <1>2, <3>8, Zenon DEF Text, Wrapping!Ok, Ok
  <2>12. for_me
    BY <1>5, <1>7
  <2> HIDE DEF result, for_me
  <2> QED BY <1>2, <2>10, <2>11, <2>12 DEF for_me
<1> QED BY <1>6, <1>7

(* hpke::open and auth_open open what seal and auth_seal made for the      *)
(* right arguments only and no two payloads share a key; what              *)
(* open_validated gives a device comes whole from one record sealed to it, *)
(* seal gives envelopes to pinned keys only, and unwrap_dek gives nothing  *)
(* in another context.                                                     *)
THEOREM EnvelopesOpenForTheirParties == BenchSpec => []OpensForItsPartiesOnly
<1>1. HpkeInv => (unit = "hpke" => Sealing!OpensAsSealed /\ Sealing!KeysAreFresh)
  BY SealedOpens, SealedKeysFresh DEF HpkeInv
<1>2. EnvelopeInv => (unit = "envelopes" =>
        Wrapping!ReadsOnlyItsRecords /\ Wrapping!OnlyPinnedKeysGetEnvelopes
          /\ Wrapping!EnvelopeStaysInContext)
  BY ReadsOwn, PinnedGetEnvelopes, ContextsKept DEF EnvelopeInv, Held
<1>3. HpkeInv /\ EnvelopeInv => OpensForItsPartiesOnly
  BY <1>1, <1>2 DEF OpensForItsPartiesOnly
<1> QED BY <1>3, HpkeInit, HpkeStep, EnvelopeInit, EnvelopeStep, PTL DEF BenchSpec
=============================================================================

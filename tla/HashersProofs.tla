---------------------------- MODULE HashersProofs ----------------------------
(***************************************************************************)
(* The streaming primitives of blindplane-crypto, SHA-2, Poly1305 and      *)
(* BLAKE2b: each keeps a block buffer of its own and must return what one  *)
(* call on the whole message would.  It is shown here of HashersSpec, for  *)
(* every message and every cut of it into calls.                           *)
(***************************************************************************)
EXTENDS MCSecrets, SequencesExt, FiniteSetTheorems, SequenceTheorems, TLAPS

-----------------------------------------------------------------------------
(* A set of naturals has a least element.                                  *)
LEMMA LeastOf ==
  ASSUME NEW S, S \subseteq Nat, S # {}
  PROVE  \E x \in S : \A y \in S : x <= y
<1> DEFINE D == { 0..x : x \in S }
<1>1. D \subseteq FiniteSubsetsOf(Nat) /\ D # {}
  <2>1. ASSUME NEW x \in S PROVE 0..x \in FiniteSubsetsOf(Nat)
    <3>1. IsFiniteSet(0..x) BY FS_Interval
    <3> QED BY <3>1 DEF FiniteSubsetsOf
  <2> QED BY <2>1
<1>2. PICK d \in D : \A e \in D : <<e, d>> \notin StrictSubsetOrdering(Nat)
  <2> HIDE DEF D
  <2> QED BY <1>1, FS_StrictSubsetOrderingWellFounded, WFMin
<1>3. PICK x \in S : d = 0..x
  OBVIOUS
<1>4. ASSUME NEW y \in S, y < x PROVE FALSE
  <2>1. 0..y \in D /\ 0..y \subseteq 0..x /\ x \in 0..x /\ x \notin 0..y
    BY <1>4
  <2>2. <<0..y, 0..x>> \in StrictSubsetOrdering(Nat)
    BY <2>1 DEF StrictSubsetOrdering
  <2> QED BY <1>2, <1>3, <2>1, <2>2
<1> QED BY <1>4

(* A function on 1..n is a sequence of length n.                           *)
IsList(f, n) == f = [i \in 1..n |-> f[i]]

(* Its length is n, and its elements are its values.                       *)
LEMMA ListIs ==
  ASSUME NEW n \in Nat, NEW f, IsList(f, n)
  PROVE  /\ Len(f) = n /\ DOMAIN f = 1..n
         /\ \E S : f \in Seq(S)
<1> DEFINE S == { f[i] : i \in 1..n }
<1>1. f \in [1..n -> S] BY DEF IsList
<1> HIDE DEF S
<1>2. f \in Seq(S) BY <1>1
<1>3. DOMAIN f = 1..n BY <1>1
<1>4. Len(f) = n BY <1>2, <1>3
<1> QED BY <1>2, <1>3, <1>4

(* One list behind another.                                                *)
Joins(f, m, g, n) ==
  /\ IsList(f \o g, m + n)
  /\ \A i \in 1..(m + n) : (f \o g)[i] = IF i <= m THEN f[i] ELSE g[i - m]

(* It is a list again.                                                     *)
LEMMA JoinIs ==
  ASSUME NEW m \in Nat, NEW n \in Nat, NEW f, NEW g, IsList(f, m), IsList(g, n)
  PROVE  Joins(f, m, g, n)
<1>1. Len(f) = m /\ Len(g) = n BY ListIs
<1>2. PICK S : f \in Seq(S) BY ListIs
<1>3. PICK T : g \in Seq(T) BY ListIs
<1>4. f \in Seq(S \cup T) /\ g \in Seq(S \cup T) BY <1>2, <1>3
<1>5. f \o g \in Seq(S \cup T) /\ Len(f \o g) = m + n
  BY <1>1, <1>4, ConcatProperties
<1>6. \A i \in 1..(m + n) : (f \o g)[i] = IF i <= m THEN f[i] ELSE g[i - m]
  BY <1>1, <1>4, ConcatProperties
<1>7. m + n \in Nat OBVIOUS
<1>8. IsList(f \o g, m + n)
  <2> DEFINE h == f \o g
             k == m + n
  <2>1. h \in Seq(S \cup T) /\ Len(h) = k BY <1>5
  <2> HIDE DEF h, k
  <2>2. h = [i \in 1..k |-> h[i]] BY <2>1
  <2> QED BY <2>2 DEF IsList, h, k
<1> QED BY <1>6, <1>8 DEF Joins

(* Quotient and remainder.                                                 *)
LEMMA DivisionIs ==
  ASSUME NEW a \in Nat, NEW d \in Nat, d > 0
  PROVE  a \div d \in Nat /\ a % d \in 0..(d - 1) /\ a = d * (a \div d) + (a % d)
OBVIOUS

(* Division by d is what the quotient and the remainder are.               *)
LEMMA QuotientIs ==
  ASSUME NEW a \in Int, NEW d \in Nat, d > 0, NEW q \in Int, NEW r \in 0..(d - 1), a = d * q + r
  PROVE  a \div d = q /\ a % d = r
<1>1. a \div d = q OBVIOUS
<1>2. a % d = r OBVIOUS
<1> QED BY <1>1, <1>2

(* Rounding up: q is the least number of d's that cover a.                 *)
LEMMA CeilingIs ==
  ASSUME NEW a \in Nat, NEW d \in Nat, d > 0, NEW q \in Nat, a <= d * q,
         q = 0 \/ d * (q - 1) < a
  PROVE  (a + d - 1) \div d = q
<1>1. CASE q = 0
  <2>1. a = 0 BY <1>1
  <2>2. (d - 1) \div d = 0 OBVIOUS
  <2> QED BY <1>1, <2>1, <2>2
<1>2. CASE q # 0
  <2>1. PICK p \in Nat : q = p + 1
    <3>1. q - 1 \in Nat /\ q = (q - 1) + 1 BY <1>2
    <3> QED BY <3>1
  <2>2. d * q = d * p + d /\ d * p \in Nat BY <2>1
  <2>3. d * p < a BY <1>2, <2>1
  <2> DEFINE r == a + d - 1 - d * q
  <2>4. r \in 0..(d - 1) BY <2>2, <2>3
  <2>5. a + d - 1 = d * q + r /\ a + d - 1 \in Int BY <2>2
  <2> HIDE DEF r
  <2> QED BY <2>4, <2>5, QuotientIs
<1> QED BY <1>1, <1>2


(* Induction over the naturals, for a set instead of a predicate.          *)
LEMMA Induction ==
  ASSUME NEW S, 0 \in S, \A n \in Nat : n \in S => n + 1 \in S
  PROVE  \A n \in Nat : n \in S
<1> DEFINE T == Nat \ S
<1>1. SUFFICES ASSUME T # {} PROVE FALSE
  OBVIOUS
<1>2. PICK x \in T : \A y \in T : x <= y
  <2>1. T \subseteq Nat OBVIOUS
  <2> HIDE DEF T
  <2> QED BY <1>1, <2>1, LeastOf
<1>3. x \in Nat \ {0} /\ x \notin S
  OBVIOUS
<1>4. x - 1 \in Nat /\ (x - 1) + 1 = x /\ x - 1 < x
  BY <1>3
<1>5. x - 1 \in S
  BY <1>2, <1>4
<1> QED BY <1>3, <1>4, <1>5

-----------------------------------------------------------------------------
(* Blocks of a message.  The first n of b bytes each.                      *)
Place(i, j, b)     == (i - 1) * b + j
BlocksOf(p, n, b)  == [i \in 1..n |-> [j \in 1..b |-> p[Place(i, j, b)]]]
(* The first m bytes.                                                      *)
Begin(p, m)        == [x \in 1..m |-> p[x]]
(* The bytes from place m + 1 on, k of them.                               *)
Part(p, m, k)      == [x \in 1..k |-> p[m + x]]

(* g is p up to place m and then d, k bytes of it.                         *)
Continues(g, p, m, d, k) ==
  /\ \A x \in 1..m : g[x] = p[x]
  /\ \A x \in 1..k : g[m + x] = d[x]

(* Places of the first n blocks are within n * b.                          *)
LEMMA PlaceIn ==
  ASSUME NEW b \in Nat, NEW n \in Nat, NEW i \in 1..n, NEW j \in 1..b
  PROVE  Place(i, j, b) \in 1..(n * b) /\ Place(i, j, b) \in Nat
<1>1. PICK d \in Nat : n = i + d
  <2>1. n - i \in Nat /\ n = i + (n - i) OBVIOUS
  <2> QED BY <2>1
<1>2. PICK e \in Nat : i = e + 1
  <2>1. i - 1 \in Nat /\ i = (i - 1) + 1 OBVIOUS
  <2> QED BY <2>1
<1>3. i - 1 = e /\ n = e + d + 1 BY <1>1, <1>2
<1>4. n * b = e * b + d * b + b /\ e * b \in Nat /\ d * b \in Nat /\ n * b \in Nat
  BY <1>3
<1>5. (i - 1) * b = e * b BY <1>3
<1>6. Place(i, j, b) = e * b + j BY <1>5 DEF Place
<1> HIDE DEF Place
<1> QED BY <1>4, <1>6

(* A whole number of blocks behind n blocks moves the place.               *)
LEMMA PlaceBehind ==
  ASSUME NEW b \in Nat, NEW n \in Nat, NEW i \in Nat, i > n, NEW j \in 1..b
  PROVE  Place(i, j, b) = n * b + Place(i - n, j, b)
<1>1. PICK d \in Nat : i = n + d + 1
  <2>1. i - n - 1 \in Nat /\ i = n + (i - n - 1) + 1 OBVIOUS
  <2> QED BY <2>1
<1>2. i - 1 = n + d /\ (i - n) - 1 = d BY <1>1
<1>3. (n + d) * b = n * b + d * b OBVIOUS
<1>4. (i - 1) * b = n * b + d * b /\ ((i - n) - 1) * b = d * b BY <1>2, <1>3
<1>5. n * b \in Int /\ d * b \in Int OBVIOUS
<1> QED BY <1>4, <1>5 DEF Place

(* Messages that agree have the same blocks.                               *)
LEMMA SameBlocks ==
  ASSUME NEW b \in Nat, NEW n \in Nat, NEW p, NEW q,
         \A x \in 1..(n * b) : p[x] = q[x]
  PROVE  BlocksOf(p, n, b) = BlocksOf(q, n, b)
<1>1. ASSUME NEW i \in 1..n, NEW j \in 1..b PROVE p[Place(i, j, b)] = q[Place(i, j, b)]
  BY PlaceIn
<1> QED BY <1>1 DEF BlocksOf

(* Blocks of one message behind those of another that fills its own.       *)
LEMMA JoinBlocks ==
  ASSUME NEW b \in Nat, NEW n \in Nat, NEW k \in Nat, NEW p, NEW d, NEW q,
         Continues(q, p, n * b, d, k * b)
  PROVE  BlocksOf(p, n, b) \o BlocksOf(d, k, b) = BlocksOf(q, n + k, b)
<1> DEFINE P == BlocksOf(p, n, b)
           D == BlocksOf(d, k, b)
           Q == BlocksOf(q, n + k, b)
<1>0. /\ \A x \in 1..(n * b) : q[x] = p[x]
      /\ \A x \in 1..(k * b) : q[n * b + x] = d[x]
  BY DEF Continues
<1>1. IsList(P, n) /\ IsList(D, k) /\ IsList(Q, n + k)
  BY DEF IsList, BlocksOf
<1>2. ASSUME NEW i \in 1..(n + k) PROVE Q[i] = IF i <= n THEN P[i] ELSE D[i - n]
  <2>1. CASE i <= n
    <3>1. i \in 1..n BY <2>1
    <3>2. \A j \in 1..b : q[Place(i, j, b)] = p[Place(i, j, b)] BY <1>0, <3>1, PlaceIn
    <3> QED BY <3>1, <3>2 DEF BlocksOf
  <2>2. CASE ~(i <= n)
    <3>1. i - n \in 1..k /\ i \in Nat /\ i > n BY <2>2
    <3>2. ASSUME NEW j \in 1..b PROVE q[Place(i, j, b)] = d[Place(i - n, j, b)]
      <4>1. Place(i, j, b) = n * b + Place(i - n, j, b) BY <3>1, PlaceBehind
      <4>2. Place(i - n, j, b) \in 1..(k * b) BY <3>1, PlaceIn
      <4> QED BY <1>0, <4>1, <4>2
    <3> QED BY <2>2, <3>1, <3>2 DEF BlocksOf
  <2> QED BY <2>1, <2>2
<1> HIDE DEF P, D, Q
<1>3. Joins(P, n, D, k) BY <1>1, JoinIs
<1>4. P \o D = [i \in 1..(n + k) |-> (P \o D)[i]] BY <1>3 DEF Joins, IsList
<1>5. Q = [i \in 1..(n + k) |-> Q[i]] BY <1>1 DEF IsList
<1>6. \A i \in 1..(n + k) : (P \o D)[i] = Q[i] BY <1>2, <1>3 DEF Joins
<1>7. P \o D = Q BY <1>4, <1>5, <1>6
<1> QED BY <1>7 DEF P, D, Q

(* Two lists of one length are one if their elements are.                  *)
LEMMA ListsEqual ==
  ASSUME NEW n, NEW f, NEW g, IsList(f, n), IsList(g, n), \A i \in 1..n : f[i] = g[i]
  PROVE  f = g
BY DEF IsList

(* A part of a list.                                                       *)
LEMMA SubSeqIs ==
  ASSUME NEW p, NEW m \in Nat, NEW k \in Nat
  PROVE  SubSeq(p, m + 1, m + k) = Part(p, m, k) /\ IsList(Part(p, m, k), k)
<1>1. SubSeq(p, m + 1, m + k) = [i \in 1..(1 + (m + k) - (m + 1)) |-> p[i + (m + 1) - 1]]
  OBVIOUS
<1>2. 1 + (m + k) - (m + 1) = k OBVIOUS
<1>3. \A i \in 1..k : i + (m + 1) - 1 = m + i OBVIOUS
<1>4. [i \in 1..k |-> p[i + (m + 1) - 1]] = [i \in 1..k |-> p[m + i]] BY <1>3
<1> QED BY <1>1, <1>2, <1>4 DEF Part, IsList

(* Put end to end the first n blocks are the first n * b bytes.            *)
LEMMA FlattenBlocks ==
  ASSUME NEW b \in Nat, NEW n \in Nat, NEW p
  PROVE  FlattenSeq(BlocksOf(p, n, b)) = Begin(p, n * b)
<1> DEFINE s == BlocksOf(p, n, b)
           Body(f) == [i \in 1..n |-> IF i = 1 THEN s[i] ELSE f[i - 1] \o s[i]]
           h == CHOOSE f : f = Body(f)
           g == [i \in 1..n |-> Begin(p, i * b)]
<1>1. IsList(s, n) BY DEF IsList, BlocksOf
<1>2. Len(s) = n
  <2> HIDE DEF s
  <2> QED BY <1>1, ListIs
<1>3. \A i \in 1..n : s[i] = Part(p, (i - 1) * b, b)
  BY DEF BlocksOf, Part, Place
<1>4. ASSUME NEW i \in 1..n, i # 1 PROVE Begin(p, (i - 1) * b) \o s[i] = Begin(p, i * b)
  <2> DEFINE m == (i - 1) * b
             F == Begin(p, m)
             G == Part(p, m, b)
             H == Begin(p, m + b)
  <2>1. m \in Nat /\ i * b = m + b
    <3>1. PICK e \in Nat : i = e + 1
      <4>1. i - 1 \in Nat /\ i = (i - 1) + 1 OBVIOUS
      <4> QED BY <4>1
    <3>2. i - 1 = e BY <3>1
    <3>3. (e + 1) * b = e * b + b /\ e * b \in Nat OBVIOUS
    <3> QED BY <3>1, <3>2, <3>3
  <2> HIDE DEF m
  <2>2. IsList(F, m) /\ IsList(G, b) /\ IsList(H, m + b) BY DEF IsList, Begin, Part
  <2>3. Joins(F, m, G, b)
    <3> HIDE DEF F, G
    <3> QED BY <2>1, <2>2, JoinIs
  <2>4. ASSUME NEW x \in 1..(m + b) PROVE (F \o G)[x] = H[x]
    <3>1. (F \o G)[x] = IF x <= m THEN F[x] ELSE G[x - m]
      <4> HIDE DEF F, G
      <4> QED BY <2>3 DEF Joins
    <3>2. CASE x <= m
      <4>1. x \in 1..m BY <2>1, <3>2
      <4>2. F[x] = p[x] /\ H[x] = p[x] BY <4>1 DEF Begin
      <4> HIDE DEF F, G, H
      <4> QED BY <3>1, <3>2, <4>2
    <3>3. CASE ~(x <= m)
      <4>1. x - m \in 1..b /\ m + (x - m) = x BY <2>1, <3>3
      <4>2. G[x - m] = p[x] /\ H[x] = p[x] BY <4>1 DEF Begin, Part
      <4> HIDE DEF F, G, H
      <4> QED BY <3>1, <3>3, <4>2
    <3> QED BY <3>2, <3>3
  <2>5. F \o G = H
    <3>1. IsList(F \o G, m + b)
      <4> HIDE DEF F, G
      <4> QED BY <2>3 DEF Joins
    <3> HIDE DEF F, G, H
    <3> QED BY <2>2, <2>4, <3>1, ListsEqual
  <2>6. s[i] = G BY <1>3 DEF m
  <2> HIDE DEF F, G, H
  <2>7. F \o s[i] = H BY <2>5, <2>6
  <2> HIDE DEF s
  <2> QED BY <2>1, <2>7 DEF F, H, m
<1>5. g = Body(g)
  <2>1. ASSUME NEW i \in 1..n PROVE g[i] = IF i = 1 THEN s[i] ELSE g[i - 1] \o s[i]
    <3>1. CASE i = 1
      <4>1. s[i] = Part(p, 0, b) /\ g[i] = Begin(p, b)
        <5>1. (i - 1) * b = 0 /\ i * b = b BY <3>1
        <5>2. s[i] = Part(p, (i - 1) * b, b) BY <1>3
        <5>3. g[i] = Begin(p, i * b) OBVIOUS
        <5> HIDE DEF s, g
        <5> QED BY <5>1, <5>2, <5>3
      <4>2. Part(p, 0, b) = Begin(p, b) BY DEF Part, Begin
      <4> HIDE DEF s, g
      <4> QED BY <3>1, <4>1, <4>2
    <3>2. CASE i # 1
      <4>1. i - 1 \in 1..n /\ g[i - 1] = Begin(p, (i - 1) * b) /\ g[i] = Begin(p, i * b)
        BY <3>2
      <4> HIDE DEF s, g
      <4> QED BY <1>4, <3>2, <4>1
    <3> QED BY <3>1, <3>2
  <2>2. g = [i \in 1..n |-> g[i]] OBVIOUS
  <2> HIDE DEF s, g
  <2> QED BY <2>1, <2>2
<1>6. h = Body(h)
  <2> HIDE DEF Body, g
  <2> QED BY <1>5
<1>7. \A i \in 1..n : h[i] = IF i = 1 THEN s[i] ELSE h[i - 1] \o s[i]
  <2> HIDE DEF h, s
  <2> QED BY <1>6
<1>8. \A i \in 1..n : g[i] = IF i = 1 THEN s[i] ELSE g[i - 1] \o s[i]
  <2> HIDE DEF g, s
  <2> QED BY <1>5
<1>9. CASE n = 0
  <2>1. FlattenSeq(s) = s
    <3> HIDE DEF s
    <3> QED BY <1>2, <1>9 DEF FlattenSeq
  <2>2. n * b = 0 BY <1>9
  <2>3. s = Begin(p, n * b) BY <1>9, <2>2 DEF BlocksOf, Begin
  <2> HIDE DEF s
  <2>4. FlattenSeq(s) = Begin(p, n * b) BY <2>1, <2>3
  <2> QED BY <2>4 DEF s
<1>10. CASE n # 0
  <2> DEFINE S == { i \in Nat : i \in 1..n => h[i] = g[i] }
  <2>1. 0 \in S OBVIOUS
  <2>2. ASSUME NEW i \in Nat, i \in S PROVE i + 1 \in S
    <3>1. SUFFICES ASSUME i + 1 \in 1..n PROVE h[i + 1] = g[i + 1]
      OBVIOUS
    <3> HIDE DEF h, g, s
    <3>2. CASE i = 0 BY <1>7, <1>8, <3>1, <3>2
    <3>3. CASE i # 0
      <4>1. i \in 1..n /\ (i + 1) - 1 = i /\ i + 1 # 1 BY <3>1, <3>3
      <4>2. h[i] = g[i] BY <2>2, <4>1
      <4>3. h[i + 1] = h[i] \o s[i + 1] /\ g[i + 1] = g[i] \o s[i + 1]
        BY <1>7, <1>8, <3>1, <4>1
      <4> QED BY <4>2, <4>3
    <3> QED BY <3>2, <3>3
  <2>3. n \in S
    <3> HIDE DEF S
    <3> QED BY <2>1, <2>2, Induction
  <2>4. n \in 1..n BY <1>10
  <2>5. h[n] = g[n]
    <3> HIDE DEF h, g
    <3> QED BY <2>3, <2>4
  <2>6. g[n] = Begin(p, n * b) BY <2>4
  <2>7. FlattenSeq(s) = h[n]
    <3>1. FlattenSeq(s) = IF Len(s) = 0 THEN s ELSE
                            (CHOOSE f : f = [i \in 1..Len(s) |-> IF i = 1 THEN s[i] ELSE f[i - 1] \o s[i]])[Len(s)]
      <4> HIDE DEF s
      <4> QED BY Zenon DEF FlattenSeq
    <3> HIDE DEF s
    <3> QED BY <1>2, <1>10, <3>1
  <2> HIDE DEF h, g, s
  <2>8. FlattenSeq(s) = Begin(p, n * b) BY <2>5, <2>6, <2>7
  <2> QED BY <2>8 DEF s
<1> QED BY <1>9, <1>10

-----------------------------------------------------------------------------
(* SHA-2.  The hasher holds the first q * b + r bytes of p: q blocks were  *)
(* compressed, r bytes are in the buffer.                                  *)
IsHasher(h) ==
  h = [state |-> h.state, buffer |-> h.buffer, buffered |-> h.buffered, length |-> h.length]

Holds(h, p, q, r, b) ==
  /\ IsHasher(h)
  /\ h.state = BlocksOf(p, q, b)
  /\ IsList(h.buffer, b)
  /\ h.buffered = r
  /\ \A x \in 1..r : h.buffer[x] = p[q * b + x]

(* Slices from the front.                                                  *)
LEMMA SliceIs ==
  ASSUME NEW d, NEW m \in Nat, NEW k \in Nat
  PROVE  Sha!Slice(d, m, m + k) = Part(d, m, k) /\ IsList(Part(d, m, k), k)
BY SubSeqIs DEF Sha!Slice

(* A block of a list.                                                      *)
LEMMA ChunkIs ==
  ASSUME NEW d, NEW b \in Nat, NEW e \in Nat, NEW i \in 1..e
  PROVE  Sha!Chunk(d, i, b) = [j \in 1..b |-> d[Place(i, j, b)]]
<1>1. (i - 1) * b \in Nat /\ i * b = (i - 1) * b + b
  <2>1. PICK c \in Nat : i = c + 1
    <3>1. i - 1 \in Nat /\ i = (i - 1) + 1 OBVIOUS
    <3> QED BY <3>1
  <2>2. i - 1 = c /\ (c + 1) * b = c * b + b /\ c * b \in Nat BY <2>1
  <2> QED BY <2>1, <2>2
<1>2. Sha!Chunk(d, i, b) = Part(d, (i - 1) * b, b)
  BY <1>1, SliceIs DEF Sha!Chunk
<1> QED BY <1>2 DEF Part, Place

(* All of them, and compressed behind s.                                   *)
LEMMA ChunksAre ==
  ASSUME NEW d, NEW b \in Nat, b > 0, NEW e \in Nat, NEW n, n = e * b, IsList(d, n)
  PROVE  [i \in 1..(Len(d) \div b) |-> Sha!Chunk(d, i, b)] = BlocksOf(d, e, b)
<1>1. e * b \in Nat /\ Len(d) = e * b BY ListIs
<1>2. Len(d) \div b = e
  <2>1. e * b = b * e + 0 /\ 0 \in 0..(b - 1) OBVIOUS
  <2> QED BY <1>1, <2>1, QuotientIs
<1>3. [i \in 1..e |-> Sha!Chunk(d, i, b)] = BlocksOf(d, e, b)
  BY ChunkIs DEF BlocksOf
<1> QED BY <1>2, <1>3

(* Compressing appends the blocks to those compressed before.              *)
LEMMA CompressIs ==
  ASSUME NEW s, NEW d, NEW b \in Nat, b > 0, NEW e \in Nat, NEW n, n = e * b, IsList(d, n)
  PROVE  Sha!Compress(s, d, b) = s \o BlocksOf(d, e, b)
BY ChunksAre DEF Sha!Compress

(* c is the list a of length b with d, of length k, behind its place o.    *)
Copied(c, a, b, o, d, k) ==
  /\ IsList(c, b)
  /\ \A x \in 1..b : c[x] = IF x - o \in 1..k THEN d[x - o] ELSE a[x]

(* Copying into the buffer.                                                *)
LEMMA CopyIs ==
  ASSUME NEW a, NEW b \in Nat, IsList(a, b), NEW o \in Nat, NEW d, NEW k \in Nat, IsList(d, k)
  PROVE  Copied(Sha!CopyInto(a, o, d), a, b, o, d, k)
<1> DEFINE c == Sha!CopyInto(a, o, d)
<1>1. Len(a) = b /\ Len(d) = k BY ListIs
<1>2. c = [i \in 1..b |-> IF i - o \in 1..k THEN d[i - o] ELSE a[i]]
  BY <1>1 DEF Sha!CopyInto
<1> HIDE DEF c
<1>3. IsList(c, b) BY <1>2 DEF IsList
<1>4. \A x \in 1..b : c[x] = IF x - o \in 1..k THEN d[x - o] ELSE a[x]
  BY <1>2
<1>5. Copied(c, a, b, o, d, k) BY <1>3, <1>4 DEF Copied
<1> QED BY <1>5 DEF c

(* Nothing is done for no data.                                            *)
LEMMA BufferNothing ==
  ASSUME NEW h, NEW p, NEW q \in Nat, NEW b \in Nat, b > 0, NEW r \in 0..(b - 1),
         Holds(h, p, q, r, b), NEW d, IsList(d, 0)
  PROVE  Sha!Buffer(h, d, b) = h
<1>1. Len(d) = 0 BY ListIs
<1>2. 0 \div b = 0 /\ 0 * b = 0
  <2>1. 0 = b * 0 + 0 /\ 0 \in 0..(b - 1) OBVIOUS
  <2>2. 0 \div b = 0 BY <2>1, QuotientIs
  <2> QED BY <2>2
<1>3. Sha!Slice(d, 0, 0) = Part(d, 0, 0) /\ IsList(Part(d, 0, 0), 0)
  <2>1. 0 + 0 = 0 OBVIOUS
  <2> QED BY <2>1, SliceIs
<1>4. Part(d, 0, 0) = <<>>
  BY DEF Part
<1>5. Sha!Compress(h.state, Sha!Slice(d, 0, 0), b) = h.state \o BlocksOf(<<>>, 0, b)
  <2> DEFINE z == 0
             e == <<>>
             s == h.state
  <2>1. z \in Nat /\ z * b = 0 /\ IsList(e, 0) BY <1>3, <1>4
  <2> HIDE DEF z, e, s
  <2>2. IsList(e, z * b) BY <2>1
  <2>3. Sha!Compress(s, e, b) = s \o BlocksOf(e, z, b) BY <2>1, <2>2, CompressIs
  <2>4. Sha!Slice(d, 0, 0) = e BY <1>3, <1>4 DEF e
  <2>5. Sha!Compress(s, Sha!Slice(d, 0, 0), b) = s \o BlocksOf(e, z, b) BY <2>3, <2>4
  <2> QED BY <2>5 DEF z, e, s
<1>6. h.state \o BlocksOf(<<>>, 0, b) = h.state
  <2>1. IsList(h.state, q) BY DEF Holds, BlocksOf, IsList
  <2>2. IsList(BlocksOf(<<>>, 0, b), 0) BY DEF BlocksOf, IsList
  <2> DEFINE D == BlocksOf(<<>>, 0, b)
             s == h.state
             z == 0
  <2>3. z \in Nat /\ q + z = q OBVIOUS
  <2> HIDE DEF D, s, z
  <2>4. IsList(s, q) /\ IsList(D, z) BY <2>1, <2>2 DEF D, s, z
  <2>5. Joins(s, q, D, z) BY <2>3, <2>4, JoinIs
  <2> DEFINE t == s \o D
  <2>6. /\ IsList(t, q + z)
        /\ \A i \in 1..(q + z) : t[i] = IF i <= q THEN s[i] ELSE D[i - q]
    BY <2>5, Zenon DEF Joins
  <2> HIDE DEF t
  <2>7. IsList(t, q) /\ \A i \in 1..q : t[i] = s[i] BY <2>3, <2>6
  <2>8. t = s BY <2>4, <2>7, ListsEqual
  <2>9. s \o D = s BY <2>8 DEF t
  <2> QED BY <2>9 DEF D, s
<1>7. Sha!Buffer(h, d, b) = [h EXCEPT !.state = Sha!Compress(@, Sha!Slice(d, 0, 0), b)]
  BY <1>1, <1>2, <1>3, <1>4 DEF Sha!Buffer
<1>8. [h EXCEPT !.state = h.state] = h
  BY DEF Holds, IsHasher
<1> QED BY <1>5, <1>6, <1>7, <1>8

(* k bytes are e blocks and f bytes; q blocks are n bytes, v with those.   *)
Divided(b, k, e, f, n, q, v) == k = e * b + f /\ n = q * b /\ v = q + e

(* a holds those bytes and has counted what h did.                         *)
HoldsLike(a, h, g, q, r, b) == Holds(a, g, q, r, b) /\ a.length = h.length

(* From the edge of a block: the whole blocks are compressed, the rest is  *)
(* kept.                                                                   *)
LEMMA BufferHolds ==
  ASSUME NEW h, NEW p, NEW q \in Nat, NEW b \in Nat, b > 0, Holds(h, p, q, 0, b),
         NEW d, NEW e \in Nat, NEW f \in 0..(b - 1), NEW k \in Nat, IsList(d, k),
         NEW n, NEW v, Divided(b, k, e, f, n, q, v), NEW g, Continues(g, p, n, d, k)
  PROVE  HoldsLike(Sha!Buffer(h, d, b), h, g, v, f, b)
<1> DEFINE m    == e * b
           left == Part(d, m, f)
           s    == h.state \o BlocksOf(d, e, b)
           h1   == [h EXCEPT !.state = s]
<1>0. k = e * b + f /\ n = q * b /\ v = q + e /\ Continues(g, p, q * b, d, k)
  BY DEF Divided
<1> SUFFICES Holds(Sha!Buffer(h, d, b), g, q + e, f, b) /\ Sha!Buffer(h, d, b).length = h.length
  BY <1>0 DEF HoldsLike
<1>1. m \in Nat /\ k \in Nat /\ f \in Nat /\ k = m + f /\ q * b \in Nat BY <1>0
<1>2. Len(d) = k /\ k \div b = e
  <2>1. k = b * e + f BY <1>0
  <2>2. k \div b = e BY <1>1, <2>1, QuotientIs
  <2>3. Len(d) = k BY <1>1, ListIs
  <2> QED BY <2>2, <2>3
<1>3. Sha!Slice(d, m, k) = left /\ IsList(left, f)
  <2> HIDE DEF m
  <2> QED BY <1>1, SliceIs
<1>4. Sha!Slice(d, 0, m) = Begin(d, m) /\ IsList(Begin(d, m), m)
  <2>1. 0 + m = m OBVIOUS
  <2>2. Sha!Slice(d, 0, 0 + m) = Part(d, 0, m)
    <3> HIDE DEF m
    <3> QED BY <1>1, SliceIs
  <2>3. Part(d, 0, m) = Begin(d, m) BY DEF Part, Begin
  <2> QED BY <2>1, <2>2, <2>3 DEF Begin, IsList
<1>5. Sha!Compress(h.state, Sha!Slice(d, 0, m), b) = s
  <2>1. Sha!Compress(h.state, Begin(d, m), b) = h.state \o BlocksOf(Begin(d, m), e, b)
    BY <1>4, CompressIs
  <2>2. BlocksOf(Begin(d, m), e, b) = BlocksOf(d, e, b)
    <3>1. \A x \in 1..(e * b) : Begin(d, m)[x] = d[x] BY DEF Begin
    <3> QED BY <3>1, SameBlocks
  <2> QED BY <1>4, <2>1, <2>2
<1>6. s = BlocksOf(g, q + e, b)
  <2>1. ASSUME NEW x \in 1..m PROVE g[q * b + x] = d[x]
    <3>1. x \in 1..k BY <1>1
    <3> QED BY <1>0, <3>1 DEF Continues
  <2>2. Continues(g, p, q * b, d, e * b) BY <1>0, <2>1 DEF Continues
  <2>3. BlocksOf(p, q, b) \o BlocksOf(d, e, b) = BlocksOf(g, q + e, b)
    BY <2>2, JoinBlocks
  <2>4. h.state = BlocksOf(p, q, b) BY DEF Holds
  <2> QED BY <2>3, <2>4
<1>7. Sha!Buffer(h, d, b)
        = IF left = <<>> THEN h1
          ELSE [h1 EXCEPT !.buffer = Sha!CopyInto(@, 0, left), !.buffered = Len(left)]
  BY <1>2, <1>3, <1>5 DEF Sha!Buffer
<1>8. h1 = [state |-> s, buffer |-> h.buffer, buffered |-> 0, length |-> h.length]
  <2> HIDE DEF s
  <2> QED BY DEF Holds, IsHasher
<1>9. (q + e) * b = q * b + e * b OBVIOUS
<1>10. CASE f = 0
  <2>1. left = <<>> BY <1>10 DEF Part
  <2>2. Sha!Buffer(h, d, b) = h1 BY <1>7, <2>1
  <2>3. IsList(h.buffer, b) BY DEF Holds
  <2> HIDE DEF s, h1
  <2>4. Holds(h1, g, q + e, f, b) /\ h1.length = h.length
    BY <1>6, <1>8, <1>10, <2>3 DEF Holds, IsHasher
  <2> QED BY <2>2, <2>4
<1>11. CASE f # 0
  <2>1. Len(left) = f
    <3> HIDE DEF left
    <3> QED BY <1>1, <1>3, ListIs
  <2>2. left # <<>>
    <3> HIDE DEF left
    <3> QED BY <2>1, <1>11
  <2> DEFINE c == Sha!CopyInto(h.buffer, 0, left)
  <2>3. IsList(c, b) /\ \A x \in 1..b : c[x] = IF x - 0 \in 1..f THEN left[x - 0] ELSE h.buffer[x]
    <3>1. IsList(h.buffer, b) BY DEF Holds
    <3> HIDE DEF left
    <3>2. Copied(c, h.buffer, b, 0, left, f) BY <1>1, <1>3, <3>1, CopyIs
    <3> HIDE DEF c
    <3> QED BY <3>2 DEF Copied
  <2>4. ASSUME NEW x \in 1..f PROVE c[x] = g[(q + e) * b + x]
    <3>1. x \in 1..b /\ x - 0 = x /\ m + x \in 1..k BY <1>1
    <3>2. c[x] = left[x]
      <4> HIDE DEF c, left
      <4> QED BY <2>3, <3>1
    <3>3. left[x] = d[m + x] BY DEF Part
    <3>4. g[q * b + (m + x)] = d[m + x] BY <1>0, <3>1 DEF Continues
    <3>5. q * b + (m + x) = (q + e) * b + x BY <1>1, <1>9
    <3> HIDE DEF c, left
    <3> QED BY <3>2, <3>3, <3>4, <3>5
  <2>5. Sha!Buffer(h, d, b) = [state |-> s, buffer |-> c, buffered |-> f, length |-> h.length]
    <3>1. Sha!Buffer(h, d, b) = [h1 EXCEPT !.buffer = Sha!CopyInto(@, 0, left), !.buffered = f]
      <4> HIDE DEF h1, left
      <4> QED BY <1>7, <2>1, <2>2
    <3> HIDE DEF s, left, h1
    <3> QED BY <1>8, <3>1
  <2> HIDE DEF s, c, left, h1
  <2> QED BY <1>6, <2>3, <2>4, <2>5 DEF Holds, IsHasher
<1> QED BY <1>10, <1>11

(* What TopUp takes, and the fields it leaves.                             *)
Topped(h, d, b, take, c, s, r) ==
  /\ take = IF h.buffered > 0 THEN Sha!Min2(b - h.buffered, Len(d)) ELSE 0
  /\ c = Sha!CopyInto(h.buffer, h.buffered, Sha!Slice(d, 0, take))
  /\ s = IF h.buffered > 0 /\ h.buffered + take = b THEN Sha!Compress(h.state, c, b) ELSE h.state
  /\ r = IF h.buffered > 0 /\ h.buffered + take = b THEN 0 ELSE h.buffered + take

(* Three fields of a hasher are replaced.                                  *)
LEMMA FieldsSet ==
  ASSUME NEW h, IsHasher(h), NEW c, NEW s, NEW r
  PROVE  [h EXCEPT !.state = s, !.buffer = c, !.buffered = r]
           = [state |-> s, buffer |-> c, buffered |-> r, length |-> h.length]
<1> DEFINE v == h.length
           w == h.state
           x == h.buffer
           y == h.buffered
<1>1. h = [state |-> w, buffer |-> x, buffered |-> y, length |-> v] BY DEF IsHasher
<1> HIDE DEF v, w, x, y
<1> DEFINE h1 == [h EXCEPT !.state = s]
           h2 == [h1 EXCEPT !.buffer = c]
           h3 == [h2 EXCEPT !.buffered = r]
<1>2. [h EXCEPT !.state = s, !.buffer = c, !.buffered = r] = h3 OBVIOUS
<1>3. h1 = [state |-> s, buffer |-> x, buffered |-> y, length |-> v] BY <1>1
<1> HIDE DEF h1
<1>4. h2 = [state |-> s, buffer |-> c, buffered |-> y, length |-> v] BY <1>3
<1> HIDE DEF h2
<1>5. h3 = [state |-> s, buffer |-> c, buffered |-> r, length |-> v] BY <1>4
<1> HIDE DEF h3
<1> QED BY <1>2, <1>5 DEF v

(* TopUp with its local definitions named.                                 *)
LEMMA TopUpIs ==
  ASSUME NEW h, IsHasher(h), NEW d, NEW b, NEW take, NEW c, NEW s, NEW r,
         Topped(h, d, b, take, c, s, r)
  PROVE  Sha!TopUp(h, d, b) = [state |-> s, buffer |-> c, buffered |-> r, length |-> h.length]
<1>1. Sha!TopUp(h, d, b) = [h EXCEPT !.state = s, !.buffer = c, !.buffered = r]
  BY DEF Sha!TopUp, Topped
<1> QED BY <1>1, FieldsSet

(* Nothing was begun: there is nothing to fill.                            *)
LEMMA TopUpNone ==
  ASSUME NEW h, NEW p, NEW q \in Nat, NEW b \in Nat, b > 0, Holds(h, p, q, 0, b), NEW d
  PROVE  Sha!TopUp(h, d, b) = h /\ Sha!Rest(h, d, b) = d
<1> DEFINE z == 0
           c == Sha!CopyInto(h.buffer, z, Sha!Slice(d, 0, z))
<1>1. IsHasher(h) /\ h.buffered = z /\ IsList(h.buffer, b) BY DEF Holds
<1>2. Sha!Slice(d, 0, z) = Part(d, 0, z) /\ IsList(Part(d, 0, z), z)
  <2>1. z \in Nat /\ 0 \in Nat /\ 0 + z = z OBVIOUS
  <2> HIDE DEF z
  <2>2. Sha!Slice(d, 0, 0 + z) = Part(d, 0, z) /\ IsList(Part(d, 0, z), z)
    BY <2>1, SliceIs
  <2> QED BY <2>1, <2>2
<1>3. c = h.buffer
  <2> DEFINE a == h.buffer
             e == Sha!Slice(d, 0, z)
  <2>1. z \in Nat /\ IsList(a, b) /\ IsList(e, z) BY <1>1, <1>2
  <2> HIDE DEF z, a, e
  <2>2. Copied(Sha!CopyInto(a, z, e), a, b, z, e, z) BY <2>1, CopyIs
  <2> DEFINE f == Sha!CopyInto(a, z, e)
  <2> HIDE DEF f
  <2>3. IsList(f, b) /\ \A x \in 1..b : f[x] = a[x]
    <3>1. z = 0 BY DEF z
    <3> QED BY <2>2, <3>1 DEF Copied, f
  <2>4. f = a BY <2>1, <2>3, ListsEqual
  <2> QED BY <2>4 DEF f, a, e
<1>4. Sha!TopUp(h, d, b) = [state |-> h.state, buffer |-> c, buffered |-> z, length |-> h.length]
  <2>1. z = IF h.buffered > 0 THEN Sha!Min2(b - h.buffered, Len(d)) ELSE 0 BY <1>1
  <2>2. c = Sha!CopyInto(h.buffer, h.buffered, Sha!Slice(d, 0, z)) BY <1>1
  <2>3. h.state = IF h.buffered > 0 /\ h.buffered + z = b THEN Sha!Compress(h.state, c, b) ELSE h.state
    BY <1>1
  <2>4. z = IF h.buffered > 0 /\ h.buffered + z = b THEN 0 ELSE h.buffered + z BY <1>1
  <2> HIDE DEF c, z
  <2>5. Topped(h, d, b, z, c, h.state, z) BY <2>1, <2>2, <2>3, <2>4 DEF Topped
  <2> QED BY <1>1, <2>5, TopUpIs
<1>5. Sha!Rest(h, d, b) = d BY <1>1 DEF Sha!Rest
<1>6. [state |-> h.state, buffer |-> h.buffer, buffered |-> z, length |-> h.length] = h
  <2> HIDE DEF z
  <2> QED BY <1>1 DEF IsHasher
<1> HIDE DEF c, z
<1> QED BY <1>3, <1>4, <1>5, <1>6

(* The first n places of c, a list of length b, are those of g from m on.  *)
Filled(c, g, m, n, b) == IsList(c, b) /\ \A x \in 1..n : c[x] = g[m + x]

(* A begun block with the first t bytes of d behind the r it had.          *)
LEMMA FilledIs ==
  ASSUME NEW h, NEW p, NEW q \in Nat, NEW b \in Nat, b > 0, NEW r \in 1..(b - 1),
         Holds(h, p, q, r, b), NEW d, NEW k \in Nat, IsList(d, k),
         NEW t \in Nat, t <= k, r + t <= b, NEW g, Continues(g, p, q * b + r, d, k)
  PROVE  Filled(Sha!CopyInto(h.buffer, r, Sha!Slice(d, 0, t)), g, q * b, r + t, b)
<1> DEFINE c == Sha!CopyInto(h.buffer, r, Sha!Slice(d, 0, t))
           e == Sha!Slice(d, 0, t)
           a == h.buffer
<1>1. e = Part(d, 0, t) /\ IsList(e, t)
  <2>1. 0 \in Nat /\ 0 + t = t OBVIOUS
  <2>2. Sha!Slice(d, 0, 0 + t) = Part(d, 0, t) /\ IsList(Part(d, 0, t), t)
    BY <2>1, SliceIs
  <2> QED BY <2>1, <2>2
<1>2. IsList(a, b) /\ \A x \in 1..r : a[x] = p[q * b + x] BY DEF Holds
<1>3. r \in Nat /\ q * b \in Nat OBVIOUS
<1>4. Copied(c, a, b, r, e, t)
  <2> HIDE DEF e, a
  <2>1. Copied(Sha!CopyInto(a, r, e), a, b, r, e, t) BY <1>1, <1>2, <1>3, CopyIs
  <2> QED BY <2>1 DEF c, e, a
<1> HIDE DEF c
<1>5. ASSUME NEW x \in 1..(r + t) PROVE c[x] = g[q * b + x]
  <2> HIDE DEF e, a
  <2>1. x \in 1..b /\ c[x] = IF x - r \in 1..t THEN e[x - r] ELSE a[x]
    BY <1>3, <1>4 DEF Copied
  <2>2. CASE x <= r
    <3>1. x \in 1..r /\ ~(x - r \in 1..t) BY <1>3, <2>2
    <3>2. q * b + x \in 1..(q * b + r) BY <1>3, <3>1
    <3>3. g[q * b + x] = p[q * b + x] BY <3>2 DEF Continues
    <3> QED BY <1>2, <2>1, <3>1, <3>3
  <2>3. CASE ~(x <= r)
    <3>1. x - r \in 1..t /\ x - r \in 1..k /\ 0 + (x - r) = x - r BY <1>3, <2>3
    <3>2. (q * b + r) + (x - r) = q * b + x BY <1>3
    <3>3. e[x - r] = d[x - r] BY <1>1, <3>1 DEF Part
    <3>4. g[(q * b + r) + (x - r)] = d[x - r] BY <3>1 DEF Continues
    <3> QED BY <2>1, <3>1, <3>2, <3>3, <3>4
  <2> QED BY <2>2, <2>3
<1>6. IsList(c, b) BY <1>4 DEF Copied
<1>7. Filled(c, g, q * b, r + t, b) BY <1>5, <1>6 DEF Filled
<1> QED BY <1>7 DEF c

(* Too little data to fill it.                                             *)
LEMMA TopUpShort ==
  ASSUME NEW h, NEW p, NEW q \in Nat, NEW b \in Nat, b > 0, NEW r \in 1..(b - 1),
         Holds(h, p, q, r, b), NEW d, NEW k \in Nat, IsList(d, k), r + k < b,
         NEW g, Continues(g, p, q * b + r, d, k)
  PROVE  /\ Holds(Sha!TopUp(h, d, b), g, q, r + k, b)
         /\ Sha!TopUp(h, d, b).length = h.length
         /\ IsList(Sha!Rest(h, d, b), 0)
<1> DEFINE c == Sha!CopyInto(h.buffer, r, Sha!Slice(d, 0, k))
<1>1. IsHasher(h) /\ h.buffered = r /\ h.state = BlocksOf(p, q, b) BY DEF Holds
<1>2. Len(d) = k /\ Sha!Min2(b - r, Len(d)) = k
  <2>1. Len(d) = k BY ListIs
  <2>2. ~(b - r <= k) BY DEF Holds
  <2> QED BY <2>1, <2>2 DEF Sha!Min2
<1>3. IsList(c, b) /\ \A x \in 1..(r + k) : c[x] = g[q * b + x]
  <2>1. r + k <= b /\ k <= k OBVIOUS
  <2>2. Filled(c, g, q * b, r + k, b) BY <2>1, FilledIs
  <2> HIDE DEF c
  <2> QED BY <2>2 DEF Filled
<1> HIDE DEF c
<1>4. Sha!TopUp(h, d, b) = [state |-> h.state, buffer |-> c, buffered |-> r + k, length |-> h.length]
  <2>1. r > 0 /\ r + k # b BY <1>1
  <2>2. k = IF h.buffered > 0 THEN Sha!Min2(b - h.buffered, Len(d)) ELSE 0 BY <1>1, <1>2, <2>1
  <2>3. c = Sha!CopyInto(h.buffer, h.buffered, Sha!Slice(d, 0, k)) BY <1>1 DEF c
  <2>4. h.state = IF h.buffered > 0 /\ h.buffered + k = b THEN Sha!Compress(h.state, c, b) ELSE h.state
    BY <1>1, <2>1
  <2>5. r + k = IF h.buffered > 0 /\ h.buffered + k = b THEN 0 ELSE h.buffered + k BY <1>1, <2>1
  <2>6. Topped(h, d, b, k, c, h.state, r + k) BY <2>2, <2>3, <2>4, <2>5 DEF Topped
  <2> QED BY <1>1, <2>6, TopUpIs
<1>5. h.state = BlocksOf(g, q, b)
  <2>1. ASSUME NEW x \in 1..(q * b) PROVE g[x] = p[x]
    <3>1. q * b \in Nat OBVIOUS
    <3>2. x \in 1..(q * b + r) BY <3>1
    <3> QED BY <3>2 DEF Continues
  <2>2. BlocksOf(g, q, b) = BlocksOf(p, q, b) BY <2>1, SameBlocks
  <2> QED BY <1>1, <2>2
<1>6. IsList(Sha!Rest(h, d, b), 0)
  <2> DEFINE z == 0
  <2>1. Sha!Rest(h, d, b) = Sha!Slice(d, k, k) BY <1>1, <1>2 DEF Sha!Rest
  <2>2. z \in Nat /\ k + z = k OBVIOUS
  <2> HIDE DEF z
  <2>3. Sha!Slice(d, k, k + z) = Part(d, k, z) /\ IsList(Part(d, k, z), z) BY <2>2, SliceIs
  <2>4. IsList(Sha!Rest(h, d, b), z) BY <2>1, <2>2, <2>3
  <2> QED BY <2>4 DEF z
<1>7. Holds(Sha!TopUp(h, d, b), g, q, r + k, b) /\ Sha!TopUp(h, d, b).length = h.length
  BY <1>3, <1>4, <1>5 DEF Holds, IsHasher
<1> QED BY <1>6, <1>7

(* Enough of it: the block is compressed.                                  *)
LEMMA TopUpFull ==
  ASSUME NEW h, NEW p, NEW q \in Nat, NEW b \in Nat, b > 0, NEW r \in 1..(b - 1),
         Holds(h, p, q, r, b), NEW d, NEW k \in Nat, IsList(d, k),
         NEW t \in Nat, r + t = b, t <= k,
         NEW g, Continues(g, p, q * b + r, d, k)
  PROVE  /\ Holds(Sha!TopUp(h, d, b), g, q + 1, 0, b)
         /\ Sha!TopUp(h, d, b).length = h.length
         /\ Sha!Rest(h, d, b) = Part(d, t, k - t) /\ IsList(Part(d, t, k - t), k - t)
<1> DEFINE c == Sha!CopyInto(h.buffer, r, Sha!Slice(d, 0, t))
           s == Sha!Compress(h.state, c, b)
<1>1. IsHasher(h) /\ h.buffered = r /\ h.state = BlocksOf(p, q, b) BY DEF Holds
<1>2. Len(d) = k /\ Sha!Min2(b - r, Len(d)) = t
  <2>1. Len(d) = k BY ListIs
  <2>2. b - r = t OBVIOUS
  <2> QED BY <2>1, <2>2 DEF Sha!Min2
<1>3. IsList(c, b) /\ \A x \in 1..(r + t) : c[x] = g[q * b + x]
  <2>1. r + t <= b OBVIOUS
  <2>2. Filled(c, g, q * b, r + t, b) BY <2>1, FilledIs
  <2> HIDE DEF c
  <2> QED BY <2>2 DEF Filled
<1> HIDE DEF c
<1>4. Sha!TopUp(h, d, b) = [state |-> s, buffer |-> c, buffered |-> 0, length |-> h.length]
  <2>1. r > 0 /\ r + t = b OBVIOUS
  <2>2. t = IF h.buffered > 0 THEN Sha!Min2(b - h.buffered, Len(d)) ELSE 0 BY <1>1, <1>2, <2>1
  <2>3. c = Sha!CopyInto(h.buffer, h.buffered, Sha!Slice(d, 0, t)) BY <1>1 DEF c
  <2>4. s = IF h.buffered > 0 /\ h.buffered + t = b THEN Sha!Compress(h.state, c, b) ELSE h.state
    BY <1>1, <2>1
  <2> DEFINE z == 0
  <2>5. z = IF h.buffered > 0 /\ h.buffered + t = b THEN 0 ELSE h.buffered + t BY <1>1, <2>1
  <2> HIDE DEF s, z
  <2>7. Topped(h, d, b, t, c, s, z) BY <2>2, <2>3, <2>4, <2>5 DEF Topped
  <2>6. Sha!TopUp(h, d, b) = [state |-> s, buffer |-> c, buffered |-> z, length |-> h.length]
    BY <1>1, <2>7, TopUpIs
  <2> QED BY <2>6 DEF z
<1>5. s = BlocksOf(g, q + 1, b)
  <2> DEFINE u == 1
  <2>1. u \in Nat /\ u * b = b OBVIOUS
  <2>2. Continues(g, p, q * b, c, u * b)
    <3>1. ASSUME NEW x \in 1..(q * b) PROVE g[x] = p[x]
      <4>1. q * b \in Nat OBVIOUS
      <4>2. x \in 1..(q * b + r) BY <4>1
      <4> QED BY <4>2 DEF Continues
    <3>2. \A x \in 1..b : g[q * b + x] = c[x] BY <1>3
    <3> HIDE DEF u
    <3> QED BY <2>1, <3>1, <3>2 DEF Continues
  <2> HIDE DEF u
  <2>3. Sha!Compress(h.state, c, b) = h.state \o BlocksOf(c, u, b)
    <3>1. IsList(c, u * b) BY <1>3, <2>1
    <3> DEFINE a == h.state
    <3> HIDE DEF a, s
    <3>2. Sha!Compress(a, c, b) = a \o BlocksOf(c, u, b) BY <2>1, <3>1, CompressIs
    <3> QED BY <3>2 DEF a
  <2>4. BlocksOf(p, q, b) \o BlocksOf(c, u, b) = BlocksOf(g, q + u, b)
    <3>1. u \in Nat BY <2>1
    <3> HIDE DEF s
    <3> QED BY <3>1, <2>2, JoinBlocks
  <2>5. s = BlocksOf(g, q + u, b) BY <1>1, <2>3, <2>4
  <2> QED BY <2>5 DEF u
<1>6. Sha!Rest(h, d, b) = Part(d, t, k - t) /\ IsList(Part(d, t, k - t), k - t)
  <2>1. Sha!Rest(h, d, b) = Sha!Slice(d, t, k)
    BY <1>1, <1>2 DEF Sha!Rest
  <2>2. k - t \in Nat /\ t + (k - t) = k OBVIOUS
  <2>3. Sha!Slice(d, t, t + (k - t)) = Part(d, t, k - t) /\ IsList(Part(d, t, k - t), k - t)
    BY <2>2, SliceIs
  <2> QED BY <2>1, <2>2, <2>3
<1> HIDE DEF s
<1>7. Holds(Sha!TopUp(h, d, b), g, q + 1, 0, b) /\ Sha!TopUp(h, d, b).length = h.length
  BY <1>3, <1>4, <1>5 DEF Holds, IsHasher
<1> QED BY <1>6, <1>7

(* Counting the data changes the length alone.                             *)
LEMMA CountedIs ==
  ASSUME NEW h, NEW p, NEW q, NEW r, NEW b, Holds(h, p, q, r, b), NEW d, NEW k \in Nat, IsList(d, k)
  PROVE  /\ Holds(Sha!Counted(h, d), p, q, r, b)
         /\ Sha!Counted(h, d).length = (h.length + k) % ShaLengthMod
<1> DEFINE n == (h.length + k) % ShaLengthMod
<1>1. Len(d) = k BY ListIs
<1>2. Sha!Counted(h, d) = [h EXCEPT !.length = n] BY <1>1 DEF Sha!Counted
<1> HIDE DEF n
<1>3. [h EXCEPT !.length = n]
        = [state |-> h.state, buffer |-> h.buffer, buffered |-> h.buffered, length |-> n]
  BY DEF Holds, IsHasher
<1>4. Holds(Sha!Counted(h, d), p, q, r, b) /\ Sha!Counted(h, d).length = n
  BY <1>2, <1>3 DEF Holds, IsHasher
<1> QED BY <1>4 DEF n

(* One call of update on a hasher of blocks of b bytes.                    *)
Updated(h, d, b) == Sha!Buffer(Sha!Counted(Sha!TopUp(h, d, b), d), Sha!Rest(h, d, b), b)

(* h holds the m bytes of g, some of them in whole blocks.                 *)
HoldsAll(h, g, m, b) ==
  \E q \in Nat, r \in 0..(b - 1) : m = q * b + r /\ Holds(h, g, q, r, b)

(* a holds g, which is k bytes longer than what h holds, and counted them.  *)
Adds(a, h, g, m, k, b) ==
  HoldsAll(a, g, m + k, b) /\ a.length = (h.length + k) % ShaLengthMod

(* Whatever was begun, update adds the data to what is held and counted.   *)
LEMMA UpdateHolds ==
  ASSUME NEW h, NEW p, NEW m \in Nat, NEW b \in Nat, b > 0, HoldsAll(h, p, m, b),
         NEW d, NEW k \in Nat, IsList(d, k), NEW g, Continues(g, p, m, d, k)
  PROVE  Adds(Updated(h, d, b), h, g, m, k, b)
<1> SUFFICES /\ HoldsAll(Updated(h, d, b), g, m + k, b)
             /\ Updated(h, d, b).length = (h.length + k) % ShaLengthMod
  BY DEF Adds
<1>1. PICK q \in Nat, r \in 0..(b - 1) : m = q * b + r /\ Holds(h, p, q, r, b) BY DEF HoldsAll
<1> DEFINE h1 == Sha!TopUp(h, d, b)
           h2 == Sha!Counted(h1, d)
           e  == Sha!Rest(h, d, b)
<1>2. Updated(h, d, b) = Sha!Buffer(h2, e, b) BY DEF Updated
<1>3. q * b \in Nat /\ r \in Nat OBVIOUS
<1> HIDE DEF h1, h2, e
<1>4. CASE r = 0
  <2>1. Holds(h, p, q, 0, b) BY <1>1, <1>4
  <2>2. h1 = h /\ e = d BY <2>1, TopUpNone DEF h1, e
  <2>3. Holds(h2, p, q, 0, b) /\ h2.length = (h.length + k) % ShaLengthMod
    BY <2>1, <2>2, CountedIs DEF h2
  <2> DEFINE c == k \div b
             f == k % b
  <2>4. c \in Nat /\ f \in 0..(b - 1) /\ k = b * c + f BY DivisionIs
  <2> HIDE DEF c, f
  <2>5. c * b \in Nat /\ b * c = c * b BY <2>4
  <2>6. k = c * b + f BY <2>4, <2>5
  <2>7. m = q * b /\ IsList(e, k) /\ Continues(g, p, m, e, k)
    BY <1>1, <1>3, <1>4, <2>2
  <2>8. Holds(Sha!Buffer(h2, e, b), g, q + c, f, b) /\ Sha!Buffer(h2, e, b).length = h2.length
    <3> DEFINE v == q + c
    <3>1. c \in Nat /\ f \in 0..(b - 1) BY <2>4
    <3>2. Holds(h2, p, q, 0, b) BY <2>3
    <3>3. Divided(b, k, c, f, m, q, v) BY <2>6, <2>7 DEF Divided
    <3> HIDE DEF v
    <3>4. HoldsLike(Sha!Buffer(h2, e, b), h2, g, v, f, b)
      BY <2>7, <3>1, <3>2, <3>3, BufferHolds
    <3> QED BY <3>4 DEF HoldsLike, v
  <2>9. (q + c) * b = q * b + c * b /\ q + c \in Nat BY <2>4
  <2>10. m + k = (q + c) * b + f
    BY <1>1, <1>3, <1>4, <2>4, <2>5, <2>6, <2>9
  <2> QED BY <1>2, <2>3, <2>4, <2>8, <2>9, <2>10 DEF HoldsAll
<1>5. CASE r # 0 /\ r + k < b
  <2>1. r \in 1..(b - 1) /\ r + k \in 0..(b - 1) BY <1>5
  <2>2. Continues(g, p, q * b + r, d, k) BY <1>1
  <2>3. Holds(h1, g, q, r + k, b) /\ h1.length = h.length /\ IsList(e, 0)
    BY <1>1, <1>5, <2>1, <2>2, TopUpShort DEF h1, e
  <2>4. Holds(h2, g, q, r + k, b) /\ h2.length = (h1.length + k) % ShaLengthMod
    BY <2>3, CountedIs DEF h2
  <2>5. Sha!Buffer(h2, e, b) = h2 BY <2>1, <2>3, <2>4, BufferNothing
  <2>6. m + k = q * b + (r + k) BY <1>1, <1>3
  <2> QED BY <1>2, <2>1, <2>3, <2>4, <2>5, <2>6 DEF HoldsAll
<1>6. CASE r # 0 /\ ~(r + k < b)
  <2> DEFINE t == b - r
             l == k - t
  <2>1. r \in 1..(b - 1) /\ t \in Nat /\ l \in Nat /\ r + t = b /\ t <= k /\ k = t + l
    BY <1>3, <1>6
  <2>2. Continues(g, p, q * b + r, d, k) BY <1>1
  <2> HIDE DEF t
  <2>3. Holds(h1, g, q + 1, 0, b) /\ h1.length = h.length
          /\ e = Part(d, t, l) /\ IsList(e, l)
    BY <1>1, <2>1, <2>2, TopUpFull DEF h1, e
  <2> HIDE DEF l
  <2>4. Holds(h2, g, q + 1, 0, b) /\ h2.length = (h1.length + k) % ShaLengthMod
    BY <2>3, CountedIs DEF h2
  <2> DEFINE c == l \div b
             f == l % b
             u == q + 1
  <2>5. c \in Nat /\ f \in 0..(b - 1) /\ l = b * c + f BY <2>1, DivisionIs
  <2> HIDE DEF c, f
  <2>6. c * b \in Nat /\ b * c = c * b BY <2>5
  <2>7. l = c * b + f BY <2>5, <2>6
  <2>8. u \in Nat /\ u * b = q * b + b OBVIOUS
  <2> HIDE DEF u
  <2>9. Continues(g, g, u * b, e, l)
    <3>1. ASSUME NEW x \in 1..l PROVE g[u * b + x] = e[x]
      <4>1. t + x \in 1..k BY <2>1
      <4>2. g[m + (t + x)] = d[t + x] BY <4>1 DEF Continues
      <4>3. m + (t + x) = u * b + x BY <1>1, <1>3, <2>1, <2>8
      <4>4. e[x] = d[t + x] BY <2>3 DEF Part
      <4> QED BY <4>2, <4>3, <4>4
    <3> QED BY <3>1 DEF Continues
  <2>10. l \in Nat /\ IsList(e, l) BY <2>1, <2>3
  <2>11. Holds(h2, g, u, 0, b) BY <2>4 DEF u
  <2>12. Holds(Sha!Buffer(h2, e, b), g, u + c, f, b) /\ Sha!Buffer(h2, e, b).length = h2.length
    <3> DEFINE v == u + c
               n == u * b
    <3>1. c \in Nat /\ f \in 0..(b - 1) /\ u \in Nat BY <2>5, <2>8
    <3>2. Divided(b, l, c, f, n, u, v) BY <2>7 DEF Divided
    <3>3. Continues(g, g, n, e, l) BY <2>9
    <3> HIDE DEF v, n
    <3>4. HoldsLike(Sha!Buffer(h2, e, b), h2, g, v, f, b)
      BY <2>10, <2>11, <3>1, <3>2, <3>3, BufferHolds
    <3> QED BY <3>4 DEF HoldsLike, v
  <2>13. (u + c) * b = u * b + c * b /\ u + c \in Nat BY <2>5, <2>8
  <2>14. m + k = (u + c) * b + f
    BY <1>1, <1>3, <2>1, <2>5, <2>6, <2>7, <2>8, <2>13
  <2> QED BY <1>2, <2>3, <2>4, <2>5, <2>12, <2>13, <2>14 DEF HoldsAll
<1> QED BY <1>4, <1>5, <1>6

(* What is held is in the blocks and in the buffer.                        *)
LEMMA HeldIs ==
  ASSUME NEW h, NEW g, NEW m \in Nat, NEW b \in Nat, b > 0, HoldsAll(h, g, m, b)
  PROVE  FlattenSeq(h.state) \o Sha!Held(h) = Begin(g, m)
<1>1. PICK q \in Nat, r \in 0..(b - 1) : m = q * b + r /\ Holds(h, g, q, r, b) BY DEF HoldsAll
<1> DEFINE n == q * b
           F == Begin(g, n)
           G == Sha!Held(h)
           H == Begin(g, m)
<1>2. n \in Nat /\ r \in Nat OBVIOUS
<1>3. FlattenSeq(h.state) = F
  <2>1. h.state = BlocksOf(g, q, b) BY <1>1 DEF Holds
  <2> QED BY <2>1, FlattenBlocks
<1>4. G = Part(h.buffer, 0, r) /\ IsList(G, r)
  <2>1. 0 \in Nat /\ 0 + 1 = 1 /\ 0 + r = r OBVIOUS
  <2>2. SubSeq(h.buffer, 0 + 1, 0 + r) = Part(h.buffer, 0, r) /\ IsList(Part(h.buffer, 0, r), r)
    BY <1>2, <2>1, SubSeqIs
  <2>3. h.buffered = r BY <1>1 DEF Holds
  <2> QED BY <2>1, <2>2, <2>3 DEF Sha!Held
<1>5. ASSUME NEW x \in 1..r PROVE G[x] = g[n + x]
  <2>1. 0 + x = x OBVIOUS
  <2>2. G[x] = h.buffer[x] BY <1>4, <2>1 DEF Part
  <2>3. h.buffer[x] = g[n + x] BY <1>1 DEF Holds
  <2> QED BY <2>2, <2>3
<1>6. IsList(F, n) /\ IsList(H, m) BY DEF Begin, IsList
<1> HIDE DEF G
<1>7. Joins(F, n, G, r)
  <2> HIDE DEF F, n
  <2> QED BY <1>2, <1>4, <1>6, JoinIs
<1>8. m = n + r BY <1>1
<1>9. ASSUME NEW x \in 1..m PROVE (F \o G)[x] = H[x]
  <2>1. (F \o G)[x] = IF x <= n THEN F[x] ELSE G[x - n]
    <3>1. x \in 1..(n + r) BY <1>8
    <3> HIDE DEF F, n
    <3> QED BY <1>7, <3>1 DEF Joins
  <2>2. CASE x <= n
    <3>1. x \in 1..n BY <1>2, <2>2
    <3>2. F[x] = g[x] /\ H[x] = g[x] BY <3>1 DEF Begin
    <3> HIDE DEF F, H
    <3> QED BY <2>1, <2>2, <3>2
  <2>3. CASE ~(x <= n)
    <3>1. x - n \in 1..r /\ n + (x - n) = x BY <1>2, <1>8, <2>3
    <3>2. G[x - n] = g[x] BY <1>5, <3>1
    <3>3. H[x] = g[x] BY DEF Begin
    <3> HIDE DEF F, H, n
    <3> QED BY <2>1, <2>3, <3>2, <3>3
  <2> QED BY <2>2, <2>3
<1>10. F \o G = H
  <2>1. IsList(F \o G, m)
    <3> HIDE DEF F, n
    <3> QED BY <1>7, <1>8 DEF Joins
  <2> HIDE DEF F, H
  <2> QED BY <1>6, <1>9, <2>1, ListsEqual
<1> HIDE DEF F, H
<1> QED BY <1>3, <1>10 DEF G, H

-----------------------------------------------------------------------------
(* How far to pad.  A sum with one addend left open is a multiple of b for *)
(* exactly one value below b.                                              *)
LEMMA OneZeros ==
  ASSUME NEW a \in Nat, NEW b \in Nat, b > 0, NEW y \in 0..(b - 1), NEW z \in 0..(b - 1),
         (a + y) % b = 0, (a + z) % b = 0, y <= z
  PROVE  y = z
<1> DEFINE q == (a + y) \div b
<1>1. a + y \in Nat OBVIOUS
<1>2. q \in Nat /\ a + y = b * q + ((a + y) % b)
  BY <1>1, DivisionIs
<1> HIDE DEF q
<1>3. a + y = b * q /\ b * q \in Nat BY <1>2
<1> DEFINE d == z - y
           w == a + z
<1>4. d \in 0..(b - 1) /\ w \in Int /\ w = (a + y) + d OBVIOUS
<1> HIDE DEF d, w
<1>5. w = b * q + d BY <1>3, <1>4
<1>6. w % b = d BY <1>2, <1>4, <1>5, QuotientIs
<1>7. d = 0 BY <1>6 DEF w
<1> QED BY <1>7 DEF d

(* Some number below b fills a up to a multiple of b.                      *)
LEMMA SomeZeros ==
  ASSUME NEW a \in Nat, NEW b \in Nat, b > 0
  PROVE  \E z \in 0..(b - 1) : (a + z) % b = 0
<1> DEFINE q == a \div b
           r == a % b
<1>1. q \in Nat /\ r \in 0..(b - 1) /\ a = b * q + r BY DivisionIs
<1> HIDE DEF q, r
<1>2. CASE r = 0
  <2>1. b * q \in Nat BY <1>1
  <2>2. a + 0 = b * q + 0 /\ a + 0 \in Int /\ 0 \in 0..(b - 1) BY <1>1, <1>2, <2>1
  <2>3. (a + 0) % b = 0 BY <1>1, <2>2, QuotientIs
  <2> QED BY <2>2, <2>3
<1>3. CASE r # 0
  <2> DEFINE z == b - r
             u == q + 1
  <2>1. z \in 0..(b - 1) BY <1>1, <1>3
  <2>2. b * q \in Nat /\ b * u = b * q + b /\ u \in Int BY <1>1
  <2>3. a + z = b * u + 0 /\ a + z \in Int /\ 0 \in 0..(b - 1) BY <1>1, <2>1, <2>2
  <2> HIDE DEF z, u
  <2>4. (a + z) % b = 0 BY <2>2, <2>3, QuotientIs
  <2> QED BY <2>1, <2>4
<1> QED BY <1>2, <1>3

(* f bytes end a block exactly when the buffer has room for just those.    *)
LEMMA EdgeIs ==
  ASSUME NEW m, NEW b \in Nat, b > 0, NEW q \in Nat, NEW r \in 0..(b - 1), m = q * b + r,
         NEW f \in 1..b
  PROVE  (m + f) % b = 0 <=> r = b - f
<1>1. q * b = b * q /\ b * q \in Nat OBVIOUS
<1>2. m + f = b * q + (r + f) /\ m + f \in Int BY <1>1
<1> DEFINE u == q + 1
<1>3. b * u = b * q + b /\ u \in Int OBVIOUS
<1> HIDE DEF u
<1>4. CASE r + f < b
  <2>1. r + f \in 0..(b - 1) BY <1>4
  <2>2. (m + f) % b = r + f
    <3> DEFINE v == r + f
               w == m + f
    <3>1. w = b * q + v /\ w \in Int /\ v \in 0..(b - 1) BY <1>2, <2>1
    <3> HIDE DEF v, w
    <3>2. w % b = v BY <3>1, QuotientIs
    <3> QED BY <3>2 DEF v, w
  <2> QED BY <1>4, <2>2
<1>5. CASE ~(r + f < b)
  <2> DEFINE v == r + f - b
             w == m + f
  <2>1. v \in 0..(b - 1) /\ w = b * u + v /\ w \in Int
    <3>1. v \in 0..(b - 1) BY <1>5
    <3>2. w = b * u + v
      <4> DEFINE c == b * q
                 e == b * u
      <4>1. w = c + (r + f) /\ e = c + b /\ c \in Int BY <1>1, <1>2, <1>3
      <4> HIDE DEF w, c, e
      <4>2. w = e + v BY <4>1
      <4> QED BY <4>2 DEF e
    <3> QED BY <1>2, <3>1, <3>2
  <2> HIDE DEF v, w
  <2>2. w % b = v BY <1>3, <2>1, QuotientIs
  <2>3. (m + f) % b = r + f - b BY <2>2 DEF v, w
  <2> QED BY <2>3
<1> QED BY <1>4, <1>5

(* How many zeros a message of n bytes is padded with.                     *)
ZerosFor(b, f, n) == CHOOSE z \in 0..(b - 1) : (n + 1 + z + f) % b = 0

(* The count the padding takes is that count, and there is no other.       *)
LEMMA ZerosAre ==
  ASSUME NEW b \in Nat, b > 0, NEW f \in 1..b, NEW n \in Nat
  PROVE  /\ ZerosFor(b, f, n) \in 0..(b - 1) /\ (n + 1 + ZerosFor(b, f, n) + f) % b = 0
         /\ \A z \in 0..(b - 1) : (n + 1 + z + f) % b = 0 => z = ZerosFor(b, f, n)
<1> DEFINE a == n + 1 + f
           y == ZerosFor(b, f, n)
<1>1. a \in Nat /\ \A z \in 0..(b - 1) : n + 1 + z + f = a + z OBVIOUS
<1>2. \E z \in 0..(b - 1) : (n + 1 + z + f) % b = 0
  <2> HIDE DEF a
  <2>1. \E z \in 0..(b - 1) : (a + z) % b = 0 BY <1>1, SomeZeros
  <2> QED BY <1>1, <2>1
<1>3. y \in 0..(b - 1) /\ (n + 1 + y + f) % b = 0 BY <1>2 DEF ZerosFor
<1> HIDE DEF y, a
<1>4. ASSUME NEW z \in 0..(b - 1), (n + 1 + z + f) % b = 0 PROVE z = y
  <2>1. (a + z) % b = 0 /\ (a + y) % b = 0 BY <1>1, <1>3, <1>4
  <2>2. CASE y <= z BY <1>1, <1>3, <2>1, <2>2, OneZeros
  <2>3. CASE z <= y BY <1>1, <1>3, <2>1, <2>3, OneZeros
  <2>4. y \in Int /\ z \in Int BY <1>3
  <2> QED BY <2>2, <2>3, <2>4
<1> QED BY <1>3, <1>4 DEF y

-----------------------------------------------------------------------------
(* g is p, of n bytes, a 1 bit and z zeros.                                *)
Ended(g, p, n, z) ==
  /\ IsList(g, n + 1 + z)
  /\ \A x \in 1..n : g[x] = p[x]
  /\ g[n + 1] = 128
  /\ \A x \in 1..z : g[n + 1 + x] = 0

(* A list of one element.                                                  *)
LEMMA OneIs == ASSUME NEW e PROVE IsList(<<e>>, 1) /\ <<e>>[1] = e
BY DEF IsList

(* A list behind a list continues it.                                      *)
LEMMA JoinContinues ==
  ASSUME NEW p, NEW m \in Nat, IsList(p, m), NEW d, NEW k \in Nat, IsList(d, k)
  PROVE  Continues(p \o d, p, m, d, k) /\ IsList(p \o d, m + k)
<1> DEFINE g == p \o d
<1>1. Joins(p, m, d, k) BY JoinIs
<1>2. IsList(g, m + k) /\ \A i \in 1..(m + k) : g[i] = IF i <= m THEN p[i] ELSE d[i - m]
  BY <1>1, Zenon DEF Joins
<1> HIDE DEF g
<1>3. ASSUME NEW x \in 1..m PROVE g[x] = p[x]
  <2>1. x \in 1..(m + k) /\ x <= m OBVIOUS
  <2> QED BY <1>2, <2>1
<1>4. ASSUME NEW x \in 1..k PROVE g[m + x] = d[x]
  <2>1. m + x \in 1..(m + k) /\ ~(m + x <= m) /\ (m + x) - m = x OBVIOUS
  <2>2. g[m + x] = d[(m + x) - m] BY <1>2, <2>1
  <2> QED BY <2>1, <2>2
<1>5. Continues(g, p, m, d, k) BY <1>3, <1>4 DEF Continues
<1> QED BY <1>2, <1>5 DEF g

(* The padding byte.                                                       *)
LEMMA EndsMessage ==
  ASSUME NEW p, NEW n \in Nat, IsList(p, n)
  PROVE  Ended(p \o <<128>>, p, n, 0)
<1> DEFINE d == <<128>>
           g == p \o d
           k == 1
<1>1. k \in Nat /\ IsList(d, k) /\ d[1] = 128 BY OneIs
<1> HIDE DEF d, k
<1>2. Continues(g, p, n, d, k) /\ IsList(g, n + k) BY <1>1, JoinContinues
<1> HIDE DEF g
<1>3. k = 1 BY DEF k
<1>4. g[n + 1] = 128
  <2>1. 1 \in 1..k BY <1>3
  <2> QED BY <1>1, <1>2, <2>1 DEF Continues
<1>5. IsList(g, n + 1 + 0)
  <2>1. n + 1 + 0 = n + k BY <1>3
  <2> QED BY <1>2, <2>1
<1>6. Ended(g, p, n, 0) BY <1>2, <1>4, <1>5 DEF Ended, Continues
<1> QED BY <1>6 DEF g, d

(* One more zero.                                                          *)
LEMMA EndsFurther ==
  ASSUME NEW p, NEW n \in Nat, NEW z \in Nat, NEW g, Ended(g, p, n, z)
  PROVE  Ended(g \o <<0>>, p, n, z + 1)
<1> DEFINE d == <<0>>
           t == g \o d
           k == 1
           m == n + 1 + z
<1>1. k \in Nat /\ IsList(d, k) /\ d[1] = 0 BY OneIs
<1>2. m \in Nat /\ IsList(g, m) BY DEF Ended
<1> HIDE DEF d, k, m
<1>3. Continues(t, g, m, d, k) /\ IsList(t, m + k) BY <1>1, <1>2, JoinContinues
<1> HIDE DEF t
<1>4. k = 1 /\ m = n + 1 + z BY DEF k, m
<1>5. \A x \in 1..n : t[x] = p[x]
  <2>1. \A x \in 1..n : x \in 1..m BY <1>4
  <2> QED BY <1>3, <2>1 DEF Continues, Ended
<1>6. t[n + 1] = 128
  <2>1. n + 1 \in 1..m BY <1>4
  <2> QED BY <1>3, <2>1 DEF Continues, Ended
<1>7. ASSUME NEW x \in 1..(z + 1) PROVE t[n + 1 + x] = 0
  <2>1. CASE x <= z
    <3>1. x \in 1..z /\ n + 1 + x \in 1..m BY <1>4, <2>1
    <3> QED BY <1>3, <3>1 DEF Continues, Ended
  <2>2. CASE ~(x <= z)
    <3>1. n + 1 + x = m + 1 /\ 1 \in 1..k BY <1>4, <2>2
    <3>2. t[m + 1] = d[1] BY <1>3, <3>1 DEF Continues
    <3> QED BY <1>1, <3>1, <3>2
  <2> QED BY <2>1, <2>2
<1>8. IsList(t, n + 1 + (z + 1))
  <2>1. n + 1 + (z + 1) = m + k BY <1>4
  <2> QED BY <1>3, <2>1
<1>9. Ended(t, p, n, z + 1) BY <1>5, <1>6, <1>7, <1>8 DEF Ended
<1> QED BY <1>9 DEF t, d

(* A message that is ended is what Padded begins with.                     *)
LEMMA EndedIs ==
  ASSUME NEW p, NEW n \in Nat, IsList(p, n), NEW z \in Nat, NEW g, Ended(g, p, n, z)
  PROVE  g = p \o <<128>> \o [i \in 1..z |-> 0]
<1> DEFINE a == p \o <<128>>
           e == [i \in 1..z |-> 0]
           m == n + 1
           t == a \o e
<1>1. Ended(a, p, n, 0) BY EndsMessage
<1>2. m \in Nat /\ n + 1 + 0 = m /\ IsList(e, z) BY DEF IsList
<1> HIDE DEF a, m
<1>3. IsList(a, m) BY <1>1, <1>2 DEF Ended
<1> HIDE DEF e
<1>4. Continues(t, a, m, e, z) /\ IsList(t, m + z) BY <1>2, <1>3, JoinContinues
<1> HIDE DEF t
<1>5. m = n + 1 BY DEF m
<1>6. IsList(g, m + z) BY <1>5 DEF Ended
<1>7. ASSUME NEW x \in 1..(m + z) PROVE t[x] = g[x]
  <2>1. CASE x <= n
    <3>1. x \in 1..n /\ x \in 1..m BY <1>5, <2>1
    <3> QED BY <1>1, <1>4, <3>1 DEF Ended, Continues
  <2>2. CASE x = n + 1
    <3>1. x \in 1..m BY <1>5, <2>2
    <3> QED BY <1>1, <1>4, <2>2, <3>1 DEF Ended, Continues
  <2>3. CASE x > n + 1
    <3>1. x - m \in 1..z /\ m + (x - m) = x /\ n + 1 + (x - m) = x BY <1>2, <1>5, <2>3
    <3>2. t[x] = e[x - m] BY <1>4, <3>1 DEF Continues
    <3>3. e[x - m] = 0 BY <3>1 DEF e
    <3>4. g[x] = 0 BY <3>1 DEF Ended
    <3> QED BY <3>2, <3>3, <3>4
  <2>4. x <= n \/ x = n + 1 \/ x > n + 1 BY <1>2
  <2> QED BY <2>1, <2>2, <2>3, <2>4
<1>8. t = g BY <1>4, <1>6, <1>7, ListsEqual
<1> QED BY <1>8 DEF t, a, e

-----------------------------------------------------------------------------
(* What is read back of a hasher of which n bytes count.                   *)
ReadBack(h, n) ==
  LET s == FlattenSeq(h.state) \o Sha!Held(h)
  IN  Sha!Slice(s, 0, Sha!Min2(n, Len(s)))

(* It is the message, when the hasher holds it and perhaps padding behind. *)
LEMMA ReadBackIs ==
  ASSUME NEW h, NEW g, NEW m \in Nat, NEW b \in Nat, b > 0, HoldsAll(h, g, m, b),
         NEW p, NEW n \in Nat, n <= m, IsList(p, n), \A x \in 1..n : g[x] = p[x]
  PROVE  ReadBack(h, n) = p
<1> DEFINE s == Begin(g, m)
<1>1. FlattenSeq(h.state) \o Sha!Held(h) = s BY HeldIs
<1>2. Len(s) = m
  <2>1. IsList(s, m) BY DEF Begin, IsList
  <2> HIDE DEF s
  <2> QED BY <2>1, ListIs
<1>3. Sha!Min2(n, Len(s)) = n BY <1>2 DEF Sha!Min2
<1> HIDE DEF s
<1>4. ReadBack(h, n) = Sha!Slice(s, 0, n) BY <1>1, <1>3 DEF ReadBack
<1>5. Sha!Slice(s, 0, n) = Part(s, 0, n) /\ IsList(Part(s, 0, n), n)
  <2>1. 0 \in Nat /\ 0 + n = n OBVIOUS
  <2>2. Sha!Slice(s, 0, 0 + n) = Part(s, 0, n) /\ IsList(Part(s, 0, n), n)
    BY <2>1, SliceIs
  <2> QED BY <2>1, <2>2
<1>6. ASSUME NEW x \in 1..n PROVE Part(s, 0, n)[x] = p[x]
  <2>1. 0 + x = x /\ x \in 1..m OBVIOUS
  <2>2. Part(s, 0, n)[x] = s[x] BY <2>1 DEF Part
  <2>3. s[x] = g[x] BY <2>1 DEF s, Begin
  <2> QED BY <2>2, <2>3
<1>7. Part(s, 0, n) = p BY <1>5, <1>6, ListsEqual
<1> QED BY <1>4, <1>5, <1>7

(* The hasher's lengths, and what their assumptions give.                  *)
ShaB == ShaBlockLens[s1]
ShaF == ShaFieldLens[s1]

(* Both hashers' lengths.                                                  *)
LEMMA ShaSizes ==
  ASSUME Sha!Sizes, s1 \in ShaAlgorithms
  PROVE  /\ s1 \in {"sha256", "sha512"}
         /\ ShaB \in Nat /\ ShaB > 0 /\ ShaF \in 1..ShaB /\ ShaF \in Nat
         /\ ShaMaxLen \in Nat /\ ShaLengthMod \in Nat
         /\ ShaMaxLen + ShaF < ShaLengthMod /\ 8 * ShaMaxLen < ShaLengthMod
<1>1. ShaB \in Nat /\ ShaF \in 1..ShaB BY DEF Sha!Sizes, ShaB, ShaF
<1>2. ShaB > 0 /\ ShaF \in Nat BY <1>1
<1> QED BY <1>1, <1>2 DEF Sha!Sizes, ShaF

(* Both hashers' update is the one above.                                  *)
LEMMA AbsorbIs ==
  ASSUME Sha!Sizes, s1 \in ShaAlgorithms, NEW h, NEW d
  PROVE  Sha!Absorb(h, d) = Updated(h, d, ShaB)
<1>1. CASE s1 = "sha256"
  BY <1>1 DEF Sha!Absorb, Sha!Update256, Updated, ShaB
<1>2. CASE s1 = "sha512"
  BY <1>2 DEF Sha!Absorb, Sha!Update512, Updated, ShaB
<1> QED BY <1>1, <1>2, ShaSizes

(* Where the length field begins in a block.                               *)
LEMMA FieldAtIs ==
  ASSUME Sha!Sizes, s1 \in ShaAlgorithms
  PROVE  Sha!FieldAt = ShaB - ShaF
<1>1. CASE s1 = "sha256"
  BY <1>1 DEF Sha!FieldAt, Sha!FieldAt256, ShaB, ShaF
<1>2. CASE s1 = "sha512"
  BY <1>2 DEF Sha!FieldAt, Sha!FieldAt512, ShaB, ShaF
<1> QED BY <1>1, <1>2, ShaSizes

(* How much of what is held is message: all, until the length field.       *)
ShaRead == IF s4 = "done" THEN s2.length - ShaF ELSE s2.length

(* What Absorbed reads is this reading.                                    *)
LEMMA AbsorbedIs == Sha!Absorbed = ReadBack(s2, ShaRead)
<1>1. Sha!FlattenSeq(s2.state) = FlattenSeq(s2.state)
  BY Zenon DEF Sha!FlattenSeq, FlattenSeq
<1> QED BY <1>1 DEF Sha!Absorbed, ReadBack, ShaRead, ShaF

(* And so it is in the next state.                                         *)
LEMMA AbsorbedNextIs == Sha!Absorbed' = ReadBack(s2', ShaRead')
<1>1. Sha!FlattenSeq(s2.state)' = FlattenSeq(s2.state)'
  BY Zenon DEF Sha!FlattenSeq, FlattenSeq
<1> QED BY <1>1 DEF Sha!Absorbed, ReadBack, ShaRead, ShaF

(* The hasher holds the message p while it absorbs, p and its padding up   *)
(* to the first fill the length field fits while it pads, and all of the   *)
(* padded message once it is done.                                         *)
ShaAbsorbing(p, n) == s4 = "absorbing" /\ HoldsAll(s2, p, n, ShaB)
ShaPadding(p, n) ==
  /\ s4 = "padding" /\ s3 = 8 * n
  /\ \E z \in 0..ZerosFor(ShaB, ShaF, n) : \E g :
        Ended(g, p, n, z) /\ HoldsAll(s2, g, n + 1 + z, ShaB)

ShaRunning ==
  /\ s5 = NoResult
  /\ \E n \in 0..ShaMaxLen : \E p :
        IsList(p, n) /\ s2.length = n /\ (ShaAbsorbing(p, n) \/ ShaPadding(p, n))

ShaInv == s1 \in ShaAlgorithms /\ (s4 = "done" \/ ShaRunning)

(* The counter takes no more than it can.                                  *)
LEMMA Uncounts ==
  ASSUME NEW n \in Nat, NEW m \in Nat, n + 1 < m
  PROVE  (((n + 1) % m) + m - 1) % m = n
<1> DEFINE u == 0
           w == n + 1
           r == n
           v == w + m - 1
           q == 1
<1>1. m > 0 /\ w \in Int /\ w \in 0..(m - 1) /\ r \in 0..(m - 1) /\ v \in Int OBVIOUS
<1>2. w % m = w
  <2>1. w = m * u + w /\ u \in Int OBVIOUS
  <2> HIDE DEF u, w
  <2> QED BY <1>1, <2>1, QuotientIs
<1>3. v % m = r
  <2>1. v = m * q + r /\ q \in Int OBVIOUS
  <2> HIDE DEF q, v, r
  <2> QED BY <1>1, <2>1, QuotientIs
<1> HIDE DEF w, r
<1>4. ((w % m) + m - 1) % m = r BY <1>2, <1>3
<1> QED BY <1>4 DEF w, r

(* A counter below its modulus is not reduced.                             *)
LEMMA CountsUp ==
  ASSUME NEW n \in Nat, NEW m \in Nat, n < m
  PROVE  n % m = n
<1> DEFINE u == 0
<1>1. n = m * u + n /\ u \in Int /\ n \in 0..(m - 1) /\ m > 0 OBVIOUS
<1> HIDE DEF u
<1> QED BY <1>1, QuotientIs

(* Update.                                                                 *)
LEMMA ShaUpdates ==
  ASSUME Sha!Sizes, ShaInv, NEW k \in 0..ShaMaxLen, Sha!Update(k)
  PROVE  ShaInv' /\ Sha!Hash!Update
<1> DEFINE n == s2.length
           d == Sha!Numbered(n, k)
<1>1. s4 = "absorbing" /\ n + k <= ShaMaxLen /\ s2' = Sha!Absorb(s2, d)
        /\ s1' = s1 /\ s3' = s3 /\ s4' = s4 /\ s5' = s5
  BY DEF Sha!Update
<1>2. s1 \in ShaAlgorithms /\ s5 = NoResult /\ ShaRunning BY <1>1 DEF ShaInv, ShaRunning
<1>3. PICK p : n \in 0..ShaMaxLen /\ IsList(p, n) /\ HoldsAll(s2, p, n, ShaB)
  BY <1>1, <1>2 DEF ShaRunning, ShaAbsorbing, ShaPadding
<1>4. ShaB \in Nat /\ ShaB > 0 /\ ShaMaxLen \in Nat /\ ShaLengthMod \in Nat /\ ShaMaxLen < ShaLengthMod
  BY <1>2, ShaSizes
<1>5. n \in Nat /\ k \in Nat /\ n + k \in Nat /\ n + k \in 0..ShaMaxLen BY <1>1, <1>3, <1>4
<1>6. IsList(d, k) BY DEF Sha!Numbered, IsList
<1>7. s2' = Updated(s2, d, ShaB) BY <1>1, <1>2, AbsorbIs
<1>8. d \in Sha!Pieces BY <1>3 DEF Sha!Pieces
<1> HIDE DEF d
<1>9. Continues(p \o d, p, n, d, k) /\ IsList(p \o d, n + k) BY <1>3, <1>5, <1>6, JoinContinues
<1>10. HoldsAll(s2', p \o d, n + k, ShaB) /\ s2'.length = (n + k) % ShaLengthMod
  <2>1. Adds(Updated(s2, d, ShaB), s2, p \o d, n, k, ShaB)
    <3>1. k \in Nat /\ n \in Nat BY <1>5
    <3>2. ShaB \in Nat /\ ShaB > 0 BY <1>4
    <3> HIDE DEF n
    <3> QED BY <1>3, <1>6, <1>9, <3>1, <3>2, UpdateHolds
  <2> QED BY <1>7, <2>1 DEF Adds
<1>11. s2'.length = n + k
  <2>1. n + k < ShaLengthMod BY <1>4, <1>5
  <2> QED BY <1>4, <1>5, <1>10, <2>1, CountsUp
<1>12. ShaB' = ShaB BY <1>1 DEF ShaB
<1>13. ShaInv'
  BY <1>1, <1>2, <1>5, <1>9, <1>10, <1>11, <1>12 DEF ShaInv, ShaRunning, ShaAbsorbing
<1>14. Sha!Absorbed = p
  <2>1. ShaRead = n BY <1>1 DEF ShaRead
  <2>2. ReadBack(s2, n) = p BY <1>3, <1>4, <1>5, ReadBackIs
  <2> QED BY <2>1, <2>2, AbsorbedIs
<1>15. Sha!Absorbed' = p \o d
  <2>1. ShaRead' = n + k BY <1>1, <1>11 DEF ShaRead
  <2>2. ReadBack(s2', n + k) = p \o d
    <3> DEFINE t == n + k
               g == p \o d
               h == s2'
    <3>1. t \in Nat /\ t <= t /\ HoldsAll(h, g, t, ShaB) /\ IsList(g, t)
      BY <1>5, <1>9, <1>10
    <3>2. ShaB \in Nat /\ ShaB > 0 BY <1>4
    <3> HIDE DEF t, g, h
    <3>3. ReadBack(h, t) = g BY <3>1, <3>2, ReadBackIs
    <3> QED BY <3>3 DEF t, g, h
  <2> QED BY <2>1, <2>2, AbsorbedNextIs
<1>16. Sha!Hash!Update BY <1>1, <1>2, <1>8, <1>14, <1>15 DEF Sha!Hash!Update
<1> QED BY <1>13, <1>16

(* One byte of padding, which does not count.                              *)
LEMMA ShaPads ==
  ASSUME Sha!Sizes, s1 \in ShaAlgorithms, NEW p, NEW m \in Nat, HoldsAll(s2, p, m, ShaB), IsList(p, m),
         s2.length \in 0..ShaMaxLen, NEW e
  PROVE  /\ HoldsAll(Sha!Uncounted(Sha!Absorb(s2, <<e>>)), p \o <<e>>, m + 1, ShaB)
         /\ Sha!Uncounted(Sha!Absorb(s2, <<e>>)).length = s2.length
<1> DEFINE d == <<e>>
           k == 1
           h == Sha!Absorb(s2, d)
           n == s2.length
           l == (h.length + ShaLengthMod - 1) % ShaLengthMod
<1>1. k \in Nat /\ IsList(d, k) BY OneIs
<1> HIDE DEF d, k
<1>2. ShaB \in Nat /\ ShaB > 0 /\ ShaMaxLen \in Nat /\ ShaLengthMod \in Nat
        /\ n \in Nat /\ n + 1 < ShaLengthMod
  <2>1. /\ ShaB \in Nat /\ ShaB > 0 /\ ShaMaxLen \in Nat /\ ShaLengthMod \in Nat
        /\ ShaF \in 1..ShaB /\ ShaMaxLen + ShaF < ShaLengthMod
    BY ShaSizes
  <2> QED BY <2>1
<1>3. h = Updated(s2, d, ShaB) BY AbsorbIs
<1>4. Continues(p \o d, p, m, d, k) BY <1>1, JoinContinues
<1>5. HoldsAll(h, p \o d, m + k, ShaB) /\ h.length = (n + k) % ShaLengthMod
  <2>1. Adds(Updated(s2, d, ShaB), s2, p \o d, m, k, ShaB)
    <3>1. ShaB \in Nat /\ ShaB > 0 BY <1>2
    <3> HIDE DEF h, n, l
    <3> QED BY <1>1, <1>4, <3>1, UpdateHolds
  <2> HIDE DEF h
  <2> QED BY <1>3, <2>1 DEF Adds
<1>6. k = 1 BY DEF k
<1> HIDE DEF h
<1>7. l = n
  <2>1. (((n + 1) % ShaLengthMod) + ShaLengthMod - 1) % ShaLengthMod = n BY <1>2, Uncounts
  <2> QED BY <1>5, <1>6, <2>1
<1>8. Sha!Uncounted(h) = [h EXCEPT !.length = l] BY DEF Sha!Uncounted
<1> HIDE DEF l, n
<1>9. PICK q \in Nat, r \in 0..(ShaB - 1) : m + k = q * ShaB + r /\ Holds(h, p \o d, q, r, ShaB)
  BY <1>5 DEF HoldsAll
<1>10. [h EXCEPT !.length = l]
         = [state |-> h.state, buffer |-> h.buffer, buffered |-> h.buffered, length |-> l]
  BY <1>9 DEF Holds, IsHasher
<1>11. Holds(Sha!Uncounted(h), p \o d, q, r, ShaB) /\ Sha!Uncounted(h).length = l
  BY <1>8, <1>9, <1>10 DEF Holds, IsHasher
<1>12. HoldsAll(Sha!Uncounted(h), p \o d, m + 1, ShaB)
  BY <1>6, <1>9, <1>11 DEF HoldsAll
<1>13. Sha!Uncounted(h).length = n BY <1>7, <1>11
<1> QED BY <1>12, <1>13 DEF h, d, n

(* The padding byte.                                                       *)
LEMMA ShaBegins ==
  ASSUME Sha!Sizes, ShaInv, Sha!BeginFinalize
  PROVE  ShaInv' /\ UNCHANGED Sha!Hash!vars
<1> DEFINE d == <<128>>
<1>0. PICK n : n = s2.length OBVIOUS
<1>1. s4 = "absorbing" /\ s3' = (n * 8) % ShaLengthMod /\ s2' = Sha!Uncounted(Sha!Absorb(s2, d))
        /\ s4' = "padding" /\ s1' = s1 /\ s5' = s5
  BY <1>0 DEF Sha!BeginFinalize
<1>2. s1 \in ShaAlgorithms /\ s5 = NoResult /\ ShaRunning BY <1>1 DEF ShaInv, ShaRunning
<1>3. PICK p : n \in 0..ShaMaxLen /\ IsList(p, n) /\ HoldsAll(s2, p, n, ShaB)
  BY <1>0, <1>1, <1>2 DEF ShaRunning, ShaAbsorbing, ShaPadding
<1>4. /\ ShaB \in Nat /\ ShaB > 0 /\ ShaF \in 1..ShaB /\ ShaMaxLen \in Nat
      /\ ShaLengthMod \in Nat /\ 8 * ShaMaxLen < ShaLengthMod
  BY <1>2, ShaSizes
<1>5. n \in Nat BY <1>3, <1>4
<1>6. HoldsAll(s2', p \o d, n + 1, ShaB) /\ s2'.length = n
  BY <1>0, <1>1, <1>2, <1>3, <1>5, ShaPads
<1>7. Ended(p \o d, p, n, 0) BY <1>3, <1>5, EndsMessage
<1>8. s3' = 8 * n
  <2>1. n * 8 \in Nat /\ n * 8 < ShaLengthMod /\ n * 8 = 8 * n BY <1>3, <1>4, <1>5
  <2>2. (n * 8) % ShaLengthMod = n * 8 BY <1>4, <2>1, CountsUp
  <2> QED BY <1>1, <2>1, <2>2
<1>9. ShaB' = ShaB /\ ShaF' = ShaF BY <1>1 DEF ShaB, ShaF
<1> HIDE DEF d
<1>10. ShaPadding(p, n)'
  <2>1. 0 \in 0..ZerosFor(ShaB, ShaF, n)
    <3> DEFINE Z == ZerosFor(ShaB, ShaF, n)
    <3>1. Z \in 0..(ShaB - 1)
      <4>1. ShaB \in Nat /\ ShaB > 0 /\ ShaF \in 1..ShaB BY <1>4
      <4> QED BY <1>5, <4>1, ZerosAre
    <3> HIDE DEF Z
    <3>2. 0 \in 0..Z BY <1>4, <3>1
    <3> QED BY <3>2 DEF Z
  <2>2. n + 1 + 0 = n + 1 BY <1>5
  <2>3. HoldsAll(s2', p \o d, n + 1 + 0, ShaB) BY <1>6, <2>2
  <2>4. \E z \in 0..ZerosFor(ShaB, ShaF, n) : \E g :
           Ended(g, p, n, z) /\ HoldsAll(s2', g, n + 1 + z, ShaB)
    BY <1>7, <2>1, <2>3
  <2> QED BY <1>1, <1>8, <1>9, <2>4 DEF ShaPadding
<1>11. ShaInv'
  BY <1>1, <1>2, <1>3, <1>6, <1>10 DEF ShaInv, ShaRunning
<1>12. Sha!Absorbed = p
  <2>1. ShaRead = n BY <1>0, <1>1 DEF ShaRead
  <2>2. ReadBack(s2, n) = p BY <1>3, <1>4, <1>5, ReadBackIs
  <2> QED BY <2>1, <2>2, AbsorbedIs
<1>13. Sha!Absorbed' = p
  <2>1. ShaRead' = n BY <1>1, <1>6 DEF ShaRead
  <2>2. ReadBack(s2', n) = p
    <3> DEFINE t == n + 1
               g == p \o d
               h == s2'
    <3>1. t \in Nat /\ n <= t /\ HoldsAll(h, g, t, ShaB) BY <1>5, <1>6
    <3>2. \A x \in 1..n : g[x] = p[x] BY <1>7 DEF Ended
    <3>3. ShaB \in Nat /\ ShaB > 0 BY <1>4
    <3> HIDE DEF t, g, h
    <3>4. ReadBack(h, n) = p BY <1>3, <1>5, <3>1, <3>2, <3>3, ReadBackIs
    <3> QED BY <3>4 DEF h
  <2> QED BY <2>1, <2>2, AbsorbedNextIs
<1>14. UNCHANGED Sha!Hash!vars BY <1>1, <1>12, <1>13 DEF Sha!Hash!vars
<1> QED BY <1>11, <1>14

(* While it pads: the message, what was added to it, and how the fill of   *)
(* the buffer tells whether all of it was.                                 *)
PaddedBy(p, n, z, g) ==
  /\ n \in 0..ShaMaxLen /\ n \in Nat /\ z \in 0..ZerosFor(ShaB, ShaF, n) /\ z \in Nat
  /\ s2.length = n /\ s3 = 8 * n /\ s5 = NoResult
  /\ IsList(p, n) /\ Ended(g, p, n, z) /\ IsList(g, n + 1 + z)
  /\ HoldsAll(s2, g, n + 1 + z, ShaB)
  /\ s2.buffered = ShaB - ShaF <=> z = ZerosFor(ShaB, ShaF, n)

(* The fill from which f bytes reach the edge, and no other.               *)
AtEdge(m, b, r, f) == (m + f) % b = 0 <=> r = b - f

(* It is so for every message.                                             *)
LEMMA AtEdgeIs ==
  ASSUME NEW m, NEW b \in Nat, b > 0, NEW q \in Nat, NEW r \in 0..(b - 1), m = q * b + r,
         NEW f \in 1..b
  PROVE  AtEdge(m, b, r, f)
BY EdgeIs DEF AtEdge

(* While it pads, the hasher holds the message, the 1 and some zeros.      *)
LEMMA PaddingIs ==
  ASSUME Sha!Sizes, ShaInv, s4 = "padding"
  PROVE  \E p, n, z, g : PaddedBy(p, n, z, g) /\ Sha!Absorbed = p
<1>1. s1 \in ShaAlgorithms /\ s5 = NoResult /\ ShaRunning BY DEF ShaInv, ShaRunning
<1>2. PICK n \in 0..ShaMaxLen : \E p : IsList(p, n) /\ s2.length = n /\ ShaPadding(p, n)
  BY <1>1 DEF ShaRunning, ShaAbsorbing
<1>3. PICK p : IsList(p, n) /\ s2.length = n /\ ShaPadding(p, n) BY <1>2
<1> DEFINE Z == ZerosFor(ShaB, ShaF, n)
<1>4. PICK z \in 0..Z : \E g : Ended(g, p, n, z) /\ HoldsAll(s2, g, n + 1 + z, ShaB)
  BY <1>3 DEF ShaPadding
<1>5. PICK g : Ended(g, p, n, z) /\ HoldsAll(s2, g, n + 1 + z, ShaB) BY <1>4
<1>6. ShaB \in Nat /\ ShaB > 0 /\ ShaF \in 1..ShaB /\ ShaF \in Nat /\ ShaMaxLen \in Nat
  BY <1>1, ShaSizes
<1>7. n \in Nat BY <1>6
<1>8. /\ Z \in 0..(ShaB - 1) /\ (n + 1 + Z + ShaF) % ShaB = 0
      /\ \A y \in 0..(ShaB - 1) : (n + 1 + y + ShaF) % ShaB = 0 => y = Z
  BY <1>6, <1>7, ZerosAre
<1> HIDE DEF Z
<1>9. z \in Nat /\ z \in 0..(ShaB - 1) BY <1>6, <1>8
<1> DEFINE m == n + 1 + z
<1>10. PICK q \in Nat, r \in 0..(ShaB - 1) : m = q * ShaB + r /\ Holds(s2, g, q, r, ShaB)
  BY <1>5 DEF HoldsAll
<1>11. s2.buffered = r BY <1>10 DEF Holds
<1> HIDE DEF m
<1>12. (m + ShaF) % ShaB = 0 <=> r = ShaB - ShaF
  <2> DEFINE b == ShaB
             f == ShaF
  <2>1. b \in Nat /\ b > 0 /\ f \in 1..b /\ q \in Nat /\ r \in 0..(b - 1) /\ m = q * b + r
    BY <1>6, <1>10
  <2> HIDE DEF b, f
  <2>2. AtEdge(m, b, r, f) BY <2>1, AtEdgeIs
  <2> QED BY <2>2 DEF b, f, AtEdge
<1>13. s2.buffered = ShaB - ShaF <=> z = Z BY <1>8, <1>9, <1>11, <1>12 DEF m
<1>14. PaddedBy(p, n, z, g)
  BY <1>1, <1>3, <1>5, <1>7, <1>9, <1>13 DEF PaddedBy, ShaPadding, Ended, Z
<1>15. Sha!Absorbed = p
  <2>1. ShaRead = n BY <1>3 DEF ShaRead
  <2>2. ReadBack(s2, n) = p
    <3>1. m \in Nat /\ n <= m BY <1>7, <1>9 DEF m
    <3>2. HoldsAll(s2, g, m, ShaB) BY <1>5 DEF m
    <3>3. \A x \in 1..n : g[x] = p[x] BY <1>5 DEF Ended
    <3>4. ShaB \in Nat /\ ShaB > 0 BY <1>6
    <3> QED BY <1>3, <1>7, <3>1, <3>2, <3>3, <3>4, ReadBackIs
  <2> QED BY <2>1, <2>2, AbsorbedIs
<1> QED BY <1>14, <1>15

(* One zero.                                                               *)
LEMMA ShaPadsZero ==
  ASSUME Sha!Sizes, ShaInv, Sha!PadZero
  PROVE  ShaInv' /\ UNCHANGED Sha!Hash!vars
<1>1. s4 = "padding" /\ s2.buffered # Sha!FieldAt /\ s2' = Sha!Uncounted(Sha!Absorb(s2, <<0>>))
        /\ s1' = s1 /\ s3' = s3 /\ s4' = s4 /\ s5' = s5
  BY DEF Sha!PadZero
<1>2. s1 \in ShaAlgorithms BY DEF ShaInv
<1>3. PICK p, n, z, g : PaddedBy(p, n, z, g) /\ Sha!Absorbed = p BY <1>1, PaddingIs
<1>4. ShaB \in Nat /\ ShaB > 0 /\ ShaF \in 1..ShaB BY <1>2, ShaSizes
<1> DEFINE Z == ZerosFor(ShaB, ShaF, n)
           d == <<0>>
           m == n + 1 + z
<1>5. n \in Nat /\ z \in Nat /\ z \in 0..Z /\ n \in 0..ShaMaxLen /\ IsList(p, n) /\ s2.length = n
        /\ s3 = 8 * n /\ s5 = NoResult /\ Ended(g, p, n, z) /\ IsList(g, m) /\ HoldsAll(s2, g, m, ShaB)
  BY <1>3 DEF PaddedBy
<1>6. z # Z
  <2>1. Sha!FieldAt = ShaB - ShaF BY <1>2, FieldAtIs
  <2> QED BY <1>1, <1>3, <2>1 DEF PaddedBy
<1>7. Z \in Nat BY <1>4, <1>5, ZerosAre
<1>8. z + 1 \in 0..Z /\ z + 1 \in Nat
  <2> HIDE DEF Z
  <2> QED BY <1>5, <1>6, <1>7
<1>9. m \in Nat /\ n + 1 + (z + 1) = m + 1 BY <1>5
<1> HIDE DEF m
<1>10. HoldsAll(s2', g \o d, m + 1, ShaB) /\ s2'.length = n
  BY <1>1, <1>2, <1>5, <1>9, ShaPads
<1>11. Ended(g \o d, p, n, z + 1) BY <1>5, EndsFurther
<1>12. ShaB' = ShaB /\ ShaF' = ShaF BY <1>1 DEF ShaB, ShaF
<1> HIDE DEF d
<1>13. ShaPadding(p, n)'
  <2>1. HoldsAll(s2', g \o d, n + 1 + (z + 1), ShaB) BY <1>9, <1>10
  <2>2. \E y \in 0..Z : \E e : Ended(e, p, n, y) /\ HoldsAll(s2', e, n + 1 + y, ShaB)
    BY <1>8, <1>11, <2>1
  <2> QED BY <1>1, <1>5, <1>12, <2>2 DEF ShaPadding
<1>14. ShaInv' BY <1>1, <1>2, <1>5, <1>10, <1>13 DEF ShaInv, ShaRunning
<1>15. Sha!Absorbed' = p
  <2>1. ShaRead' = n BY <1>1, <1>10 DEF ShaRead
  <2>2. ReadBack(s2', n) = p
    <3> DEFINE t == m + 1
               e == g \o d
               h == s2'
    <3>1. t \in Nat /\ n <= t /\ HoldsAll(h, e, t, ShaB)
      <4>1. m = n + 1 + z BY DEF m
      <4> QED BY <1>5, <1>9, <1>10, <4>1
    <3>2. \A x \in 1..n : e[x] = p[x] BY <1>11 DEF Ended
    <3>3. ShaB \in Nat /\ ShaB > 0 BY <1>4
    <3> HIDE DEF t, e, h
    <3>4. ReadBack(h, n) = p BY <1>5, <3>1, <3>2, <3>3, ReadBackIs
    <3> QED BY <3>4 DEF h
  <2> QED BY <2>1, <2>2, AbsorbedNextIs
<1>16. UNCHANGED Sha!Hash!vars BY <1>1, <1>3, <1>15 DEF Sha!Hash!vars
<1> QED BY <1>14, <1>16

(* The length field, which ends a block.                                   *)
LEMMA ShaFinishes ==
  ASSUME Sha!Sizes, ShaInv, Sha!WriteLength
  PROVE  ShaInv' /\ Sha!Hash!Finalize
<1> DEFINE d == Sha!BigEndian(s3, ShaF)
<1>1. s4 = "padding" /\ s2.buffered = Sha!FieldAt /\ s2' = Sha!Absorb(s2, d)
        /\ s5' = s2'.state /\ s4' = "done" /\ s1' = s1 /\ s3' = s3
  BY DEF Sha!WriteLength, ShaF
<1>2. s1 \in ShaAlgorithms BY DEF ShaInv
<1>3. PICK p, n, z, g : PaddedBy(p, n, z, g) /\ Sha!Absorbed = p BY <1>1, PaddingIs
<1>4. /\ ShaB \in Nat /\ ShaB > 0 /\ ShaF \in 1..ShaB /\ ShaF \in Nat
      /\ ShaMaxLen \in Nat /\ ShaLengthMod \in Nat /\ ShaMaxLen + ShaF < ShaLengthMod
  BY <1>2, ShaSizes
<1> DEFINE Z == ZerosFor(ShaB, ShaF, n)
           m == n + 1 + z
           t == m + ShaF
           e == g \o d
           h == s2'
<1>5. n \in Nat /\ z \in Nat /\ z \in 0..Z /\ n \in 0..ShaMaxLen /\ IsList(p, n) /\ s2.length = n
        /\ s3 = 8 * n /\ s5 = NoResult /\ Ended(g, p, n, z) /\ IsList(g, m) /\ HoldsAll(s2, g, m, ShaB)
  BY <1>3 DEF PaddedBy
<1>6. z = Z
  <2>1. Sha!FieldAt = ShaB - ShaF BY <1>2, FieldAtIs
  <2> QED BY <1>1, <1>3, <2>1 DEF PaddedBy
<1>7. m \in Nat /\ t \in Nat /\ t % ShaB = 0 /\ n <= m /\ m <= t
  <2>1. (n + 1 + Z + ShaF) % ShaB = 0 BY <1>4, <1>5, ZerosAre
  <2> HIDE DEF Z
  <2> QED BY <1>4, <1>5, <1>6, <2>1
<1>8. IsList(d, ShaF) BY DEF Sha!BigEndian, IsList
<1> HIDE DEF d, Z
<1>9. Continues(e, g, m, d, ShaF) /\ IsList(e, t)
  <2> HIDE DEF m
  <2> QED BY <1>4, <1>5, <1>7, <1>8, JoinContinues
<1> HIDE DEF e, m
<1>10. HoldsAll(h, e, t, ShaB) /\ h.length = (n + ShaF) % ShaLengthMod
  <2>1. Adds(Updated(s2, d, ShaB), s2, e, m, ShaF, ShaB)
    <3>1. ShaB \in Nat /\ ShaB > 0 /\ ShaF \in Nat BY <1>4
    <3> HIDE DEF t, h
    <3> QED BY <1>5, <1>7, <1>8, <1>9, <3>1, UpdateHolds
  <2> QED BY <1>1, <1>2, <1>5, <2>1, AbsorbIs DEF Adds
<1>11. h.length = n + ShaF
  <2>1. n + ShaF \in Nat /\ n + ShaF < ShaLengthMod BY <1>4, <1>5
  <2>2. (n + ShaF) % ShaLengthMod = n + ShaF BY <1>4, <2>1, CountsUp
  <2> HIDE DEF h
  <2> QED BY <1>10, <2>2
<1> HIDE DEF t
<1>12. PICK q \in Nat, r \in 0..(ShaB - 1) : t = q * ShaB + r /\ Holds(h, e, q, r, ShaB)
  BY <1>10 DEF HoldsAll
<1>13. t = q * ShaB
  <2>1. t = ShaB * q + r BY <1>4, <1>12
  <2>2. t % ShaB = r BY <1>4, <1>7, <2>1, QuotientIs
  <2>3. q * ShaB \in Nat BY <1>4
  <2> QED BY <1>7, <1>12, <2>2, <2>3
<1>14. h.state = BlocksOf(e, q, ShaB) BY <1>12 DEF Holds
<1>15. Sha!Padded(s1, p) = e
  <2>1. Len(p) = n BY <1>5, ListIs
  <2>2. Sha!Padded(s1, p)
          = p \o <<128>> \o [i \in 1..ZerosFor(ShaB, ShaF, n) |-> 0] \o Sha!BigEndian(8 * n, ShaF)
    BY <2>1 DEF Sha!Padded, ZerosFor, ShaB, ShaF
  <2>3. p \o <<128>> \o [i \in 1..z |-> 0] = g BY <1>5, EndedIs
  <2>4. Sha!BigEndian(8 * n, ShaF) = d BY <1>5 DEF d
  <2> QED BY <1>6, <2>2, <2>3, <2>4 DEF e, Z
<1>16. Sha!Blocks(s1, p) = BlocksOf(e, q, ShaB)
  <2>1. Sha!Blocks(s1, p) = [i \in 1..(Len(e) \div ShaB) |-> Sha!Chunk(e, i, ShaB)]
    BY <1>15 DEF Sha!Blocks, ShaB
  <2>2. [i \in 1..(Len(e) \div ShaB) |-> Sha!Chunk(e, i, ShaB)] = BlocksOf(e, q, ShaB)
    BY <1>4, <1>9, <1>13, ChunksAre
  <2> QED BY <2>1, <2>2
<1>17. Sha!Absorbed' = p
  <2>1. ShaRead' = n
    <3>1. ShaRead' = h.length - ShaF BY <1>1 DEF ShaRead, ShaF
    <3> HIDE DEF h
    <3> QED BY <1>4, <1>5, <1>11, <3>1
  <2>2. ReadBack(h, n) = p
    <3>1. n <= t /\ n \in Nat /\ t \in Nat BY <1>5, <1>7
    <3>2. \A x \in 1..n : e[x] = p[x]
      <4>1. \A x \in 1..n : x \in 1..m BY <1>5, <1>7
      <4> QED BY <1>5, <1>9, <4>1 DEF Ended, Continues
    <3>3. ShaB \in Nat /\ ShaB > 0 BY <1>4
    <3> HIDE DEF h
    <3> QED BY <1>5, <1>10, <3>1, <3>2, <3>3, ReadBackIs
  <2> QED BY <2>1, <2>2, AbsorbedNextIs
<1>18. s5' = Sha!Blocks(s1, Sha!Absorbed) BY <1>1, <1>3, <1>14, <1>16
<1>19. Sha!Hash!Finalize BY <1>1, <1>3, <1>5, <1>17, <1>18 DEF Sha!Hash!Finalize
<1>20. ShaInv' BY <1>1, <1>2 DEF ShaInv
<1> QED BY <1>19, <1>20

(* Nothing is held at first.                                               *)
LEMMA ShaInits ==
  ASSUME Sha!Sizes, Sha!Init
  PROVE  ShaInv /\ Sha!Hash!Init
<1> DEFINE z == 0
           e == <<>>
<1>1. s1 \in ShaAlgorithms /\ s2 = Sha!New(ShaB) /\ s4 = "absorbing" /\ s5 = NoResult
  BY DEF Sha!Init, ShaB
<1>2. ShaB \in Nat /\ ShaB > 0 /\ ShaMaxLen \in Nat BY <1>1, ShaSizes
<1>3. IsList(e, z) BY DEF IsList
<1>4. z \in Nat /\ z \in 0..(ShaB - 1) /\ z * ShaB = 0 /\ z * ShaB + z = z /\ z \in 0..ShaMaxLen
  BY <1>2
<1>5. Holds(s2, e, z, z, ShaB) /\ s2.length = z
  BY <1>1 DEF Sha!New, Holds, IsHasher, BlocksOf, IsList
<1> HIDE DEF z, e
<1>6. HoldsAll(s2, e, z, ShaB) BY <1>4, <1>5 DEF HoldsAll
<1>7. ShaInv BY <1>1, <1>3, <1>4, <1>5, <1>6 DEF ShaInv, ShaRunning, ShaAbsorbing
<1>8. Sha!Absorbed = e
  <2>1. ShaRead = z BY <1>1, <1>5 DEF ShaRead
  <2>2. z <= z BY <1>4
  <2>3. \A x \in 1..z : e[x] = e[x] OBVIOUS
  <2>4. ReadBack(s2, z) = e BY <1>2, <1>3, <1>4, <1>6, <2>2, <2>3, ReadBackIs
  <2> QED BY <2>1, <2>4, AbsorbedIs
<1>9. Sha!Hash!Init BY <1>1, <1>8 DEF Sha!Hash!Init, e
<1> QED BY <1>7, <1>9

(* Every step of the hasher is a step of its OneShot or none.              *)
LEMMA ShaSteps ==
  ASSUME Sha!Sizes, ShaInv, Sha!Next
  PROVE  ShaInv' /\ (Sha!Hash!Next \/ UNCHANGED Sha!Hash!vars)
<1>1. CASE \E k \in 0..ShaMaxLen : Sha!Update(k)
  BY <1>1, ShaUpdates DEF Sha!Hash!Next
<1>2. CASE Sha!BeginFinalize BY <1>2, ShaBegins
<1>3. CASE Sha!PadZero BY <1>3, ShaPadsZero
<1>4. CASE Sha!WriteLength BY <1>4, ShaFinishes DEF Sha!Hash!Next
<1> QED BY <1>1, <1>2, <1>3, <1>4 DEF Sha!Next

-----------------------------------------------------------------------------
(* BLAKE2b.  c whole blocks of the message g were compressed, none of them *)
(* as the last, and the buffer holds the k bytes behind them, m in all.    *)
OpenBlocks(g, c) ==
  [i \in 1..c |-> Blake!Compressed([j \in 1..BlakeBlock |-> g[Place(i, j, BlakeBlock)]],
                                   i * BlakeBlock, FALSE)]

BlakeHeld(st, buf, k, cnt, g, m, c) ==
  /\ m = c * BlakeBlock + k /\ k \in 0..BlakeBlock
  /\ st = OpenBlocks(g, c) /\ cnt = c * BlakeBlock
  /\ IsList(buf, BlakeBlock)
  /\ \A x \in 1..k : buf[x] = g[c * BlakeBlock + x]

(* The beginning of a message and what follows it.                         *)
LEMMA BeginJoins ==
  ASSUME NEW g, NEW n \in Nat, NEW e, NEW r \in Nat, IsList(e, r), \A x \in 1..r : e[x] = g[n + x]
  PROVE  Begin(g, n) \o e = Begin(g, n + r)
<1> DEFINE F == Begin(g, n)
           H == Begin(g, n + r)
           J == F \o e
<1>1. IsList(F, n) /\ IsList(H, n + r) BY DEF Begin, IsList
<1> HIDE DEF J
<1>2. Continues(J, F, n, e, r) /\ IsList(J, n + r)
  <2> HIDE DEF F
  <2> QED BY <1>1, JoinContinues DEF J
<1>3. ASSUME NEW x \in 1..(n + r) PROVE J[x] = H[x]
  <2>1. H[x] = g[x] BY DEF Begin
  <2>2. CASE x <= n
    <3>1. x \in 1..n BY <2>2
    <3>2. F[x] = g[x] BY <3>1 DEF Begin
    <3> HIDE DEF F, H
    <3> QED BY <1>2, <2>1, <3>1, <3>2 DEF Continues
  <2>3. CASE ~(x <= n)
    <3>1. x - n \in 1..r /\ n + (x - n) = x BY <2>3
    <3>2. J[n + (x - n)] = e[x - n] BY <1>2, <3>1 DEF Continues
    <3>3. e[x - n] = g[n + (x - n)] BY <3>1
    <3> HIDE DEF H
    <3> QED BY <2>1, <3>1, <3>2, <3>3
  <2> QED BY <2>2, <2>3
<1>4. J = H
  <2> HIDE DEF H
  <2> QED BY <1>1, <1>2, <1>3, ListsEqual
<1> QED BY <1>4 DEF J

(* One element more.                                                       *)
LEMMA AppendIs ==
  ASSUME NEW c \in Nat, NEW s, IsList(s, c), NEW x
  PROVE  Append(s, x) = [i \in 1..(c + 1) |-> IF i <= c THEN s[i] ELSE x]
<1>1. PICK S : s \in Seq(S) BY ListIs
<1>2. Len(s) = c BY ListIs
<1> DEFINE T == S \cup {x}
           t == Append(s, x)
           k == c + 1
<1>3. s \in Seq(T) /\ x \in T BY <1>1
<1> HIDE DEF T
<1>4. t \in Seq(T) /\ Len(t) = k /\ (\A i \in 1..c : t[i] = s[i]) /\ t[k] = x
  BY <1>2, <1>3, AppendProperties
<1>5. k \in Nat /\ \A i \in 1..k : (i <= c => i \in 1..c) /\ (~(i <= c) => i = k) OBVIOUS
<1> HIDE DEF t, k
<1>6. t = [i \in 1..k |-> t[i]] BY <1>4, <1>5
<1>7. \A i \in 1..k : t[i] = IF i <= c THEN s[i] ELSE x BY <1>4, <1>5
<1>8. t = [i \in 1..k |-> IF i <= c THEN s[i] ELSE x] BY <1>6, <1>7
<1> QED BY <1>8 DEF t, k

(* The bytes of the blocks compressed.                                     *)
LEMMA OpenBlocksRead ==
  ASSUME BlakeBlock \in Nat, NEW g, NEW c \in Nat
  PROVE  /\ IsList(OpenBlocks(g, c), c)
         /\ FlattenSeq([i \in 1..Len(OpenBlocks(g, c)) |-> OpenBlocks(g, c)[i].block])
              = Begin(g, c * BlakeBlock)
<1> DEFINE st == OpenBlocks(g, c)
<1>1. IsList(st, c) BY DEF OpenBlocks, IsList
<1>2. Len(st) = c
  <2> HIDE DEF st
  <2> QED BY <1>1, ListIs
<1>3. \A i \in 1..c : st[i].block = [j \in 1..BlakeBlock |-> g[Place(i, j, BlakeBlock)]]
  BY DEF OpenBlocks, Blake!Compressed
<1> HIDE DEF st
<1>4. [i \in 1..Len(st) |-> st[i].block] = BlocksOf(g, c, BlakeBlock)
  BY <1>2, <1>3 DEF BlocksOf
<1>5. FlattenSeq(BlocksOf(g, c, BlakeBlock)) = Begin(g, c * BlakeBlock) BY FlattenBlocks
<1> QED BY <1>1, <1>4, <1>5 DEF st

(* What is read of a state, a buffer of which k bytes count, and the rest. *)
ReadOpen(st, buf, k, rest) ==
  FlattenSeq([i \in 1..Len(st) |-> st[i].block]) \o SubSeq(buf, 1, k) \o rest

(* It is the whole message.                                                *)
LEMMA ReadOpenIs ==
  ASSUME BlakeBlock \in Nat, NEW g, NEW n \in Nat, IsList(g, n), NEW m \in 0..n, NEW c \in Nat,
         NEW st, NEW buf, NEW k, NEW cnt, BlakeHeld(st, buf, k, cnt, g, m, c)
  PROVE  ReadOpen(st, buf, k, Part(g, m, n - m)) = g
<1> DEFINE o == c * BlakeBlock
           e == SubSeq(buf, 1, k)
           l == n - m
           t == Part(g, m, l)
<1>1. o \in Nat /\ k \in Nat /\ m \in Nat /\ m = o + k /\ l \in Nat /\ m + l = n
  BY DEF BlakeHeld
<1>2. FlattenSeq([i \in 1..Len(st) |-> st[i].block]) = Begin(g, o)
  BY OpenBlocksRead DEF BlakeHeld
<1>3. e = Part(buf, 0, k) /\ IsList(e, k)
  <2>1. 0 \in Nat /\ 0 + 1 = 1 /\ 0 + k = k BY <1>1
  <2>2. SubSeq(buf, 0 + 1, 0 + k) = Part(buf, 0, k) /\ IsList(Part(buf, 0, k), k)
    BY <1>1, <2>1, SubSeqIs
  <2> QED BY <2>1, <2>2
<1>4. \A x \in 1..k : e[x] = g[o + x]
  <2>1. \A x \in 1..k : 0 + x = x BY <1>1
  <2>2. \A x \in 1..k : e[x] = buf[x] BY <1>3, <2>1 DEF Part
  <2> HIDE DEF e
  <2> QED BY <2>2 DEF BlakeHeld
<1> HIDE DEF e
<1>5. Begin(g, o) \o e = Begin(g, m)
  <2> HIDE DEF o
  <2>2. o \in Nat /\ k \in Nat /\ IsList(e, k) BY <1>1, <1>3
  <2>1. Begin(g, o) \o e = Begin(g, o + k) BY <1>4, <2>2, BeginJoins
  <2> QED BY <1>1, <2>1
<1>6. IsList(t, l) /\ \A x \in 1..l : t[x] = g[m + x] BY DEF Part, IsList
<1> HIDE DEF t
<1>7. Begin(g, m) \o t = Begin(g, n)
  <2>1. m \in Nat /\ l \in Nat BY <1>1
  <2> HIDE DEF l
  <2>2. Begin(g, m) \o t = Begin(g, m + l) BY <1>6, <2>1, BeginJoins
  <2> QED BY <1>1, <2>2
<1>8. Begin(g, n) = g BY DEF Begin, IsList
<1> QED BY <1>2, <1>5, <1>7, <1>8 DEF ReadOpen, e, t

(* Bytes copied behind those held.                                         *)
LEMMA BlakeFills ==
  ASSUME BlakeBlock \in Nat, NEW g, NEW m \in Nat, NEW c \in Nat, NEW st, NEW buf, NEW k, NEW cnt,
         BlakeHeld(st, buf, k, cnt, g, m, c),
         NEW e, NEW t \in Nat, IsList(e, t), k + t <= BlakeBlock, \A x \in 1..t : e[x] = g[m + x]
  PROVE  BlakeHeld(st, Blake!CopyInto(buf, k, e), k + t, cnt, g, m + t, c)
<1> DEFINE f == Blake!CopyInto(buf, k, e)
           o == c * BlakeBlock
<1>1. o \in Nat /\ k \in Nat /\ m = o + k BY DEF BlakeHeld
<1>2. Len(e) = t BY ListIs
<1>3. f = [i \in 1..BlakeBlock |-> IF i - k \in 1..t THEN e[i - k] ELSE buf[i]]
  BY <1>2 DEF Blake!CopyInto
<1> HIDE DEF f, o
<1>4. IsList(f, BlakeBlock) BY <1>3 DEF IsList
<1>5. ASSUME NEW x \in 1..(k + t) PROVE f[x] = g[o + x]
  <2>1. x \in 1..BlakeBlock BY <1>1
  <2>2. f[x] = IF x - k \in 1..t THEN e[x - k] ELSE buf[x] BY <1>3, <2>1
  <2>3. CASE x <= k
    <3>1. x \in 1..k /\ ~(x - k \in 1..t) BY <1>1, <2>3
    <3>2. buf[x] = g[o + x] BY <3>1 DEF BlakeHeld, o
    <3> QED BY <2>2, <3>1, <3>2
  <2>4. CASE ~(x <= k)
    <3>1. x - k \in 1..t /\ m + (x - k) = o + x BY <1>1, <2>4
    <3>2. e[x - k] = g[m + (x - k)] BY <3>1
    <3> QED BY <2>2, <3>1, <3>2
  <2> QED BY <2>3, <2>4
<1>6. m + t = o + (k + t) /\ k + t \in 0..BlakeBlock BY <1>1
<1>7. st = OpenBlocks(g, c) /\ cnt = o BY DEF BlakeHeld, o
<1>8. BlakeHeld(st, f, k + t, cnt, g, m + t, c)
  BY <1>4, <1>5, <1>6, <1>7 DEF BlakeHeld, o
<1> QED BY <1>8 DEF f

(* A full buffer is compressed, since more follows.                        *)
LEMMA BlakeFlushes ==
  ASSUME BlakeBlock \in Nat, NEW g, NEW m, NEW c \in Nat, NEW st, NEW buf, NEW cnt,
         BlakeHeld(st, buf, BlakeBlock, cnt, g, m, c)
  PROVE  BlakeHeld(Append(st, Blake!Compressed(buf, cnt + BlakeBlock, FALSE)), buf, 0,
                   cnt + BlakeBlock, g, m, c + 1)
<1> DEFINE b == Blake!Compressed(buf, cnt + BlakeBlock, FALSE)
           w == c + 1
           o == c * BlakeBlock
<1>1. m = o + BlakeBlock /\ st = OpenBlocks(g, c) /\ cnt = o /\ IsList(buf, BlakeBlock)
        /\ \A x \in 1..BlakeBlock : buf[x] = g[o + x]
  BY DEF BlakeHeld
<1>2. w \in Nat /\ w * BlakeBlock = o + BlakeBlock /\ o \in Nat /\ w - 1 = c OBVIOUS
<1>3. buf = [j \in 1..BlakeBlock |-> g[Place(w, j, BlakeBlock)]]
  <2>1. \A j \in 1..BlakeBlock : Place(w, j, BlakeBlock) = o + j BY <1>2 DEF Place
  <2> HIDE DEF w, o
  <2> QED BY <1>1, <2>1 DEF IsList
<1>4. b = OpenBlocks(g, w)[w]
  <2>1. w \in 1..w BY <1>2
  <2>2. OpenBlocks(g, w)[w]
          = Blake!Compressed([j \in 1..BlakeBlock |-> g[Place(w, j, BlakeBlock)]], w * BlakeBlock, FALSE)
    BY <2>1 DEF OpenBlocks
  <2>3. cnt + BlakeBlock = w * BlakeBlock BY <1>1, <1>2
  <2> HIDE DEF w
  <2> QED BY <1>3, <2>2, <2>3
<1>5. \A i \in 1..c : i \in 1..w /\ st[i] = OpenBlocks(g, w)[i]
  <2>1. \A i \in 1..c : i \in 1..w OBVIOUS
  <2>2. st = OpenBlocks(g, c) BY <1>1
  <2> HIDE DEF b, w, o
  <2>3. \A i \in 1..c : OpenBlocks(g, c)[i] = OpenBlocks(g, w)[i] BY <2>1 DEF OpenBlocks
  <2> QED BY <2>1, <2>2, <2>3
<1> HIDE DEF b
<1>6. IsList(st, c) BY <1>1 DEF OpenBlocks, IsList
<1>7. Append(st, b) = [i \in 1..w |-> IF i <= c THEN st[i] ELSE b]
  BY <1>6, AppendIs
<1>8. \A i \in 1..w : (i <= c => i \in 1..c) /\ (~(i <= c) => i = w) OBVIOUS
<1>9. OpenBlocks(g, w) = [i \in 1..w |-> OpenBlocks(g, w)[i]] BY DEF OpenBlocks
<1> HIDE DEF w
<1>10. Append(st, b) = OpenBlocks(g, w)
  <2> DEFINE O == OpenBlocks(g, w)
  <2>1. \A i \in 1..w : (IF i <= c THEN st[i] ELSE b) = O[i] BY <1>4, <1>5, <1>8
  <2> HIDE DEF O
  <2>2. O = [i \in 1..w |-> O[i]] BY <1>9 DEF O
  <2>3. Append(st, b) = O BY <1>7, <2>1, <2>2
  <2> QED BY <2>3 DEF O
<1>11. m = w * BlakeBlock + 0 /\ 0 \in 0..BlakeBlock /\ cnt + BlakeBlock = w * BlakeBlock
  BY <1>1, <1>2
<1>12. \A x \in 1..0 : buf[x] = g[w * BlakeBlock + x] OBVIOUS
<1>13. BlakeHeld(Append(st, b), buf, 0, cnt + BlakeBlock, g, m, w)
  BY <1>1, <1>10, <1>11, <1>12 DEF BlakeHeld
<1> QED BY <1>13 DEF b, w

(* A longer message has the same beginning.                                *)
LEMMA BlakeSame ==
  ASSUME BlakeBlock \in Nat, NEW g, NEW m \in Nat, NEW c \in Nat, NEW st, NEW buf, NEW k, NEW cnt,
         BlakeHeld(st, buf, k, cnt, g, m, c), NEW f, \A x \in 1..m : f[x] = g[x]
  PROVE  BlakeHeld(st, buf, k, cnt, f, m, c)
<1> DEFINE o == c * BlakeBlock
<1>1. o \in Nat /\ k \in Nat /\ m = o + k BY DEF BlakeHeld
<1>2. ASSUME NEW i \in 1..c, NEW j \in 1..BlakeBlock
      PROVE  f[Place(i, j, BlakeBlock)] = g[Place(i, j, BlakeBlock)]
  <2>1. Place(i, j, BlakeBlock) \in 1..o BY PlaceIn
  <2> HIDE DEF o
  <2>2. Place(i, j, BlakeBlock) \in 1..m BY <1>1, <2>1
  <2> QED BY <2>2
<1>3. OpenBlocks(f, c) = OpenBlocks(g, c) BY <1>2 DEF OpenBlocks
<1>4. \A x \in 1..k : f[o + x] = g[o + x]
  <2>1. \A x \in 1..k : o + x \in 1..m BY <1>1
  <2> QED BY <2>1
<1> QED BY <1>3, <1>4 DEF BlakeHeld

(* The message so far is g, of n bytes, m of them taken in.                *)
BlakeRunning(g, n, m, c) ==
  /\ n \in 0..BlakeMaxLen /\ m \in 0..n /\ c \in Nat
  /\ IsList(g, n) /\ \A x \in 1..n : g[x] \in Nat
  /\ BlakeHeld(s2, s3, s4, s5, g, m, c)
  /\ c > 0 => s4 > 0
  /\ s6 = Part(g, m, n - m) /\ s7 = NoResult

BlakeInv ==
  /\ s1 \in BlakeOutputLens
  /\ \/ s7 # NoResult /\ s6 = <<>>
     \/ \E g, n, m, c : BlakeRunning(g, n, m, c)

(* The lengths are numbers.                                                *)
LEMMA BlakeSizes == ASSUME Blake!Sizes
                    PROVE  BlakeBlock \in Nat /\ BlakeBlock > 0 /\ BlakeMaxLen \in Nat
BY DEF Blake!Sizes

(* While it runs, Absorbed is this reading.                                *)
LEMMA BlakeAbsorbed ==
  ASSUME s7 = NoResult PROVE Blake!Absorbed = ReadOpen(s2, s3, s4, s6)
<1> DEFINE e == [i \in 1..Len(s2) |-> s2[i].block]
<1>1. Blake!FlattenSeq(e) = FlattenSeq(e) BY Zenon DEF Blake!FlattenSeq, FlattenSeq
<1> QED BY <1>1 DEF Blake!Absorbed, ReadOpen

(* And so it is in the next state.                                         *)
LEMMA BlakeAbsorbedNext ==
  ASSUME s7' = NoResult PROVE Blake!Absorbed' = ReadOpen(s2', s3', s4', s6')
<1> DEFINE e == [i \in 1..Len(s2') |-> s2'[i].block]
<1>1. Blake!FlattenSeq([i \in 1..Len(s2) |-> s2[i].block])' = FlattenSeq(e)
  BY Zenon DEF Blake!FlattenSeq, FlattenSeq
<1> QED BY <1>1 DEF Blake!Absorbed, ReadOpen

(* What is read back while it runs.                                        *)
LEMMA BlakeReads ==
  ASSUME Blake!Sizes, NEW g, NEW n, NEW m, NEW c, BlakeRunning(g, n, m, c)
  PROVE  Blake!Absorbed = g /\ Len(g) = n /\ n \in Nat
<1>1. BlakeBlock \in Nat /\ BlakeMaxLen \in Nat BY BlakeSizes
<1>2. n \in Nat /\ m \in 0..n /\ c \in Nat /\ IsList(g, n) /\ BlakeHeld(s2, s3, s4, s5, g, m, c)
        /\ s6 = Part(g, m, n - m) /\ s7 = NoResult
  BY <1>1 DEF BlakeRunning
<1>3. ReadOpen(s2, s3, s4, Part(g, m, n - m)) = g BY <1>1, <1>2, ReadOpenIs
<1>4. Len(g) = n BY <1>2, ListIs
<1> QED BY <1>2, <1>3, <1>4, BlakeAbsorbed

(* What is read back in the next state.                                    *)
LEMMA BlakeReadsNext ==
  ASSUME Blake!Sizes, NEW g, NEW n, NEW m, NEW c, BlakeRunning(g, n, m, c)'
  PROVE  Blake!Absorbed' = g
<1>1. BlakeBlock \in Nat /\ BlakeMaxLen \in Nat BY BlakeSizes
<1> DEFINE st == s2'
           buf == s3'
           k == s4'
           cnt == s5'
<1>2. n \in Nat /\ m \in 0..n /\ c \in Nat /\ IsList(g, n) /\ BlakeHeld(st, buf, k, cnt, g, m, c)
        /\ s6' = Part(g, m, n - m) /\ s7' = NoResult
  BY <1>1 DEF BlakeRunning
<1> HIDE DEF st, buf, k, cnt
<1>3. ReadOpen(st, buf, k, Part(g, m, n - m)) = g BY <1>1, <1>2, ReadOpenIs
<1>4. ReadOpen(s2', s3', s4', s6') = g BY <1>2, <1>3 DEF st, buf, k
<1> QED BY <1>2, <1>4, BlakeAbsorbedNext

(* Nothing is left to copy.                                                *)
LEMMA BlakeNoneLeft ==
  ASSUME Blake!Sizes, NEW g, NEW n, NEW m, NEW c, BlakeRunning(g, n, m, c)
  PROVE  s6 = <<>> <=> m = n
<1>1. n \in Nat /\ m \in 0..n BY BlakeSizes DEF BlakeRunning
<1> DEFINE l == n - m
           t == Part(g, m, l)
<1>2. l \in Nat /\ (l = 0 <=> m = n) BY <1>1
<1>3. IsList(t, l) /\ s6 = t BY DEF BlakeRunning, Part, IsList
<1> HIDE DEF l, t
<1>4. Len(t) = l BY <1>2, <1>3, ListIs
<1>5. Len(t) = 0 <=> t = <<>>
  <2>1. PICK S : t \in Seq(S) BY <1>2, <1>3, ListIs
  <2> QED BY <2>1
<1> QED BY <1>2, <1>3, <1>4, <1>5

(* A call of update.                                                       *)
LEMMA BlakeUpdates ==
  ASSUME Blake!Sizes, BlakeInv, NEW k \in 1..BlakeMaxLen, Blake!Update(k)
  PROVE  BlakeInv' /\ Blake!Hash!Update
<1>1. s7 = NoResult /\ s6 = <<>> /\ Len(Blake!Absorbed) + k <= BlakeMaxLen
        /\ s6' = Blake!Numbered(Len(Blake!Absorbed), k)
        /\ s1' = s1 /\ s2' = s2 /\ s3' = s3 /\ s4' = s4 /\ s5' = s5 /\ s7' = s7
  BY DEF Blake!Update
<1>2. PICK g, n, m, c : BlakeRunning(g, n, m, c) BY <1>1 DEF BlakeInv
<1>3. BlakeBlock \in Nat /\ BlakeMaxLen \in Nat BY BlakeSizes
<1>4. Blake!Absorbed = g /\ Len(g) = n /\ n \in Nat /\ m = n BY <1>1, <1>2, BlakeReads, BlakeNoneLeft
<1> DEFINE d == Blake!Numbered(n, k)
           f == g \o d
           w == n + k
<1>5. s6' = d /\ w \in 0..BlakeMaxLen /\ k \in Nat /\ w \in Nat /\ n \in 0..w /\ n \in 0..BlakeMaxLen
  BY <1>1, <1>3, <1>4
<1>6. d \in Blake!Pieces BY <1>5 DEF Blake!Pieces
<1>7. IsList(d, k) /\ \A x \in 1..k : d[x] \in Nat BY <1>4 DEF Blake!Numbered, IsList
<1> HIDE DEF d
<1>8. IsList(g, n) /\ (\A x \in 1..n : g[x] \in Nat) /\ BlakeHeld(s2, s3, s4, s5, g, n, c)
        /\ c \in Nat /\ (c > 0 => s4 > 0)
  BY <1>2, <1>4 DEF BlakeRunning
<1>9. Continues(f, g, n, d, k) /\ IsList(f, w) BY <1>4, <1>5, <1>7, <1>8, JoinContinues
<1> HIDE DEF f
<1>10. BlakeHeld(s2, s3, s4, s5, f, n, c)
  <2>1. \A x \in 1..n : f[x] = g[x] BY <1>9 DEF Continues
  <2> QED BY <1>3, <1>4, <1>8, <2>1, BlakeSame
<1>11. \A x \in 1..w : f[x] \in Nat
  <2>1. ASSUME NEW x \in 1..w PROVE f[x] \in Nat
    <3>1. CASE x <= n
      <4>1. x \in 1..n BY <3>1
      <4> QED BY <1>8, <1>9, <4>1 DEF Continues
    <3>2. CASE ~(x <= n)
      <4>1. x - n \in 1..k /\ n + (x - n) = x BY <1>4, <1>5, <3>2
      <4>2. f[n + (x - n)] = d[x - n] BY <1>9, <4>1 DEF Continues
      <4> QED BY <1>7, <4>1, <4>2
    <3> QED BY <3>1, <3>2
  <2> QED BY <2>1
<1>12. d = Part(f, n, w - n)
  <2>1. w - n = k BY <1>4, <1>5
  <2>2. \A x \in 1..k : d[x] = f[n + x] BY <1>9 DEF Continues
  <2> QED BY <1>7, <2>1, <2>2 DEF Part, IsList
<1>13. BlakeRunning(f, w, n, c)'
  BY <1>1, <1>5, <1>8, <1>9, <1>10, <1>11, <1>12 DEF BlakeRunning
<1>14. Blake!Absorbed' = f BY <1>13, BlakeReadsNext
<1>15. BlakeInv' BY <1>1, <1>13 DEF BlakeInv
<1>16. Blake!Hash!Update BY <1>1, <1>4, <1>6, <1>14 DEF Blake!Hash!Update, f
<1> QED BY <1>15, <1>16

(* One turn of its loop: nothing the message is read from is lost.         *)
LEMMA BlakeCopies ==
  ASSUME Blake!Sizes, BlakeInv, Blake!Copy
  PROVE  BlakeInv' /\ UNCHANGED Blake!Hash!vars
<1> DEFINE full == s4 = BlakeBlock
           at   == IF full THEN 0 ELSE s4
           take == Blake!Min2(BlakeBlock - at, Len(s6))
           e    == SubSeq(s6, 1, take)
           cnt  == IF full THEN s5 + BlakeBlock ELSE s5
           st   == IF full THEN Append(s2, Blake!Compressed(s3, cnt, FALSE)) ELSE s2
<1>1. /\ s6 # <<>> /\ s5' = cnt /\ s2' = st /\ s3' = Blake!CopyInto(s3, at, e) /\ s4' = at + take
      /\ s6' = SubSeq(s6, take + 1, Len(s6)) /\ s1' = s1 /\ s7' = s7
  BY DEF Blake!Copy
<1>2. PICK g, n, m, c : BlakeRunning(g, n, m, c) BY <1>1 DEF BlakeInv
<1>3. BlakeBlock \in Nat /\ BlakeBlock > 0 /\ BlakeMaxLen \in Nat BY BlakeSizes
<1> DEFINE l == n - m
<1>4. /\ n \in 0..BlakeMaxLen /\ n \in Nat /\ m \in 0..n /\ m \in Nat /\ c \in Nat /\ IsList(g, n)
      /\ \A x \in 1..n : g[x] \in Nat
      /\ BlakeHeld(s2, s3, s4, s5, g, m, c) /\ s6 = Part(g, m, l) /\ s7 = NoResult
      /\ s4 \in 0..BlakeBlock /\ s4 \in Nat
  BY <1>2, <1>3 DEF BlakeRunning, BlakeHeld
<1>5. l \in Nat /\ l > 0 /\ m + l = n
  <2>1. m # n BY <1>1, <1>2, BlakeNoneLeft
  <2> QED BY <1>4, <2>1
<1>6. IsList(s6, l) /\ \A x \in 1..l : s6[x] = g[m + x] BY <1>4 DEF Part, IsList
<1>7. \E w \in Nat : BlakeHeld(st, s3, at, cnt, g, m, w)
  <2>1. CASE full
    <3>1. BlakeHeld(s2, s3, BlakeBlock, s5, g, m, c) BY <1>4, <2>1
    <3>2. BlakeHeld(Append(s2, Blake!Compressed(s3, s5 + BlakeBlock, FALSE)), s3, 0,
                    s5 + BlakeBlock, g, m, c + 1)
      BY <1>3, <1>4, <3>1, BlakeFlushes
    <3>3. c + 1 \in Nat BY <1>4
    <3> QED BY <2>1, <3>2, <3>3
  <2>2. CASE ~full
    BY <1>4, <2>2
  <2> QED BY <2>1, <2>2
<1>8. at \in 0..BlakeBlock /\ at < BlakeBlock /\ at \in Nat BY <1>3, <1>4
<1> HIDE DEF l, at, st, cnt, full
<1>9. Len(s6) = l BY <1>5, <1>6, ListIs
<1>10. take \in 1..l /\ take \in Nat /\ at + take <= BlakeBlock /\ at + take > 0
  BY <1>3, <1>5, <1>8, <1>9 DEF Blake!Min2
<1> HIDE DEF take
<1>11. IsList(e, take) /\ \A x \in 1..take : e[x] = g[m + x]
  <2>1. 0 \in Nat /\ 0 + 1 = 1 /\ 0 + take = take BY <1>10
  <2>2. SubSeq(s6, 0 + 1, 0 + take) = Part(s6, 0, take) /\ IsList(Part(s6, 0, take), take)
    BY <1>10, <2>1, SubSeqIs
  <2>3. e = Part(s6, 0, take) /\ IsList(e, take) BY <2>1, <2>2
  <2>4. \A x \in 1..take : x \in 1..l /\ 0 + x = x BY <1>5, <1>10
  <2>5. \A x \in 1..take : e[x] = s6[x] BY <2>3, <2>4 DEF Part
  <2> HIDE DEF e
  <2> QED BY <1>6, <2>3, <2>4, <2>5
<1> HIDE DEF e
<1>12. PICK w \in Nat : BlakeHeld(st, s3, at, cnt, g, m, w) BY <1>7
<1>13. BlakeHeld(st, Blake!CopyInto(s3, at, e), at + take, cnt, g, m + take, w)
  <2>1. BlakeBlock \in Nat /\ m \in Nat /\ take \in Nat /\ at + take <= BlakeBlock BY <1>3, <1>4, <1>10
  <2> QED BY <1>11, <1>12, <2>1, BlakeFills
<1>14. PICK v : v = m + take OBVIOUS
<1> DEFINE u == n - v
<1>15. v \in 0..n /\ u \in Nat /\ take + u = l BY <1>4, <1>5, <1>10, <1>14
<1>16. s6' = Part(g, v, u)
  <2>1. take \in Nat /\ u \in Nat BY <1>10, <1>15
  <2> HIDE DEF u
  <2>2. SubSeq(s6, take + 1, take + u) = Part(s6, take, u) BY <2>1, SubSeqIs
  <2>3. s6' = Part(s6, take, u) BY <1>1, <1>9, <1>15, <2>2
  <2>4. ASSUME NEW x \in 1..u PROVE s6[take + x] = g[v + x]
    <3>1. take + x \in 1..l /\ m + (take + x) = v + x BY <1>4, <1>5, <1>10, <1>15, <1>14
    <3>2. s6[take + x] = g[m + (take + x)] BY <1>6, <3>1
    <3> QED BY <3>1, <3>2
  <2> QED BY <2>3, <2>4 DEF Part
<1>17. BlakeHeld(s2, s3, s4, s5, g, v, w)' BY <1>1, <1>13, <1>14
<1>18. (w > 0 => s4 > 0)' BY <1>1, <1>10
<1>19. BlakeRunning(g, n, v, w)'
  BY <1>1, <1>4, <1>15, <1>16, <1>17, <1>18 DEF BlakeRunning
<1>20. Blake!Absorbed' = g /\ Blake!Absorbed = g BY <1>2, <1>19, BlakeReads, BlakeReadsNext
<1>21. BlakeInv' BY <1>1, <1>19 DEF BlakeInv
<1>22. UNCHANGED Blake!Hash!vars BY <1>1, <1>20 DEF Blake!Hash!vars
<1> QED BY <1>21, <1>22

(* The blocks of a whole message, zeros behind it, the last one flagged.   *)
CloseBlocks(g, n, w) ==
  [i \in 1..w |->
     Blake!Compressed([j \in 1..BlakeBlock |-> LET x == BlakeBlock * (i - 1) + j
                                               IN  IF x <= n THEN g[x] ELSE 0],
                      Blake!Min2(BlakeBlock * i, n), i = w)]

(* The last block, of which the k bytes of the buffer count.               *)
LastOf(buf, k, n) ==
  Blake!Compressed([i \in 1..BlakeBlock |-> IF i <= k THEN buf[i] ELSE 0], n, TRUE)

(* Compressing the last block, flagged, closes them.                       *)
LEMMA BlakeCloses ==
  ASSUME BlakeBlock \in Nat, NEW g, NEW n, NEW c \in Nat, NEW st, NEW buf, NEW k, NEW cnt,
         BlakeHeld(st, buf, k, cnt, g, n, c)
  PROVE  Append(st, LastOf(buf, k, n)) = CloseBlocks(g, n, c + 1)
<1> DEFINE o == c * BlakeBlock
           w == c + 1
           C == CloseBlocks(g, n, w)
           b == LastOf(buf, k, n)
<1>1. o \in Nat /\ k \in 0..BlakeBlock /\ n = o + k /\ n \in Nat /\ st = OpenBlocks(g, c)
        /\ \A x \in 1..k : buf[x] = g[o + x]
  BY DEF BlakeHeld
<1>2. IsList(st, c)
  <2>1. IsList(OpenBlocks(g, c), c) BY DEF OpenBlocks, IsList
  <2> QED BY <1>1, <2>1
<1> HIDE DEF b
<1>3. Append(st, b) = [i \in 1..w |-> IF i <= c THEN st[i] ELSE b] BY <1>2, AppendIs
<1>4. ASSUME NEW i \in 1..w, i <= c PROVE st[i] = C[i]
  <2>1. i \in 1..c /\ i # w BY <1>4
  <2>2. PICK e \in Nat, f \in Nat : i = e + 1 /\ c = e + 1 + f
    <3>1. i - 1 \in Nat /\ c - i \in Nat /\ i = (i - 1) + 1 /\ c = (i - 1) + 1 + (c - i) BY <2>1
    <3> QED BY <3>1
  <2>3. /\ o = e * BlakeBlock + BlakeBlock + f * BlakeBlock
        /\ e * BlakeBlock \in Nat /\ f * BlakeBlock \in Nat /\ BlakeBlock * e = e * BlakeBlock
        /\ BlakeBlock * i = e * BlakeBlock + BlakeBlock /\ i * BlakeBlock = BlakeBlock * i
        /\ i - 1 = e
    BY <2>2
  <2>4. BlakeBlock * i <= n BY <1>1, <2>3
  <2>5. Blake!Min2(BlakeBlock * i, n) = i * BlakeBlock BY <2>3, <2>4 DEF Blake!Min2
  <2>6. ASSUME NEW j \in 1..BlakeBlock
        PROVE  BlakeBlock * (i - 1) + j = Place(i, j, BlakeBlock) /\ Place(i, j, BlakeBlock) <= n
    <3>1. Place(i, j, BlakeBlock) = e * BlakeBlock + j BY <2>3 DEF Place
    <3>2. BlakeBlock * (i - 1) = e * BlakeBlock BY <2>3
    <3> HIDE DEF o
    <3> QED BY <1>1, <2>3, <3>1, <3>2
  <2>7. C[i] = Blake!Compressed([j \in 1..BlakeBlock |-> g[Place(i, j, BlakeBlock)]],
                                i * BlakeBlock, FALSE)
    BY <2>1, <2>5, <2>6 DEF CloseBlocks
  <2>8. OpenBlocks(g, c)[i] = Blake!Compressed([j \in 1..BlakeBlock |-> g[Place(i, j, BlakeBlock)]],
                                               i * BlakeBlock, FALSE)
    BY <2>1 DEF OpenBlocks
  <2> HIDE DEF C
  <2> QED BY <1>1, <2>7, <2>8
<1>5. b = C[w]
  <2>1. w \in 1..w /\ w - 1 = c /\ w * BlakeBlock = o + BlakeBlock /\ BlakeBlock * w = w * BlakeBlock
          /\ BlakeBlock * c = o
    OBVIOUS
  <2>2. C[w] = Blake!Compressed([j \in 1..BlakeBlock |-> IF o + j <= n THEN g[o + j] ELSE 0],
                                Blake!Min2(BlakeBlock * w, n), TRUE)
    <3> HIDE DEF o, w
    <3> QED BY <2>1 DEF CloseBlocks
  <2>3. Blake!Min2(BlakeBlock * w, n) = n BY <1>1, <2>1 DEF Blake!Min2
  <2>4. ASSUME NEW j \in 1..BlakeBlock
        PROVE  (IF o + j <= n THEN g[o + j] ELSE 0) = IF j <= k THEN buf[j] ELSE 0
    <3>1. o + j <= n <=> j <= k BY <1>1
    <3>2. j <= k => j \in 1..k OBVIOUS
    <3> HIDE DEF o
    <3> QED BY <1>1, <3>1, <3>2
  <2> HIDE DEF C, w, o
  <2> QED BY <2>2, <2>3, <2>4 DEF b, LastOf
<1>6. C = [i \in 1..w |-> C[i]] BY DEF CloseBlocks
<1>7. \A i \in 1..w : ~(i <= c) => i = w OBVIOUS
<1> HIDE DEF C, w
<1>8. \A i \in 1..w : (IF i <= c THEN st[i] ELSE b) = C[i] BY <1>4, <1>5, <1>7
<1>9. Append(st, b) = C BY <1>3, <1>6, <1>8
<1> QED BY <1>9 DEF C, b, w

(* There is one block more than were compressed before the last.           *)
LEMMA BlakeCounts ==
  ASSUME BlakeBlock \in Nat, BlakeBlock > 0, NEW g, NEW n \in Nat, IsList(g, n), NEW c \in Nat,
         NEW k \in 0..BlakeBlock, n = c * BlakeBlock + k, c > 0 => k > 0
  PROVE  (IF g = <<>> THEN 1 ELSE (Len(g) + BlakeBlock - 1) \div BlakeBlock) = c + 1
<1>1. Len(g) = n /\ (g = <<>> <=> n = 0)
  <2>1. Len(g) = n BY ListIs
  <2>2. PICK S : g \in Seq(S) BY ListIs
  <2> QED BY <2>1, <2>2
<1>2. c * BlakeBlock \in Nat OBVIOUS
<1>3. CASE n = 0
  <2>1. k = 0 BY <1>2, <1>3
  <2>2. c = 0 BY <2>1
  <2> QED BY <1>1, <1>3, <2>2
<1>4. CASE n # 0
  <2> DEFINE w == c + 1
  <2>1. k > 0
    <3>1. CASE c = 0
      <4>1. n = k BY <3>1
      <4> QED BY <1>4, <4>1
    <3>2. CASE c # 0 BY <3>2
    <3> QED BY <3>1, <3>2
  <2>2. w \in Nat /\ w - 1 = c /\ w # 0 /\ BlakeBlock * c = c * BlakeBlock
          /\ BlakeBlock * w = c * BlakeBlock + BlakeBlock
    OBVIOUS
  <2>3. n <= BlakeBlock * w /\ BlakeBlock * (w - 1) < n BY <1>2, <2>1, <2>2
  <2> HIDE DEF w
  <2>4. (n + BlakeBlock - 1) \div BlakeBlock = w BY <2>2, <2>3, CeilingIs
  <2> QED BY <1>1, <1>4, <2>4 DEF w
<1> QED BY <1>3, <1>4

(* The message, read back from all its blocks; and their type.             *)
LEMMA BlakeClosedRead ==
  ASSUME BlakeBlock \in Nat, NEW g, NEW n \in Nat, IsList(g, n), NEW w \in Nat, n <= w * BlakeBlock,
         \A x \in 1..n : g[x] \in Nat
  PROVE  /\ SubSeq(FlattenSeq([i \in 1..Len(CloseBlocks(g, n, w)) |-> CloseBlocks(g, n, w)[i].block]), 1, n) = g
         /\ CloseBlocks(g, n, w) \in Seq([block : [1..BlakeBlock -> Nat], counter : Nat, last : BOOLEAN])
<1> DEFINE C == CloseBlocks(g, n, w)
           z == [x \in 1..(w * BlakeBlock) |-> IF x <= n THEN g[x] ELSE 0]
           v == w * BlakeBlock
           T == [block : [1..BlakeBlock -> Nat], counter : Nat, last : BOOLEAN]
<1>1. IsList(C, w) BY DEF CloseBlocks, IsList
<1>2. Len(C) = w
  <2> HIDE DEF C
  <2> QED BY <1>1, ListIs
<1>3. ASSUME NEW i \in 1..w, NEW j \in 1..BlakeBlock
      PROVE  /\ BlakeBlock * (i - 1) + j = Place(i, j, BlakeBlock)
             /\ Place(i, j, BlakeBlock) \in 1..v /\ Place(i, j, BlakeBlock) \in Nat
  <2>1. Place(i, j, BlakeBlock) \in 1..v /\ Place(i, j, BlakeBlock) \in Nat BY PlaceIn
  <2>2. BlakeBlock * (i - 1) = (i - 1) * BlakeBlock OBVIOUS
  <2> QED BY <2>1, <2>2 DEF Place
<1>4. ASSUME NEW i \in 1..w
      PROVE  C[i] = Blake!Compressed([j \in 1..BlakeBlock |-> z[Place(i, j, BlakeBlock)]],
                                     Blake!Min2(BlakeBlock * i, n), i = w)
  <2>1. C[i] = Blake!Compressed([j \in 1..BlakeBlock |-> LET x == BlakeBlock * (i - 1) + j
                                                         IN  IF x <= n THEN g[x] ELSE 0],
                                Blake!Min2(BlakeBlock * i, n), i = w)
    BY DEF CloseBlocks
  <2>2. ASSUME NEW j \in 1..BlakeBlock
        PROVE  (LET x == BlakeBlock * (i - 1) + j IN IF x <= n THEN g[x] ELSE 0)
                 = z[Place(i, j, BlakeBlock)]
    BY <1>3
  <2> HIDE DEF C, z
  <2> QED BY <2>1, <2>2
<1>5. ASSUME NEW x \in 1..v PROVE z[x] \in Nat
  <2>1. x <= n => x \in 1..n OBVIOUS
  <2> QED BY <2>1
<1>6. v \in Nat OBVIOUS
<1>7. C \in Seq(T)
  <2>1. ASSUME NEW i \in 1..w PROVE C[i] \in T
    <3> DEFINE y == Blake!Min2(BlakeBlock * i, n)
               p == [j \in 1..BlakeBlock |-> z[Place(i, j, BlakeBlock)]]
    <3>1. y \in Nat BY DEF Blake!Min2
    <3>2. p \in [1..BlakeBlock -> Nat]
      <4>1. \A j \in 1..BlakeBlock : z[Place(i, j, BlakeBlock)] \in Nat BY <1>3, <1>5
      <4> HIDE DEF z
      <4> QED BY <4>1
    <3> HIDE DEF y, C
    <3>3. C[i] = Blake!Compressed(p, y, i = w) BY <1>4 DEF y
    <3> HIDE DEF p
    <3> QED BY <3>1, <3>2, <3>3 DEF Blake!Compressed
  <2> HIDE DEF C, T
  <2>2. C = [i \in 1..w |-> C[i]] BY <1>1 DEF IsList
  <2>3. C \in [1..w -> T] BY <2>1, <2>2
  <2>4. \E m \in Nat : C \in [1..m -> T] BY <2>3
  <2> HIDE DEF v, z
  <2> QED BY <2>4, SeqDef
<1>8. [i \in 1..Len(C) |-> C[i].block] = BlocksOf(z, w, BlakeBlock)
  <2>1. ASSUME NEW i \in 1..w PROVE C[i].block = [j \in 1..BlakeBlock |-> z[Place(i, j, BlakeBlock)]]
    <3> DEFINE y == Blake!Min2(BlakeBlock * i, n)
               p == [j \in 1..BlakeBlock |-> z[Place(i, j, BlakeBlock)]]
    <3> HIDE DEF y, C
    <3>1. C[i] = Blake!Compressed(p, y, i = w) BY <1>4 DEF y
    <3> HIDE DEF p
    <3>2. C[i].block = p BY <3>1 DEF Blake!Compressed
    <3> QED BY <3>2 DEF p
  <2> HIDE DEF C, z
  <2> QED BY <1>2, <2>1 DEF BlocksOf
<1>9. FlattenSeq(BlocksOf(z, w, BlakeBlock)) = Begin(z, v) BY FlattenBlocks
<1> DEFINE s == Begin(z, v)
<1>10. SubSeq(s, 1, n) = g
  <2>1. 0 \in Nat /\ 0 + 1 = 1 /\ 0 + n = n OBVIOUS
  <2>2. SubSeq(s, 0 + 1, 0 + n) = Part(s, 0, n)
    <3> HIDE DEF s
    <3> QED BY <2>1, SubSeqIs
  <2>3. SubSeq(s, 1, n) = Part(s, 0, n) BY <2>1, <2>2
  <2>4. ASSUME NEW x \in 1..n PROVE s[0 + x] = g[x]
    <3>1. 0 + x = x /\ x \in 1..v BY <1>6
    <3>2. s[x] = z[x] BY <3>1 DEF Begin
    <3>3. z[x] = g[x] BY <3>1
    <3> HIDE DEF s, z
    <3> QED BY <3>1, <3>2, <3>3
  <2> HIDE DEF s
  <2> QED BY <2>3, <2>4 DEF Part, IsList
<1> HIDE DEF C, T, s
<1>11. SubSeq(FlattenSeq([i \in 1..Len(C) |-> C[i].block]), 1, n) = g BY <1>8, <1>9, <1>10 DEF s
<1> QED BY <1>7, <1>11 DEF C, T

(* finalize.                                                               *)
LEMMA BlakeFinalizes ==
  ASSUME Blake!Sizes, BlakeInv, Blake!Finalize
  PROVE  BlakeInv' /\ Blake!Hash!Finalize
<1>1. /\ s7 = NoResult /\ s6 = <<>> /\ s5' = s5 + s4
      /\ s3' = [i \in 1..BlakeBlock |-> IF i <= s4 THEN s3[i] ELSE 0]
      /\ s2' = Append(s2, Blake!Compressed(s3', s5', TRUE))
      /\ s7' = [outputLen |-> s1, state |-> s2'] /\ s1' = s1 /\ s4' = s4 /\ s6' = s6
  BY DEF Blake!Finalize
<1>2. PICK g, n, m, c : BlakeRunning(g, n, m, c) BY <1>1 DEF BlakeInv
<1>3. BlakeBlock \in Nat /\ BlakeBlock > 0 /\ BlakeMaxLen \in Nat BY BlakeSizes
<1>4. Blake!Absorbed = g /\ Len(g) = n /\ n \in Nat /\ m = n BY <1>1, <1>2, BlakeReads, BlakeNoneLeft
<1>5. /\ c \in Nat /\ IsList(g, n) /\ (\A x \in 1..n : g[x] \in Nat)
      /\ BlakeHeld(s2, s3, s4, s5, g, n, c) /\ (c > 0 => s4 > 0)
  BY <1>2, <1>4 DEF BlakeRunning
<1>6. s4 \in 0..BlakeBlock /\ n = c * BlakeBlock + s4 /\ s5 = c * BlakeBlock BY <1>5 DEF BlakeHeld
<1> DEFINE w == c + 1
           C == CloseBlocks(g, n, w)
<1>7. s5' = n BY <1>1, <1>6
<1>8. s2' = C
  <2>1. s2' = Append(s2, LastOf(s3, s4, n)) BY <1>1, <1>7 DEF LastOf
  <2>2. Append(s2, LastOf(s3, s4, n)) = C BY <1>3, <1>5, BlakeCloses
  <2> HIDE DEF C
  <2> QED BY <2>1, <2>2
<1>9. w \in Nat /\ n <= w * BlakeBlock BY <1>3, <1>5, <1>6
<1> HIDE DEF w
<1>10. /\ SubSeq(FlattenSeq([i \in 1..Len(C) |-> C[i].block]), 1, n) = g
       /\ C \in Seq([block : [1..BlakeBlock -> Nat], counter : Nat, last : BOOLEAN])
  BY <1>3, <1>4, <1>5, <1>9, BlakeClosedRead
<1>11. Blake!Digest(s1, g) = [outputLen |-> s1, state |-> C]
  <2>1. (IF g = <<>> THEN 1 ELSE (Len(g) + BlakeBlock - 1) \div BlakeBlock) = w
    BY <1>3, <1>4, <1>5, <1>6, BlakeCounts DEF w
  <2>2. Blake!Digest(s1, g) =
          [outputLen |-> s1,
           state |-> CloseBlocks(g, Len(g), IF g = <<>> THEN 1 ELSE (Len(g) + BlakeBlock - 1) \div BlakeBlock)]
    BY DEF Blake!Digest, CloseBlocks
  <2> QED BY <1>4, <2>1, <2>2
<1> HIDE DEF C
<1>12. s7' = Blake!Digest(s1, g) BY <1>1, <1>8, <1>11
<1>13. s7' # NoResult
  <2>1. s1 \in BlakeOutputLens BY DEF BlakeInv
  <2> DEFINE U == Seq([block : [1..BlakeBlock -> Nat], counter : Nat, last : BOOLEAN])
  <2>2. NoResult \notin [outputLen : BlakeOutputLens, state : U] BY DEF Blake!Sizes
  <2>3. C \in U BY <1>10
  <2> HIDE DEF U
  <2>4. [outputLen |-> s1, state |-> C] \in [outputLen : BlakeOutputLens, state : U] BY <2>1, <2>3
  <2> QED BY <1>11, <1>12, <2>2, <2>4
<1>14. Blake!Absorbed' = g
  <2>1. Blake!FlattenSeq([i \in 1..Len(s2) |-> s2[i].block])'
          = FlattenSeq([i \in 1..Len(s2') |-> s2'[i].block])
    BY Zenon DEF Blake!FlattenSeq, FlattenSeq
  <2>2. Blake!Absorbed' = SubSeq(FlattenSeq([i \in 1..Len(s2') |-> s2'[i].block]), 1, s5')
    BY <1>13, <2>1 DEF Blake!Absorbed
  <2> QED BY <1>7, <1>8, <1>10, <2>2
<1>15. BlakeInv' BY <1>1, <1>13 DEF BlakeInv
<1>16. Blake!Hash!Finalize BY <1>1, <1>4, <1>12, <1>14 DEF Blake!Hash!Finalize
<1> QED BY <1>15, <1>16

(* Nothing is held at first.                                               *)
LEMMA BlakeInits ==
  ASSUME Blake!Sizes, Blake!Init
  PROVE  BlakeInv /\ Blake!Hash!Init
<1> DEFINE z == 0
           e == <<>>
<1>1. s1 \in BlakeOutputLens /\ s2 = <<>> /\ s3 = Blake!Zeros /\ s4 = 0 /\ s5 = 0 /\ s6 = <<>>
        /\ s7 = NoResult
  BY DEF Blake!Init
<1>2. BlakeBlock \in Nat /\ BlakeBlock > 0 /\ BlakeMaxLen \in Nat BY BlakeSizes
<1>3. IsList(e, z) /\ \A x \in 1..z : e[x] \in Nat BY DEF IsList
<1>4. z \in 0..BlakeMaxLen /\ z \in 0..z /\ z \in Nat /\ z - z = z /\ ~(z > 0) BY <1>2
<1>5. BlakeHeld(s2, s3, s4, s5, e, z, z)
  <2>1. OpenBlocks(e, z) = <<>> BY DEF OpenBlocks
  <2>2. IsList(s3, BlakeBlock) BY <1>1 DEF Blake!Zeros, IsList
  <2>3. z = z * BlakeBlock + 0 /\ 0 \in 0..BlakeBlock /\ 0 = z * BlakeBlock BY <1>2
  <2> QED BY <1>1, <2>1, <2>2, <2>3 DEF BlakeHeld
<1>6. s6 = Part(e, z, z) BY <1>1 DEF Part
<1> HIDE DEF z, e
<1>7. BlakeRunning(e, z, z, z) BY <1>1, <1>3, <1>4, <1>5, <1>6 DEF BlakeRunning
<1>8. Blake!Absorbed = e BY <1>7, BlakeReads
<1>9. Blake!Hash!Init BY <1>1, <1>8 DEF Blake!Hash!Init, e
<1> QED BY <1>1, <1>7, <1>9 DEF BlakeInv

(* Every step of the hasher is a step of its OneShot or none.              *)
LEMMA BlakeSteps ==
  ASSUME Blake!Sizes, BlakeInv, Blake!Next
  PROVE  BlakeInv' /\ (Blake!Hash!Next \/ UNCHANGED Blake!Hash!vars)
<1>1. CASE \E k \in 1..BlakeMaxLen : Blake!Update(k)
  BY <1>1, BlakeUpdates DEF Blake!Hash!Next
<1>2. CASE Blake!Copy BY <1>2, BlakeCopies
<1>3. CASE Blake!Finalize BY <1>3, BlakeFinalizes DEF Blake!Hash!Next
<1> QED BY <1>1, <1>2, <1>3 DEF Blake!Next

-----------------------------------------------------------------------------
(* Poly1305.  The number that three limbs are, each below l but the third, *)
(* which is at most c.                                                     *)
Value(x, l) == x[1] + l * x[2] + l * l * x[3]
Limbs(l, c) == (0..(l - 1)) \X (0..(l - 1)) \X (0..c)

(* A carry out of a limb.                                                  *)
Carried(a, l, q, r) == q \in Nat /\ r \in 0..(l - 1) /\ a = l * q + r /\ a \div l = q /\ a % l = r

(* Quotient and remainder are carry and limb.                              *)
LEMMA CarryIs ==
  ASSUME NEW a \in Nat, NEW l \in Nat, l > 0
  PROVE  Carried(a, l, a \div l, a % l)
BY DivisionIs DEF Carried

(* Equal up to multiples of p.                                             *)
LEMMA ModuloIs ==
  ASSUME NEW y \in Int, NEW z \in Int, NEW p \in Nat, p > 0, NEW j \in Int, z = y + p * j
  PROVE  z % p = y % p
<1> DEFINE q == y \div p
           r == y % p
           s == q + j
<1>1. q \in Int /\ r \in 0..(p - 1) /\ y = p * q + r OBVIOUS
<1> HIDE DEF q, r
<1>2. s \in Int /\ p * s = p * q + p * j /\ p * q \in Int /\ p * j \in Int BY <1>1
<1>3. z = p * s + r BY <1>1, <1>2
<1> HIDE DEF s
<1>4. z % p = r BY <1>1, <1>2, <1>3, QuotientIs
<1> QED BY <1>4 DEF r

(* Adding a block: what the limbs are worth, and that the third is at      *)
(* most 6.                                                                 *)
AddColumns(l, x1, x2, m0, m1, q0, r0, q1, r1) ==
  Carried(x1 + m0, l, q0, r0) /\ Carried(x2 + q0 + m1, l, q1, r1)

AddsUp(l, x1, x2, x3, m0, m1, b, r0, q1, r1) ==
  /\ x3 + q1 + b \in 0..6 /\ (x3 + q1 + b) % l = x3 + q1 + b
  /\ r0 + l * r1 + l * l * (x3 + q1 + b)
       = x1 + l * x2 + l * l * x3 + (m0 + l * m1 + l * l * b)

(* The sum of the columns is the sum of the numbers.                       *)
LEMMA LimbsAdd ==
  ASSUME NEW l \in Nat, l >= 16,
         NEW x1 \in 0..(l - 1), NEW x2 \in 0..(l - 1), NEW x3 \in 0..4,
         NEW m0 \in 0..(l - 1), NEW m1 \in 0..(l - 1), NEW b \in 0..1,
         NEW q0, NEW r0, NEW q1, NEW r1, AddColumns(l, x1, x2, m0, m1, q0, r0, q1, r1)
  PROVE  AddsUp(l, x1, x2, x3, m0, m1, b, r0, q1, r1)
<1>1. /\ q0 \in Nat /\ r0 \in 0..(l - 1) /\ x1 + m0 = l * q0 + r0
      /\ q1 \in Nat /\ r1 \in 0..(l - 1) /\ x2 + q0 + m1 = l * q1 + r1
  BY DEF AddColumns, Carried
<1>2. q0 \in 0..1
  <2>1. ASSUME q0 >= 2 PROVE FALSE
    <3>1. PICK d \in Nat : q0 = 2 + d
      <4>1. q0 - 2 \in Nat /\ q0 = 2 + (q0 - 2) BY <1>1, <2>1
      <4> QED BY <4>1
    <3>2. l * q0 = l + l + l * d /\ l * d \in Nat BY <3>1
    <3> QED BY <1>1, <3>2
  <2> QED BY <1>1, <2>1
<1>3. q1 \in 0..1
  <2>1. ASSUME q1 >= 2 PROVE FALSE
    <3>1. PICK d \in Nat : q1 = 2 + d
      <4>1. q1 - 2 \in Nat /\ q1 = 2 + (q1 - 2) BY <1>1, <2>1
      <4> QED BY <4>1
    <3>2. l * q1 = l + l + l * d /\ l * d \in Nat BY <3>1
    <3> QED BY <1>1, <1>2, <3>2
  <2> QED BY <1>1, <2>1
<1>4. x3 + q1 + b \in 0..6 BY <1>3
<1> DEFINE s == x3 + q1 + b
<1>5. s % l = s
  <2>1. s \in Nat /\ s < l BY <1>4
  <2> HIDE DEF s
  <2> QED BY <2>1, CountsUp
<1>6. /\ l * (x2 + q0 + m1) = l * x2 + l * q0 + l * m1
      /\ l * (l * q1 + r1) = l * l * q1 + l * r1
      /\ l * l * s = l * l * x3 + l * l * q1 + l * l * b
  BY <1>1
<1>7. /\ l * x2 \in Int /\ l * q0 \in Int /\ l * m1 \in Int /\ l * r1 \in Int
      /\ l * l * q1 \in Int /\ l * l * x3 \in Int /\ l * l * b \in Int
  BY <1>1
<1>8. l * x2 + l * q0 + l * m1 = l * l * q1 + l * r1 BY <1>1, <1>6
<1>9. r0 + l * r1 + l * l * s = x1 + l * x2 + l * l * x3 + (m0 + l * m1 + l * l * b)
  <2> HIDE DEF s
  <2>1. r0 = x1 + m0 - l * q0 /\ r0 \in Int /\ x1 \in Int /\ m0 \in Int BY <1>1, <1>7
  <2>2. l * r1 = l * x2 + l * q0 + l * m1 - l * l * q1 BY <1>7, <1>8
  <2>3. l * l * s = l * l * x3 + l * l * q1 + l * l * b BY <1>6
  <2> QED BY <1>7, <2>1, <2>2, <2>3
<1> QED BY <1>4, <1>5, <1>9 DEF AddsUp

(* Bounds on products and on quotients.                                    *)
LEMMA ProductAtMost ==
  ASSUME NEW a \in Nat, NEW l \in Nat, a <= l, NEW b \in Nat
  PROVE  a * b \in Nat /\ a * b <= l * b
<1>1. PICK d \in Nat : l = a + d
  <2>1. l - a \in Nat /\ l = a + (l - a) OBVIOUS
  <2> QED BY <2>1
<1>2. l * b = a * b + d * b /\ a * b \in Nat /\ d * b \in Nat BY <1>1
<1> QED BY <1>2

(* A factor is no larger when the product is not.                          *)
LEMMA QuotientAtMost ==
  ASSUME NEW l \in Nat, l > 0, NEW q \in Nat, NEW c \in Nat, l * q <= l * c
  PROVE  q <= c
<1>1. ASSUME q > c PROVE FALSE
  <2>1. PICK d \in Nat : q = c + 1 + d
    <3>1. q - c - 1 \in Nat /\ q = c + 1 + (q - c - 1) BY <1>1
    <3> QED BY <3>1
  <2>2. l * q = l * c + l + l * d /\ l * c \in Nat /\ l * d \in Nat BY <2>1
  <2> QED BY <2>2
<1> QED BY <1>1

(* r0 and r1, the clamped halves, for limbs below l: r1 is 4 * u.          *)
Clamped(l, j, r0, r1, u, s) ==
  /\ j \in Nat /\ j >= 1 /\ l = 16 * j
  /\ r0 \in 0..(j - 1) /\ u \in Nat /\ r1 = 4 * u /\ r1 \in 0..(j - 1) /\ s = 5 * u

(* The two columns of the product, with their carries.                     *)
Columns(l, y1, y2, y3, r0, r1, s, q0, z0, q1, z1) ==
  /\ Carried(y1 * r0 + y2 * s, l, q0, z0)
  /\ Carried(y1 * r1 + y2 * r0 + ((y3 * s) % l) + q0, l, q1, z1)

(* Multiplying by r: nothing overflows a limb, and what is left out is a   *)
(* multiple of 4 * l * l - 5, since 4 * l * l * r1 folds to 5 * r1.        *)
LEMMA LimbsMultiply ==
  ASSUME NEW l, NEW j, NEW r0, NEW r1, NEW u, NEW s, Clamped(l, j, r0, r1, u, s),
         NEW y1 \in 0..(l - 1), NEW y2 \in 0..(l - 1), NEW y3 \in 0..6,
         NEW q0, NEW z0, NEW q1, NEW z1, Columns(l, y1, y2, y3, r0, r1, s, q0, z0, q1, z1)
  PROVE  /\ ((y3 * r0) % l) + q1 \in 0..(l - 1) /\ (y3 * r0) % l = y3 * r0
         /\ z0 + l * z1 + l * l * (y3 * r0 + q1) + (4 * l * l - 5) * ((y2 + l * y3) * u)
              = (y1 + l * y2 + l * l * y3) * (r0 + l * r1)
<1>1. /\ j \in Nat /\ j >= 1 /\ l = 16 * j /\ l \in Nat
      /\ r0 \in 0..(j - 1) /\ u \in Nat /\ r1 = 4 * u /\ r1 \in 0..(j - 1) /\ s = 5 * u
      /\ r0 \in Nat /\ r1 \in Nat /\ s \in Nat /\ y1 \in Nat /\ y2 \in Nat /\ y3 \in Nat
  BY DEF Clamped
<1>2. /\ q0 \in Nat /\ z0 \in 0..(l - 1) /\ y1 * r0 + y2 * s = l * q0 + z0
      /\ q1 \in Nat /\ z1 \in 0..(l - 1)
      /\ y1 * r1 + y2 * r0 + ((y3 * s) % l) + q0 = l * q1 + z1
  BY DEF Columns, Carried
<1>3. y3 * s \in Nat /\ y3 * s < l /\ y3 * r0 \in Nat /\ y3 * r0 <= 6 * (j - 1)
  <2>1. y3 * s \in Nat /\ y3 * s <= 6 * s /\ y3 * r0 \in Nat /\ y3 * r0 <= 6 * r0
    BY <1>1, ProductAtMost
  <2> QED BY <1>1, <2>1
<1>4. (y3 * s) % l = y3 * s /\ (y3 * r0) % l = y3 * r0
  <2>1. y3 * r0 < l BY <1>1, <1>3
  <2> QED BY <1>1, <1>3, <2>1, CountsUp
<1>5. q0 <= 3 * j
  <2>1. y1 * r0 \in Nat /\ y1 * r0 <= l * r0 /\ y2 * s \in Nat /\ y2 * s <= l * s
    BY <1>1, ProductAtMost
  <2>2. PICK d \in Nat : 3 * j = r0 + s + d
    <3>1. r0 + s <= 3 * j BY <1>1
    <3>2. 3 * j - (r0 + s) \in Nat /\ 3 * j = r0 + s + (3 * j - (r0 + s)) BY <1>1, <3>1
    <3> QED BY <3>2
  <2>3. l * (3 * j) = l * (r0 + s) + l * d /\ l * d \in Nat /\ l * (r0 + s) \in Nat /\ l * q0 \in Nat
    BY <1>1, <1>2, <2>2
  <2>4. l * r0 \in Nat /\ l * s \in Nat BY <1>1
  <2>5. l * r0 + l * s = l * (r0 + s) BY <1>1
  <2>6. l * q0 <= l * (3 * j) BY <1>2, <2>1, <2>3, <2>4, <2>5
  <2>7. l > 0 /\ 3 * j \in Nat BY <1>1
  <2> QED BY <1>1, <1>2, <2>6, <2>7, QuotientAtMost
<1>6. q1 <= 2 * j + 2
  <2>1. y1 * r1 \in Nat /\ y1 * r1 <= l * r1 /\ y2 * r0 \in Nat /\ y2 * r0 <= l * r0
    BY <1>1, ProductAtMost
  <2>2. r1 \in Nat /\ r1 <= j /\ r0 <= j BY <1>1
  <2>3. r1 * l <= j * l /\ r0 * l <= j * l BY <1>1, <2>2, ProductAtMost
  <2>4. /\ l * r1 = r1 * l /\ l * r0 = r0 * l /\ j * l \in Nat /\ l * r1 \in Nat /\ l * r0 \in Nat
        /\ l * (2 * j + 2) = j * l + j * l + l + l /\ l * q1 \in Nat
    BY <1>1, <1>2
  <2>5. q0 < l
    <3>1. q0 \in Nat BY <1>2
    <3> QED BY <1>1, <1>5, <3>1
  <2>6. l * q1 <= l * (2 * j + 2)
    BY <1>1, <1>2, <1>3, <1>4, <2>1, <2>3, <2>4, <2>5
  <2>7. l > 0 /\ 2 * j + 2 \in Nat BY <1>1
  <2> QED BY <1>1, <1>2, <2>6, <2>7, QuotientAtMost
<1>7. ((y3 * r0) % l) + q1 \in 0..(l - 1) BY <1>1, <1>2, <1>3, <1>4, <1>6
<1>8. z0 + l * z1 + l * l * (y3 * r0 + q1) + (4 * l * l - 5) * ((y2 + l * y3) * u)
        = (y1 + l * y2 + l * l * y3) * (r0 + l * r1)
  <2>1. z0 = y1 * r0 + y2 * s - l * q0 /\ z1 = y1 * r1 + y2 * r0 + y3 * s + q0 - l * q1
    BY <1>1, <1>2, <1>4
  <2>2. z0 + l * z1 + l * l * (y3 * r0 + q1)
          = y1 * r0 + y2 * s + l * (y1 * r1 + y2 * r0 + y3 * s) + l * l * (y3 * r0)
    <3>1. l * z1 = l * (y1 * r1 + y2 * r0 + y3 * s) + l * q0 - l * (l * q1)
      BY <1>1, <1>2, <2>1
    <3>2. l * l * (y3 * r0 + q1) = l * l * (y3 * r0) + l * (l * q1) BY <1>1, <1>2
    <3>3. /\ l * (y1 * r1 + y2 * r0 + y3 * s) \in Int /\ l * q0 \in Int /\ l * (l * q1) \in Int
          /\ l * l * (y3 * r0) \in Int /\ y1 * r0 \in Int /\ y2 * s \in Int
      BY <1>1, <1>2
    <3> QED BY <2>1, <3>1, <3>2, <3>3
  <2>3. y1 * r0 + y2 * (5 * u) + l * (y1 * (4 * u) + y2 * r0 + y3 * (5 * u)) + l * l * (y3 * r0)
          + (4 * l * l - 5) * ((y2 + l * y3) * u)
          = (y1 + l * y2 + l * l * y3) * (r0 + l * (4 * u))
    BY <1>1
  <2> QED BY <1>1, <2>2, <2>3
<1> QED BY <1>4, <1>7, <1>8

(* Folding back what is above 2^130: q times 4 * l * l gives 5 * q.        *)
FoldColumns(l, x1, x2, x3, q0, z0, q1, z1) ==
  Carried(x1 + (x3 \div 4 + (x3 - (x3 % 4))), l, q0, z0) /\ Carried(x2 + q0, l, q1, z1)

FoldsUp(l, x1, x2, x3, z0, q1, z1) ==
  /\ (x3 % 4) + q1 \in 0..4
  /\ z0 + l * z1 + l * l * ((x3 % 4) + q1) + (4 * l * l - 5) * (x3 \div 4)
       = x1 + l * x2 + l * l * x3

(* Folding keeps the number up to multiples of p.                          *)
LEMMA LimbsFold ==
  ASSUME NEW l, NEW j \in Nat, j >= 1, l = 16 * j,
         NEW x1 \in 0..(l - 1), NEW x2 \in 0..(l - 1), NEW x3 \in 0..(l - 1),
         NEW q0, NEW z0, NEW q1, NEW z1, FoldColumns(l, x1, x2, x3, q0, z0, q1, z1)
  PROVE  FoldsUp(l, x1, x2, x3, z0, q1, z1)
<1> DEFINE q == x3 \div 4
           s == x3 % 4
<1>1. q \in Nat /\ s \in 0..3 /\ x3 = 4 * q + s OBVIOUS
<1>2. /\ q0 \in Nat /\ z0 \in 0..(l - 1) /\ x1 + (q + (x3 - s)) = l * q0 + z0
      /\ q1 \in Nat /\ z1 \in 0..(l - 1) /\ x2 + q0 = l * q1 + z1
  BY DEF FoldColumns, Carried
<1> HIDE DEF q, s
<1>3. x1 + 5 * q = l * q0 + z0 /\ 4 * q < 16 * j BY <1>1, <1>2
<1>4. q0 <= 2
  <2>1. ASSUME q0 >= 3 PROVE FALSE
    <3>1. PICK d \in Nat : q0 = 3 + d
      <4>1. q0 - 3 \in Nat /\ q0 = 3 + (q0 - 3) BY <1>2, <2>1
      <4> QED BY <4>1
    <3>2. l * q0 = l + l + l + l * d /\ l * d \in Nat BY <3>1
    <3> QED BY <1>1, <1>2, <1>3, <3>2
  <2> QED BY <1>2, <2>1
<1>5. q1 <= 1
  <2>1. ASSUME q1 >= 2 PROVE FALSE
    <3>1. PICK d \in Nat : q1 = 2 + d
      <4>1. q1 - 2 \in Nat /\ q1 = 2 + (q1 - 2) BY <1>2, <2>1
      <4> QED BY <4>1
    <3>2. l * q1 = l + l + l * d /\ l * d \in Nat BY <3>1
    <3> QED BY <1>2, <1>4, <3>2
  <2> QED BY <1>2, <2>1
<1>6. s + q1 \in 0..4 BY <1>1, <1>2, <1>5
<1>7. z0 + l * z1 + l * l * (s + q1) + (4 * l * l - 5) * q = x1 + l * x2 + l * l * x3
  <2>1. z0 = x1 + 5 * q - l * q0 /\ z1 = x2 + q0 - l * q1 BY <1>1, <1>2, <1>3
  <2>2. l * z1 = l * x2 + l * q0 - l * (l * q1) BY <1>2, <2>1
  <2>3. l * l * (s + q1) = l * l * s + l * (l * q1) BY <1>1, <1>2
  <2>4. l * l * x3 = 4 * l * l * q + l * l * s BY <1>1
  <2>5. (4 * l * l - 5) * q = 4 * l * l * q - 5 * q BY <1>1
  <2>6. /\ l * x2 \in Int /\ l * q0 \in Int /\ l * (l * q1) \in Int /\ l * l * s \in Int
        /\ 4 * l * l * q \in Int
    BY <1>1, <1>2
  <2> QED BY <1>1, <2>1, <2>2, <2>3, <2>4, <2>5, <2>6
<1> QED BY <1>6, <1>7 DEF q, s, FoldsUp

(* The last subtraction: what is left is below 2 * (4 * l * l - 5), and    *)
(* adding 5 tells by its carry whether to subtract.                        *)
Settled(l, x1, x2, x3, g2, z0, z1) ==
  IF g2 \div 4 # 0 THEN z0 + l * z1 ELSE x1 + l * x2

SettleColumns(l, x1, x2, q0, z0, q1, z1) ==
  Carried(x1 + 5, l, q0, z0) /\ Carried(x2 + q0, l, q1, z1)

Settles(l, x1, x2, x3, q1, z0, z1, v, pad) ==
  /\ (x3 + q1) % l = x3 + q1
  /\ (Settled(l, x1, x2, x3, x3 + q1, z0, z1) + pad) % (l * l)
       = ((v % (4 * l * l - 5)) + pad) % (l * l)

(* It settles on the remainder, as far as the tag keeps it.                *)
LEMMA LimbsSettle ==
  ASSUME NEW l \in Nat, l >= 16,
         NEW x1 \in 0..(l - 1), NEW x2 \in 0..(l - 1), NEW x3 \in 0..4,
         NEW q0, NEW z0, NEW q1, NEW z1, SettleColumns(l, x1, x2, q0, z0, q1, z1),
         NEW v, v = x1 + l * x2 + l * l * x3, NEW pad \in Nat
  PROVE  Settles(l, x1, x2, x3, q1, z0, z1, v, pad)
<1>1. /\ q0 \in Nat /\ z0 \in 0..(l - 1) /\ x1 + 5 = l * q0 + z0
      /\ q1 \in Nat /\ z1 \in 0..(l - 1) /\ x2 + q0 = l * q1 + z1
  BY DEF SettleColumns, Carried
<1>2. q0 <= 1
  <2>1. ASSUME q0 >= 2 PROVE FALSE
    <3>1. PICK d \in Nat : q0 = 2 + d
      <4>1. q0 - 2 \in Nat /\ q0 = 2 + (q0 - 2) BY <1>1, <2>1
      <4> QED BY <4>1
    <3>2. l * q0 = l + l + l * d /\ l * d \in Nat BY <3>1
    <3> QED BY <1>1, <3>2
  <2> QED BY <1>1, <2>1
<1>3. q1 <= 1
  <2>1. ASSUME q1 >= 2 PROVE FALSE
    <3>1. PICK d \in Nat : q1 = 2 + d
      <4>1. q1 - 2 \in Nat /\ q1 = 2 + (q1 - 2) BY <1>1, <2>1
      <4> QED BY <4>1
    <3>2. l * q1 = l + l + l * d /\ l * d \in Nat BY <3>1
    <3> QED BY <1>1, <1>2, <3>2
  <2> QED BY <1>1, <2>1
<1> DEFINE g == x3 + q1
           e == l * l
           w == z0 + l * z1
           y == x1 + l * x2
<1>4. g \in 0..5 /\ g % l = g
  <2>1. g \in 0..5 BY <1>1, <1>3
  <2>2. g \in Nat /\ g < l BY <2>1
  <2> HIDE DEF g
  <2> QED BY <2>1, <2>2, CountsUp
<1>5. y \in Nat /\ y < e /\ w \in Nat /\ w < e /\ e \in Nat /\ e >= 16
  <2>1. ASSUME NEW a \in 0..(l - 1), NEW b \in 0..(l - 1) PROVE a + l * b \in Nat /\ a + l * b < l * l
    <3>1. PICK d \in Nat : l = b + 1 + d
      <4>1. l - b - 1 \in Nat /\ l = b + 1 + (l - b - 1) OBVIOUS
      <4> QED BY <4>1
    <3>2. l * (b + 1 + d) = l * b + l + l * d /\ l * b \in Nat /\ l * d \in Nat OBVIOUS
    <3>3. l * l = l * (b + 1 + d) BY <3>1
    <3> QED BY <3>2, <3>3
  <2>2. l * l \in Nat /\ l * l >= 16
    <3>1. PICK d \in Nat : l = 16 + d
      <4>1. l - 16 \in Nat /\ l = 16 + (l - 16) OBVIOUS
      <4> QED BY <4>1
    <3>2. (16 + d) * (16 + d) = 256 + 32 * d + d * d /\ d * d \in Nat OBVIOUS
    <3> QED BY <3>1, <3>2
  <2> QED BY <1>1, <2>1, <2>2
<1>6. v + 5 = w + e * g
  <2>1. x1 = l * q0 + z0 - 5 /\ x2 = l * q1 + z1 - q0 BY <1>1
  <2>2. l * x2 = l * (l * q1) + l * z1 - l * q0 BY <1>1, <2>1
  <2>3. l * l * g = l * l * x3 + l * (l * q1) BY <1>1
  <2>4. l * (l * q1) \in Int /\ l * z1 \in Int /\ l * q0 \in Int /\ l * l * x3 \in Int
         /\ l * x2 \in Int /\ z0 \in Int /\ x1 \in Int
    BY <1>1
  <2>5. l * l * g = e * g OBVIOUS
  <2> HIDE DEF g, e
  <2>6. v + 5 = z0 + l * z1 + l * l * g BY <2>1, <2>2, <2>3, <2>4
  <2> QED BY <2>5, <2>6
<1>7. v = y + e * x3 /\ v \in Nat
  <2>1. l * l * x3 \in Nat /\ l * x2 \in Nat OBVIOUS
  <2> QED BY <2>1
<1> DEFINE p == 4 * e - 5
<1>8. p = 4 * l * l - 5 /\ p \in Nat /\ p > 0 BY <1>5
<1> HIDE DEF e, w, y, g
<1>9. CASE g >= 4
  <2>1. g \div 4 # 0 BY <1>4, <1>9
  <2> DEFINE u == v - p
  <2>2. e * g >= e * 4 /\ e * g \in Int /\ e * 5 >= e * g
    <3>1. g = 4 \/ g = 5 BY <1>4, <1>9
    <3> QED BY <1>5, <3>1
  <2>3. u \in 0..(p - 1)
    <3>1. e * x3 \in Int /\ e * x3 <= e * 4
      <4>1. x3 \in 0..4 OBVIOUS
      <4>2. x3 = 0 \/ x3 = 1 \/ x3 = 2 \/ x3 = 3 \/ x3 = 4 BY <4>1
      <4> QED BY <1>5, <4>2
    <3> QED BY <1>5, <1>6, <1>7, <2>2, <3>1
  <2>4. v % p = u
    <3> DEFINE one == 1
    <3>1. v = p * one + u /\ one \in Int /\ v \in Int BY <1>5, <1>7
    <3> HIDE DEF one, p, u
    <3> QED BY <1>8, <2>3, <3>1, QuotientIs
  <2>5. (w + pad) % e = (u + pad) % e
    <3> DEFINE t == g - 4
               m == w + pad
               n == u + pad
    <3>1. t \in Int /\ e * t = e * g - e * 4 BY <1>4, <1>5
    <3>2. n = m + e * t BY <1>5, <1>6, <1>7, <2>2, <3>1
    <3>3. m \in Int /\ n \in Int BY <1>5, <2>3
    <3> HIDE DEF t, m, n
    <3>4. e \in Nat /\ e > 0 /\ t \in Int BY <1>5, <3>1
    <3>5. n % e = m % e BY <3>2, <3>3, <3>4, ModuloIs
    <3> QED BY <3>5 DEF m, n
  <2>6. Settled(l, x1, x2, x3, g, z0, z1) = w BY <2>1 DEF Settled, w
  <2> HIDE DEF p, u
  <2>7. (Settled(l, x1, x2, x3, g, z0, z1) + pad) % e = ((v % p) + pad) % e
    BY <2>4, <2>5, <2>6
  <2> QED BY <1>4, <1>8, <2>7 DEF e, g, Settles
<1>10. CASE ~(g >= 4)
  <2>1. g \div 4 = 0 BY <1>4, <1>10
  <2>2. v \in 0..(p - 1)
    <3>1. g = 0 \/ g = 1 \/ g = 2 \/ g = 3 BY <1>4, <1>10
    <3>2. e * g \in Int /\ e * g <= e * 3 BY <1>5, <3>1
    <3> QED BY <1>5, <1>6, <1>7, <3>2
  <2>3. v % p = v
    <3> HIDE DEF p
    <3>1. v \in Nat /\ v < p BY <1>7, <1>8, <2>2
    <3> QED BY <1>8, <3>1, CountsUp
  <2>4. (y + pad) % e = (v + pad) % e
    <3> DEFINE m == y + pad
               n == v + pad
    <3>1. n = m + e * x3
      <4>1. e * x3 \in Int BY <1>5
      <4> QED BY <1>5, <1>7, <4>1
    <3>2. m \in Int /\ n \in Int /\ x3 \in Int /\ e > 0 BY <1>5, <1>7
    <3> HIDE DEF m, n
    <3>3. n % e = m % e BY <1>5, <3>1, <3>2, ModuloIs
    <3> QED BY <3>3 DEF m, n
  <2>5. Settled(l, x1, x2, x3, g, z0, z1) = y BY <2>1 DEF Settled, y
  <2> HIDE DEF p
  <2>6. (Settled(l, x1, x2, x3, g, z0, z1) + pad) % e = ((v % p) + pad) % e
    BY <2>3, <2>4, <2>5
  <2> QED BY <1>4, <1>8, <2>6 DEF e, g, Settles
<1>11. g >= 4 \/ ~(g >= 4) OBVIOUS
<1> QED BY <1>9, <1>10, <1>11

(* What the sizes give: units, limbs and the modulus, and a clamped key.   *)
LEMMA PolySizes ==
  ASSUME Poly!Sizes
  PROVE  /\ PolyByteOf \in Nat /\ PolyByteOf > 0 /\ PolyMaxLen \in Nat /\ NoResult \notin Nat
         /\ Poly!Limb = PolyByteOf * PolyByteOf /\ Poly!Limb \in Nat /\ Poly!Limb >= 16
         /\ Poly!P = 4 * Poly!Limb * Poly!Limb - 5 /\ Poly!P \in Nat /\ Poly!P > 0
         /\ \E j \in Nat : j >= 1 /\ Poly!Limb = 16 * j
<1>1. /\ PolyByteOf \in Nat /\ PolyByteOf > 0 /\ PolyByteOf % 4 = 0 /\ PolyMaxLen \in Nat
      /\ NoResult \notin Nat
  BY DEF Poly!Sizes
<1>2. PICK a \in Nat : PolyByteOf = 4 * a /\ a >= 1 BY <1>1
<1> DEFINE j == a * a
<1>3. j \in Nat /\ j >= 1
  <2>1. PICK d \in Nat : a = d + 1
    <3>1. a - 1 \in Nat /\ a = (a - 1) + 1 BY <1>2
    <3> QED BY <3>1
  <2>2. (d + 1) * (d + 1) = d * d + 2 * d + 1 /\ d * d \in Nat OBVIOUS
  <2> QED BY <2>1, <2>2
<1>4. Poly!Limb = 16 * j BY <1>2 DEF Poly!Limb
<1>5. Poly!Limb = PolyByteOf * PolyByteOf BY DEF Poly!Limb
<1> HIDE DEF j
<1>6. Poly!P = 4 * Poly!Limb * Poly!Limb - 5 BY DEF Poly!P
<1>7. Poly!P \in Nat /\ Poly!P > 0
  <2>1. PICK d \in Nat : j = d + 1
    <3>1. j - 1 \in Nat /\ j = (j - 1) + 1 BY <1>3
    <3> QED BY <3>1
  <2>2. 4 * Poly!Limb * Poly!Limb = 1024 * (j * j) BY <1>3, <1>4
  <2>3. j * j = d * d + 2 * d + 1 /\ d * d \in Nat BY <2>1
  <2>4. j * j \in Nat /\ j * j >= 1 BY <2>3
  <2> QED BY <1>6, <2>2, <2>4
<1>8. Poly!Limb \in Nat /\ Poly!Limb >= 16 BY <1>3, <1>4
<1> QED BY <1>1, <1>3, <1>4, <1>5, <1>6, <1>7, <1>8

(* A clamped key's halves.                                                 *)
LEMMA PolyClamped ==
  ASSUME Poly!Sizes, NEW k \in PolyKeys
  PROVE  /\ \E j, u : Clamped(Poly!Limb, j, k.r0, k.r1, u, k.r1 + k.r1 \div 4)
         /\ k.pad \in Nat
<1>1. PICK j \in Nat : j >= 1 /\ Poly!Limb = 16 * j BY PolySizes
<1>2. Poly!Limb \div 16 = j BY <1>1
<1>3. k.r0 \in 0..(j - 1) /\ k.r1 \in 0..(j - 1) /\ k.r1 % 4 = 0 /\ k.pad \in Nat
  BY <1>2 DEF Poly!Sizes
<1>4. PICK u \in Nat : k.r1 = 4 * u BY <1>1, <1>3
<1>5. k.r1 + k.r1 \div 4 = 5 * u BY <1>4
<1>6. Clamped(Poly!Limb, j, k.r0, k.r1, u, k.r1 + k.r1 \div 4)
  BY <1>1, <1>3, <1>4, <1>5 DEF Clamped
<1> QED BY <1>3, <1>6

(* The point the polynomial is taken at.                                   *)
PointOf(k) == k.r0 + Poly!Limb * k.r1

(* It is a number.                                                         *)
LEMMA PointIs ==
  ASSUME Poly!Sizes, NEW k \in PolyKeys PROVE PointOf(k) \in Nat
<1>1. PICK j, u : Clamped(Poly!Limb, j, k.r0, k.r1, u, k.r1 + k.r1 \div 4) BY PolyClamped
<1>2. Poly!Limb \in Nat BY PolySizes
<1>3. k.r0 \in Nat /\ k.r1 \in Nat BY <1>1 DEF Clamped
<1>4. Poly!Limb * k.r1 \in Nat BY <1>2, <1>3
<1> QED BY <1>3, <1>4 DEF PointOf

(* Elements of three limbs.                                                *)
LEMMA LimbsAre ==
  ASSUME NEW l, NEW c, NEW x \in Limbs(l, c)
  PROVE  x[1] \in 0..(l - 1) /\ x[2] \in 0..(l - 1) /\ x[3] \in 0..c
BY DEF Limbs

(* Adding a block.                                                         *)
LEMMA WithBlockIs ==
  ASSUME Poly!Sizes, NEW x \in Limbs(Poly!Limb, 4),
         NEW m0 \in 0..(Poly!Limb - 1), NEW m1 \in 0..(Poly!Limb - 1), NEW b \in 0..1
  PROVE  /\ Poly!WithBlock(x, m0, m1, b) \in Limbs(Poly!Limb, 6)
         /\ Value(Poly!WithBlock(x, m0, m1, b), Poly!Limb)
              = Value(x, Poly!Limb) + (m0 + Poly!Limb * m1 + Poly!Limb * Poly!Limb * b)
<1> DEFINE l  == Poly!Limb
           x1 == x[1]
           x2 == x[2]
           x3 == x[3]
           q0 == (x1 + m0) \div l
           z0 == (x1 + m0) % l
           q1 == (x2 + q0 + m1) \div l
           z1 == (x2 + q0 + m1) % l
           z2 == (x3 + q1 + b) % l
           y  == Poly!WithBlock(x, m0, m1, b)
<1>1. y = <<z0, z1, z2>>
  <2>1. y = <<(x[1] + m0) % Poly!Limb, (x[2] + (x[1] + m0) \div Poly!Limb + m1) % Poly!Limb,
              (x[3] + (x[2] + (x[1] + m0) \div Poly!Limb + m1) \div Poly!Limb + b) % Poly!Limb>>
    BY Zenon DEF Poly!WithBlock
  <2> QED BY <2>1
<1>2. l \in Nat /\ l >= 16 /\ l > 0 BY PolySizes
<1>3. x1 \in 0..(l - 1) /\ x2 \in 0..(l - 1) /\ x3 \in 0..4 BY LimbsAre
<1>4. m0 \in 0..(l - 1) /\ m1 \in 0..(l - 1) OBVIOUS
<1>5. Value(x, Poly!Limb) = x1 + l * x2 + l * l * x3 BY DEF Value
<1> HIDE DEF l, x1, x2, x3, y
<1>6. Carried(x1 + m0, l, q0, z0)
  <2>1. x1 + m0 \in Nat BY <1>2, <1>3, <1>4
  <2> QED BY <1>2, <2>1, CarryIs
<1> HIDE DEF q0, z0
<1>7. Carried(x2 + q0 + m1, l, q1, z1)
  <2>1. x2 + q0 + m1 \in Nat BY <1>2, <1>3, <1>4, <1>6 DEF Carried
  <2> QED BY <1>2, <2>1, CarryIs
<1> HIDE DEF q1, z1
<1>8. /\ x3 + q1 + b \in 0..6 /\ z2 = x3 + q1 + b
      /\ z0 + l * z1 + l * l * (x3 + q1 + b) = x1 + l * x2 + l * l * x3 + (m0 + l * m1 + l * l * b)
  <2>1. AddColumns(l, x1, x2, m0, m1, q0, z0, q1, z1) BY <1>6, <1>7 DEF AddColumns
  <2>2. l \in Nat /\ l >= 16 BY <1>2
  <2> HIDE DEF z2
  <2>3. AddsUp(l, x1, x2, x3, m0, m1, b, z0, q1, z1) BY <1>3, <1>4, <2>1, <2>2, LimbsAdd
  <2> QED BY <2>3 DEF AddsUp, z2
<1> HIDE DEF z2
<1>9. y \in Limbs(l, 6)
  <2>1. z0 \in 0..(l - 1) /\ z1 \in 0..(l - 1) /\ z2 \in 0..6 BY <1>6, <1>7, <1>8 DEF Carried
  <2> QED BY <1>1, <2>1 DEF Limbs
<1>10. Value(y, l) = z0 + l * z1 + l * l * z2 BY <1>1 DEF Value
<1>11. Value(y, l) = x1 + l * x2 + l * l * x3 + (m0 + l * m1 + l * l * b) BY <1>8, <1>10
<1> QED BY <1>5, <1>9, <1>11 DEF l, y

(* Multiplying by r.                                                       *)
LEMMA ProductsAre ==
  ASSUME Poly!Sizes, s1 \in PolyKeys, NEW y \in Limbs(Poly!Limb, 6)
  PROVE  /\ Poly!Products(y) \in Limbs(Poly!Limb, Poly!Limb - 1)
         /\ \E t \in Int : Value(Poly!Products(y), Poly!Limb) + Poly!P * t
                             = Value(y, Poly!Limb) * PointOf(s1)
<1> DEFINE l  == Poly!Limb
           r0 == s1.r0
           r1 == s1.r1
           s  == r1 + r1 \div 4
           y1 == y[1]
           y2 == y[2]
           y3 == y[3]
           q0 == (y1 * r0 + y2 * s) \div l
           z0 == (y1 * r0 + y2 * s) % l
           d1 == y1 * r1 + y2 * r0 + ((y3 * s) % l) + q0
           q1 == d1 \div l
           z1 == d1 % l
           z2 == (((y3 * r0) % l) + q1) % l
           z  == Poly!Products(y)
<1>1. z = <<z0, z1, z2>>
  <2>1. Poly!S1 = s BY DEF Poly!S1
  <2> HIDE DEF s
  <2>2. z = <<(y[1] * s1.r0 + y[2] * Poly!S1) % Poly!Limb,
              (y[1] * s1.r1 + y[2] * s1.r0 + ((y[3] * Poly!S1) % Poly!Limb)
                 + (y[1] * s1.r0 + y[2] * Poly!S1) \div Poly!Limb) % Poly!Limb,
              (((y[3] * s1.r0) % Poly!Limb)
                 + (y[1] * s1.r1 + y[2] * s1.r0 + ((y[3] * Poly!S1) % Poly!Limb)
                    + (y[1] * s1.r0 + y[2] * Poly!S1) \div Poly!Limb) \div Poly!Limb) % Poly!Limb>>
    BY Zenon DEF Poly!Products
  <2> QED BY <2>1, <2>2
<1>2. l \in Nat /\ l >= 16 /\ l > 0 BY PolySizes
<1>3. PICK j, u : Clamped(l, j, r0, r1, u, s)
  <2>1. PICK j, u : Clamped(Poly!Limb, j, s1.r0, s1.r1, u, s1.r1 + s1.r1 \div 4) BY PolyClamped
  <2> QED BY <2>1
<1>4. y1 \in 0..(l - 1) /\ y2 \in 0..(l - 1) /\ y3 \in 0..6 BY LimbsAre
<1>5. Value(y, Poly!Limb) = y1 + l * y2 + l * l * y3 /\ PointOf(s1) = r0 + l * r1
        /\ Poly!P = 4 * l * l - 5
  BY DEF Value, PointOf, Poly!P
<1> HIDE DEF l, r0, r1, s, y1, y2, y3, z
<1>6. r0 \in Nat /\ r1 \in Nat /\ s \in Nat /\ u \in Nat BY <1>3 DEF Clamped
<1>7. y1 \in Nat /\ y2 \in Nat /\ y3 \in Nat BY <1>2, <1>4
<1>8. Carried(y1 * r0 + y2 * s, l, q0, z0)
  <2>1. y1 * r0 + y2 * s \in Nat BY <1>6, <1>7
  <2> QED BY <1>2, <2>1, CarryIs
<1> HIDE DEF q0, z0
<1>9. Carried(d1, l, q1, z1)
  <2>1. y1 * r1 \in Nat /\ y2 * r0 \in Nat /\ y3 * s \in Nat BY <1>6, <1>7
  <2>2. (y3 * s) % l \in Nat BY <1>2, <2>1
  <2>3. d1 \in Nat BY <1>8, <2>1, <2>2 DEF Carried
  <2> HIDE DEF d1
  <2> QED BY <1>2, <2>3, CarryIs
<1>10. Columns(l, y1, y2, y3, r0, r1, s, q0, z0, q1, z1)
  <2> HIDE DEF q1, z1
  <2> QED BY <1>8, <1>9 DEF Columns
<1> HIDE DEF d1
<1>11. z0 \in 0..(l - 1) /\ z1 \in 0..(l - 1) /\ q1 \in Nat BY <1>8, <1>9 DEF Carried
<1> HIDE DEF q1, z1
<1> DEFINE t == (y2 + l * y3) * u
<1>12. /\ ((y3 * r0) % l) + q1 \in 0..(l - 1) /\ (y3 * r0) % l = y3 * r0
       /\ z0 + l * z1 + l * l * (y3 * r0 + q1) + (4 * l * l - 5) * t
            = (y1 + l * y2 + l * l * y3) * (r0 + l * r1)
  BY <1>3, <1>4, <1>10, LimbsMultiply
<1>13. t \in Int BY <1>2, <1>6, <1>7
<1> HIDE DEF t
<1>14. z2 = y3 * r0 + q1 /\ z2 \in 0..(l - 1)
  <2> DEFINE e == ((y3 * r0) % l) + q1
  <2>1. e \in Nat /\ e < l BY <1>2, <1>12
  <2> HIDE DEF e
  <2>2. e % l = e BY <1>2, <2>1, CountsUp
  <2> QED BY <1>12, <2>2 DEF e
<1> HIDE DEF z2
<1>15. z \in Limbs(l, l - 1) BY <1>1, <1>11, <1>14 DEF Limbs
<1>16. Value(z, l) = z0 + l * z1 + l * l * z2 BY <1>1 DEF Value
<1>17. Value(z, l) + Poly!P * t = Value(y, Poly!Limb) * PointOf(s1)
  BY <1>5, <1>12, <1>14, <1>16
<1> QED BY <1>13, <1>15, <1>17 DEF l, z

(* Folding back.                                                           *)
LEMMA FoldIs ==
  ASSUME Poly!Sizes, NEW x \in Limbs(Poly!Limb, Poly!Limb - 1)
  PROVE  /\ Poly!Fold(x) \in Limbs(Poly!Limb, 4)
         /\ \E t \in Int : Value(Poly!Fold(x), Poly!Limb) + Poly!P * t = Value(x, Poly!Limb)
<1> DEFINE l  == Poly!Limb
           x1 == x[1]
           x2 == x[2]
           x3 == x[3]
           c  == x3 \div 4 + (x3 - (x3 % 4))
           q0 == (x1 + c) \div l
           z0 == (x1 + c) % l
           q1 == (x2 + q0) \div l
           z1 == (x2 + q0) % l
           z2 == (x3 % 4) + q1
           z  == Poly!Fold(x)
           t  == x3 \div 4
<1>1. z = <<z0, z1, z2>>
  <2>1. z = <<(x[1] + (x[3] \div 4 + (x[3] - (x[3] % 4)))) % Poly!Limb,
              (x[2] + (x[1] + (x[3] \div 4 + (x[3] - (x[3] % 4)))) \div Poly!Limb) % Poly!Limb,
              (x[3] % 4) + (x[2] + (x[1] + (x[3] \div 4 + (x[3] - (x[3] % 4)))) \div Poly!Limb) \div Poly!Limb>>
    BY Zenon DEF Poly!Fold
  <2> QED BY <2>1
<1>2. PICK j \in Nat : j >= 1 /\ l = 16 * j BY PolySizes
<1>3. x1 \in 0..(l - 1) /\ x2 \in 0..(l - 1) /\ x3 \in 0..(l - 1) BY LimbsAre
<1>4. Value(x, Poly!Limb) = x1 + l * x2 + l * l * x3 /\ Poly!P = 4 * l * l - 5 BY DEF Value, Poly!P
<1> HIDE DEF l, x1, x2, x3, z
<1>5. l \in Nat /\ l > 0 /\ x1 \in Nat /\ x2 \in Nat /\ x3 \in Nat BY <1>2, <1>3
<1>6. c \in Nat /\ t \in Int
  <2>1. x3 \div 4 \in Nat /\ x3 % 4 \in 0..3 /\ x3 = 4 * (x3 \div 4) + (x3 % 4) BY <1>5
  <2> QED BY <1>5, <2>1
<1>7. Carried(x1 + c, l, q0, z0)
  <2> HIDE DEF c
  <2>1. x1 + c \in Nat BY <1>5, <1>6
  <2> QED BY <1>5, <2>1, CarryIs
<1> HIDE DEF q0, z0
<1>8. Carried(x2 + q0, l, q1, z1)
  <2>1. x2 + q0 \in Nat BY <1>5, <1>7 DEF Carried
  <2> QED BY <1>5, <2>1, CarryIs
<1> HIDE DEF q1, z1
<1>9. /\ z2 \in 0..4
      /\ z0 + l * z1 + l * l * z2 + (4 * l * l - 5) * t = x1 + l * x2 + l * l * x3
  <2>1. FoldColumns(l, x1, x2, x3, q0, z0, q1, z1) BY <1>7, <1>8 DEF FoldColumns
  <2> HIDE DEF z2, t, c
  <2>2. FoldsUp(l, x1, x2, x3, z0, q1, z1) BY <1>2, <1>3, <2>1, LimbsFold
  <2> QED BY <2>2 DEF FoldsUp, z2, t
<1> HIDE DEF z2, t, c
<1>10. z \in Limbs(l, 4)
  <2>1. z0 \in 0..(l - 1) /\ z1 \in 0..(l - 1) BY <1>7, <1>8 DEF Carried
  <2> QED BY <1>1, <1>9, <2>1 DEF Limbs
<1>11. Value(z, l) = z0 + l * z1 + l * l * z2 BY <1>1 DEF Value
<1>12. Value(z, l) + Poly!P * t = Value(x, Poly!Limb) BY <1>4, <1>9, <1>11
<1> QED BY <1>6, <1>10, <1>12 DEF l, z

(* A block of four units, and the number it is.                            *)
IsUnits(m, n) == IsList(m, n) /\ \A x \in 1..n : m[x] \in 0..(PolyByteOf - 1)
BlockValue(b) == b[1] + PolyByteOf * (b[2] + PolyByteOf * (b[3] + PolyByteOf * b[4]))

(* Limbs of numbers are a number.                                          *)
LEMMA ValueIs ==
  ASSUME NEW l \in Nat, NEW c \in Nat, NEW x \in Limbs(l, c)
  PROVE  Value(x, l) \in Nat
<1>1. x[1] \in Nat /\ x[2] \in Nat /\ x[3] \in Nat BY DEF Limbs
<1>2. l * x[2] \in Nat /\ l * l * x[3] \in Nat BY <1>1
<1> QED BY <1>1, <1>2 DEF Value

(* Two units make a limb.                                                  *)
LEMMA UnitsMake ==
  ASSUME Poly!Sizes, NEW a \in 0..(PolyByteOf - 1), NEW b \in 0..(PolyByteOf - 1)
  PROVE  a + PolyByteOf * b \in 0..(Poly!Limb - 1)
<1> DEFINE w == PolyByteOf
<1>1. w \in Nat /\ w > 0 /\ Poly!Limb = w * w BY PolySizes
<1>2. a \in 0..(w - 1) /\ b \in 0..(w - 1) OBVIOUS
<1> HIDE DEF w
<1>3. PICK d \in Nat : w = b + 1 + d
  <2>1. w - b - 1 \in Nat /\ w = b + 1 + (w - b - 1) BY <1>1, <1>2
  <2> QED BY <2>1
<1>4. w * w = w * b + w + w * d /\ w * b \in Nat /\ w * d \in Nat
  <2>1. w * (b + 1 + d) = w * b + w + w * d BY <1>1, <1>2
  <2>2. w * b \in Nat /\ w * d \in Nat BY <1>1, <1>2
  <2> QED BY <1>3, <2>1, <2>2
<1>5. a + w * b \in 0..(Poly!Limb - 1) BY <1>1, <1>2, <1>4
<1> QED BY <1>5 DEF w

(* The two limbs read of a block are its number.                           *)
LEMMA LimbAtIs ==
  ASSUME Poly!Sizes, NEW b, IsUnits(b, 4)
  PROVE  /\ Poly!LimbAt(b, 0) \in 0..(Poly!Limb - 1) /\ Poly!LimbAt(b, 1) \in 0..(Poly!Limb - 1)
         /\ Poly!LimbAt(b, 0) + Poly!Limb * Poly!LimbAt(b, 1) = BlockValue(b)
         /\ BlockValue(b) \in Nat
<1> DEFINE b1 == b[1]
           b2 == b[2]
           b3 == b[3]
           b4 == b[4]
           w  == PolyByteOf
<1>1. w \in Nat /\ Poly!Limb = w * w BY PolySizes
<1>2. b1 \in 0..(w - 1) /\ b2 \in 0..(w - 1) /\ b3 \in 0..(w - 1) /\ b4 \in 0..(w - 1)
  BY DEF IsUnits
<1>3. Poly!LimbAt(b, 0) = b1 + w * b2 /\ Poly!LimbAt(b, 1) = b3 + w * b4
  BY DEF Poly!LimbAt
<1>4. BlockValue(b) = b1 + w * (b2 + w * (b3 + w * b4)) BY DEF BlockValue
<1>5. b1 + w * b2 \in 0..(Poly!Limb - 1) /\ b3 + w * b4 \in 0..(Poly!Limb - 1)
  BY <1>2, UnitsMake
<1> HIDE DEF b1, b2, b3, b4, w
<1>6. b1 \in Nat /\ b2 \in Nat /\ b3 \in Nat /\ b4 \in Nat BY <1>1, <1>2
<1>7. b1 + w * b2 + (w * w) * (b3 + w * b4) = b1 + w * (b2 + w * (b3 + w * b4)) BY <1>1, <1>6
<1>8. b1 + w * (b2 + w * (b3 + w * b4)) \in Nat
  <2>1. b3 + w * b4 \in Nat BY <1>1, <1>6
  <2>2. b2 + w * (b3 + w * b4) \in Nat BY <1>1, <1>6, <2>1
  <2> QED BY <1>1, <1>6, <2>2
<1> QED BY <1>1, <1>3, <1>4, <1>5, <1>7, <1>8

(* One step of the polynomial, from a remainder c and a coefficient a.     *)
StepOf(k, c, a) == ((c + a) * PointOf(k)) % Poly!P

(* absorb does that step, whatever representative the limbs hold.          *)
LEMMA AbsorbBlockIs ==
  ASSUME Poly!Sizes, s1 \in PolyKeys, NEW x \in Limbs(Poly!Limb, 4),
         NEW b, IsUnits(b, 4), NEW p \in 0..1
  PROVE  /\ Poly!AbsorbBlock(x, b, p) \in Limbs(Poly!Limb, 4)
         /\ Value(Poly!AbsorbBlock(x, b, p), Poly!Limb) % Poly!P
              = StepOf(s1, Value(x, Poly!Limb) % Poly!P,
                       BlockValue(b) + Poly!Limb * Poly!Limb * p)
<1> DEFINE l  == Poly!Limb
           M  == Poly!P
           R  == PointOf(s1)
           m0 == Poly!LimbAt(b, 0)
           m1 == Poly!LimbAt(b, 1)
           y  == Poly!WithBlock(x, m0, m1, p)
           z  == Poly!Products(y)
           f  == Poly!Fold(z)
           C  == BlockValue(b) + l * l * p
           X  == Value(x, l)
<1>1. l \in Nat /\ l >= 16 /\ M \in Nat /\ M > 0 /\ R \in Nat BY PolySizes, PointIs
<1>2. m0 \in 0..(l - 1) /\ m1 \in 0..(l - 1) /\ m0 + l * m1 = BlockValue(b) /\ BlockValue(b) \in Nat
  BY LimbAtIs
<1>3. f = Poly!AbsorbBlock(x, b, p) BY DEF Poly!AbsorbBlock
<1>4. X \in Nat BY <1>1, ValueIs
<1>5. C \in Nat
  <2>1. l * l * p \in Nat BY <1>1
  <2> QED BY <1>2, <2>1
<1>6. y \in Limbs(l, 6) /\ Value(y, l) = X + C
  <2>1. m0 \in 0..(l - 1) /\ m1 \in 0..(l - 1) BY <1>2
  <2> HIDE DEF m0, m1
  <2>2. y \in Limbs(l, 6) /\ Value(y, l) = X + (m0 + l * m1 + l * l * p)
    BY <2>1, WithBlockIs
  <2>3. m0 + l * m1 + l * l * p = C BY <1>2
  <2> QED BY <2>2, <2>3
<1> HIDE DEF m0, m1, y
<1>7. PICK t \in Int : Value(z, l) + M * t = Value(y, l) * R BY <1>6, ProductsAre
<1>8. z \in Limbs(l, l - 1) BY <1>6, ProductsAre
<1> HIDE DEF z
<1>9. PICK e \in Int : Value(f, l) + M * e = Value(z, l) BY <1>8, FoldIs
<1>10. f \in Limbs(l, 4) BY <1>8, FoldIs
<1>11. Value(f, l) \in Nat /\ Value(z, l) \in Nat
  <2>1. 4 \in Nat /\ l - 1 \in Nat BY <1>1
  <2> HIDE DEF l
  <2> QED BY <1>1, <1>8, <1>10, <2>1, ValueIs
<1> DEFINE c == X % M
           d == X \div M
           F == Value(f, l)
           Z == Value(z, l)
           u == (c + C) * R
           j == d * R - t - e
<1>12. d \in Nat /\ c \in Nat /\ X = M * d + c
  <2> HIDE DEF X, M
  <2> QED BY <1>1, <1>4, DivisionIs
<1>13. F + M * e = Z /\ Z + M * t = (X + C) * R BY <1>6, <1>7, <1>9
<1>14. F \in Int /\ Z \in Int BY <1>11
<1> HIDE DEF l, M, R, C, X, c, d, f, F, Z
<1>15. F = u + M * j
  <2>1. (M * d + c + C) * R = (c + C) * R + M * (d * R) BY <1>1, <1>5, <1>12
  <2>2. M * j = M * (d * R) - M * t - M * e BY <1>1, <1>12
  <2>3. /\ M * (d * R) \in Int /\ M * t \in Int /\ M * e \in Int /\ (c + C) * R \in Int
    BY <1>1, <1>5, <1>12
  <2>4. (X + C) * R = (c + C) * R + M * (d * R) BY <1>12, <2>1
  <2> DEFINE Me == M * e
             Mt == M * t
             Md == M * (d * R)
             Mj == M * j
             XR == (X + C) * R
  <2>5. F + Me = Z /\ Z + Mt = XR /\ XR = u + Md /\ Mj = Md - Mt - Me
    BY <1>13, <2>2, <2>4
  <2>6. Me \in Int /\ Mt \in Int /\ Md \in Int /\ u \in Int BY <2>3
  <2> HIDE DEF Me, Mt, Md, Mj, XR, u, j
  <2>7. F = u + Mj BY <1>14, <2>5, <2>6
  <2> QED BY <2>7 DEF Mj
<1>16. u \in Int /\ j \in Int BY <1>1, <1>5, <1>12
<1> HIDE DEF u, j
<1>17. F % M = u % M BY <1>1, <1>14, <1>15, <1>16, ModuloIs
<1> QED BY <1>3, <1>10, <1>17 DEF StepOf, l, M, R, C, X, c, f, F, u

-----------------------------------------------------------------------------
(* The steps s stay in X, and g is their recursion from x.                 *)
StaysIn(s, n, X)      == \A i \in 1..n : \A a \in X : s[<<i, a>>] \in X
Solves(g, x, n, s, X) ==
  g \in [0..n -> X] /\ g[0] = x /\ \A i \in 1..n : g[i] = s[<<i, g[i - 1]>>]

(* A recursion whose steps stay in a set has a solution.                   *)
LEMMA Recursion ==
  ASSUME NEW X, NEW x \in X, NEW n \in Nat, NEW s, StaysIn(s, n, X)
  PROVE  \E g : Solves(g, x, n, s, X)
<1>0. \A i \in 1..n : \A a \in X : s[<<i, a>>] \in X BY DEF StaysIn
<1> DEFINE Solved(k) == \E g \in [0..k -> X] : g[0] = x /\ \A i \in 1..k : g[i] = s[<<i, g[i - 1]>>]
           S == { k \in Nat : k <= n => Solved(k) }
<1>1. 0 \in S
  <2> DEFINE g == [i \in 0..0 |-> x]
  <2>1. g \in [0..0 -> X] /\ g[0] = x OBVIOUS
  <2>2. \A i \in 1..0 : g[i] = s[<<i, g[i - 1]>>] OBVIOUS
  <2> HIDE DEF g
  <2>3. Solved(0) BY <2>1, <2>2
  <2> HIDE DEF Solved
  <2> QED BY <2>3
<1>2. ASSUME NEW k \in Nat, k \in S PROVE k + 1 \in S
  <2>1. SUFFICES ASSUME k + 1 <= n PROVE Solved(k + 1)
    OBVIOUS
  <2>2. PICK g \in [0..k -> X] : g[0] = x /\ \A i \in 1..k : g[i] = s[<<i, g[i - 1]>>]
    BY <1>2, <2>1
  <2>3. g[k] \in X /\ k + 1 \in 1..n BY <2>1, <2>2
  <2> DEFINE h == [i \in 0..(k + 1) |-> IF i <= k THEN g[i] ELSE s[<<k + 1, g[k]>>]]
  <2>4. h \in [0..(k + 1) -> X]
    <3>1. s[<<k + 1, g[k]>>] \in X BY <1>0, <2>3
    <3> QED BY <3>1
  <2>5. h[0] = x BY <2>2
  <2>6. ASSUME NEW i \in 1..(k + 1) PROVE h[i] = s[<<i, h[i - 1]>>]
    <3>1. CASE i <= k
      <4>1. i \in 1..k /\ i - 1 \in 0..k /\ i - 1 <= k BY <3>1
      <4>2. h[i] = g[i] /\ h[i - 1] = g[i - 1] BY <4>1
      <4> HIDE DEF h
      <4> QED BY <2>2, <4>1, <4>2
    <3>2. CASE ~(i <= k)
      <4>1. i = k + 1 /\ i - 1 = k BY <3>2
      <4>2. h[i] = s[<<k + 1, g[k]>>] /\ h[i - 1] = g[k] BY <4>1
      <4> HIDE DEF h
      <4> QED BY <4>1, <4>2
    <3> QED BY <3>1, <3>2
  <2> HIDE DEF h
  <2> QED BY <2>4, <2>5, <2>6
<1>3. n \in S
  <2> HIDE DEF S
  <2> QED BY <1>1, <1>2, Induction
<1> QED BY <1>3 DEF Solves

-----------------------------------------------------------------------------
(* The units of block i with a 1 behind the last of n, zeros above it.     *)
UnitAt(m, i, n, j) == CASE j <= n     -> m[4 * (i - 1) + j]
                        [] j = n + 1 -> 1
                        [] j > n + 1 -> 0

CoefficientOf(m, i, n) ==
  UnitAt(m, i, n, 1) + PolyByteOf * (UnitAt(m, i, n, 2) + PolyByteOf * (UnitAt(m, i, n, 3)
    + PolyByteOf * (UnitAt(m, i, n, 4) + PolyByteOf * UnitAt(m, i, n, 5))))

(* A coefficient in terms of the block's units.                            *)
LEMMA CoefficientIs ==
  ASSUME NEW m, NEW i, NEW n, n = Poly!Min2(4, Len(m) - 4 * (i - 1))
  PROVE  Poly!Coefficient(m, i) = CoefficientOf(m, i, n)
BY DEF Poly!Coefficient, Poly!Block, CoefficientOf, UnitAt

(* A whole block.                                                          *)
LEMMA CoefficientWhole ==
  ASSUME Poly!Sizes, NEW m, NEW n \in Nat, IsList(m, n), NEW i \in Nat, i > 0, 4 * i <= n,
         NEW b, IsUnits(b, 4), \A j \in 1..4 : m[4 * (i - 1) + j] = b[j]
  PROVE  Poly!Coefficient(m, i) = BlockValue(b) + Poly!Limb * Poly!Limb * 1
<1>1. Len(m) = n BY ListIs
<1>2. Poly!Min2(4, Len(m) - 4 * (i - 1)) = 4 BY <1>1 DEF Poly!Min2
<1>3. Poly!Coefficient(m, i) = CoefficientOf(m, i, 4) BY <1>2, CoefficientIs
<1>4. /\ UnitAt(m, i, 4, 1) = b[1] /\ UnitAt(m, i, 4, 2) = b[2]
      /\ UnitAt(m, i, 4, 3) = b[3] /\ UnitAt(m, i, 4, 4) = b[4]
  BY DEF UnitAt
<1>5. UnitAt(m, i, 4, 5) = 1 BY DEF UnitAt
<1> DEFINE b1 == b[1]
           b2 == b[2]
           b3 == b[3]
           b4 == b[4]
           w  == PolyByteOf
<1>6. w \in Nat /\ Poly!Limb = w * w BY PolySizes
<1>7. b1 \in 0..(w - 1) /\ b2 \in 0..(w - 1) /\ b3 \in 0..(w - 1) /\ b4 \in 0..(w - 1)
  BY DEF IsUnits
<1>8. Poly!Coefficient(m, i) = b1 + w * (b2 + w * (b3 + w * (b4 + w * 1)))
  BY <1>3, <1>4, <1>5 DEF CoefficientOf
<1>9. BlockValue(b) = b1 + w * (b2 + w * (b3 + w * b4)) BY DEF BlockValue
<1> HIDE DEF b1, b2, b3, b4, w
<1>10. b1 \in Nat /\ b2 \in Nat /\ b3 \in Nat /\ b4 \in Nat BY <1>6, <1>7
<1>11. b1 + w * (b2 + w * (b3 + w * (b4 + w * 1)))
         = b1 + w * (b2 + w * (b3 + w * b4)) + (w * w) * (w * w) * 1
  BY <1>6, <1>10
<1> QED BY <1>6, <1>8, <1>9, <1>11

(* A part of one, of r units: the 1 behind them stands in the block.       *)
LEMMA CoefficientPart ==
  ASSUME Poly!Sizes, NEW m, NEW n \in Nat, IsList(m, n), NEW i \in Nat, i > 0,
         NEW r \in 1..3, n = 4 * (i - 1) + r,
         NEW b, IsUnits(b, 4),
         \A j \in 1..4 : b[j] = IF j <= r THEN m[4 * (i - 1) + j] ELSE IF j = r + 1 THEN 1 ELSE 0
  PROVE  Poly!Coefficient(m, i) = BlockValue(b) + Poly!Limb * Poly!Limb * 0
<1>1. Len(m) = n BY ListIs
<1>2. Poly!Min2(4, Len(m) - 4 * (i - 1)) = r BY <1>1 DEF Poly!Min2
<1>3. Poly!Coefficient(m, i) = CoefficientOf(m, i, r) BY <1>2, CoefficientIs
<1>4. ASSUME NEW j \in 1..4 PROVE UnitAt(m, i, r, j) = b[j]
  <2>1. b[j] = IF j <= r THEN m[4 * (i - 1) + j] ELSE IF j = r + 1 THEN 1 ELSE 0 OBVIOUS
  <2>2. CASE j <= r BY <2>1, <2>2 DEF UnitAt
  <2>3. CASE j = r + 1 BY <2>1, <2>3 DEF UnitAt
  <2>4. CASE j > r + 1 BY <2>1, <2>4 DEF UnitAt
  <2> QED BY <2>2, <2>3, <2>4
<1>5. UnitAt(m, i, r, 5) = 0 BY DEF UnitAt
<1> DEFINE b1 == b[1]
           b2 == b[2]
           b3 == b[3]
           b4 == b[4]
           w  == PolyByteOf
<1>6. w \in Nat /\ Poly!Limb = w * w BY PolySizes
<1>7. b1 \in 0..(w - 1) /\ b2 \in 0..(w - 1) /\ b3 \in 0..(w - 1) /\ b4 \in 0..(w - 1)
  BY DEF IsUnits
<1>8. Poly!Coefficient(m, i) = b1 + w * (b2 + w * (b3 + w * (b4 + w * 0)))
  <2>1. /\ UnitAt(m, i, r, 1) = b1 /\ UnitAt(m, i, r, 2) = b2
        /\ UnitAt(m, i, r, 3) = b3 /\ UnitAt(m, i, r, 4) = b4
    BY <1>4
  <2> HIDE DEF b1, b2, b3, b4
  <2> QED BY <1>3, <1>5, <2>1 DEF CoefficientOf
<1>9. BlockValue(b) = b1 + w * (b2 + w * (b3 + w * b4)) BY DEF BlockValue
<1> HIDE DEF b1, b2, b3, b4, w
<1>10. b4 + w * 0 = b4 /\ (w * w) * (w * w) * 0 = 0 BY <1>6, <1>7
<1>11. BlockValue(b) \in Nat BY LimbAtIs
<1> QED BY <1>6, <1>8, <1>9, <1>10, <1>11

(* Every coefficient is a number.                                          *)
LEMMA CoefficientType ==
  ASSUME Poly!Sizes, NEW m, NEW n \in Nat, IsUnits(m, n), NEW i \in Nat, i > 0, 4 * (i - 1) < n
  PROVE  Poly!Coefficient(m, i) \in Nat
<1> DEFINE r == Poly!Min2(4, Len(m) - 4 * (i - 1))
           a == 4 * (i - 1)
<1>1. Len(m) = n BY ListIs DEF IsUnits
<1>2. r \in 1..4 /\ a + r <= n /\ a \in Nat BY <1>1 DEF Poly!Min2
<1>3. Poly!Coefficient(m, i) = CoefficientOf(m, i, r) BY CoefficientIs
<1> HIDE DEF r
<1>4. PolyByteOf \in Nat BY PolySizes
<1>5. ASSUME NEW j \in 1..5 PROVE UnitAt(m, i, r, j) \in Nat
  <2>1. CASE j <= r
    <3>1. a + j \in 1..n BY <1>2, <2>1
    <3>2. m[a + j] \in Nat BY <1>4, <3>1 DEF IsUnits
    <3> QED BY <1>2, <2>1, <3>2 DEF UnitAt
  <2>2. CASE j = r + 1 BY <1>2, <2>2 DEF UnitAt
  <2>3. CASE j > r + 1 BY <1>2, <2>3 DEF UnitAt
  <2> QED BY <1>2, <2>1, <2>2, <2>3
<1> DEFINE a1 == UnitAt(m, i, r, 1)
           a2 == UnitAt(m, i, r, 2)
           a3 == UnitAt(m, i, r, 3)
           a4 == UnitAt(m, i, r, 4)
           a5 == UnitAt(m, i, r, 5)
           w  == PolyByteOf
<1>6. a1 \in Nat /\ a2 \in Nat /\ a3 \in Nat /\ a4 \in Nat /\ a5 \in Nat BY <1>5
<1>7. CoefficientOf(m, i, r) = a1 + w * (a2 + w * (a3 + w * (a4 + w * a5))) BY DEF CoefficientOf
<1>8. w \in Nat BY <1>4
<1> HIDE DEF a1, a2, a3, a4, a5, w
<1>9. a4 + w * a5 \in Nat BY <1>6, <1>8
<1>10. a3 + w * (a4 + w * a5) \in Nat BY <1>6, <1>8, <1>9
<1>11. a2 + w * (a3 + w * (a4 + w * a5)) \in Nat BY <1>6, <1>8, <1>10
<1>12. a1 + w * (a2 + w * (a3 + w * (a4 + w * a5))) \in Nat BY <1>6, <1>8, <1>11
<1> QED BY <1>3, <1>7, <1>12

(* What a step leaves is a number.                                         *)
LEMMA StepType ==
  ASSUME Poly!Sizes, NEW k \in PolyKeys, NEW c \in Nat, NEW a \in Nat
  PROVE  StepOf(k, c, a) \in Nat
<1> DEFINE x == (c + a) * PointOf(k)
<1>1. PointOf(k) \in Nat /\ Poly!P \in Nat /\ Poly!P > 0 BY PointIs, PolySizes
<1>2. x \in Nat BY <1>1
<1> HIDE DEF x
<1>3. x % Poly!P \in Nat BY <1>1, <1>2
<1> QED BY <1>3 DEF StepOf, x

(* The polynomial's values over the first w blocks of m.                   *)
HornerChain(v, k, m, w) ==
  /\ v \in [0..w -> Nat] /\ v[0] = 0
  /\ \A i \in 1..w : v[i] = StepOf(k, v[i - 1], Poly!Coefficient(m, i))

(* n units are w blocks, the last of them begun at least.                  *)
Covers(w, n) == n <= 4 * w /\ (w = 0 \/ 4 * (w - 1) < n)

(* The chain is what Horner's recursion takes its value from.              *)
LEMMA HornerIs ==
  ASSUME Poly!Sizes, NEW k \in PolyKeys, NEW m, NEW n \in Nat, IsUnits(m, n),
         NEW w \in Nat, Covers(w, n)
  PROVE  \E v : HornerChain(v, k, m, w) /\ Poly!Horner(k, m) = v[w]
<1> DEFINE C(i) == Poly!Coefficient(m, i)
           s == [e \in (1..w) \X Nat |-> StepOf(k, e[2], C(e[1]))]
           Body(f) == [i \in 0..w |-> IF i = 0 THEN 0 ELSE StepOf(k, f[i - 1], C(i))]
           v == CHOOSE f : f = Body(f)
<1>1. ASSUME NEW i \in 1..w PROVE C(i) \in Nat
  <2>1. i \in Nat /\ i > 0 /\ 4 * (i - 1) < n BY DEF Covers
  <2> QED BY <2>1, CoefficientType
<1>2. (Len(m) + 4 - 1) \div 4 = w
  <2>1. Len(m) = n BY ListIs DEF IsUnits
  <2> DEFINE four == 4
  <2>2. four \in Nat /\ four > 0 /\ n <= four * w /\ (w = 0 \/ four * (w - 1) < n) BY DEF Covers
  <2> HIDE DEF four
  <2>3. (n + four - 1) \div four = w BY <2>2, CeilingIs
  <2> QED BY <2>1, <2>3 DEF four
<1>3. Poly!Horner(k, m) = v[w]
  <2>1. Poly!Horner(k, m) =
          (CHOOSE f : f = [i \in 0..((Len(m) + 4 - 1) \div 4) |->
                             IF i = 0 THEN 0
                             ELSE ((f[i - 1] + Poly!Coefficient(m, i)) * (k.r0 + Poly!Limb * k.r1)) % Poly!P])
            [(Len(m) + 4 - 1) \div 4]
    BY Zenon DEF Poly!Horner, Poly!Block
  <2> QED BY <1>2, <2>1 DEF StepOf, PointOf
<1> HIDE DEF C
<1>4. PICK g \in [0..w -> Nat] : g[0] = 0 /\ \A i \in 1..w : g[i] = s[<<i, g[i - 1]>>]
  <2>1. \A i \in 1..w : \A a \in Nat : s[<<i, a>>] \in Nat
    <3>1. ASSUME NEW i \in 1..w, NEW a \in Nat PROVE s[<<i, a>>] \in Nat
      <4>1. s[<<i, a>>] = StepOf(k, a, C(i)) OBVIOUS
      <4>2. StepOf(k, a, C(i)) \in Nat
        <5> DEFINE c == C(i)
        <5>1. c \in Nat BY <1>1
        <5> HIDE DEF c
        <5>2. StepOf(k, a, c) \in Nat BY <5>1, StepType
        <5> QED BY <5>2 DEF c
      <4> QED BY <4>1, <4>2
    <3> QED BY <3>1
  <2> DEFINE z == 0
             N == Nat
  <2>2. z \in N /\ StaysIn(s, w, N) BY <2>1 DEF StaysIn
  <2> HIDE DEF s, z, N, Body, v
  <2>3. \E g : Solves(g, z, w, s, N)
    <3>1. z \in N /\ w \in Nat /\ StaysIn(s, w, N) BY <2>2
    <3> QED BY <3>1, Recursion
  <2>4. \E g \in [0..w -> N] : g[0] = z /\ \A i \in 1..w : g[i] = s[<<i, g[i - 1]>>]
    BY <2>3 DEF Solves
  <2> QED BY <2>4 DEF z, N
<1>5. g = Body(g)
  <2>1. ASSUME NEW i \in 1..w PROVE g[i] = StepOf(k, g[i - 1], C(i))
    <3>1. g[i - 1] \in Nat BY <1>4
    <3>2. s[<<i, g[i - 1]>>] = StepOf(k, g[i - 1], C(i)) BY <3>1
    <3> HIDE DEF s
    <3> QED BY <1>4, <3>2
  <2>2. \A i \in 0..w : i # 0 => i \in 1..w OBVIOUS
  <2>3. \A i \in 0..w : g[i] = IF i = 0 THEN 0 ELSE StepOf(k, g[i - 1], C(i))
    BY <1>4, <2>1, <2>2
  <2> HIDE DEF s
  <2> QED BY <1>4, <2>3
<1>6. v = Body(v)
  <2> HIDE DEF Body
  <2> QED BY <1>5
<1> HIDE DEF v, s
<1>7. v[0] = 0 /\ \A i \in 1..w : v[i] = StepOf(k, v[i - 1], C(i))
  <2>1. \A i \in 0..w : v[i] = IF i = 0 THEN 0 ELSE StepOf(k, v[i - 1], C(i)) BY <1>6
  <2>2. 0 \in 0..w /\ \A i \in 1..w : i \in 0..w /\ i # 0 OBVIOUS
  <2> QED BY <2>1, <2>2
<1>8. \A i \in 0..w : v[i] \in Nat
  <2> DEFINE S == { i \in Nat : i <= w => v[i] \in Nat }
  <2>1. 0 \in S BY <1>7
  <2>2. ASSUME NEW i \in Nat, i \in S PROVE i + 1 \in S
    <3>1. SUFFICES ASSUME i + 1 <= w PROVE v[i + 1] \in Nat
      OBVIOUS
    <3>2. v[i] \in Nat /\ i + 1 \in 1..w /\ (i + 1) - 1 = i BY <2>2, <3>1
    <3>3. v[i + 1] = StepOf(k, v[i], C(i + 1)) BY <1>7, <3>2
    <3> DEFINE a == C(i + 1)
               c == v[i]
    <3>4. a \in Nat /\ c \in Nat BY <1>1, <3>2
    <3> HIDE DEF a, c
    <3>5. StepOf(k, c, a) \in Nat BY <3>4, StepType
    <3> QED BY <3>3, <3>5 DEF a, c
  <2> HIDE DEF S
  <2>3. \A i \in Nat : i \in S BY <2>1, <2>2, Induction
  <2> QED BY <2>3 DEF S
<1>9. v \in [0..w -> Nat]
  <2>1. v = [i \in 0..w |-> v[i]] BY <1>6
  <2> QED BY <1>8, <2>1
<1>10. HornerChain(v, k, m, w) BY <1>7, <1>9 DEF HornerChain, C
<1> QED BY <1>3, <1>10

(* The beginning of a message.                                             *)
LEMMA BeginUnits ==
  ASSUME NEW m, NEW n \in Nat, IsUnits(m, n), NEW o \in 0..n
  PROVE  IsUnits(Begin(m, o), o) /\ \A x \in 1..o : Begin(m, o)[x] = m[x]
<1> DEFINE b == Begin(m, o)
<1>1. IsList(b, o) /\ \A x \in 1..o : b[x] = m[x] BY DEF Begin, IsList
<1>2. \A x \in 1..o : x \in 1..n OBVIOUS
<1> HIDE DEF b
<1>3. \A x \in 1..o : b[x] \in 0..(PolyByteOf - 1) BY <1>1, <1>2 DEF IsUnits
<1> QED BY <1>1, <1>3 DEF IsUnits, b

(* The units of one block.                                                 *)
LEMMA BlockUnits ==
  ASSUME NEW m, NEW n \in Nat, IsUnits(m, n), NEW o \in Nat, o + 4 <= n
  PROVE  IsUnits(Part(m, o, 4), 4) /\ \A j \in 1..4 : Part(m, o, 4)[j] = m[o + j]
<1> DEFINE b == Part(m, o, 4)
<1>1. IsList(b, 4) /\ \A x \in 1..4 : b[x] = m[o + x] BY DEF Part, IsList
<1>2. \A x \in 1..4 : o + x \in 1..n OBVIOUS
<1> HIDE DEF b
<1>3. \A x \in 1..4 : b[x] \in 0..(PolyByteOf - 1) BY <1>1, <1>2 DEF IsUnits
<1> QED BY <1>1, <1>3 DEF IsUnits, b

(* Messages that agree up to the end of a block agree on its coefficient.  *)
LEMMA CoefficientSame ==
  ASSUME Poly!Sizes, NEW a, NEW n \in Nat, IsUnits(a, n), NEW b, NEW m \in Nat, IsUnits(b, m),
         NEW i \in Nat, i > 0, 4 * i <= n, 4 * i <= m, \A x \in 1..(4 * i) : a[x] = b[x]
  PROVE  Poly!Coefficient(a, i) = Poly!Coefficient(b, i)
<1> DEFINE o == 4 * (i - 1)
           c == Part(a, o, 4)
<1>1. o \in Nat /\ o + 4 = 4 * i OBVIOUS
<1>2. o + 4 <= n BY <1>1
<1>3. IsUnits(c, 4) /\ \A j \in 1..4 : c[j] = a[o + j]
  <2> HIDE DEF o
  <2> QED BY <1>1, <1>2, BlockUnits
<1>4. \A j \in 1..4 : o + j \in 1..(4 * i) BY <1>1
<1> HIDE DEF c
<1>5. \A j \in 1..4 : a[4 * (i - 1) + j] = c[j] BY <1>3
<1>6. \A j \in 1..4 : b[4 * (i - 1) + j] = c[j] BY <1>3, <1>4
<1>7. IsList(a, n) /\ IsList(b, m) BY DEF IsUnits
<1> HIDE DEF o
<1>8. Poly!Coefficient(a, i) = BlockValue(c) + Poly!Limb * Poly!Limb * 1
  BY <1>3, <1>5, <1>7, CoefficientWhole
<1>9. Poly!Coefficient(b, i) = BlockValue(c) + Poly!Limb * Poly!Limb * 1
  BY <1>3, <1>6, <1>7, CoefficientWhole
<1> QED BY <1>8, <1>9

(* Nothing absorbed.                                                       *)
LEMMA HornerNone ==
  ASSUME Poly!Sizes, NEW k \in PolyKeys, NEW m, IsList(m, 0)
  PROVE  Poly!Horner(k, m) = 0
<1> DEFINE z == 0
<1>1. z \in Nat /\ Covers(z, z) BY DEF Covers
<1>2. IsUnits(m, z) BY DEF IsUnits
<1>3. \A v : HornerChain(v, k, m, z) => v[z] = z BY DEF HornerChain
<1> HIDE DEF z
<1>4. \E v : HornerChain(v, k, m, z) /\ Poly!Horner(k, m) = v[z] BY <1>1, <1>2, HornerIs
<1>5. Poly!Horner(k, m) = z BY <1>3, <1>4
<1> QED BY <1>5 DEF z

(* The last block takes one step from the value of the others.             *)
LEMMA HornerStep ==
  ASSUME Poly!Sizes, NEW k \in PolyKeys, NEW m, NEW n \in Nat, IsUnits(m, n),
         NEW q \in Nat, NEW o \in 0..n, o = 4 * q, o < n, n <= o + 4
  PROVE  Poly!Horner(k, m) = StepOf(k, Poly!Horner(k, Begin(m, o)), Poly!Coefficient(m, q + 1))
<1> DEFINE w == q + 1
           b == Begin(m, o)
<1>1. w \in Nat /\ Covers(w, n) /\ o \in Nat /\ Covers(q, o) BY DEF Covers
<1>2. IsUnits(b, o) /\ \A x \in 1..o : b[x] = m[x] BY BeginUnits
<1>3. w \in 1..w /\ w - 1 = q /\ \A i \in 1..q : i \in 1..w OBVIOUS
<1> HIDE DEF w, b
<1>4. PICK v : HornerChain(v, k, m, w) /\ Poly!Horner(k, m) = v[w] BY <1>1, HornerIs
<1>5. PICK u : HornerChain(u, k, b, q) /\ Poly!Horner(k, b) = u[q] BY <1>1, <1>2, HornerIs
<1>6. ASSUME NEW i \in 1..q PROVE Poly!Coefficient(m, i) = Poly!Coefficient(b, i)
  <2>1. i \in Nat /\ i > 0 /\ 4 * i <= n /\ 4 * i <= o OBVIOUS
  <2>2. \A x \in 1..(4 * i) : x \in 1..o BY <2>1
  <2>3. \A x \in 1..(4 * i) : m[x] = b[x] BY <1>2, <2>2
  <2> QED BY <1>1, <1>2, <2>1, <2>3, CoefficientSame
<1> DEFINE S == { i \in Nat : i <= q => v[i] = u[i] }
<1>7. 0 \in S BY <1>4, <1>5 DEF HornerChain
<1>8. ASSUME NEW i \in Nat, i \in S PROVE i + 1 \in S
  <2>1. SUFFICES ASSUME i + 1 <= q PROVE v[i + 1] = u[i + 1]
    OBVIOUS
  <2> DEFINE j == i + 1
  <2>2. j \in 1..q /\ j \in 1..w /\ j - 1 = i BY <1>3, <2>1
  <2>3. v[i] = u[i] BY <1>8, <2>1
  <2> HIDE DEF j
  <2>4. v[j] = StepOf(k, v[j - 1], Poly!Coefficient(m, j)) BY <1>4, <2>2 DEF HornerChain
  <2>5. u[j] = StepOf(k, u[j - 1], Poly!Coefficient(b, j)) BY <1>5, <2>2 DEF HornerChain
  <2>6. v[j] = u[j] BY <1>6, <2>2, <2>3, <2>4, <2>5
  <2> QED BY <2>6 DEF j
<1> HIDE DEF S
<1>9. q \in S BY <1>7, <1>8, Induction
<1>10. v[q] = u[q] BY <1>9 DEF S
<1>11. v[w] = StepOf(k, v[w - 1], Poly!Coefficient(m, w)) BY <1>3, <1>4 DEF HornerChain
<1> QED BY <1>3, <1>4, <1>5, <1>10, <1>11 DEF w, b

-----------------------------------------------------------------------------
(* The limbs stand for the polynomial's value over the first o units.      *)
StandsFor(x, g, o) ==
  /\ x \in Limbs(Poly!Limb, 4)
  /\ Value(x, Poly!Limb) % Poly!P = Poly!Horner(s1, Begin(g, o))

(* absorb of the next whole block.                                         *)
LEMMA AbsorbNext ==
  ASSUME Poly!Sizes, s1 \in PolyKeys, NEW g, NEW n \in Nat, IsUnits(g, n),
         NEW q \in Nat, NEW o \in Nat, o = 4 * q, o + 4 <= n,
         NEW x, StandsFor(x, g, o),
         NEW b, IsUnits(b, 4), \A j \in 1..4 : b[j] = g[o + j]
  PROVE  StandsFor(Poly!AbsorbBlock(x, b, 1), g, o + 4)
<1> DEFINE y == Poly!AbsorbBlock(x, b, 1)
           p == 1
           e == o + 4
           m == Begin(g, e)
           w == q + 1
<1>1. e \in 0..n /\ e \in Nat /\ o \in 0..n /\ o \in 0..e /\ o < e /\ e <= o + 4 /\ p \in 0..1
        /\ w \in Nat /\ w > 0 /\ 4 * w = e /\ 4 * (w - 1) = o
  OBVIOUS
<1>2. x \in Limbs(Poly!Limb, 4) BY DEF StandsFor
<1>3. /\ y \in Limbs(Poly!Limb, 4)
      /\ Value(y, Poly!Limb) % Poly!P
           = StepOf(s1, Value(x, Poly!Limb) % Poly!P, BlockValue(b) + Poly!Limb * Poly!Limb * p)
  <2>1. y = Poly!AbsorbBlock(x, b, p) OBVIOUS
  <2> HIDE DEF y, p
  <2> QED BY <1>1, <1>2, <2>1, AbsorbBlockIs
<1> HIDE DEF y
<1>4. IsUnits(m, e) /\ \A j \in 1..e : m[j] = g[j]
  <2> HIDE DEF e
  <2> QED BY <1>1, BeginUnits
<1>5. Begin(m, o) = Begin(g, o)
  <2>1. \A j \in 1..o : j \in 1..e BY <1>1
  <2> HIDE DEF m, e
  <2> QED BY <1>4, <2>1 DEF Begin
<1>6. \A j \in 1..4 : o + j \in 1..e /\ b[j] = g[o + j] OBVIOUS
<1> HIDE DEF m, e, w
<1>7. \A j \in 1..4 : m[4 * (w - 1) + j] = b[j] BY <1>1, <1>4, <1>6
<1>8. Poly!Coefficient(m, w) = BlockValue(b) + Poly!Limb * Poly!Limb * 1
  <2>1. IsList(m, e) /\ 4 * w <= e BY <1>1, <1>4 DEF IsUnits
  <2> QED BY <1>1, <1>7, <2>1, CoefficientWhole
<1>9. Poly!Horner(s1, m) = StepOf(s1, Poly!Horner(s1, Begin(m, o)), Poly!Coefficient(m, q + 1))
  BY <1>1, <1>4, HornerStep
<1>10. Value(y, Poly!Limb) % Poly!P = Poly!Horner(s1, m)
  BY <1>3, <1>5, <1>8, <1>9 DEF StandsFor, w, p
<1> QED BY <1>3, <1>10 DEF StandsFor, y, m, e

(* The blocks of a piece, and the part of it.                              *)
LEMMA SliceOf ==
  ASSUME NEW d, NEW i \in Nat, NEW l \in Nat, NEW j, j = i + l
  PROVE  Poly!Slice(d, i, j) = Part(d, i, l) /\ IsList(Part(d, i, l), l)
BY SubSeqIs DEF Poly!Slice

(* d is the piece of g behind its first o units, k of them.                *)
PieceOf(d, k, g, o) == IsUnits(d, k) /\ \A x \in 1..k : d[x] = g[o + x]

(* absorb in a loop, over the c whole blocks of a piece.                   *)
LEMMA AbsorbAll ==
  ASSUME Poly!Sizes, s1 \in PolyKeys, NEW g, NEW n \in Nat, IsUnits(g, n),
         NEW q \in Nat, NEW o \in Nat, o = 4 * q, NEW k \in Nat, o + k <= n,
         NEW d, PieceOf(d, k, g, o), NEW c \in Nat, 4 * c <= k, k < 4 * c + 4,
         NEW x, StandsFor(x, g, o)
  PROVE  StandsFor(Poly!AbsorbBlocks(x, d), g, o + 4 * c)
<1> DEFINE B(i) == Part(d, 4 * (i - 1), 4)
           A(a, i) == Poly!AbsorbBlock(a, B(i), 1)
           N == Limbs(Poly!Limb, 4)
           s == [e \in (1..c) \X N |-> A(e[2], e[1])]
           Body(f) == [i \in 0..c |-> IF i = 0 THEN x ELSE A(f[i - 1], i)]
           v == CHOOSE f : f = Body(f)
<1>1. IsUnits(d, k) /\ \A y \in 1..k : d[y] = g[o + y] BY DEF PieceOf
<1>2. Len(d) = k BY <1>1, ListIs DEF IsUnits
<1>3. Len(d) \div 4 = c
  <2>1. k - 4 * c \in 0..3 /\ k = 4 * c + (k - 4 * c) OBVIOUS
  <2> QED BY <1>2, <2>1
<1>4. ASSUME NEW i \in 1..c
      PROVE  /\ Poly!Slice(d, 4 * (i - 1), 4 * i) = B(i) /\ IsUnits(B(i), 4)
             /\ \A j \in 1..4 : B(i)[j] = g[o + 4 * (i - 1) + j]
  <2> DEFINE a == 4 * (i - 1)
             z == 4 * i
             four == 4
             b == B(i)
  <2>1. a \in Nat /\ four \in Nat /\ z = a + four /\ a + 4 <= k OBVIOUS
  <2>2. b = Part(d, a, 4) OBVIOUS
  <2> HIDE DEF a, z, four, b
  <2>3. Poly!Slice(d, a, z) = Part(d, a, four) BY <2>1, SliceOf
  <2>4. IsUnits(b, 4) /\ \A j \in 1..4 : b[j] = d[a + j] BY <1>1, <2>1, <2>2, BlockUnits
  <2>5. \A j \in 1..4 : a + j \in 1..k /\ o + (a + j) = o + a + j BY <2>1
  <2>6. \A j \in 1..4 : b[j] = g[o + a + j] BY <1>1, <2>4, <2>5
  <2> QED BY <2>2, <2>3, <2>4, <2>6 DEF a, z, four, b
<1>5. Poly!AbsorbBlocks(x, d) = v[c]
  <2>1. Poly!AbsorbBlocks(x, d) =
          (CHOOSE f : f = [i \in 0..(Len(d) \div 4) |->
                             IF i = 0 THEN x
                             ELSE Poly!AbsorbBlock(f[i - 1], Poly!Slice(d, 4 * (i - 1), 4 * i), 1)])
            [Len(d) \div 4]
    BY Zenon DEF Poly!AbsorbBlocks, Poly!Block
  <2> DEFINE F(f, i) == IF i = 0 THEN x
                        ELSE Poly!AbsorbBlock(f[i - 1], Poly!Slice(d, 4 * (i - 1), 4 * i), 1)
             G(f, i) == IF i = 0 THEN x ELSE A(f[i - 1], i)
  <2>2. ASSUME NEW f PROVE [i \in 0..c |-> F(f, i)] = [i \in 0..c |-> G(f, i)]
    <3>1. ASSUME NEW i \in 0..c PROVE F(f, i) = G(f, i)
      <4>1. CASE i = 0 BY <4>1
      <4>2. CASE i # 0
        <5>1. i \in 1..c BY <4>2
        <5>2. Poly!Slice(d, 4 * (i - 1), 4 * i) = B(i) BY <1>4, <5>1
        <5> HIDE DEF B
        <5> QED BY <4>2, <5>2
      <4> QED BY <4>1, <4>2
    <3> HIDE DEF F, G
    <3> QED BY <3>1
  <2>3. v[c] = (CHOOSE f : f = [i \in 0..c |-> F(f, i)])[c]
    <3> HIDE DEF A, B, F
    <3> QED BY <2>2
  <2> HIDE DEF A, B, v
  <2> QED BY <1>3, <2>1, <2>3
<1> HIDE DEF B
<1>6. ASSUME NEW i \in 1..c, NEW a \in N PROVE A(a, i) \in N
  <2> DEFINE b == B(i)
             p == 1
  <2>1. IsUnits(b, 4) /\ p \in 0..1 BY <1>4
  <2>2. A(a, i) = Poly!AbsorbBlock(a, b, p) OBVIOUS
  <2>3. a \in Limbs(Poly!Limb, 4) OBVIOUS
  <2> HIDE DEF b, p, A
  <2>4. Poly!AbsorbBlock(a, b, p) \in Limbs(Poly!Limb, 4) BY <2>1, <2>3, AbsorbBlockIs
  <2> QED BY <2>2, <2>4
<1>7. x \in N BY DEF StandsFor
<1> HIDE DEF A, N
<1>8. PICK h \in [0..c -> N] : h[0] = x /\ \A i \in 1..c : h[i] = s[<<i, h[i - 1]>>]
  <2>1. ASSUME NEW i \in 1..c, NEW a \in N PROVE s[<<i, a>>] \in N
    <3>1. s[<<i, a>>] = A(a, i) OBVIOUS
    <3> HIDE DEF s
    <3> QED BY <1>6, <3>1
  <2> HIDE DEF s, Body, v
  <2>2. StaysIn(s, c, N) BY <2>1 DEF StaysIn
  <2>3. \E h : Solves(h, x, c, s, N) BY <1>7, <2>2, Recursion
  <2> QED BY <2>3 DEF Solves
<1>9. h = Body(h)
  <2>1. ASSUME NEW i \in 1..c PROVE h[i] = A(h[i - 1], i)
    <3>1. h[i - 1] \in N BY <1>8
    <3>2. s[<<i, h[i - 1]>>] = A(h[i - 1], i) BY <3>1
    <3> HIDE DEF s
    <3> QED BY <1>8, <3>2
  <2>2. \A i \in 0..c : i # 0 => i \in 1..c OBVIOUS
  <2>3. \A i \in 0..c : h[i] = IF i = 0 THEN x ELSE A(h[i - 1], i) BY <1>8, <2>1, <2>2
  <2> HIDE DEF s
  <2> QED BY <1>8, <2>3
<1>10. v = Body(v)
  <2> HIDE DEF Body
  <2> QED BY <1>9
<1> HIDE DEF v, s
<1>11. v[0] = x /\ \A i \in 1..c : v[i] = A(v[i - 1], i)
  <2>1. \A i \in 0..c : v[i] = IF i = 0 THEN x ELSE A(v[i - 1], i) BY <1>10
  <2>2. 0 \in 0..c /\ \A i \in 1..c : i \in 0..c /\ i # 0 OBVIOUS
  <2> QED BY <2>1, <2>2
<1> DEFINE S == { i \in Nat : i <= c => StandsFor(v[i], g, o + 4 * i) }
<1>12. 0 \in S
  <2>1. o + 4 * 0 = o OBVIOUS
  <2> QED BY <1>11, <2>1
<1>13. ASSUME NEW i \in Nat, i \in S PROVE i + 1 \in S
  <2>1. SUFFICES ASSUME i + 1 <= c PROVE StandsFor(v[i + 1], g, o + 4 * (i + 1))
    OBVIOUS
  <2> DEFINE j == i + 1
             O == o + 4 * i
             Q == q + i
             b == B(j)
             y == v[i]
  <2>2. j \in 1..c /\ j - 1 = i /\ o + 4 * (j - 1) = O /\ O + 4 = o + 4 * j BY <2>1
  <2>3. O \in Nat /\ Q \in Nat /\ O = 4 * Q OBVIOUS
  <2>4. O + 4 <= n BY <2>1
  <2>5. StandsFor(y, g, O) BY <1>13, <2>1
  <2> HIDE DEF j, O, Q, y
  <2>6. IsUnits(b, 4) /\ \A z \in 1..4 : b[z] = g[O + z]
    <3>1. IsUnits(B(j), 4) /\ \A z \in 1..4 : B(j)[z] = g[o + 4 * (j - 1) + z] BY <1>4, <2>2
    <3> QED BY <2>2, <3>1
  <2>7. v[j] = Poly!AbsorbBlock(y, b, 1) BY <1>11, <2>2 DEF A, y
  <2> HIDE DEF b
  <2>8. StandsFor(Poly!AbsorbBlock(y, b, 1), g, O + 4) BY <2>3, <2>4, <2>5, <2>6, AbsorbNext
  <2>9. StandsFor(v[j], g, o + 4 * j) BY <2>2, <2>7, <2>8
  <2> QED BY <2>9 DEF j
<1> HIDE DEF S
<1>14. c \in S BY <1>12, <1>13, Induction
<1>15. StandsFor(v[c], g, o + 4 * c) BY <1>14 DEF S
<1> QED BY <1>5, <1>15

(* Where a slice of l units lies: from a to j of k, from z on when the     *)
(* whole begins at o.                                                      *)
Cut(a, l, k, j, o, z) == a \in Nat /\ l \in Nat /\ a + l <= k /\ j = a + l /\ z = o + a

(* A slice of a piece is a piece.                                          *)
LEMMA SlicePiece ==
  ASSUME NEW d, NEW k \in Nat, NEW g, NEW o \in Nat, PieceOf(d, k, g, o),
         NEW a, NEW l, NEW j, NEW z, Cut(a, l, k, j, o, z)
  PROVE  PieceOf(Poly!Slice(d, a, j), l, g, z) /\ Len(Poly!Slice(d, a, j)) = l
<1>0. Poly!Slice(d, a, j) = Part(d, a, l) /\ IsList(Part(d, a, l), l)
  <2>1. a \in Nat /\ l \in Nat /\ j = a + l BY DEF Cut
  <2> QED BY ONLY <2>1, SliceOf
<1> DEFINE e == Poly!Slice(d, a, j)
<1>1. e = Part(d, a, l) /\ IsList(e, l) BY <1>0
<1>2. \A x \in 1..l : e[x] = d[a + x] BY <1>1 DEF Part
<1> HIDE DEF e
<1>3. \A x \in 1..l : a + x \in 1..k /\ o + (a + x) = z + x BY DEF Cut
<1>4. (\A y \in 1..k : d[y] \in 0..(PolyByteOf - 1)) /\ \A y \in 1..k : d[y] = g[o + y]
  BY DEF PieceOf, IsUnits
<1>5. \A x \in 1..l : e[x] \in 0..(PolyByteOf - 1) /\ e[x] = g[z + x] BY <1>2, <1>3, <1>4
<1>6. Len(e) = l BY <1>1, ListIs DEF Cut
<1> QED BY <1>1, <1>5, <1>6 DEF PieceOf, IsUnits, e

(* Units copied into a block behind its first k.                           *)
Copies(b, k, e, t)      == k \in Nat /\ t \in Nat /\ k + t <= 4 /\ IsUnits(b, 4) /\ IsUnits(e, t)
CopiedAs(f, b, k, e, t) == /\ IsUnits(f, 4)
                           /\ \A x \in 1..4 : f[x] = IF x - k \in 1..t THEN e[x - k] ELSE b[x]
                           /\ t = 0 => f = b

(* Copying keeps units, and none copied changes nothing.                   *)
LEMMA CopyUnits ==
  ASSUME NEW b, NEW k, NEW e, NEW t, Copies(b, k, e, t)
  PROVE  CopiedAs(Poly!CopyInto(b, k, e), b, k, e, t)
<1>0. k \in Nat /\ t \in Nat /\ k + t <= 4 /\ IsUnits(b, 4) /\ IsUnits(e, t) BY DEF Copies
<1> DEFINE f == Poly!CopyInto(b, k, e)
<1>1. Len(e) = t BY <1>0, ListIs DEF IsUnits
<1>2. f = [x \in 1..4 |-> IF x - k \in 1..t THEN e[x - k] ELSE b[x]]
  BY <1>1 DEF Poly!CopyInto, Poly!Block
<1> HIDE DEF f
<1>3. IsList(f, 4) /\ \A x \in 1..4 : f[x] = IF x - k \in 1..t THEN e[x - k] ELSE b[x]
  BY <1>2 DEF IsList
<1>4. \A x \in 1..4 : f[x] \in 0..(PolyByteOf - 1)
  <2>1. /\ \A x \in 1..4 : b[x] \in 0..(PolyByteOf - 1)
        /\ \A x \in 1..t : e[x] \in 0..(PolyByteOf - 1)
    BY <1>0 DEF IsUnits
  <2> QED BY <1>0, <1>3, <2>1
<1>5. t = 0 => f = b
  <2>1. SUFFICES ASSUME t = 0 PROVE f = b
    OBVIOUS
  <2>2. \A x \in 1..4 : f[x] = b[x] BY <1>3, <2>1
  <2> QED BY <1>0, <1>3, <2>2 DEF IsUnits, IsList
<1> QED BY <1>3, <1>4, <1>5 DEF CopiedAs, IsUnits, f

(* n units of g taken in: whole blocks by the limbs, k more in the buffer. *)
PolyHeld(x, b, k, g, n, q) ==
  /\ q \in Nat /\ k \in 0..3 /\ n = 4 * q + k
  /\ StandsFor(x, g, 4 * q)
  /\ IsUnits(b, 4) /\ \A i \in 1..k : b[i] = g[4 * q + i]

(* From a block's end on: the whole blocks of the rest, then its tail.     *)
RestTaken(x, b, rest) ==
  LET left == Poly!Slice(rest, (Len(rest) \div 4) * 4, Len(rest))
  IN  [x |-> Poly!AbsorbBlocks(x, rest), b |-> Poly!CopyInto(b, 0, left), left |-> left]

(* The limbs x hold the first o of g's w units, and rest the l behind.     *)
RestBehind(x, b, rest, g, w, q, o, l) ==
  /\ w \in Nat /\ q \in Nat /\ o \in Nat /\ o = 4 * q /\ l \in Nat /\ o + l = w
  /\ IsUnits(g, w) /\ StandsFor(x, g, o) /\ IsUnits(b, 4) /\ PieceOf(rest, l, g, o)

RestEnds(A, g, w) ==
  (\E c : PolyHeld(A.x, A.b, Len(A.left), g, w, c)) /\ (A.left = <<>> <=> Len(A.left) = 0)

(* What RestTaken leaves holds the whole of g.                             *)
LEMMA RestHeld ==
  ASSUME Poly!Sizes, s1 \in PolyKeys, NEW x, NEW b, NEW rest, NEW g, NEW w, NEW q, NEW o, NEW l,
         RestBehind(x, b, rest, g, w, q, o, l)
  PROVE  RestEnds(RestTaken(x, b, rest), g, w)
<1>0. /\ w \in Nat /\ q \in Nat /\ o \in Nat /\ o = 4 * q /\ l \in Nat /\ o + l = w
      /\ IsUnits(g, w) /\ StandsFor(x, g, o) /\ IsUnits(b, 4) /\ PieceOf(rest, l, g, o)
  BY DEF RestBehind
<1> DEFINE c == l \div 4
           r == l % 4
           a == 4 * c
           z == o + a
           left == Poly!Slice(rest, (Len(rest) \div 4) * 4, Len(rest))
           y == Poly!AbsorbBlocks(x, rest)
           f == Poly!CopyInto(b, 0, left)
<1>1. c \in Nat /\ r \in Nat /\ r \in 0..3 /\ l = a + r /\ a \in Nat /\ c * 4 = a
  BY <1>0
<1>2. Len(rest) = l BY <1>0, ListIs DEF PieceOf, IsUnits
<1>3. RestTaken(x, b, rest) = [x |-> y, b |-> f, left |-> left] BY DEF RestTaken
<1>4. left = Poly!Slice(rest, a, l) BY <1>1, <1>2
<1> HIDE DEF left
<1>5. z \in Nat /\ z = 4 * (q + c) BY <1>0, <1>1
<1>6. PieceOf(left, r, g, z) /\ Len(left) = r
  <2>1. l \in Nat /\ o \in Nat /\ Cut(a, r, l, l, o, z) BY <1>0, <1>1 DEF Cut
  <2> HIDE DEF a, c, r, z
  <2>2. PieceOf(Poly!Slice(rest, a, l), r, g, z) /\ Len(Poly!Slice(rest, a, l)) = r
    <3>1. PieceOf(rest, l, g, o) BY <1>0
    <3> QED BY ONLY <2>1, <3>1, SlicePiece
  <2> QED BY <1>4, <2>2
<1>7. StandsFor(y, g, z)
  <2>1. o + l <= w /\ 4 * c <= l /\ l < 4 * c + 4 BY <1>0, <1>1
  <2> HIDE DEF c, y
  <2> QED BY <1>0, <1>1, <2>1, AbsorbAll DEF y
<1>8. IsUnits(f, 4) /\ \A i \in 1..r : f[i] = g[z + i]
  <2> DEFINE k == 0
  <2>1. k \in Nat /\ k + r <= 4 /\ IsUnits(left, r) BY <1>1, <1>6 DEF PieceOf
  <2>2. f = Poly!CopyInto(b, k, left) OBVIOUS
  <2> HIDE DEF k, f, r
  <2>3. CopiedAs(f, b, k, left, r)
    <3>1. Copies(b, k, left, r) BY <1>0, <1>1, <2>1 DEF Copies
    <3> QED BY <2>2, <3>1, CopyUnits
  <2>4. \A i \in 1..r : i \in 1..4 /\ i - k \in 1..r /\ i - k = i BY <1>1 DEF k
  <2>5. \A i \in 1..r : left[i] = g[z + i] BY <1>6 DEF PieceOf
  <2> HIDE DEF z
  <2> QED BY <2>3, <2>4, <2>5 DEF CopiedAs
<1> DEFINE v == q + c
<1>9. v \in Nat /\ w = 4 * v + r /\ 4 * v = z BY <1>0, <1>1, <1>5
<1> HIDE DEF v, z, r, c, y, f
<1>10. PolyHeld(y, f, r, g, w, v) BY <1>1, <1>7, <1>8, <1>9 DEF PolyHeld
<1>11. left = <<>> <=> r = 0
  <2>1. PICK S : left \in Seq(S) BY <1>1, <1>6, ListIs DEF PieceOf, IsUnits
  <2> QED BY <1>6, <2>1
<1> QED BY <1>3, <1>6, <1>10, <1>11 DEF RestEnds

-----------------------------------------------------------------------------
(* update's top-up: what it takes of the piece, and what is left to it.    *)
PolyTake(d)   == IF s7 > 0 THEN Poly!Min2(4 - s7, Len(d)) ELSE 0
PolyFilled(d) == Poly!CopyInto(s6, s7, Poly!Slice(d, 0, PolyTake(d)))
PolyFull(d)   == s7 > 0 /\ s7 + PolyTake(d) = 4
PolyRest(d)   == Poly!Slice(d, PolyTake(d), Len(d))
PolyTopped(d) == IF PolyFull(d) THEN Poly!AbsorbBlock(s5, PolyFilled(d), 1) ELSE s5
PolyAfter(d)  == RestTaken(PolyTopped(d), PolyFilled(d), PolyRest(d))

(* update is the top-up followed by RestTaken.                             *)
LEMMA PolyUpdateIs ==
  ASSUME NEW d, Poly!Update(d)
  PROVE  /\ s5' = PolyAfter(d).x /\ s6' = PolyAfter(d).b
         /\ s7' = CASE PolyAfter(d).left # <<>> -> Len(PolyAfter(d).left)
                    [] PolyAfter(d).left = <<>> /\ PolyFull(d) -> 0
                    [] PolyAfter(d).left = <<>> /\ ~ PolyFull(d) -> s7 + PolyTake(d)
<1> DEFINE left == Poly!Slice(PolyRest(d), (Len(PolyRest(d)) \div 4) * 4, Len(PolyRest(d)))
<1>1. /\ s5' = Poly!AbsorbBlocks(PolyTopped(d), PolyRest(d))
      /\ s6' = Poly!CopyInto(PolyFilled(d), 0, left)
      /\ s7' = CASE left # <<>> -> Len(left)
                 [] left = <<>> /\ PolyFull(d) -> 0
                 [] left = <<>> /\ ~ PolyFull(d) -> s7 + PolyTake(d)
  BY Zenon DEF Poly!Update, Poly!Block, PolyTake, PolyFilled, PolyFull, PolyRest, PolyTopped
<1>2. /\ PolyAfter(d).x = Poly!AbsorbBlocks(PolyTopped(d), PolyRest(d))
      /\ PolyAfter(d).b = Poly!CopyInto(PolyFilled(d), 0, left) /\ PolyAfter(d).left = left
  BY DEF PolyAfter, RestTaken
<1> QED BY <1>1, <1>2

(* A piece is taken in behind the n units before it.                       *)
Behind(d, m, g, n, w) == /\ n \in Nat /\ m \in Nat /\ w \in Nat /\ w = n + m
                         /\ IsUnits(g, w) /\ PieceOf(d, m, g, n)

(* No block was begun.                                                     *)
LEMMA PolyFromEdge ==
  ASSUME Poly!Sizes, s1 \in PolyKeys, NEW d, NEW m, NEW g, NEW n, NEW w, Behind(d, m, g, n, w),
         NEW q, PolyHeld(s5, s6, s7, g, n, q), Poly!Update(d), s7 = 0
  PROVE  \E c : PolyHeld(s5', s6', s7', g, w, c)
<1>1. /\ n \in Nat /\ m \in Nat /\ w \in Nat /\ w = n + m /\ IsUnits(g, w) /\ PieceOf(d, m, g, n)
      /\ q \in Nat /\ n = 4 * q /\ StandsFor(s5, g, n) /\ IsUnits(s6, 4)
  BY DEF Behind, PolyHeld
<1>2. Len(d) = m BY <1>1, ListIs DEF PieceOf, IsUnits
<1>3. PolyTake(d) = 0 /\ ~ PolyFull(d) BY DEF PolyTake, PolyFull
<1> DEFINE z == 0
           e == Poly!Slice(d, z, z)
           rest == PolyRest(d)
<1>4. rest = Poly!Slice(d, z, m) BY <1>2, <1>3 DEF PolyRest
<1>5. PolyFilled(d) = Poly!CopyInto(s6, z, e) BY <1>3 DEF PolyFilled
<1>6. z \in Nat /\ z + z <= 4 /\ Cut(z, z, m, z, n, n) /\ Cut(z, m, m, m, n, n) /\ z = 0
  BY <1>1 DEF Cut
<1> HIDE DEF z, rest
<1>7. PieceOf(e, z, g, n) BY <1>1, <1>6, SlicePiece
<1>8. PieceOf(rest, m, g, n) BY <1>1, <1>4, <1>6, SlicePiece
<1> HIDE DEF e
<1>9. PolyFilled(d) = s6
  <2>1. Copies(s6, z, e, z) BY <1>1, <1>6, <1>7 DEF Copies, PieceOf
  <2>2. CopiedAs(PolyFilled(d), s6, z, e, z) BY <1>5, <2>1, CopyUnits
  <2> QED BY <1>6, <2>2 DEF CopiedAs
<1>10. PolyTopped(d) = s5 BY <1>3 DEF PolyTopped
<1>11. PolyAfter(d) = RestTaken(s5, s6, rest) BY <1>9, <1>10 DEF PolyAfter, rest
<1> DEFINE A == RestTaken(s5, s6, rest)
<1>12. RestEnds(A, g, w)
  <2>1. RestBehind(s5, s6, rest, g, w, q, n, m) BY <1>1, <1>8 DEF RestBehind
  <2> QED BY <2>1, RestHeld
<1> HIDE DEF A
<1>13. s5' = A.x /\ s6' = A.b /\ s7' = Len(A.left)
  <2>1. /\ s5' = A.x /\ s6' = A.b
        /\ s7' = CASE A.left # <<>> -> Len(A.left)
                   [] A.left = <<>> /\ PolyFull(d) -> 0
                   [] A.left = <<>> /\ ~ PolyFull(d) -> s7 + PolyTake(d)
    BY <1>11, PolyUpdateIs DEF A
  <2>2. CASE A.left # <<>> BY <2>1, <2>2
  <2>3. CASE A.left = <<>>
    <3>1. s7' = s7 + PolyTake(d) BY <1>3, <2>1, <2>3
    <3> QED BY <1>3, <1>12, <2>1, <2>3, <3>1 DEF RestEnds
  <2> QED BY <2>2, <2>3
<1> QED BY <1>12, <1>13 DEF RestEnds

(* The begun block is not filled.                                          *)
LEMMA PolyShort ==
  ASSUME Poly!Sizes, s1 \in PolyKeys, NEW d, NEW m, NEW g, NEW n, NEW w, Behind(d, m, g, n, w),
         NEW q, PolyHeld(s5, s6, s7, g, n, q), Poly!Update(d), s7 > 0, s7 + m < 4
  PROVE  \E c : PolyHeld(s5', s6', s7', g, w, c)
<1> DEFINE o == 4 * q
           k == s7
           z == 0
           e == Poly!Slice(d, z, m)
           f == PolyFilled(d)
           rest == PolyRest(d)
           left == Poly!Slice(rest, (Len(rest) \div 4) * 4, Len(rest))
<1>1. /\ n \in Nat /\ m \in Nat /\ w \in Nat /\ w = n + m /\ IsUnits(g, w) /\ PieceOf(d, m, g, n)
      /\ q \in Nat /\ k \in Nat /\ n = o + k /\ o \in Nat
      /\ StandsFor(s5, g, o) /\ IsUnits(s6, 4) /\ \A i \in 1..k : s6[i] = g[o + i]
  BY DEF Behind, PolyHeld
<1>2. Len(d) = m BY <1>1, ListIs DEF PieceOf, IsUnits
<1>3. PolyTake(d) = m /\ ~ PolyFull(d) BY <1>1, <1>2 DEF PolyTake, PolyFull, Poly!Min2
<1>4. rest = Poly!Slice(d, m, m) /\ f = Poly!CopyInto(s6, k, e)
  BY <1>2, <1>3 DEF PolyRest, PolyFilled
<1>5. z \in Nat /\ Cut(z, m, m, m, n, n) /\ Cut(m, z, m, m, n, w) /\ z + z <= 4
  BY <1>1 DEF Cut
<1> HIDE DEF rest, f
<1>6. PieceOf(e, m, g, n)
  <2> HIDE DEF z
  <2> QED BY <1>1, <1>5, SlicePiece
<1>7. PieceOf(rest, z, g, w) /\ Len(rest) = z
  <2> HIDE DEF z
  <2> QED BY <1>1, <1>4, <1>5, SlicePiece
<1>8. (Len(rest) \div 4) * 4 = z BY <1>7
<1>9. left = Poly!Slice(rest, z, z) BY <1>7, <1>8
<1>10. PieceOf(left, z, g, w) /\ Len(left) = z
  <2>1. Cut(z, z, z, z, w, w) BY <1>1 DEF Cut
  <2> HIDE DEF z, left
  <2> QED BY <1>1, <1>5, <1>7, <1>9, <2>1, SlicePiece
<1> HIDE DEF e, left
<1>11. left = <<>>
  <2>1. PICK S : left \in Seq(S) BY <1>5, <1>10, ListIs DEF PieceOf, IsUnits
  <2> QED BY <1>10, <2>1
<1>12. /\ IsUnits(f, 4)
       /\ \A x \in 1..4 : f[x] = IF x - k \in 1..m THEN e[x - k] ELSE s6[x]
  <2>1. Copies(s6, k, e, m) BY <1>1, <1>6 DEF Copies, PieceOf
  <2> HIDE DEF k
  <2> QED BY <1>4, <2>1, CopyUnits DEF CopiedAs
<1>13. Poly!CopyInto(f, 0, left) = f
  <2>1. Copies(f, z, left, z) BY <1>5, <1>10, <1>12 DEF Copies, PieceOf
  <2>2. z = 0 OBVIOUS
  <2> HIDE DEF z
  <2>3. Poly!CopyInto(f, z, left) = f BY <2>1, <2>2, CopyUnits DEF CopiedAs
  <2> QED BY <2>2, <2>3
<1> DEFINE y == Poly!AbsorbBlocks(s5, rest)
<1>14. StandsFor(y, g, o)
  <2>1. PieceOf(rest, z, g, o) BY <1>7 DEF PieceOf
  <2>2. z \in Nat /\ o + z <= w /\ 4 * z <= z /\ z < 4 * z + 4 /\ o + 4 * z = o /\ o = 4 * q
    BY <1>1
  <2> HIDE DEF z, o, y
  <2>3. StandsFor(Poly!AbsorbBlocks(s5, rest), g, o + 4 * z)
    BY <1>1, <2>1, <2>2, AbsorbAll
  <2> QED BY <2>2, <2>3 DEF y
<1>15. s5' = y /\ s6' = f /\ s7' = k + m
  <2>1. PolyTopped(d) = s5 BY <1>3 DEF PolyTopped
  <2>2. PolyAfter(d).x = y /\ PolyAfter(d).b = f /\ PolyAfter(d).left = left
    BY <1>13, <2>1 DEF PolyAfter, RestTaken, rest, f, left
  <2> HIDE DEF y
  <2> QED BY <1>3, <1>11, <2>2, PolyUpdateIs
<1>16. ASSUME NEW i \in 1..(k + m) PROVE f[i] = g[o + i]
  <2>1. i \in 1..4 BY <1>1
  <2>2. CASE i <= k
    <3>1. i \in 1..k /\ ~(i - k \in 1..m) BY <1>1, <2>2
    <3> HIDE DEF k
    <3> QED BY <1>1, <1>12, <2>1, <3>1
  <2>3. CASE ~(i <= k)
    <3>1. i - k \in 1..m /\ n + (i - k) = o + i BY <1>1, <2>3
    <3>2. e[i - k] = g[n + (i - k)] BY <1>6, <3>1 DEF PieceOf
    <3> HIDE DEF k
    <3> QED BY <1>12, <2>1, <3>1, <3>2
  <2> QED BY <2>2, <2>3
<1>17. k + m \in 0..3 /\ w = o + (k + m) BY <1>1
<1> HIDE DEF y
<1>18. PolyHeld(s5', s6', s7', g, w, q) BY <1>1, <1>12, <1>14, <1>15, <1>16, <1>17 DEF PolyHeld
<1> QED BY <1>18

(* It is filled and absorbed first.                                        *)
LEMMA PolyOver ==
  ASSUME Poly!Sizes, s1 \in PolyKeys, NEW d, NEW m, NEW g, NEW n, NEW w, Behind(d, m, g, n, w),
         NEW q, PolyHeld(s5, s6, s7, g, n, q), Poly!Update(d), s7 > 0, s7 + m >= 4
  PROVE  \E c : PolyHeld(s5', s6', s7', g, w, c)
<1> DEFINE o == 4 * q
           k == s7
           z == 0
           t == 4 - k
           l == m - t
           p == o + 4
           v == q + 1
           e == Poly!Slice(d, z, t)
           f == PolyFilled(d)
           rest == PolyRest(d)
<1>1. /\ n \in Nat /\ m \in Nat /\ w \in Nat /\ w = n + m /\ IsUnits(g, w) /\ PieceOf(d, m, g, n)
      /\ q \in Nat /\ k \in 0..3 /\ n = o + k /\ o \in Nat
      /\ StandsFor(s5, g, o) /\ IsUnits(s6, 4) /\ \A i \in 1..k : s6[i] = g[o + i]
  BY DEF Behind, PolyHeld
<1>2. Len(d) = m BY <1>1, ListIs DEF PieceOf, IsUnits
<1>3. PolyTake(d) = t /\ PolyFull(d) BY <1>1, <1>2 DEF PolyTake, PolyFull, Poly!Min2
<1>4. rest = Poly!Slice(d, t, m) /\ f = Poly!CopyInto(s6, k, e)
  BY <1>2, <1>3 DEF PolyRest, PolyFilled
<1>5. /\ t \in Nat /\ k + t <= 4 /\ k \in Nat
      /\ Cut(z, t, m, t, n, n) /\ Cut(t, l, m, m, n, p)
  BY <1>1 DEF Cut
<1>6. l \in Nat /\ p \in Nat /\ v \in Nat /\ p = 4 * v /\ p + l = w /\ p <= w BY <1>1
<1> HIDE DEF rest, f
<1>7. PieceOf(e, t, g, n)
  <2> HIDE DEF z, t, l, p, v
  <2> QED BY <1>1, <1>5, SlicePiece
<1>8. PieceOf(rest, l, g, p)
  <2> HIDE DEF z, t, l, p, v
  <2> QED BY <1>1, <1>4, <1>5, SlicePiece
<1> HIDE DEF e
<1>9. /\ IsUnits(f, 4)
      /\ \A x \in 1..4 : f[x] = IF x - k \in 1..t THEN e[x - k] ELSE s6[x]
  <2>1. Copies(s6, k, e, t) BY <1>1, <1>5, <1>7 DEF Copies, PieceOf
  <2> HIDE DEF k, t
  <2> QED BY <1>4, <2>1, CopyUnits DEF CopiedAs
<1>10. ASSUME NEW i \in 1..4 PROVE f[i] = g[o + i]
  <2>1. CASE i <= k
    <3>1. i \in 1..k /\ ~(i - k \in 1..t) BY <1>1, <2>1
    <3> HIDE DEF k, t
    <3> QED BY <1>1, <1>9, <3>1
  <2>2. CASE ~(i <= k)
    <3>1. i - k \in 1..t /\ n + (i - k) = o + i BY <1>1, <2>2
    <3>2. e[i - k] = g[n + (i - k)] BY <1>7, <3>1 DEF PieceOf
    <3> HIDE DEF k, t
    <3> QED BY <1>9, <3>1, <3>2
  <2> QED BY <2>1, <2>2
<1> DEFINE y == Poly!AbsorbBlock(s5, f, 1)
<1>11. StandsFor(y, g, p)
  <2>1. o + 4 <= w /\ o = 4 * q BY <1>6
  <2> HIDE DEF o, y
  <2>2. StandsFor(Poly!AbsorbBlock(s5, f, 1), g, o + 4) BY <1>1, <1>9, <1>10, <2>1, AbsorbNext
  <2> QED BY <2>2 DEF y
<1>12. PolyTopped(d) = y BY <1>3 DEF PolyTopped, f
<1>13. PolyAfter(d) = RestTaken(y, f, rest) BY <1>12 DEF PolyAfter, rest, f
<1> HIDE DEF y
<1> DEFINE A == RestTaken(y, f, rest)
<1>14. RestEnds(A, g, w)
  <2> HIDE DEF t, l, p, v
  <2>1. RestBehind(y, f, rest, g, w, v, p, l) BY <1>1, <1>6, <1>8, <1>9, <1>11 DEF RestBehind
  <2> QED BY <2>1, RestHeld
<1> HIDE DEF A
<1>15. s5' = A.x /\ s6' = A.b /\ s7' = Len(A.left)
  <2>1. /\ s5' = A.x /\ s6' = A.b
        /\ s7' = CASE A.left # <<>> -> Len(A.left)
                   [] A.left = <<>> /\ PolyFull(d) -> 0
                   [] A.left = <<>> /\ ~ PolyFull(d) -> s7 + PolyTake(d)
    BY <1>13, PolyUpdateIs DEF A
  <2>2. CASE A.left # <<>> BY <2>1, <2>2
  <2>3. CASE A.left = <<>>
    <3>1. s7' = 0 BY <1>3, <2>1, <2>3
    <3> QED BY <1>14, <2>1, <2>3, <3>1 DEF RestEnds
  <2> QED BY <2>2, <2>3
<1> QED BY <1>14, <1>15 DEF RestEnds

(* update.                                                                 *)
LEMMA PolyTakes ==
  ASSUME Poly!Sizes, s1 \in PolyKeys, NEW d, NEW m, NEW g, NEW n, NEW w, Behind(d, m, g, n, w),
         NEW q, PolyHeld(s5, s6, s7, g, n, q), Poly!Update(d)
  PROVE  \E c : PolyHeld(s5', s6', s7', g, w, c)
<1>1. s7 \in 0..3 /\ m \in Nat BY DEF PolyHeld, Behind
<1>2. CASE s7 = 0 BY <1>2, PolyFromEdge
<1>3. CASE s7 > 0 /\ s7 + m < 4 BY <1>3, PolyShort
<1>4. CASE s7 > 0 /\ s7 + m >= 4 BY <1>4, PolyOver
<1> QED BY <1>1, <1>2, <1>3, <1>4

-----------------------------------------------------------------------------
(* The last block, a part of one, and its 1.                               *)
LEMMA PolyFinalIs ==
  ASSUME Poly!Sizes, s1 \in PolyKeys, NEW g, NEW n \in Nat, IsUnits(g, n),
         NEW q, PolyHeld(s5, s6, s7, g, n, q)
  PROVE  /\ Poly!Final \in Limbs(Poly!Limb, 4)
         /\ Value(Poly!Final, Poly!Limb) % Poly!P = Poly!Horner(s1, g)
<1> DEFINE o == 4 * q
           k == s7
<1>1. /\ q \in Nat /\ k \in 0..3 /\ n = o + k /\ StandsFor(s5, g, o)
      /\ IsUnits(s6, 4) /\ \A i \in 1..k : s6[i] = g[o + i] /\ o \in Nat
  BY DEF PolyHeld
<1>2. CASE k = 0
  <2>1. Poly!Final = s5 BY <1>2 DEF Poly!Final
  <2>2. Begin(g, o) = g
    <3>1. o = n BY <1>1, <1>2
    <3> QED BY <3>1 DEF Begin, IsUnits, IsList
  <2> QED BY <1>1, <2>1, <2>2 DEF StandsFor
<1>3. CASE k # 0
  <2> DEFINE b == Poly!LastBlock
             p == 0
             w == q + 1
             y == Poly!AbsorbBlock(s5, b, p)
             x == s5
  <2>1. k \in 1..3 /\ k > 0 BY <1>1, <1>3
  <2>2. Poly!Final = y BY <2>1 DEF Poly!Final
  <2>3. b = [i \in 1..4 |-> CASE i <= k -> s6[i] [] i = k + 1 -> 1 [] i > k + 1 -> 0]
    BY Zenon DEF Poly!LastBlock, Poly!Block
  <2>4. IsList(b, 4) /\ \A i \in 1..4 : b[i] = IF i <= k THEN g[o + i] ELSE IF i = k + 1 THEN 1 ELSE 0
    <3> HIDE DEF b
    <3>1. ASSUME NEW i \in 1..4
          PROVE  b[i] = IF i <= k THEN g[o + i] ELSE IF i = k + 1 THEN 1 ELSE 0
      <4>1. b[i] = CASE i <= k -> s6[i] [] i = k + 1 -> 1 [] i > k + 1 -> 0 BY <2>3
      <4>2. CASE i <= k
        <5>1. i \in 1..k BY <4>2
        <5>2. s6[i] = g[o + i] BY <1>1, <5>1
        <5> HIDE DEF k, o
        <5>3. b[i] = s6[i] BY <2>1, <4>1, <4>2
        <5> QED BY <4>2, <5>2, <5>3
      <4>3. CASE i = k + 1
        <5> HIDE DEF k
        <5> QED BY <2>1, <4>1, <4>3
      <4>4. CASE i > k + 1
        <5> HIDE DEF k
        <5> QED BY <2>1, <4>1, <4>4
      <4> QED BY <2>1, <4>2, <4>3, <4>4
    <3> QED BY <2>3, <3>1 DEF IsList
  <2> HIDE DEF b
  <2>5. IsUnits(b, 4)
    <3>1. PolyByteOf \in Nat /\ PolyByteOf >= 4
      <4>1. PolyByteOf \in Nat /\ PolyByteOf > 0 /\ PolyByteOf % 4 = 0 BY DEF Poly!Sizes
      <4> QED BY <4>1
    <3>2. ASSUME NEW i \in 1..4 PROVE b[i] \in 0..(PolyByteOf - 1)
      <4>1. CASE i <= k
        <5>1. o + i \in 1..n BY <1>1, <4>1
        <5>2. g[o + i] \in 0..(PolyByteOf - 1) BY <5>1 DEF IsUnits
        <5> QED BY <2>4, <4>1, <5>2
      <4>2. CASE i = k + 1 BY <2>1, <2>4, <3>1, <4>2
      <4>3. CASE i > k + 1 BY <2>1, <2>4, <3>1, <4>3
      <4> QED BY <2>1, <4>1, <4>2, <4>3
    <3> QED BY <2>4, <3>2 DEF IsUnits
  <2>6. Poly!Coefficient(g, w) = BlockValue(b) + Poly!Limb * Poly!Limb * 0
    <3>1. w \in Nat /\ w > 0 /\ n = 4 * (w - 1) + k /\ 4 * (w - 1) = o BY <1>1
    <3>2. IsList(g, n) BY DEF IsUnits
    <3> HIDE DEF w, k
    <3>3. \A i \in 1..4 : b[i] = IF i <= k THEN g[4 * (w - 1) + i] ELSE IF i = k + 1 THEN 1 ELSE 0
      BY <2>4, <3>1
    <3> QED BY <2>1, <2>5, <3>1, <3>2, <3>3, CoefficientPart
  <2>7. /\ y \in Limbs(Poly!Limb, 4)
        /\ Value(y, Poly!Limb) % Poly!P
             = StepOf(s1, Value(x, Poly!Limb) % Poly!P, BlockValue(b) + Poly!Limb * Poly!Limb * p)
    <3>1. x \in Limbs(Poly!Limb, 4) /\ p \in 0..1 BY <1>1 DEF StandsFor
    <3>2. y = Poly!AbsorbBlock(x, b, p) OBVIOUS
    <3> HIDE DEF x, p, y
    <3> QED BY <2>5, <3>1, <3>2, AbsorbBlockIs
  <2>8. Poly!Horner(s1, g) = StepOf(s1, Poly!Horner(s1, Begin(g, o)), Poly!Coefficient(g, q + 1))
    <3>1. o \in 0..n /\ o = 4 * q /\ o < n /\ n <= o + 4 BY <1>1, <2>1
    <3> HIDE DEF o
    <3> QED BY <1>1, <3>1, HornerStep
  <2>9. Value(x, Poly!Limb) % Poly!P = Poly!Horner(s1, Begin(g, o)) BY <1>1 DEF StandsFor
  <2> HIDE DEF x, y
  <2> QED BY <2>2, <2>6, <2>7, <2>8, <2>9 DEF p
<1> QED BY <1>2, <1>3

(* The last subtraction of p and the pad.                                  *)
LEMMA PolyReducedIs ==
  ASSUME Poly!Sizes, NEW x \in Limbs(Poly!Limb, 4), NEW pad \in Nat
  PROVE  (Poly!Reduced(x) + pad) % (Poly!Limb * Poly!Limb)
           = ((Value(x, Poly!Limb) % Poly!P) + pad) % (Poly!Limb * Poly!Limb)
<1> DEFINE l  == Poly!Limb
           x1 == x[1]
           x2 == x[2]
           x3 == x[3]
           q0 == (x1 + 5) \div l
           z0 == (x1 + 5) % l
           q1 == (x2 + q0) \div l
           z1 == (x2 + q0) % l
           g2 == (x3 + q1) % l
           v  == Value(x, l)
<1>1. Poly!Reduced(x) = IF g2 \div 4 # 0 THEN z0 + l * z1 ELSE x1 + l * x2
  <2>1. Poly!Reduced(x)
          = IF ((x[3] + (x[2] + (x[1] + 5) \div Poly!Limb) \div Poly!Limb) % Poly!Limb) \div 4 # 0
            THEN ((x[1] + 5) % Poly!Limb) + Poly!Limb * ((x[2] + (x[1] + 5) \div Poly!Limb) % Poly!Limb)
            ELSE x[1] + Poly!Limb * x[2]
    BY Zenon DEF Poly!Reduced
  <2> QED BY <2>1
<1>2. l \in Nat /\ l >= 16 /\ l > 0 BY PolySizes
<1>3. x1 \in 0..(l - 1) /\ x2 \in 0..(l - 1) /\ x3 \in 0..4 BY LimbsAre
<1>4. v = x1 + l * x2 + l * l * x3 /\ Poly!P = 4 * l * l - 5 BY DEF Value, Poly!P
<1>5. (Poly!Reduced(x) + pad) % (Poly!Limb * Poly!Limb) = (Poly!Reduced(x) + pad) % (l * l) OBVIOUS
<1> HIDE DEF l, x1, x2, x3, v
<1>6. Carried(x1 + 5, l, q0, z0)
  <2>1. x1 + 5 \in Nat BY <1>2, <1>3
  <2> QED BY <1>2, <2>1, CarryIs
<1> HIDE DEF q0, z0
<1>7. Carried(x2 + q0, l, q1, z1)
  <2>1. x2 + q0 \in Nat BY <1>2, <1>3, <1>6 DEF Carried
  <2> QED BY <1>2, <2>1, CarryIs
<1> HIDE DEF q1, z1
<1>8. Settles(l, x1, x2, x3, q1, z0, z1, v, pad)
  <2>1. SettleColumns(l, x1, x2, q0, z0, q1, z1) BY <1>6, <1>7 DEF SettleColumns
  <2> HIDE DEF g2
  <2> QED BY <1>2, <1>3, <1>4, <2>1, LimbsSettle
<1>9. Poly!Reduced(x) = Settled(l, x1, x2, x3, x3 + q1, z0, z1)
  <2>1. g2 = x3 + q1 BY <1>8 DEF Settles
  <2> HIDE DEF g2
  <2> QED BY <1>1, <2>1 DEF Settled
<1> HIDE DEF g2
<1>10. (Poly!Reduced(x) + pad) % (l * l) = ((v % Poly!P) + pad) % (l * l)
  BY <1>4, <1>8, <1>9 DEF Settles
<1> QED BY <1>10 DEF l, v

-----------------------------------------------------------------------------
(* Whatever was absorbed, the limbs are of their sizes; until it is        *)
(* finished they and the buffer hold the message.                          *)
PolyInv ==
  /\ s1 \in PolyKeys /\ s2 \in PolyPatterns /\ s4 \in 0..PolyMaxLen
  /\ s5 \in Limbs(Poly!Limb, 4)
  /\ s8 = NoResult =>
       \E n \in Nat : IsUnits(s3, n) /\ \E q : PolyHeld(s5, s6, s7, s3, n, q)

(* A call of update with d.                                                *)
LEMMA PolyUpdates ==
  ASSUME Poly!Sizes, PolyInv, s8 = NoResult, NEW d, NEW m \in Nat, IsUnits(d, m), d \in Poly!Pieces,
         Poly!Update(d), s3' = s3 \o d, s1' = s1, s2' = s2, s4' \in 0..PolyMaxLen, s8' = s8
  PROVE  PolyInv' /\ Poly!Mac!Update
<1> DEFINE g == s3'
<1>1. s1 \in PolyKeys /\ s2 \in PolyPatterns BY DEF PolyInv
<1>2. PICK n \in Nat : IsUnits(s3, n) /\ \E q : PolyHeld(s5, s6, s7, s3, n, q) BY DEF PolyInv
<1>3. PICK q : PolyHeld(s5, s6, s7, s3, n, q) BY <1>2
<1> DEFINE w == n + m
<1>4. w \in Nat /\ n \in 0..w OBVIOUS
<1>5. Continues(g, s3, n, d, m) /\ IsList(g, w)
  <2>1. IsList(s3, n) /\ IsList(d, m) BY <1>2 DEF IsUnits
  <2>2. g = s3 \o d OBVIOUS
  <2> HIDE DEF g
  <2> QED BY <2>1, <2>2, JoinContinues
<1> HIDE DEF g
<1>6. IsUnits(g, w)
  <2>1. ASSUME NEW x \in 1..w PROVE g[x] \in 0..(PolyByteOf - 1)
    <3>1. CASE x <= n
      <4>1. x \in 1..n BY <3>1
      <4> QED BY <1>2, <1>5, <4>1 DEF Continues, IsUnits
    <3>2. CASE ~(x <= n)
      <4>1. x - n \in 1..m /\ n + (x - n) = x BY <3>2
      <4>2. g[n + (x - n)] = d[x - n] BY <1>5, <4>1 DEF Continues
      <4> QED BY <4>1, <4>2 DEF IsUnits
    <3> QED BY <3>1, <3>2
  <2> QED BY <1>5, <2>1 DEF IsUnits
<1>7. Behind(d, m, g, n, w)
  <2>1. PieceOf(d, m, g, n) BY <1>5 DEF PieceOf, Continues
  <2> QED BY <1>4, <1>6, <2>1 DEF Behind
<1>8. PolyHeld(s5, s6, s7, g, n, q)
  <2>1. q \in Nat /\ s7 \in 0..3 /\ n = 4 * q + s7 BY <1>3 DEF PolyHeld
  <2>2. \A x \in 1..n : g[x] = s3[x] BY <1>5 DEF Continues
  <2>3. (\A x \in 1..(4 * q) : x \in 1..n) /\ \A x \in 1..s7 : 4 * q + x \in 1..n BY <2>1
  <2>4. Begin(g, 4 * q) = Begin(s3, 4 * q) BY <2>2, <2>3 DEF Begin
  <2>5. StandsFor(s5, g, 4 * q) BY <1>3, <2>4 DEF PolyHeld, StandsFor
  <2>6. \A x \in 1..s7 : g[4 * q + x] = s3[4 * q + x] BY <2>2, <2>3
  <2> QED BY <1>3, <2>5, <2>6 DEF PolyHeld
<1> HIDE DEF w
<1>9. PICK c : PolyHeld(s5', s6', s7', g, w, c) BY <1>1, <1>7, <1>8, PolyTakes
<1>10. s5' \in Limbs(Poly!Limb, 4) BY <1>9 DEF PolyHeld, StandsFor
<1>11. PolyHeld(s5, s6, s7, s3, w, c)'
  BY <1>9 DEF PolyHeld, StandsFor, g
<1>12. IsUnits(s3', w) BY <1>6 DEF g
<1>13. PolyInv' BY <1>1, <1>4, <1>10, <1>11, <1>12 DEF PolyInv
<1>14. Poly!Mac!Update BY DEF Poly!Mac!Update
<1> QED BY <1>13, <1>14

(* The caller's bytes.                                                     *)
LEMMA PolySends ==
  ASSUME Poly!Sizes, PolyInv, NEW n \in 0..PolyMaxLen, Poly!Send(n)
  PROVE  PolyInv' /\ Poly!Mac!Update
<1> DEFINE d == [i \in 1..n |-> s2[s4 + i]]
<1>1. /\ s8 = NoResult /\ s4 + n <= PolyMaxLen /\ Poly!Update(d) /\ s3' = s3 \o d
      /\ s4' = s4 + n /\ s1' = s1 /\ s2' = s2 /\ s8' = s8
  BY DEF Poly!Send
<1>2. PolyMaxLen \in Nat /\ PolyPatterns \subseteq [1..PolyMaxLen -> 0..(PolyByteOf - 1)]
  BY DEF Poly!Sizes
<1>3. s2 \in PolyPatterns /\ s4 \in 0..PolyMaxLen BY DEF PolyInv
<1>4. n \in Nat /\ s4 \in 0..(PolyMaxLen - n) /\ s4 + n \in 0..PolyMaxLen BY <1>1, <1>2, <1>3
<1>5. IsUnits(d, n)
  <2>1. IsList(d, n) BY DEF IsList
  <2>2. ASSUME NEW i \in 1..n PROVE d[i] \in 0..(PolyByteOf - 1)
    <3>1. s4 + i \in 1..PolyMaxLen BY <1>1, <1>2, <1>3
    <3> QED BY <1>2, <1>3, <3>1
  <2> HIDE DEF d
  <2> QED BY <2>1, <2>2 DEF IsUnits
<1>6. d \in Poly!Pieces BY <1>3, <1>4 DEF Poly!Pieces
<1> HIDE DEF d
<1>7. s4' \in 0..PolyMaxLen BY <1>1, <1>4
<1> QED BY <1>1, <1>4, <1>5, <1>6, <1>7, PolyUpdates

(* pad_to_block.                                                           *)
LEMMA PolyPads ==
  ASSUME Poly!Sizes, PolyInv, Poly!PadToBlock
  PROVE  PolyInv' /\ Poly!Mac!Update
<1> DEFINE m == 4 - s7
           d == Poly!Zeros(m)
<1>1. /\ s8 = NoResult /\ s7 > 0 /\ Poly!Update(d) /\ s3' = s3 \o d
      /\ s4' = s4 /\ s1' = s1 /\ s2' = s2 /\ s8' = s8
  BY DEF Poly!PadToBlock, Poly!Block
<1>2. s4 \in 0..PolyMaxLen BY DEF PolyInv
<1>3. m \in 1..4 /\ m \in Nat
  <2>1. s7 \in 0..3 BY <1>1 DEF PolyInv, PolyHeld
  <2> QED BY <1>1, <2>1
<1>4. IsUnits(d, m)
  <2>1. PolyByteOf \in Nat /\ PolyByteOf > 0 BY PolySizes
  <2>2. IsList(d, m) /\ \A i \in 1..m : d[i] = 0 BY DEF Poly!Zeros, IsList
  <2> HIDE DEF d
  <2>3. \A i \in 1..m : d[i] \in 0..(PolyByteOf - 1) BY <2>1, <2>2
  <2> QED BY <2>2, <2>3 DEF IsUnits
<1>5. d \in Poly!Pieces
  <2> HIDE DEF m
  <2> QED BY <1>3 DEF Poly!Pieces, Poly!Block
<1> HIDE DEF d, m
<1>6. s4' \in 0..PolyMaxLen BY <1>1, <1>2
<1> QED BY <1>1, <1>3, <1>4, <1>5, <1>6, PolyUpdates

(* finalize.                                                               *)
LEMMA PolyFinishes ==
  ASSUME Poly!Sizes, PolyInv, Poly!Finalize
  PROVE  PolyInv' /\ Poly!Mac!Finalize
<1> DEFINE x == Poly!Final
           a == Poly!Limb * Poly!Limb
           e == Poly!Reduced(x)
           p == s1.pad
<1>1. /\ s8 = NoResult /\ s5' = x /\ s8' = (e + p) % a
      /\ s1' = s1 /\ s2' = s2 /\ s3' = s3 /\ s4' = s4
  BY DEF Poly!Finalize
<1>2. s1 \in PolyKeys /\ s2 \in PolyPatterns /\ s4 \in 0..PolyMaxLen BY DEF PolyInv
<1>3. PICK n \in Nat : IsUnits(s3, n) /\ \E q : PolyHeld(s5, s6, s7, s3, n, q)
  BY <1>1 DEF PolyInv
<1>4. x \in Limbs(Poly!Limb, 4) /\ Value(x, Poly!Limb) % Poly!P = Poly!Horner(s1, s3)
  BY <1>2, <1>3, PolyFinalIs
<1>5. p \in Nat BY <1>2, PolyClamped
<1>6. (e + p) % a = ((Value(x, Poly!Limb) % Poly!P) + p) % a
  <2> HIDE DEF x, p
  <2> QED BY <1>4, <1>5, PolyReducedIs
<1>7. s8' = Poly!TagOf(s1, s3) BY <1>1, <1>4, <1>6 DEF Poly!TagOf
<1>8. s8' \in Nat
  <2> DEFINE v == Value(x, Poly!Limb)
             u == (v % Poly!P) + p
  <2>1. Poly!Limb \in Nat /\ Poly!Limb >= 16 /\ Poly!P \in Nat /\ Poly!P > 0 BY PolySizes
  <2>2. v \in Nat
    <3>1. 4 \in Nat OBVIOUS
    <3> DEFINE four == 4
    <3>2. four \in Nat /\ x \in Limbs(Poly!Limb, four) BY <1>4
    <3> HIDE DEF four, x
    <3> QED BY <2>1, <3>2, ValueIs
  <2> HIDE DEF v, p
  <2>3. u \in Nat
    <3>1. v % Poly!P \in Nat BY <2>1, <2>2
    <3> QED BY <1>5, <3>1
  <2>4. a \in Nat /\ a > 0
    <3>1. PICK c \in Nat : Poly!Limb = c + 1
      <4>1. Poly!Limb - 1 \in Nat /\ Poly!Limb = (Poly!Limb - 1) + 1 BY <2>1
      <4> QED BY <4>1
    <3>2. Poly!Limb * Poly!Limb = c * c + 2 * c + 1 /\ c * c \in Nat BY <3>1
    <3> QED BY <3>1, <3>2
  <2>5. (e + p) % a = u % a BY <1>6 DEF v
  <2> HIDE DEF u, a
  <2>6. u % a \in Nat BY <2>3, <2>4
  <2>7. (e + p) % a \in Nat BY <2>5, <2>6
  <2> QED BY <1>1, <2>7
<1>9. s8' # NoResult BY <1>8, PolySizes
<1> HIDE DEF x
<1>10. PolyInv' BY <1>1, <1>2, <1>4, <1>9 DEF PolyInv
<1>11. Poly!Mac!Finalize BY <1>1, <1>7 DEF Poly!Mac!Finalize
<1> QED BY <1>10, <1>11

(* Nothing is held at first.                                               *)
LEMMA PolyInits ==
  ASSUME Poly!Sizes, Poly!Init
  PROVE  PolyInv /\ Poly!Mac!Init
<1> DEFINE z == 0
<1>1. /\ s1 \in PolyKeys /\ s2 \in PolyPatterns /\ s3 = <<>> /\ s4 = 0 /\ s5 = <<0, 0, 0>>
      /\ s6 = Poly!Zeros(4) /\ s7 = 0 /\ s8 = NoResult
  BY DEF Poly!Init, Poly!Block
<1>2. /\ PolyByteOf \in Nat /\ PolyByteOf > 0 /\ PolyMaxLen \in Nat
      /\ Poly!Limb \in Nat /\ Poly!Limb >= 16 /\ Poly!P \in Nat /\ Poly!P > 0
  BY PolySizes
<1>3. s5 \in Limbs(Poly!Limb, 4) /\ s4 \in 0..PolyMaxLen BY <1>1, <1>2 DEF Limbs
<1>4. Value(s5, Poly!Limb) % Poly!P = 0
  <2>1. Value(s5, Poly!Limb) = 0
    <3>1. s5[1] = 0 /\ s5[2] = 0 /\ s5[3] = 0 BY <1>1
    <3>2. Poly!Limb * 0 = 0 /\ Poly!Limb * Poly!Limb * 0 = 0 BY <1>2
    <3> QED BY <3>1, <3>2 DEF Value
  <2> QED BY <1>2, <2>1
<1>5. Poly!Horner(s1, Begin(s3, 0)) = 0
  <2> DEFINE b == Begin(s3, 0)
  <2>1. IsList(b, 0) BY DEF Begin, IsList
  <2> HIDE DEF b
  <2>2. Poly!Horner(s1, b) = 0 BY <1>1, <2>1, HornerNone
  <2> QED BY <2>2 DEF b
<1>6. StandsFor(s5, s3, 4 * z)
  <2>1. 4 * z = 0 OBVIOUS
  <2> HIDE DEF z
  <2> QED BY <1>3, <1>4, <1>5, <2>1 DEF StandsFor
<1>7. IsUnits(s6, 4)
  <2>1. IsList(s6, 4) /\ \A i \in 1..4 : s6[i] = 0 BY <1>1 DEF Poly!Zeros, IsList
  <2> QED BY <1>2, <2>1 DEF IsUnits
<1>8. PolyHeld(s5, s6, s7, s3, z, z)
  <2>1. z \in Nat /\ s7 \in 0..3 /\ z = 4 * z + s7 /\ \A i \in 1..s7 : s6[i] = s3[4 * z + i]
    BY <1>1
  <2> HIDE DEF z
  <2> QED BY <1>6, <1>7, <2>1 DEF PolyHeld
<1>9. IsUnits(s3, z) /\ z \in Nat BY <1>1 DEF IsUnits, IsList
<1>10. PolyInv
  <2> HIDE DEF z
  <2> QED BY <1>1, <1>3, <1>8, <1>9 DEF PolyInv
<1>11. Poly!Mac!Init BY <1>1 DEF Poly!Mac!Init
<1> QED BY <1>10, <1>11

(* Every step of the authenticator is a step of its OneShot.               *)
LEMMA PolySteps ==
  ASSUME Poly!Sizes, PolyInv, Poly!Next
  PROVE  PolyInv' /\ (Poly!Mac!Next \/ UNCHANGED Poly!Mac!vars)
<1>1. CASE \E n \in 0..PolyMaxLen : Poly!Send(n)
  BY <1>1, PolySends DEF Poly!Mac!Next
<1>2. CASE Poly!PadToBlock BY <1>2, PolyPads DEF Poly!Mac!Next
<1>3. CASE Poly!Finalize BY <1>3, PolyFinishes DEF Poly!Mac!Next
<1> QED BY <1>1, <1>2, <1>3 DEF Poly!Next

(* The bounds of the accumulator follow from its limbs and the clamp.      *)
LEMMA PolyBounded ==
  ASSUME Poly!Sizes, PolyInv PROVE Poly!AccumulatorBounds
<1> DEFINE l == Poly!Limb
           h == s5[3]
           r0 == s1.r0
           r1 == s1.r1
           s == r1 + r1 \div 4
<1>1. PICK j, u : Clamped(l, j, r0, r1, u, s)
  <2>1. s1 \in PolyKeys BY DEF PolyInv
  <2>2. \E j, u : Clamped(Poly!Limb, j, s1.r0, s1.r1, u, s1.r1 + s1.r1 \div 4) BY <2>1, PolyClamped
  <2> QED BY <2>2
<1>2. s5[1] \in 0..(l - 1) /\ s5[2] \in 0..(l - 1) /\ h \in 0..4
  <2>1. s5 \in Limbs(Poly!Limb, 4) BY DEF PolyInv
  <2> QED BY <2>1, LimbsAre
<1>3. Poly!S1 = s BY DEF Poly!S1
<1> HIDE DEF r0, r1, s, h
<1>4. /\ j \in Nat /\ j >= 1 /\ l = 16 * j
      /\ r0 \in 0..(j - 1) /\ u \in Nat /\ r1 = 4 * u /\ r1 \in 0..(j - 1) /\ s = 5 * u
  BY <1>1 DEF Clamped
<1>5. l \div 2 = 8 * j
  <2> HIDE DEF l
  <2> QED BY <1>4
<1>6. (h + 2) * r0 < 8 * j /\ (h + 2) * s < 8 * j
  <2>1. h + 2 \in {2, 3, 4, 5, 6} BY <1>2
  <2>2. r0 \in Nat /\ s \in Nat /\ r0 < j /\ 4 * s < 5 * j BY <1>4
  <2>3. ASSUME NEW c \in {2, 3, 4, 5, 6} PROVE c * r0 < 8 * j /\ c * s < 8 * j
    <3>1. CASE c = 2 BY <1>4, <2>2, <3>1
    <3>2. CASE c = 3 BY <1>4, <2>2, <3>2
    <3>3. CASE c = 4 BY <1>4, <2>2, <3>3
    <3>4. CASE c = 5 BY <1>4, <2>2, <3>4
    <3>5. CASE c = 6 BY <1>4, <2>2, <3>5
    <3> QED BY <3>1, <3>2, <3>3, <3>4, <3>5
  <2> QED BY <2>1, <2>3
<1>7. s5[1] < l /\ s5[2] < l /\ h <= 4
  <2>1. l \in Nat BY <1>4
  <2> HIDE DEF l
  <2> QED BY <1>2, <2>1
<1> QED BY <1>3, <1>5, <1>6, <1>7 DEF Poly!AccumulatorBounds, l, h, r0

-----------------------------------------------------------------------------
(* The hasher at work keeps its invariant.                                 *)
HashersInv ==
  /\ unit = "sha"      => ShaInv
  /\ unit = "poly1305" => PolyInv
  /\ unit = "blake2b"  => BlakeInv

OneShotInit ==
  /\ unit = "sha"      => Sha!Hash!Init
  /\ unit = "poly1305" => Poly!Mac!Init
  /\ unit = "blake2b"  => Blake!Hash!Init

OneShotStep ==
  /\ unit = "sha"      => Sha!Hash!Next   \/ UNCHANGED Sha!Hash!vars
  /\ unit = "poly1305" => Poly!Mac!Next   \/ UNCHANGED Poly!Mac!vars
  /\ unit = "blake2b"  => Blake!Hash!Next \/ UNCHANGED Blake!Hash!vars

(* Each hasher begins as its OneShot does.                                 *)
LEMMA HashersStart ==
  ASSUME HashersInit
  PROVE  HashersInv /\ OneShotInit
<1> DEFINE a == "sha"
           b == "poly1305"
           c == "blake2b"
<1>1. a # b /\ a # c /\ b # c OBVIOUS
<1>2. (unit = a /\ Sha!Init) \/ (unit = b /\ Poly!Init) \/ (unit = c /\ Blake!Init) BY DEF HashersInit
<1>3. Sha!Sizes /\ Poly!Sizes /\ Blake!Sizes BY HashersAssumption
<1> HIDE DEF a, b, c
<1>4. unit = a => ShaInv /\ Sha!Hash!Init BY <1>1, <1>2, <1>3, ShaInits
<1>5. unit = b => PolyInv /\ Poly!Mac!Init BY <1>1, <1>2, <1>3, PolyInits
<1>6. unit = c => BlakeInv /\ Blake!Hash!Init BY <1>1, <1>2, <1>3, BlakeInits
<1> QED BY <1>4, <1>5, <1>6 DEF HashersInv, OneShotInit, a, b, c

(* Each step of a hasher keeps the invariant and is a step of its OneShot. *)
LEMMA HashersStep ==
  ASSUME HashersInv, HashersNext
  PROVE  HashersInv' /\ OneShotStep
<1> DEFINE a == "sha"
           b == "poly1305"
           c == "blake2b"
<1>1. a # b /\ a # c /\ b # c OBVIOUS
<1>2. /\ (unit = a /\ Sha!Next) \/ (unit = b /\ Poly!Next) \/ (unit = c /\ Blake!Next)
      /\ unit' = unit
  BY DEF HashersNext
<1>3. Sha!Sizes /\ Poly!Sizes /\ Blake!Sizes BY HashersAssumption
<1>4. (unit = a => ShaInv) /\ (unit = b => PolyInv) /\ (unit = c => BlakeInv) BY DEF HashersInv
<1> HIDE DEF a, b, c
<1>5. unit = a => ShaInv' /\ (Sha!Hash!Next \/ UNCHANGED Sha!Hash!vars)
  BY <1>1, <1>2, <1>3, <1>4, ShaSteps
<1>6. unit = b => PolyInv' /\ (Poly!Mac!Next \/ UNCHANGED Poly!Mac!vars)
  BY <1>1, <1>2, <1>3, <1>4, PolySteps
<1>7. unit = c => BlakeInv' /\ (Blake!Hash!Next \/ UNCHANGED Blake!Hash!vars)
  BY <1>1, <1>2, <1>3, <1>4, BlakeSteps
<1> QED BY <1>2, <1>5, <1>6, <1>7 DEF HashersInv, OneShotStep, a, b, c

(* Doing nothing keeps the invariant.                                      *)
LEMMA HashersStutter ==
  ASSUME HashersInv, UNCHANGED hashers
  PROVE  HashersInv'
<1>1. unit' = unit /\ s1' = s1 /\ s2' = s2 /\ s3' = s3 /\ s4' = s4 /\ s5' = s5 /\ s6' = s6
        /\ s7' = s7 /\ s8' = s8
  BY DEF hashers
<1>2. ShaInv => ShaInv'
  BY <1>1 DEF ShaInv, ShaRunning, ShaAbsorbing, ShaPadding, ShaB, ShaF
<1>3. PolyInv => PolyInv'
  <2>1. \A n, q : PolyHeld(s5, s6, s7, s3, n, q) => PolyHeld(s5, s6, s7, s3, n, q)'
    BY <1>1 DEF PolyHeld, StandsFor
  <2>2. \A n : IsUnits(s3, n) => IsUnits(s3, n)' BY <1>1
  <2> QED BY <1>1, <2>1, <2>2 DEF PolyInv
<1>4. BlakeInv => BlakeInv' BY <1>1 DEF BlakeInv, BlakeRunning
<1> QED BY <1>1, <1>2, <1>3, <1>4 DEF HashersInv

(* The invariant: what each hasher holds in its state and its buffer is    *)
(* what it was given so far.                                               *)
THEOREM HashersHold == HashersSpec => []HashersInv
<1>1. HashersInit => HashersInv BY HashersStart
<1>2. HashersInv /\ [HashersNext]_hashers => HashersInv' BY HashersStep, HashersStutter
<1> QED BY <1>1, <1>2, PTL DEF HashersSpec

(* Between any two calls Poly1305's limbs are within the bounds absorb's   *)
(* comment promises, which is why its products fit their words.            *)
THEOREM AccumulatorBounded == HashersSpec => [](unit = "poly1305" => Poly!AccumulatorBounds)
<1>1. HashersInv => (unit = "poly1305" => Poly!AccumulatorBounds)
  <2>1. Poly!Sizes BY HashersAssumption
  <2> QED BY <2>1, PolyBounded DEF HashersInv
<1> QED BY <1>1, HashersHold, PTL

(* SHA-2, Poly1305 and BLAKE2b implement their one-shot functions: however *)
(* the bytes are cut into calls of update, finalize returns what one call  *)
(* on all of them would.                                                   *)
THEOREM HashersRefine == HashersSpec => HashersImplementOneShot
<1>1. HashersInit => OneShotInit BY HashersStart
<1>2. HashersInv /\ [HashersNext]_hashers => [OneShotStep]_hashers BY HashersStep
<1>3. OneShotInit /\ [][OneShotStep]_hashers => HashersImplementOneShot
  BY PTL DEF HashersImplementOneShot, OneShotInit, OneShotStep
<1> QED BY <1>1, <1>2, <1>3, HashersHold, PTL DEF HashersSpec
=============================================================================

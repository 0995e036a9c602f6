------------------------ MODULE WireCodecProofs ------------------------
(***************************************************************************)
(* The wire encoding is read back exactly, for any records, policies and   *)
(* damage.  The reader takes from any bytes only what writing the values   *)
(* gives back (soundness) and takes all that was written within the limits *)
(* (completeness), field by field, list by list and record by record; the  *)
(* checks of policy.rs are the conditions they stand for; sorting leaves   *)
(* neighbours in strict order; and what seal and grant_recipient build     *)
(* meets those checks.  The properties of WireCodec follow from one        *)
(* invariant.  What is proved over sequences goes by the least length at   *)
(* which it would fail.                                                    *)
(***************************************************************************)
EXTENDS WireCodec, FiniteSetTheorems, SequenceTheorems, TLAPS

-----------------------------------------------------------------------------
(* Sequences put end to end. FlattenSeq is a fold; here are its steps.     *)

(* A set of naturals has a least element.                                  *)
LEMMA Least ==
  ASSUME NEW T, T \subseteq Nat, T # {}
  PROVE  \E x \in T : \A y \in T : x <= y
<1> DEFINE D == { 0..x : x \in T }
<1>1. D \subseteq FiniteSubsetsOf(Nat) /\ D # {}
  <2>1. ASSUME NEW x \in T PROVE 0..x \in FiniteSubsetsOf(Nat)
    <3>1. IsFiniteSet(0..x) BY FS_Interval
    <3> QED BY <3>1 DEF FiniteSubsetsOf
  <2> QED BY <2>1
<1>2. PICK d \in D : \A e \in D : <<e, d>> \notin StrictSubsetOrdering(Nat)
  <2> HIDE DEF D
  <2> QED BY <1>1, FS_StrictSubsetOrderingWellFounded, WFMin
<1>3. PICK x \in T : d = 0..x
  OBVIOUS
<1>4. ASSUME NEW y \in T, y < x PROVE FALSE
  <2>1. 0..y \in D /\ 0..y \subseteq 0..x /\ x \in 0..x /\ x \notin 0..y
    BY <1>4
  <2>2. <<0..y, 0..x>> \in StrictSubsetOrdering(Nat)
    BY <2>1 DEF StrictSubsetOrdering
  <2> QED BY <1>2, <1>3, <2>1, <2>2
<1> QED BY <1>4

(* Induction over the naturals, for a set instead of a predicate.          *)
LEMMA Induction ==
  ASSUME NEW S, 0 \in S, \A n \in Nat : n \in S => n + 1 \in S
  PROVE  \A n \in Nat : n \in S
<1> DEFINE T == Nat \ S
<1>1. SUFFICES ASSUME T # {} PROVE FALSE
  OBVIOUS
<1>2. PICK x \in T : \A y \in T : x <= y
  <2>1. T \subseteq Nat OBVIOUS
  <2> HIDE DEF T
  <2> QED BY <1>1, <2>1, Least
<1>3. x \in Nat \ {0} /\ x \notin S
  OBVIOUS
<1>4. x - 1 \in Nat /\ (x - 1) + 1 = x /\ x - 1 < x
  BY <1>3
<1>5. x - 1 \in S
  BY <1>2, <1>4
<1> QED BY <1>3, <1>4, <1>5

(* f holds the concatenations of the first i of seqs, for i up to n.       *)
Flat(f, seqs, n) ==
  /\ f = [i \in 1..n |-> f[i]]
  /\ \A i \in 1..n : f[i] = IF i = 1 THEN seqs[i] ELSE f[i - 1] \o seqs[i]

(* The function that joins the first 1, 2, .. n sequences exists for every *)
(* n.                                                                      *)
LEMMA FlatExists ==
  ASSUME NEW seqs
  PROVE  \A n \in Nat : \E f : Flat(f, seqs, n)
<1> DEFINE S == { n \in Nat : \E f : Flat(f, seqs, n) }
<1>1. 0 \in S
  <2> DEFINE f == [i \in 1..0 |-> seqs[i]]
  <2>1. Flat(f, seqs, 0) BY DEF Flat
  <2> QED BY <2>1
<1>2. ASSUME NEW n \in Nat, n \in S PROVE n + 1 \in S
  <2>1. PICK f : \A i \in 1..n : f[i] = IF i = 1 THEN seqs[i] ELSE f[i - 1] \o seqs[i]
    BY <1>2 DEF Flat
  <2> DEFINE g == [i \in 1..(n + 1) |-> IF i <= n THEN f[i]
                                        ELSE IF n = 0 THEN seqs[1] ELSE f[n] \o seqs[n + 1]]
  <2>2. ASSUME NEW i \in 1..(n + 1)
        PROVE  g[i] = IF i = 1 THEN seqs[i] ELSE g[i - 1] \o seqs[i]
    <3>1. CASE i <= n
      <4>1. f[i] = IF i = 1 THEN seqs[i] ELSE f[i - 1] \o seqs[i]
        BY <2>1, <3>1
      <4>2. g[i] = f[i] /\ (i # 1 => g[i - 1] = f[i - 1])
        BY <3>1
      <4> QED BY <4>1, <4>2
    <3>2. CASE i = n + 1
      <4>1. n # 0 => g[n] = f[n]
        OBVIOUS
      <4> QED BY <3>2, <4>1
    <3> QED BY <3>1, <3>2
  <2>3. g = [i \in 1..(n + 1) |-> g[i]]
    OBVIOUS
  <2>4. Flat(g, seqs, n + 1)
    <3> HIDE DEF g
    <3> QED BY <2>2, <2>3 DEF Flat
  <2> HIDE DEF g
  <2> QED BY <2>4
<1>3. \A n \in Nat : n \in S
  <2> HIDE DEF S
  <2> QED BY <1>1, <1>2, Induction
<1> QED BY <1>3

(* FlattenSeq is the last of those.                                        *)
LEMMA FlattenIsFlat ==
  ASSUME NEW seqs, Len(seqs) \in Nat \ {0}
  PROVE  \E f : Flat(f, seqs, Len(seqs)) /\ FlattenSeq(seqs) = f[Len(seqs)]
<1> DEFINE n == Len(seqs)
           Body(f) == [i \in 1..n |-> IF i = 1 THEN seqs[i] ELSE f[i - 1] \o seqs[i]]
           h == CHOOSE f : f = Body(f)
<1>1. PICK f : Flat(f, seqs, n)
  BY FlatExists
<1>2. f = Body(f)
  BY <1>1 DEF Flat
<1>3. h = Body(h)
  <2> HIDE DEF Body
  <2> QED BY <1>2
<1>4. Flat(h, seqs, n)
  <2> HIDE DEF h
  <2> QED BY <1>3 DEF Flat
<1>5. FlattenSeq(seqs) = h[n]
  BY Zenon DEF FlattenSeq
<1> QED BY <1>4, <1>5

(* The first is the first sequence.                                        *)
LEMMA FlatFirst ==
  ASSUME NEW seqs, NEW n \in Nat \ {0}, NEW f, Flat(f, seqs, n)
  PROVE  f[1] = seqs[1]
<1>1. \A j \in 1..n : f[j] = IF j = 1 THEN seqs[j] ELSE f[j - 1] \o seqs[j]
  BY DEF Flat
<1>2. 1 \in 1..n
  OBVIOUS
<1> QED BY <1>1, <1>2, Zenon

(* Each adds one sequence.                                                 *)
LEMMA FlatStep ==
  ASSUME NEW seqs, NEW n \in Nat, NEW f, Flat(f, seqs, n), NEW i \in 1..(n - 1)
  PROVE  f[i + 1] = f[i] \o seqs[i + 1]
<1>1. \A j \in 1..n : f[j] = IF j = 1 THEN seqs[j] ELSE f[j - 1] \o seqs[j]
  BY DEF Flat
<1>2. i + 1 \in 1..n /\ i + 1 # 1 /\ (i + 1) - 1 = i
  OBVIOUS
<1> QED BY <1>1, <1>2, Zenon

(* FlattenSeq concatenates: of no sequences the empty one, of one more the *)
(* last of them behind the others'.                                        *)
LEMMA FlattenEmpty ==
  ASSUME NEW seqs, seqs = <<>>
  PROVE  FlattenSeq(seqs) = <<>>
BY DEF FlattenSeq

(* One more sequence is appended to what the others make.                  *)
LEMMA FlattenAppend ==
  ASSUME NEW S, NEW n \in Nat,
         NEW s \in Seq(Seq(S)), Len(s) = n,
         NEW t \in Seq(Seq(S)), Len(t) = n + 1,
         \A i \in 1..n : t[i] = s[i]
  PROVE  /\ FlattenSeq(s) \in Seq(S)
         /\ FlattenSeq(t) = FlattenSeq(s) \o t[n + 1]
<1>1. PICK g : Flat(g, t, n + 1) /\ FlattenSeq(t) = g[n + 1]
  BY FlattenIsFlat
<1>2. g[1] = t[1]
  BY <1>1, FlatFirst
<1>0. ASSUME NEW i \in 1..n PROVE g[i + 1] = g[i] \o t[i + 1]
  <2>1. n + 1 \in Nat /\ i \in 1..((n + 1) - 1)
    OBVIOUS
  <2> QED BY <1>1, <2>1, FlatStep, Zenon
<1>3. CASE n = 0
  <2>1. s = <<>> /\ FlattenSeq(s) = <<>>
    BY <1>3, FlattenEmpty
  <2>2. FlattenSeq(t) = t[1] /\ t[1] \in Seq(S)
    BY <1>1, <1>2, <1>3
  <2>3. <<>> \in Seq(S) /\ <<>> \o t[1] = t[1] /\ n + 1 = 1
    BY <1>3, <2>2, ConcatEmptySeq, EmptySeq
  <2> QED BY <2>1, <2>2, <2>3
<1>4. CASE n # 0
  <2>1. PICK f : Flat(f, s, n) /\ FlattenSeq(s) = f[n]
    BY <1>4, FlattenIsFlat
  <2>2. f[1] = s[1]
    BY <1>4, <2>1, FlatFirst
  <2> DEFINE T == { m \in Nat : m \in 1..n => f[m] = g[m] /\ f[m] \in Seq(S) }
  <2>3. 0 \in T
    OBVIOUS
  <2>4. ASSUME NEW m \in Nat, m \in T PROVE m + 1 \in T
    <3>1. SUFFICES ASSUME m + 1 \in 1..n PROVE f[m + 1] = g[m + 1] /\ f[m + 1] \in Seq(S)
      OBVIOUS
    <3>2. s[m + 1] \in Seq(S) /\ t[m + 1] = s[m + 1]
      BY <3>1
    <3>3. CASE m = 0
      BY <1>2, <2>2, <3>2, <3>3
    <3>4. CASE m # 0
      <4>1. m \in 1..(n - 1) /\ m \in 1..n
        BY <3>1, <3>4
      <4>2. f[m + 1] = f[m] \o s[m + 1] /\ g[m + 1] = g[m] \o t[m + 1]
        BY <4>1, <1>0, <2>1, FlatStep, Zenon
      <4>3. f[m] = g[m] /\ f[m] \in Seq(S)
        BY <4>1, <2>4
      <4> HIDE DEF T
      <4> QED BY <4>2, <4>3, <3>2, ConcatProperties
    <3> QED BY <3>3, <3>4
  <2>5. n \in T
    <3> HIDE DEF T
    <3> QED BY <2>3, <2>4, Induction
  <2>6. f[n] = g[n] /\ f[n] \in Seq(S) /\ n \in 1..n
    BY <2>5, <1>4
  <2>7. g[n + 1] = g[n] \o t[n + 1]
    BY <1>0, <2>6, Zenon
  <2> HIDE DEF T
  <2> QED BY <1>1, <2>1, <2>6, <2>7
<1> QED BY <1>3, <1>4

(* A sequence is its first n elements and the rest, as take_exact cuts it. *)
LEMMA Split ==
  ASSUME NEW S, NEW s \in Seq(S), NEW n \in 0..Len(s)
  PROVE  /\ SubSeq(s, 1, n) \in Seq(S) /\ Len(SubSeq(s, 1, n)) = n
         /\ SubSeq(s, n + 1, Len(s)) \in Seq(S)
         /\ s = SubSeq(s, 1, n) \o SubSeq(s, n + 1, Len(s))
<1>1. Len(s) \in Nat /\ \A i \in 1..Len(s) : s[i] \in S
  OBVIOUS
<1>2. SubSeq(s, 1, n) \in Seq(S) /\ Len(SubSeq(s, 1, n)) = n
  BY <1>1, SubSeqProperties
<1>3. SubSeq(s, n + 1, Len(s)) \in Seq(S)
  BY <1>1, SubSeqProperties
<1>4. SubSeq(s, 1, n) \o SubSeq(s, n + 1, Len(s)) = SubSeq(s, 1, Len(s))
  <2>1. 1 \in 1..(Len(s) + 1) /\ n \in (1 - 1)..Len(s) /\ Len(s) \in n..Len(s)
    BY <1>1
  <2> QED BY <2>1, ConcatAdjacentSubSeq, Zenon
<1>5. SubSeq(s, 1, Len(s)) = s
  BY SubSeqFull
<1> QED BY <1>2, <1>3, <1>4, <1>5

(* What was put end to end is cut at the same place again.                 *)
LEMMA Join ==
  ASSUME NEW S, NEW v \in Seq(S), NEW t \in Seq(S)
  PROVE  /\ v \o t \in Seq(S) /\ Len(v \o t) = Len(v) + Len(t)
         /\ SubSeq(v \o t, 1, Len(v)) = v
         /\ SubSeq(v \o t, Len(v) + 1, Len(v \o t)) = t
<1> DEFINE s == v \o t
<1>1. /\ s \in Seq(S) /\ Len(s) = Len(v) + Len(t) /\ Len(v) \in Nat /\ Len(t) \in Nat
      /\ \A i \in 1..(Len(v) + Len(t)) : s[i] = IF i <= Len(v) THEN v[i] ELSE t[i - Len(v)]
  BY ConcatProperties
<1> HIDE DEF s
<1>2. \A i \in 1..Len(s) : s[i] \in S
  BY <1>1
<1>3. SubSeq(s, 1, Len(v)) = v
  <2>1. /\ SubSeq(s, 1, Len(v)) \in Seq(S) /\ Len(SubSeq(s, 1, Len(v))) = Len(v)
        /\ \A i \in 1..Len(v) : SubSeq(s, 1, Len(v))[i] = s[i]
    BY <1>1, <1>2, SubSeqProperties
  <2> QED BY <1>1, <2>1, SeqEqual
<1>4. SubSeq(s, Len(v) + 1, Len(s)) = t
  <2> DEFINE u == SubSeq(s, Len(v) + 1, Len(s))
  <2>1. /\ u \in Seq(S) /\ Len(u) = Len(t)
        /\ \A i \in 1..Len(t) : u[i] = s[Len(v) + i]
    BY <1>1, <1>2, SubSeqProperties
  <2>2. ASSUME NEW i \in 1..Len(t) PROVE u[i] = t[i]
    <3>1. Len(v) + i \in 1..(Len(v) + Len(t)) /\ ~ (Len(v) + i <= Len(v)) /\ (Len(v) + i) - Len(v) = i
      BY <1>1
    <3>2. u[i] = s[Len(v) + i]
      BY <2>1
    <3> HIDE DEF u
    <3>3. s[Len(v) + i] = t[(Len(v) + i) - Len(v)]
      BY <1>1, <3>1, Zenon
    <3> QED BY <3>1, <3>2, <3>3
  <2> HIDE DEF u
  <2> QED BY <2>1, <2>2, SeqEqual DEF u
<1> QED BY <1>1, <1>3, <1>4 DEF s

(* A sequence is its head and its tail.                                    *)
LEMMA ConsHeadTail ==
  ASSUME NEW S, NEW s \in Seq(S), s # <<>>
  PROVE  /\ Head(s) \in S /\ Tail(s) \in Seq(S)
         /\ s = <<Head(s)>> \o Tail(s)
<1> DEFINE t == Tail(s)
           h == <<Head(s)>>
           u == h \o t
<1>1. Head(s) \in S /\ t \in Seq(S) /\ Len(t) = Len(s) - 1 /\ Len(s) \in Nat
      /\ Head(s) = s[1] /\ \A i \in 1..Len(t) : t[i] = s[i + 1]
  BY HeadTailProperties
<1>2. h \in Seq(S) /\ Len(h) = 1 /\ h[1] = s[1]
  BY <1>1
<1> HIDE DEF h, t
<1>3. /\ u \in Seq(S) /\ Len(u) = 1 + Len(t)
      /\ \A i \in 1..(1 + Len(t)) : u[i] = IF i <= 1 THEN h[i] ELSE t[i - 1]
  <2>1. h \in Seq(S) /\ t \in Seq(S) /\ Len(h) = 1
    BY <1>1, <1>2
  <2>2. /\ h \o t \in Seq(S) /\ Len(h \o t) = Len(h) + Len(t)
        /\ \A i \in 1..(Len(h) + Len(t)) : (h \o t)[i] = IF i <= Len(h) THEN h[i] ELSE t[i - Len(h)]
    BY <2>1, ConcatProperties, Zenon
  <2> QED BY <2>1, <2>2
<1> HIDE DEF u
<1>4. ASSUME NEW i \in 1..Len(s) PROVE u[i] = s[i]
  <2>1. CASE i = 1
    BY <1>1, <1>2, <1>3, <2>1
  <2>2. CASE i # 1
    <3>1. u[i] = t[i - 1]
      BY <1>1, <1>3, <2>2
    <3>2. i - 1 \in 1..Len(t) /\ (i - 1) + 1 = i
      BY <1>1, <2>2
    <3> QED BY <1>1, <3>1, <3>2
  <2> QED BY <2>1, <2>2
<1>5. u = s
  BY <1>1, <1>3, <1>4, SeqEqual
<1> QED BY <1>1, <1>5 DEF u, h, t

(* An element put before a sequence is its head.                           *)
LEMMA HeadTailCons ==
  ASSUME NEW S, NEW a \in S, NEW t \in Seq(S)
  PROVE  /\ <<a>> \o t \in Seq(S) /\ <<a>> \o t # <<>>
         /\ Head(<<a>> \o t) = a /\ Tail(<<a>> \o t) = t
<1> DEFINE s == <<a>> \o t
<1>1. <<a>> \in Seq(S) /\ Len(<<a>>) = 1 /\ Len(t) \in Nat
  OBVIOUS
<1>2. s \in Seq(S) /\ Len(s) = 1 + Len(t) /\ SubSeq(s, 2, Len(s)) = t
  BY <1>1, Join
<1>3. s[1] = a
  <2>1. s[1] = <<a>>[1] BY <1>1, ConcatProperties
  <2> QED BY <2>1
<1> HIDE DEF s
<1>4. s # <<>>
  BY <1>1, <1>2
<1>5. Head(s) = a /\ Tail(s) = t
  BY <1>2, <1>3, <1>4, TailIsSubSeq
<1> QED BY <1>2, <1>4, <1>5 DEF s

(* Two elements as a sequence.                                             *)
LEMMA PairIsSeq ==
  ASSUME NEW S, NEW a \in S, NEW b \in S
  PROVE  /\ <<a>> \in Seq(S) /\ <<b>> \in Seq(S) /\ <<a, b>> \in Seq(S)
         /\ <<a>> \o <<b>> = <<a, b>>
<1> DEFINE x == <<a>>
           y == <<b>>
           z == <<a, b>>
<1>1. x \in Seq(S) /\ Len(x) = 1 /\ x[1] = a /\ y \in Seq(S) /\ Len(y) = 1 /\ y[1] = b
  OBVIOUS
<1>2. z \in Seq(S) /\ Len(z) = 2 /\ z[1] = a /\ z[2] = b
  OBVIOUS
<1> HIDE DEF x, y, z
<1>3. /\ x \o y \in Seq(S) /\ Len(x \o y) = 2
      /\ \A i \in 1..2 : (x \o y)[i] = IF i <= 1 THEN x[i] ELSE y[i - 1]
  BY <1>1, ConcatProperties, SMTT(30)
<1> DEFINE w == x \o y
<1> HIDE DEF w
<1>4. w \in Seq(S) /\ Len(w) = 2 /\ w[1] = a /\ w[2] = b
  BY <1>1, <1>3 DEF w
<1>5. \A i \in 1..Len(w) : w[i] = z[i]
  BY <1>2, <1>4
<1>6. w = z
  BY <1>2, <1>4, <1>5, SeqEqual
<1> QED BY <1>1, <1>2, <1>6 DEF w, x, y, z

(* Two elements appended one by one.                                       *)
LEMMA Pair ==
  ASSUME NEW S, NEW s \in Seq(S), NEW a \in S, NEW b \in S
  PROVE  (s \o <<a>>) \o <<b>> = s \o <<a, b>>
<1> DEFINE x == <<a>>
           y == <<b>>
           z == <<a, b>>
<1>1. x \in Seq(S) /\ y \in Seq(S)
  BY PairIsSeq
<1>2. x \o y = z
  BY PairIsSeq
<1> HIDE DEF x, y, z
<1>3. (s \o x) \o y = s \o (x \o y)
  BY <1>1, ConcatAssociative
<1> QED BY <1>2, <1>3 DEF x, y, z

ThreeAppended(s, a, b, c) == ((s \o <<a>>) \o <<b>>) \o <<c>> = s \o <<a, b, c>>

(* Three elements appended one by one.                                     *)
LEMMA Triple ==
  ASSUME NEW S, NEW s \in Seq(S), NEW a \in S, NEW b \in S, NEW c \in S
  PROVE  ThreeAppended(s, a, b, c)
<1> DEFINE x == <<a, b>>
           y == <<c>>
           z == <<a, b, c>>
           v == x \o y
<1>1. x \in Seq(S) /\ y \in Seq(S) /\ (s \o <<a>>) \o <<b>> = s \o x
  BY PairIsSeq, Pair
<1>2. Len(x) = 2 /\ x[1] = a /\ x[2] = b /\ Len(y) = 1 /\ y[1] = c
  OBVIOUS
<1>3. z \in Seq(S) /\ Len(z) = 3 /\ z[1] = a /\ z[2] = b /\ z[3] = c
  OBVIOUS
<1> HIDE DEF x, y, z
<1>4. /\ v \in Seq(S) /\ Len(v) = 3
      /\ \A i \in 1..3 : v[i] = IF i <= 2 THEN x[i] ELSE y[i - 2]
  BY <1>1, <1>2, ConcatProperties
<1>5. (s \o x) \o y = s \o v
  BY <1>1, ConcatAssociative
<1> HIDE DEF v
<1>6. v[1] = a /\ v[2] = b /\ v[3] = c
  BY <1>2, <1>4
<1>7. \A i \in 1..Len(v) : v[i] = z[i]
  BY <1>3, <1>4, <1>6
<1>8. v = z
  BY <1>3, <1>4, <1>7, SeqEqual
<1> QED BY <1>1, <1>5, <1>8 DEF ThreeAppended, y, z

(* The cursors that ReadFields passes through.                             *)
LEMMA ReadFieldsChain ==
  ASSUME NEW c, NEW p, NEW kinds, Len(kinds) \in Nat
  PROVE  \E d : /\ d[0] = c
                /\ \A i \in 1..Len(kinds) : d[i] = ReadField(d[i - 1], kinds[i], p)
                /\ ReadFields(c, kinds, p) = d[Len(kinds)]
<1> DEFINE Body(f, m) == [i \in 0..m |-> IF i = 0 THEN c ELSE ReadField(f[i - 1], kinds[i], p)]
           S == { m \in Nat : m <= Len(kinds) => \E f : f = Body(f, m) }
<1>1. 0 \in S
  <2> DEFINE f == [i \in 0..0 |-> c]
  <2>1. f = Body(f, 0)
    OBVIOUS
  <2> QED BY <2>1
<1>2. ASSUME NEW m \in Nat, m \in S PROVE m + 1 \in S
  <2>1. SUFFICES ASSUME m + 1 <= Len(kinds) PROVE \E g : g = Body(g, m + 1)
    OBVIOUS
  <2>2. PICK f : f = Body(f, m)
    BY <1>2, <2>1
  <2> DEFINE g == [i \in 0..(m + 1) |-> IF i <= m THEN f[i] ELSE ReadField(f[m], kinds[(m + 1)], p)]
  <2>3. \A i \in 0..m : f[i] = IF i = 0 THEN c ELSE ReadField(f[i - 1], kinds[i], p)
    BY <2>2
  <2>4. ASSUME NEW i \in 0..(m + 1)
        PROVE  g[i] = IF i = 0 THEN c ELSE ReadField(g[i - 1], kinds[i], p)
    <3>1. CASE i <= m
      <4>1. i \in 0..m /\ g[i] = f[i] /\ (i # 0 => g[i - 1] = f[i - 1])
        BY <3>1
      <4> HIDE DEF g
      <4> QED BY <2>3, <4>1, Zenon
    <3>2. CASE i = m + 1
      <4>1. i # 0 /\ g[i] = ReadField(f[m], kinds[(m + 1)], p) /\ g[i - 1] = f[m] /\ m + 1 = i
        BY <3>2
      <4> HIDE DEF g
      <4> QED BY <4>1
    <3> QED BY <3>1, <3>2
  <2>5. g = [i \in 0..(m + 1) |-> g[i]]
    OBVIOUS
  <2>6. g = Body(g, m + 1)
    <3> HIDE DEF g
    <3> QED BY <2>4, <2>5
  <2> HIDE DEF g
  <2> QED BY <2>6
<1>3. Len(kinds) \in S
  <2> HIDE DEF S
  <2> QED BY <1>1, <1>2, Induction
<1>4. \E f : f = Body(f, Len(kinds))
  BY <1>3
<1> DEFINE h == CHOOSE f : f = Body(f, Len(kinds))
<1>5. h = Body(h, Len(kinds))
  <2> HIDE DEF Body
  <2> QED BY <1>4
<1>6. ReadFields(c, kinds, p) = h[Len(kinds)]
  BY Zenon DEF ReadFields
<1>7. 0 \in 0..Len(kinds)
  OBVIOUS
<1> HIDE DEF h
<1>8. \A i \in 0..Len(kinds) : h[i] = IF i = 0 THEN c ELSE ReadField(h[i - 1], kinds[i], p)
  BY <1>5
<1>9. \A i \in 1..Len(kinds) : i \in 0..Len(kinds) /\ i # 0
  OBVIOUS
<1> QED BY <1>6, <1>7, <1>8, <1>9, Zenon

(* The cursors that ReadElements passes through.                           *)
LEMMA ReadElementsChain ==
  ASSUME NEW c, NEW p, NEW kinds, NEW n \in Nat
  PROVE  \E d : /\ d[0] = c
                /\ \A i \in 1..n : d[i] = ReadElement(d[i - 1], kinds, p)
                /\ ReadElements(c, n, kinds, p) = d[n]
<1> DEFINE Body(f, m) == [i \in 0..m |-> IF i = 0 THEN c ELSE ReadElement(f[i - 1], kinds, p)]
           S == { m \in Nat : m <= n => \E f : f = Body(f, m) }
<1>1. 0 \in S
  <2> DEFINE f == [i \in 0..0 |-> c]
  <2>1. f = Body(f, 0)
    OBVIOUS
  <2> QED BY <2>1
<1>2. ASSUME NEW m \in Nat, m \in S PROVE m + 1 \in S
  <2>1. SUFFICES ASSUME m + 1 <= n PROVE \E g : g = Body(g, m + 1)
    OBVIOUS
  <2>2. PICK f : f = Body(f, m)
    BY <1>2, <2>1
  <2> DEFINE g == [i \in 0..(m + 1) |-> IF i <= m THEN f[i] ELSE ReadElement(f[m], kinds, p)]
  <2>3. \A i \in 0..m : f[i] = IF i = 0 THEN c ELSE ReadElement(f[i - 1], kinds, p)
    BY <2>2
  <2>4. ASSUME NEW i \in 0..(m + 1)
        PROVE  g[i] = IF i = 0 THEN c ELSE ReadElement(g[i - 1], kinds, p)
    <3>1. CASE i <= m
      <4>1. i \in 0..m /\ g[i] = f[i] /\ (i # 0 => g[i - 1] = f[i - 1])
        BY <3>1
      <4> HIDE DEF g
      <4> QED BY <2>3, <4>1, Zenon
    <3>2. CASE i = m + 1
      <4>1. i # 0 /\ g[i] = ReadElement(f[m], kinds, p) /\ g[i - 1] = f[m] /\ m + 1 = i
        BY <3>2
      <4> HIDE DEF g
      <4> QED BY <4>1
    <3> QED BY <3>1, <3>2
  <2>5. g = [i \in 0..(m + 1) |-> g[i]]
    OBVIOUS
  <2>6. g = Body(g, m + 1)
    <3> HIDE DEF g
    <3> QED BY <2>4, <2>5
  <2> HIDE DEF g
  <2> QED BY <2>6
<1>3. n \in S
  <2> HIDE DEF S
  <2> QED BY <1>1, <1>2, Induction
<1>4. \E f : f = Body(f, n)
  BY <1>3
<1> DEFINE h == CHOOSE f : f = Body(f, n)
<1>5. h = Body(h, n)
  <2> HIDE DEF Body
  <2> QED BY <1>4
<1>6. ReadElements(c, n, kinds, p) = h[n]
  BY Zenon DEF ReadElements
<1>7. 0 \in 0..n
  OBVIOUS
<1> HIDE DEF h
<1>8. \A i \in 0..n : h[i] = IF i = 0 THEN c ELSE ReadElement(h[i - 1], kinds, p)
  BY <1>5
<1>9. \A i \in 1..n : i \in 0..n /\ i # 0
  OBVIOUS
<1> QED BY <1>6, <1>7, <1>8, <1>9, Zenon

(* The cursors that Parse passes through.                                  *)
LEMMA ParseChain ==
  ASSUME NEW bytes, NEW p
  PROVE  \E d : /\ d[0] = Cursor(bytes)
                /\ \A i \in 1..13 : d[i] = ReadRecordField(d[i - 1], RecordFields[i], p)
                /\ Parse(bytes, p) = d[13]
<1>0. Len(RecordFields) = 13
  BY DEF RecordFields
<1> DEFINE Body(f, m) == [i \in 0..m |-> IF i = 0 THEN Cursor(bytes) ELSE ReadRecordField(f[i - 1], RecordFields[i], p)]
           S == { m \in Nat : m <= 13 => \E f : f = Body(f, m) }
<1>1. 0 \in S
  <2> DEFINE f == [i \in 0..0 |-> Cursor(bytes)]
  <2>1. f = Body(f, 0)
    OBVIOUS
  <2> QED BY <2>1
<1>2. ASSUME NEW m \in Nat, m \in S PROVE m + 1 \in S
  <2>1. SUFFICES ASSUME m + 1 <= 13 PROVE \E g : g = Body(g, m + 1)
    OBVIOUS
  <2>2. PICK f : f = Body(f, m)
    BY <1>2, <2>1
  <2> DEFINE g == [i \in 0..(m + 1) |-> IF i <= m THEN f[i] ELSE ReadRecordField(f[m], RecordFields[(m + 1)], p)]
  <2>3. \A i \in 0..m : f[i] = IF i = 0 THEN Cursor(bytes) ELSE ReadRecordField(f[i - 1], RecordFields[i], p)
    BY <2>2
  <2>4. ASSUME NEW i \in 0..(m + 1)
        PROVE  g[i] = IF i = 0 THEN Cursor(bytes) ELSE ReadRecordField(g[i - 1], RecordFields[i], p)
    <3>1. CASE i <= m
      <4>1. i \in 0..m /\ g[i] = f[i] /\ (i # 0 => g[i - 1] = f[i - 1])
        BY <3>1
      <4> HIDE DEF g
      <4> QED BY <2>3, <4>1, Zenon
    <3>2. CASE i = m + 1
      <4>1. i # 0 /\ g[i] = ReadRecordField(f[m], RecordFields[(m + 1)], p) /\ g[i - 1] = f[m] /\ m + 1 = i
        BY <3>2
      <4> HIDE DEF g
      <4> QED BY <4>1
    <3> QED BY <3>1, <3>2
  <2>5. g = [i \in 0..(m + 1) |-> g[i]]
    OBVIOUS
  <2>6. g = Body(g, m + 1)
    <3> HIDE DEF g
    <3> QED BY <2>4, <2>5
  <2> HIDE DEF g
  <2> QED BY <2>6
<1>3. 13 \in S
  <2> HIDE DEF S
  <2> QED BY <1>1, <1>2, Induction
<1>4. \E f : f = Body(f, 13)
  BY <1>3
<1> DEFINE h == CHOOSE f : f = Body(f, 13)
<1>5. h = Body(h, 13)
  <2> HIDE DEF Body
  <2> QED BY <1>4
<1>6. Parse(bytes, p) = h[13]
  BY <1>0 DEF Parse
<1>7. 0 \in 0..13
  OBVIOUS
<1> HIDE DEF h
<1>8. \A i \in 0..13 : h[i] = IF i = 0 THEN Cursor(bytes) ELSE ReadRecordField(h[i - 1], RecordFields[i], p)
  BY <1>5
<1>9. \A i \in 1..13 : i \in 0..13 /\ i # 0
  OBVIOUS
<1> QED BY <1>6, <1>7, <1>8, <1>9, Zenon

(* The errors of the reader, and cursors whose values are in V.            *)
ReadErrors ==
  {"Truncated", "LengthLimit", "IdentifierLength", "InvalidUtf8", "UnsupportedFormat",
   "TrailingBytes"}

Cursors(V) == [rest : Bytes, got : Seq(V), error : ReadErrors \cup {"ok"}]

(* Concatenation of byte strings.                                          *)
LEMMA BytesConcat ==
  ASSUME NEW x \in Bytes, NEW y \in Bytes
  PROVE  x \o y \in Bytes
BY ConcatProperties DEF Bytes

(* Byte strings put end to end, in either grouping.                        *)
LEMMA BytesAssociate ==
  ASSUME NEW x \in Bytes, NEW y \in Bytes, NEW z \in Bytes
  PROVE  (x \o y) \o z = x \o (y \o z)
<1>1. PICK S : Bytes = Seq(S)
  BY DEF Bytes
<1>2. x \in Seq(S) /\ y \in Seq(S) /\ z \in Seq(S)
  BY <1>1
<1> QED BY <1>2, ConcatAssociative

(* Nothing before a byte string.                                           *)
LEMMA BytesEmpty ==
  ASSUME NEW x \in Bytes
  PROVE  <<>> \o x = x
BY ConcatEmptySeq DEF Bytes

(* Appending one piece to a sequence of pieces appends to their bytes.     *)
LEMMA FlattenOneMore ==
  ASSUME NEW S, NEW qs \in Seq(Seq(S)), NEW q \in Seq(S)
  PROVE  /\ Append(qs, q) \in Seq(Seq(S)) /\ Len(Append(qs, q)) = Len(qs) + 1
         /\ Append(qs, q)[Len(qs) + 1] = q
         /\ \A i \in 1..Len(qs) : Append(qs, q)[i] = qs[i]
         /\ FlattenSeq(qs) \in Seq(S)
         /\ FlattenSeq(Append(qs, q)) = FlattenSeq(qs) \o q
<1> DEFINE t == Append(qs, q)
<1>1. /\ t \in Seq(Seq(S)) /\ Len(t) = Len(qs) + 1 /\ Len(qs) \in Nat
      /\ t[Len(qs) + 1] = q
      /\ \A i \in 1..Len(qs) : t[i] = qs[i]
  <2> DEFINE Q == Seq(S)
  <2> HIDE DEF Q
  <2>1. qs \in Seq(Q) /\ q \in Q
    BY DEF Q
  <2>2. /\ t \in Seq(Q) /\ Len(t) = Len(qs) + 1 /\ Len(qs) \in Nat
        /\ t[Len(qs) + 1] = q
        /\ \A i \in 1..Len(qs) : t[i] = qs[i]
    BY <2>1
  <2> QED BY <2>2 DEF Q
<1> HIDE DEF t
<1>2. FlattenSeq(qs) \in Seq(S) /\ FlattenSeq(t) = FlattenSeq(qs) \o t[Len(qs) + 1]
  BY <1>1, FlattenAppend
<1>3. FlattenSeq(t) = FlattenSeq(qs) \o q
  BY <1>1, <1>2
<1> QED BY <1>1, <1>2, <1>3 DEF t

(* Cursors that each read one value more, written as one piece of bytes: R *)
(* relates the position, the value and the piece.                          *)
Links(V, R, n, d) ==
  \A i \in 1..n : d[i].error = "ok" =>
    /\ d[i - 1].error = "ok"
    /\ \E v \in V, q \in Bytes :
         /\ <<i, v, q>> \in R
         /\ d[i].got = Append(d[i - 1].got, v)
         /\ d[i - 1].rest = q \o d[i].rest

(* Cursors that read the next of the pieces qs, which hold the values vs,  *)
(* unless something refuses; nothing does when all fits.                   *)
Follows(vs, qs, t, n, d, fits) ==
  /\ d[0].got = <<>> /\ d[0].error = "ok" /\ d[0].rest = FlattenSeq(qs) \o t
  /\ \A i \in 1..n : d[i].error = "ok" => d[i - 1].error = "ok"
  /\ \A i \in 1..n, u \in Bytes :
       d[i - 1].error = "ok" /\ d[i - 1].rest = qs[i] \o u =>
         /\ d[i].error = "ok" => d[i].rest = u /\ d[i].got = Append(d[i - 1].got, vs[i])
         /\ fits = TRUE => d[i].error = "ok"

(* The first m of them hold a value each, and the pieces qs were read.     *)
HasRead(R, m, d, qs) ==
  /\ d[0].error = "ok"
  /\ Len(qs) = m /\ Len(d[m].got) = m
  /\ \A i \in 1..m : <<i, d[m].got[i], qs[i]>> \in R
  /\ d[0].rest = FlattenSeq(qs) \o d[m].rest

(* All values are in the cursor in the end, and all bytes were read.       *)
LEMMA ChainSound ==
  ASSUME NEW V, NEW R, NEW n \in Nat, NEW d,
         \A i \in 0..n : d[i] \in Cursors(V),
         d[0].got = <<>>,
         Links(V, R, n, d),
         d[n].error = "ok"
  PROVE  \E qs \in Seq(Bytes) : HasRead(R, n, d, qs)
<1> DEFINE Read(m, qs) == HasRead(R, m, d, qs)
           Claim(m) == m <= n /\ d[m].error = "ok" => \E qs \in Seq(Bytes) : Read(m, qs)
           S == { m \in Nat : Claim(m) }
<1>1. 0 \in S
  <2> DEFINE e == <<>>
  <2>1. e \in Seq(Bytes) /\ Len(e) = 0 /\ FlattenSeq(e) = <<>> /\ Len(d[0].got) = 0
    BY FlattenEmpty
  <2>2. d[0].rest \in Bytes
    BY DEF Cursors
  <2>3. d[0].rest = FlattenSeq(e) \o d[0].rest
    BY <2>1, <2>2, BytesEmpty
  <2> HIDE DEF e
  <2>4. d[0].error = "ok" => Read(0, e)
    BY <2>1, <2>3 DEF HasRead
  <2> QED BY <2>1, <2>4
<1>2. ASSUME NEW m \in Nat, m \in S PROVE m + 1 \in S
  <2>0. SUFFICES Claim(m + 1)
    <3> HIDE DEF Claim
    <3> QED OBVIOUS
  <2>1. SUFFICES ASSUME m + 1 <= n, d[m + 1].error = "ok"
                 PROVE  \E qs \in Seq(Bytes) : Read(m + 1, qs)
    BY Zenon
  <2>2. m + 1 \in 1..n /\ (m + 1) - 1 = m /\ m <= n /\ m \in 0..n /\ m + 1 \in 0..n
    BY <2>1
  <2>3. PICK v \in V, q \in Bytes :
          /\ <<m + 1, v, q>> \in R
          /\ d[m + 1].got = Append(d[m].got, v)
          /\ d[m].rest = q \o d[m + 1].rest
    BY <2>1, <2>2 DEF Links
  <2>4. d[m].error = "ok"
    BY <2>1, <2>2 DEF Links
  <2>13. PICK qs \in Seq(Bytes) : Read(m, qs)
    BY <1>2, <2>2, <2>4
  <2>5. /\ Len(qs) = m /\ Len(d[m].got) = m
        /\ \A i \in 1..m : <<i, d[m].got[i], qs[i]>> \in R
        /\ d[0].rest = FlattenSeq(qs) \o d[m].rest
    BY <2>13 DEF HasRead
  <2> DEFINE t == Append(qs, q)
  <2>6. /\ t \in Seq(Bytes) /\ Len(t) = m + 1 /\ t[m + 1] = q
        /\ \A i \in 1..m : t[i] = qs[i]
        /\ FlattenSeq(qs) \in Bytes /\ FlattenSeq(t) = FlattenSeq(qs) \o q
    BY <2>5, FlattenOneMore DEF Bytes
  <2>7. d[m] \in Cursors(V) /\ d[m + 1] \in Cursors(V)
    BY <2>2
  <2>8. d[m].got \in Seq(V) /\ d[m + 1].rest \in Bytes
    BY <2>7 DEF Cursors
  <2>9. d[0].rest = FlattenSeq(t) \o d[m + 1].rest
    <3>1. d[0].rest = FlattenSeq(qs) \o (q \o d[m + 1].rest)
      BY <2>3, <2>5
    <3>2. (FlattenSeq(qs) \o q) \o d[m + 1].rest = FlattenSeq(qs) \o (q \o d[m + 1].rest)
      BY <2>6, <2>8, BytesAssociate, Zenon
    <3> HIDE DEF t
    <3> QED BY <3>1, <3>2, <2>6, Zenon
  <2>10. Len(d[m + 1].got) = m + 1
    BY <2>3, <2>5, <2>8
  <2>11. ASSUME NEW i \in 1..(m + 1) PROVE <<i, d[m + 1].got[i], t[i]>> \in R
    <3>1. CASE i = m + 1
      <4>1. d[m + 1].got[i] = v
        BY <2>3, <2>5, <2>8, <3>1
      <4> HIDE DEF t
      <4> QED BY <4>1, <3>1, <2>3, <2>6
    <3>2. CASE i \in 1..m
      <4>1. d[m + 1].got[i] = d[m].got[i]
        BY <2>3, <2>5, <2>8, <3>2
      <4>2. <<i, d[m].got[i], qs[i]>> \in R
        BY <2>5, <3>2
      <4>3. t[i] = qs[i]
        BY <2>6, <3>2
      <4> HIDE DEF t
      <4> QED BY <4>1, <4>2, <4>3
    <3> HIDE DEF t
    <3> QED BY <3>1, <3>2
  <2> HIDE DEF t
  <2>12. Read(m + 1, t)
    BY <2>6, <2>9, <2>10, <2>11, <2>13 DEF HasRead
  <2> QED BY <2>6, <2>12
<1>3. n \in S
  <2> HIDE DEF S
  <2> QED BY <1>1, <1>2, Induction
<1>4. Claim(n)
  <2> HIDE DEF Claim
  <2> QED BY <1>3
<1> QED BY <1>4

Ends(vs, t, n, d, fits) ==
  /\ d[n].error = "ok" => d[n].rest = t /\ d[n].got = vs
  /\ fits = TRUE => d[n].error = "ok"

(* Such cursors read all of the pieces if nothing refuses.                 *)
LEMMA ChainComplete ==
  ASSUME NEW V, NEW n \in Nat, NEW d, NEW fits,
         NEW vs \in Seq(V), Len(vs) = n, NEW qs \in Seq(Bytes), Len(qs) = n, NEW t \in Bytes,
         \A i \in 0..n : d[i] \in Cursors(V),
         Follows(vs, qs, t, n, d, fits)
  PROVE  Ends(vs, t, n, d, fits)
<1> DEFINE P(m) == SubSeq(qs, 1, m)
           Got(m) == Len(d[m].got) = m /\ \A i \in 1..m : d[m].got[i] = vs[i]
           Claim(m) == m <= n => \A u \in Bytes :
                         d[0].rest = FlattenSeq(P(m)) \o u =>
                           /\ d[m].error = "ok" => d[m].rest = u /\ Got(m)
                           /\ fits = TRUE => d[m].error = "ok"
           S == { m \in Nat : Claim(m) }
<1>1. ASSUME NEW m \in 0..n
      PROVE  P(m) \in Seq(Bytes) /\ Len(P(m)) = m /\ \A i \in 1..m : P(m)[i] = qs[i]
  <2> HIDE DEF P
  <2>1. \A i \in 1..m : qs[i] \in Bytes
    OBVIOUS
  <2> QED BY <2>1, SubSeqProperties DEF P
<1>2. 0 \in S
  <2>0. SUFFICES Claim(0)
    BY Zenon
  <2>1. SUFFICES ASSUME NEW u \in Bytes, d[0].rest = FlattenSeq(P(0)) \o u
                 PROVE  d[0].rest = u /\ Got(0) /\ d[0].error = "ok"
    BY Zenon
  <2>2. P(0) = <<>>
    BY <1>1
  <2>3. FlattenSeq(P(0)) = <<>>
    BY <2>2, FlattenEmpty
  <2>4. <<>> \o u = u
    BY BytesEmpty
  <2>5. d[0].rest = u
    <3> HIDE DEF P, Got
    <3> QED BY <2>1, <2>3, <2>4
  <2>6. Got(0)
    BY DEF Follows
  <2> QED BY <2>5, <2>6 DEF Follows
<1>3. ASSUME NEW m \in Nat, m \in S PROVE m + 1 \in S
  <2>0. SUFFICES Claim(m + 1)
    <3> HIDE DEF Claim
    <3> QED OBVIOUS
  <2>1. SUFFICES ASSUME m + 1 <= n, NEW u \in Bytes, d[0].rest = FlattenSeq(P(m + 1)) \o u
                 PROVE  /\ d[m + 1].error = "ok" => d[m + 1].rest = u /\ Got(m + 1)
                        /\ fits = TRUE => d[m + 1].error = "ok"
    BY Zenon
  <2>2. m + 1 \in 1..n /\ (m + 1) - 1 = m /\ m <= n /\ m \in 0..n /\ m + 1 \in 0..n
    BY <2>1
  <2> DEFINE a == P(m)
             b == P(m + 1)
             y == qs[m + 1]
             w == y \o u
  <2>3. /\ a \in Seq(Bytes) /\ Len(a) = m /\ \A i \in 1..m : a[i] = qs[i]
        /\ b \in Seq(Bytes) /\ Len(b) = m + 1 /\ \A i \in 1..(m + 1) : b[i] = qs[i]
    <3> HIDE DEF P
    <3> QED BY <1>1, <2>2
  <2>4. y \in Bytes
    BY <2>2
  <2> HIDE DEF a, b
  <2>5. b[m + 1] = y /\ \A i \in 1..m : b[i] = a[i]
    BY <2>3
  <2> HIDE DEF y
  <2>6. FlattenSeq(a) \in Bytes /\ FlattenSeq(b) = FlattenSeq(a) \o y
    BY <2>3, <2>5, FlattenAppend DEF Bytes
  <2>7. w \in Bytes /\ (FlattenSeq(a) \o y) \o u = FlattenSeq(a) \o w
    BY <2>4, <2>6, BytesConcat, BytesAssociate, Zenon
  <2> HIDE DEF w
  <2>8. d[0].rest = FlattenSeq(P(m)) \o w
    <3>1. d[0].rest = FlattenSeq(b) \o u
      BY <2>1 DEF b
    <3> QED BY <3>1, <2>6, <2>7, Zenon DEF a
  <2>9. /\ d[m].error = "ok" => d[m].rest = w /\ Got(m)
        /\ fits = TRUE => d[m].error = "ok"
    <3>1. Claim(m)
      BY <1>3, Zenon
    <3> HIDE DEF P, Got
    <3> QED BY <3>1, <2>2, <2>7, <2>8
  <2>10. d[m].error = "ok" =>
           /\ d[m + 1].error = "ok" => d[m + 1].rest = u /\ d[m + 1].got = Append(d[m].got, vs[m + 1])
           /\ fits = TRUE => d[m + 1].error = "ok"
    <3> HIDE DEF P, Got
    <3>1. d[m].error = "ok" => d[(m + 1) - 1].error = "ok" /\ d[(m + 1) - 1].rest = qs[m + 1] \o u
      BY <2>2, <2>9 DEF w, y
    <3> QED BY <3>1, <2>2 DEF Follows
  <2>11. d[m + 1].error = "ok" => d[m].error = "ok"
    BY <2>2 DEF Follows
  <2>12. ASSUME d[m + 1].error = "ok" PROVE Got(m + 1)
    <3>1. d[m].got \in Seq(V) /\ vs[m + 1] \in V
      BY <2>2 DEF Cursors
    <3>2. d[m + 1].got = Append(d[m].got, vs[m + 1]) /\ Len(d[m].got) = m
          /\ \A i \in 1..m : d[m].got[i] = vs[i]
      <4> HIDE DEF P, w
      <4> QED BY <2>9, <2>10, <2>11, <2>12
    <3>3. Len(d[m + 1].got) = m + 1
      BY <3>1, <3>2
    <3>4. ASSUME NEW i \in 1..(m + 1) PROVE d[m + 1].got[i] = vs[i]
      <4>1. CASE i = m + 1
        BY <3>1, <3>2, <4>1
      <4>2. CASE i \in 1..m
        BY <3>1, <3>2, <4>2
      <4> QED BY <4>1, <4>2
    <3> QED BY <3>3, <3>4
  <2> HIDE DEF P, Got, w
  <2> QED BY <2>9, <2>10, <2>11, <2>12
<1>4. n \in S
  <2> HIDE DEF S
  <2> QED BY <1>2, <1>3, Induction
<1>5. P(n) = qs
  BY SubSeqFull
<1>6. /\ d[n].error = "ok" => d[n].rest = t /\ Got(n)
      /\ fits = TRUE => d[n].error = "ok"
  <2>1. Claim(n)
    BY <1>4, Zenon
  <2> HIDE DEF P, Got
  <2> QED BY <2>1, <1>5 DEF Follows
<1>7. ASSUME Got(n) PROVE d[n].got = vs
  <2>1. d[n].got \in Seq(V)
    BY DEF Cursors
  <2> QED BY <1>7, <2>1, SeqEqual
<1> QED BY <1>6, <1>7 DEF Ends
-----------------------------------------------------------------------------
(* The reader: numbers, strings of bytes and texts.                        *)

Fields     == Nat \cup Bytes
NumberKinds == {"number", "format", "suite"}
FieldKinds == NumberKinds \cup {"bytes", "string", "record domain", "context domain"}

(* The values of a field of some kind, their bytes, and the values that    *)
(* the reader's limits let through.                                        *)
ValuesOf(kind) ==
  CASE kind = "number"         -> Nat
    [] kind = "bytes"          -> Bytes
    [] kind = "string"         -> Texts
    [] kind = "format"         -> {FormatVersion}
    [] kind = "suite"          -> Suites
    [] kind = "record domain"  -> {RecordDomain}
    [] kind = "context domain" -> {ContextDomain}

Piece(kind, v) == IF kind \in NumberKinds THEN <<v>> ELSE Prefixed(v)

Fits(kind, v, p) ==
  /\ kind \notin NumberKinds => Len(v) <= TakeLimit(p)
  /\ kind = "string" => Len(v) <= p.max_identifier_bytes

(* take_bytes reads at least the floor and the ciphertext limit.           *)
LEMMA TakeLimitBounds ==
  ASSUME NEW p \in ValidationPolicies
  PROVE  /\ TakeLimit(p) \in Nat /\ TakeLimit(p) >= LengthFloor
         /\ TakeLimit(p) >= p.max_ciphertext_bytes
<1> DEFINE m == p.max_ciphertext_bytes
           S == {m, LengthFloor}
<1>1. m \in Nat /\ LengthFloor \in Nat
  BY LengthAssumption DEF ValidationPolicies
<1>2. \E x \in S : \A y \in S : x >= y
  <2>1. CASE m >= LengthFloor BY <1>1, <2>1
  <2>2. CASE ~ (m >= LengthFloor) BY <1>1, <2>2
  <2> QED BY <2>1, <2>2
<1>3. Max(S) \in S /\ \A y \in S : Max(S) >= y
  <2> HIDE DEF S
  <2> QED BY <1>2 DEF Max
<1> QED BY <1>1, <1>3 DEF TakeLimit

(* Texts are byte strings.                                                 *)
LEMMA TextsAreBytes == Texts \subseteq Bytes
BY DEF Texts, Bytes

(* push_bytes writes one atom more than the string has.                    *)
LEMMA PrefixedIsBytes ==
  ASSUME NEW s \in Bytes
  PROVE  Prefixed(s) \in Bytes /\ Len(Prefixed(s)) = Len(s) + 1
<1>1. Len(s) \in Nat /\ <<Len(s)>> \in Bytes /\ Len(<<Len(s)>>) = 1
  BY DEF Bytes
<1> DEFINE x == <<Len(s)>>
<1>2. x \o s \in Bytes /\ Len(x \o s) = Len(x) + Len(s)
  <2> HIDE DEF x
  <2>1. x \in Bytes BY <1>1 DEF x
  <2> QED BY <2>1, ConcatProperties DEF Bytes
<1> HIDE DEF x
<1> QED BY <1>1, <1>2 DEF Prefixed, x

(* take_u64, take_u32 and take_array leave a cursor.                       *)
LEMMA TakeNumberTyped ==
  ASSUME NEW V, Fields \subseteq V, NEW c \in Cursors(V)
  PROVE  TakeNumber(c) \in Cursors(V)
<1>1. c.rest \in Seq(Nat) /\ c.got \in Seq(V)
  BY DEF Cursors, Bytes
<1>2. CASE c.rest = <<>>
  BY <1>2 DEF TakeNumber, Fail, Cursors, ReadErrors
<1>3. CASE c.rest # <<>>
  <2>1. Head(c.rest) \in V /\ Tail(c.rest) \in Bytes
    BY <1>1, <1>3 DEF Fields, Bytes
  <2>2. Append(c.got, Head(c.rest)) \in Seq(V)
    BY <1>1, <2>1
  <2> QED BY <1>3, <2>1, <2>2 DEF TakeNumber, Cursors
<1> QED BY <1>2, <1>3

(* They take the atom that came next.                                      *)
LEMMA TakeNumberSound ==
  ASSUME NEW V, NEW c \in Cursors(V), TakeNumber(c).error = "ok"
  PROVE  \E v \in Nat : /\ TakeNumber(c).got = Append(c.got, v)
                        /\ c.rest = <<v>> \o TakeNumber(c).rest
<1>1. c.rest # <<>>
  BY DEF TakeNumber, Fail, Cursors
<1>2. TakeNumber(c) = [c EXCEPT !.rest = Tail(@), !.got = Append(@, Head(c.rest))]
  BY <1>1 DEF TakeNumber
<1>3. TakeNumber(c).got = Append(c.got, Head(c.rest)) /\ TakeNumber(c).rest = Tail(c.rest)
  BY <1>2 DEF Cursors
<1>4. Head(c.rest) \in Nat /\ c.rest = <<Head(c.rest)>> \o Tail(c.rest)
  BY <1>1, ConsHeadTail DEF Cursors, Bytes
<1> QED BY <1>3, <1>4

(* They take any atom there is.                                            *)
LEMMA TakeNumberComplete ==
  ASSUME NEW V, NEW c \in Cursors(V), c.error = "ok",
         NEW v \in Nat, NEW u \in Bytes, c.rest = <<v>> \o u
  PROVE  /\ TakeNumber(c).error = "ok" /\ TakeNumber(c).rest = u
         /\ TakeNumber(c).got = Append(c.got, v)
<1>1. c.rest # <<>> /\ Head(c.rest) = v /\ Tail(c.rest) = u
  BY HeadTailCons DEF Bytes
<1> QED BY <1>1 DEF TakeNumber, Cursors

(* take_exact takes the n atoms that came next, if it takes anything.      *)
LEMMA TakeExactTyped ==
  ASSUME NEW V, Fields \subseteq V, NEW c \in Cursors(V), NEW n \in Nat
  PROVE  /\ TakeExact(c, n) \in Cursors(V)
         /\ TakeExact(c, n).error = "ok" =>
              \E v \in Bytes : /\ Len(v) = n /\ TakeExact(c, n).got = Append(c.got, v)
                               /\ c.rest = v \o TakeExact(c, n).rest
<1>1. CASE n > Len(c.rest)
  BY <1>1 DEF TakeExact, Fail, Cursors, ReadErrors
<1>2. CASE ~ (n > Len(c.rest))
  <2> DEFINE v == SubSeq(c.rest, 1, n)
             u == SubSeq(c.rest, n + 1, Len(c.rest))
  <2>1. c.rest \in Seq(Nat) /\ n \in 0..Len(c.rest) /\ c.got \in Seq(V)
    BY <1>2 DEF Cursors, Bytes
  <2>2. v \in Bytes /\ u \in Bytes /\ Len(v) = n
    BY <2>1, Split DEF Bytes
  <2>3. c.rest = v \o u
    BY <2>1, Split
  <2>4. TakeExact(c, n) = [c EXCEPT !.rest = u, !.got = Append(@, v)]
    BY <1>2 DEF TakeExact
  <2> HIDE DEF u, v
  <2>5. v \in V /\ Append(c.got, v) \in Seq(V)
    BY <2>1, <2>2 DEF Fields
  <2>6. TakeExact(c, n) \in Cursors(V) /\ TakeExact(c, n).rest = u /\ TakeExact(c, n).got = Append(c.got, v)
    BY <2>2, <2>4, <2>5 DEF Cursors
  <2> QED BY <2>2, <2>3, <2>6
<1> QED BY <1>1, <1>2 DEF Cursors, Bytes

(* take_exact takes as many atoms as are there.                            *)
LEMMA TakeExactComplete ==
  ASSUME NEW V, NEW c \in Cursors(V), c.error = "ok",
         NEW v \in Bytes, NEW u \in Bytes, c.rest = v \o u
  PROVE  /\ TakeExact(c, Len(v)).error = "ok" /\ TakeExact(c, Len(v)).rest = u
         /\ TakeExact(c, Len(v)).got = Append(c.got, v)
<1>1. /\ SubSeq(c.rest, 1, Len(v)) = v
      /\ SubSeq(c.rest, Len(v) + 1, Len(c.rest)) = u
      /\ Len(c.rest) = Len(v) + Len(u) /\ Len(v) \in Nat /\ Len(u) \in Nat
  BY Join DEF Bytes
<1>2. ~ (Len(v) > Len(c.rest))
  BY <1>1
<1>3. TakeExact(c, Len(v)) = [c EXCEPT !.rest = u, !.got = Append(@, v)]
  BY <1>1, <1>2 DEF TakeExact
<1> QED BY <1>3 DEF Cursors

(* take_len takes one atom, a length within the limit.                     *)
LEMMA TakeLengthTyped ==
  ASSUME NEW V, NEW c \in Cursors(V), NEW limit \in Nat
  PROVE  /\ TakeLength(c, limit) \in Cursors(V)
         /\ TakeLength(c, limit).error = "ok" =>
              /\ c.rest # <<>> /\ Head(c.rest) \in Nat /\ Head(c.rest) <= limit
              /\ c.error = "ok" /\ TakeLength(c, limit).got = c.got
              /\ c.rest = <<Head(c.rest)>> \o TakeLength(c, limit).rest
<1> DEFINE d == TakeLength(c, limit)
<1>1. CASE c.rest = <<>>
  BY <1>1 DEF TakeLength, Fail, Cursors, ReadErrors
<1>2. CASE c.rest # <<>> /\ Head(c.rest) > limit
  BY <1>2 DEF TakeLength, Fail, Cursors, ReadErrors
<1>3. CASE c.rest # <<>> /\ ~ (Head(c.rest) > limit)
  <2>1. d = [c EXCEPT !.rest = Tail(@)]
    BY <1>3 DEF TakeLength
  <2>2. Head(c.rest) \in Nat /\ Tail(c.rest) \in Bytes
    BY <1>3, ConsHeadTail DEF Cursors, Bytes
  <2>3. c.rest = <<Head(c.rest)>> \o Tail(c.rest)
    BY <1>3, ConsHeadTail DEF Cursors, Bytes
  <2>4. d \in Cursors(V) /\ d.rest = Tail(c.rest) /\ d.got = c.got /\ d.error = c.error
    BY <2>1, <2>2 DEF Cursors
  <2> HIDE DEF d
  <2>5. Head(c.rest) <= limit
    BY <1>3, <2>2
  <2>6. c.rest = <<Head(c.rest)>> \o d.rest
    BY <2>3, <2>4, Zenon
  <2> QED BY <1>3, <2>2, <2>4, <2>5, <2>6 DEF d
<1> QED BY <1>1, <1>2, <1>3

(* take_len takes any length within the limit.                             *)
LEMMA TakeLengthComplete ==
  ASSUME NEW V, NEW c \in Cursors(V), NEW limit \in Nat, c.error = "ok",
         NEW n \in Nat, NEW u \in Bytes, c.rest = <<n>> \o u
  PROVE  /\ Head(c.rest) = n
         /\ TakeLength(c, limit).error = "ok" => TakeLength(c, limit) = [c EXCEPT !.rest = u]
         /\ n <= limit => TakeLength(c, limit).error = "ok"
<1>1. c.rest # <<>> /\ Head(c.rest) = n /\ Tail(c.rest) = u
  BY HeadTailCons DEF Bytes
<1>2. CASE n > limit
  BY <1>1, <1>2 DEF TakeLength, Fail, Cursors
<1>3. CASE ~ (n > limit)
  BY <1>1, <1>3 DEF TakeLength, Cursors
<1> QED BY <1>1, <1>2, <1>3

(* take_bytes takes a string that came next behind its own length.         *)
LEMMA TakeBytesSound ==
  ASSUME NEW V, Fields \subseteq V, NEW c \in Cursors(V), NEW p \in ValidationPolicies
  PROVE  /\ TakeBytes(c, p) \in Cursors(V)
         /\ TakeBytes(c, p).error = "ok" =>
              /\ c.error = "ok"
              /\ \E v \in Bytes : /\ TakeBytes(c, p).got = Append(c.got, v)
                                  /\ c.rest = Prefixed(v) \o TakeBytes(c, p).rest
<1> DEFINE d == TakeLength(c, TakeLimit(p))
           e == TakeExact(d, Head(c.rest))
           n == Head(c.rest)
<1>1. /\ d \in Cursors(V)
      /\ d.error = "ok" =>
           /\ n \in Nat /\ c.error = "ok" /\ d.got = c.got /\ c.rest = <<n>> \o d.rest
  <2>1. TakeLimit(p) \in Nat
    BY TakeLimitBounds
  <2> QED BY <2>1, TakeLengthTyped, Zenon
<1>2. CASE d.error # "ok"
  BY <1>1, <1>2 DEF TakeBytes
<1>3. CASE d.error = "ok"
  <2>1. TakeBytes(c, p) = e
    BY <1>3 DEF TakeBytes
  <2> HIDE DEF d
  <2>2. /\ e \in Cursors(V)
        /\ e.error = "ok" => \E v \in Bytes : /\ Len(v) = n /\ e.got = Append(d.got, v)
                                              /\ d.rest = v \o e.rest
    <3> HIDE DEF n
    <3>1. TakeExact(d, n) \in Cursors(V)
      BY <1>1, <1>3, TakeExactTyped
    <3>2. TakeExact(d, n).error = "ok" =>
            \E v \in Bytes : /\ Len(v) = n /\ TakeExact(d, n).got = Append(d.got, v)
                             /\ d.rest = v \o TakeExact(d, n).rest
      BY <1>1, <1>3, TakeExactTyped
    <3> QED BY <3>1, <3>2 DEF n
  <2> HIDE DEF e
  <2>3. ASSUME e.error = "ok"
        PROVE  \E v \in Bytes : e.got = Append(c.got, v) /\ c.rest = Prefixed(v) \o e.rest
    <3>1. PICK v \in Bytes : Len(v) = n /\ e.got = Append(d.got, v) /\ d.rest = v \o e.rest
      BY <2>2, <2>3
    <3>2. <<n>> \in Bytes /\ e.rest \in Bytes /\ d.got = c.got
      BY <1>1, <1>3, <2>2 DEF Bytes, Cursors
    <3>3. c.rest = <<n>> \o (v \o e.rest)
      BY <1>1, <1>3, <3>1, Zenon
    <3>4. (<<n>> \o v) \o e.rest = <<n>> \o (v \o e.rest)
      <4> DEFINE x == <<n>>
      <4>1. x \in Bytes
        BY <3>2
      <4> HIDE DEF x
      <4>2. (x \o v) \o e.rest = x \o (v \o e.rest)
        BY <4>1, <3>2, BytesAssociate, Zenon
      <4> QED BY <4>2 DEF x
    <3>5. Prefixed(v) = <<n>> \o v
      BY <3>1, Zenon DEF Prefixed
    <3>6. c.rest = Prefixed(v) \o e.rest
      BY <3>3, <3>4, <3>5, Zenon
    <3>7. e.got = Append(c.got, v)
      BY <3>1, <3>2, Zenon
    <3> QED BY <3>6, <3>7
  <2> QED BY <1>1, <1>3, <2>1, <2>2, <2>3, Zenon
<1> QED BY <1>2, <1>3

(* A prefixed string begins with its length.                               *)
LEMMA PrefixedThen ==
  ASSUME NEW v \in Bytes, NEW u \in Bytes
  PROVE  v \o u \in Bytes /\ Prefixed(v) \o u = <<Len(v)>> \o (v \o u)
<1> DEFINE x == <<Len(v)>>
<1>1. x \in Bytes
  BY DEF Bytes
<1> HIDE DEF x
<1>2. (x \o v) \o u = x \o (v \o u)
  BY <1>1, BytesAssociate, Zenon
<1>3. v \o u \in Bytes
  BY BytesConcat
<1> QED BY <1>2, <1>3 DEF x, Prefixed

(* take_bytes takes a prefixed string no longer than its limit.            *)
LEMMA TakeBytesComplete ==
  ASSUME NEW V, NEW c \in Cursors(V), NEW p \in ValidationPolicies, c.error = "ok",
         NEW v \in Bytes, NEW u \in Bytes, c.rest = Prefixed(v) \o u
  PROVE  /\ TakeBytes(c, p).error = "ok" => /\ TakeBytes(c, p).rest = u
                                            /\ TakeBytes(c, p).got = Append(c.got, v)
         /\ Len(v) <= TakeLimit(p) => TakeBytes(c, p).error = "ok"
<1> DEFINE d == TakeLength(c, TakeLimit(p))
           w == v \o u
           n == Len(v)
<1>1. w \in Bytes /\ c.rest = <<n>> \o w /\ n \in Nat /\ TakeLimit(p) \in Nat
  <2>1. n \in Nat
    BY DEF Bytes
  <2> QED BY <2>1, PrefixedThen, TakeLimitBounds, Zenon
<1>2. /\ Head(c.rest) = n
      /\ d.error = "ok" => d = [c EXCEPT !.rest = w]
      /\ n <= TakeLimit(p) => d.error = "ok"
  <2> HIDE DEF w, n
  <2> QED BY <1>1, TakeLengthComplete, Zenon
<1>3. CASE d.error # "ok"
  <2> HIDE DEF d
  <2> QED BY <1>2, <1>3 DEF TakeBytes, d
<1>4. CASE d.error = "ok"
  <2>1. TakeBytes(c, p) = TakeExact(d, n)
    <3> HIDE DEF n
    <3> QED BY <1>2, <1>4 DEF TakeBytes
  <2> HIDE DEF d
  <2>2. d \in Cursors(V) /\ d.error = "ok" /\ d.rest = w /\ d.got = c.got
    <3> HIDE DEF w
    <3> QED BY <1>1, <1>2, <1>4 DEF Cursors
  <2>3. /\ TakeExact(d, n).error = "ok" /\ TakeExact(d, n).rest = u
        /\ TakeExact(d, n).got = Append(d.got, v)
    BY <2>2, TakeExactComplete
  <2> QED BY <2>1, <2>2, <2>3, Zenon
<1> QED BY <1>3, <1>4

(* The last value of a cursor that has read one more.                      *)
LEMMA LastReadIs ==
  ASSUME NEW V, NEW c, NEW d, NEW v \in V, c.got \in Seq(V), d.got = Append(c.got, v)
  PROVE  LastRead(d) = v
BY DEF LastRead

(* What is UTF-8 is a text.                                                *)
LEMMA InTexts ==
  ASSUME NEW s \in Bytes
  PROVE  ToSet(s) \cap NotUtf8 = {} <=> s \in Texts
<1>1. s \in Seq(Nat) /\ Len(s) \in Nat
  BY DEF Bytes
<1>2. ToSet(s) = { s[i] : i \in 1..Len(s) }
  BY <1>1 DEF ToSet
<1>3. ASSUME ToSet(s) \cap NotUtf8 = {} PROVE s \in Texts
  <2>1. \A i \in 1..Len(s) : s[i] \in Nat \ NotUtf8
    BY <1>1, <1>2, <1>3
  <2> QED BY <1>1, <2>1 DEF Texts
<1>4. ASSUME s \in Texts PROVE ToSet(s) \cap NotUtf8 = {}
  <2>1. \A i \in 1..Len(s) : s[i] \notin NotUtf8
    BY <1>4 DEF Texts
  <2> QED BY <1>2, <2>1
<1> QED BY <1>3, <1>4

(* take_string takes a text that came next behind its length.              *)
LEMMA TakeStringSound ==
  ASSUME NEW V, Fields \subseteq V, NEW c \in Cursors(V), NEW p \in ValidationPolicies
  PROVE  /\ TakeString(c, p) \in Cursors(V)
         /\ TakeString(c, p).error = "ok" =>
              /\ c.error = "ok"
              /\ \E v \in Texts : /\ TakeString(c, p).got = Append(c.got, v)
                                  /\ c.rest = Prefixed(v) \o TakeString(c, p).rest
<1> DEFINE d == TakeBytes(c, p)
           e == TakeString(c, p)
<1>1. /\ d \in Cursors(V)
      /\ d.error = "ok" =>
           /\ c.error = "ok"
           /\ \E v \in Bytes : d.got = Append(c.got, v) /\ c.rest = Prefixed(v) \o d.rest
  BY TakeBytesSound, Zenon
<1> HIDE DEF d
<1>2. CASE d.error # "ok"
  <2>1. e = d
    BY <1>2 DEF TakeString, d
  <2> HIDE DEF e
  <2> QED BY <1>1, <1>2, <2>1 DEF e
<1>3. CASE d.error = "ok"
  <2>1. PICK v \in Bytes : d.got = Append(c.got, v) /\ c.rest = Prefixed(v) \o d.rest
    BY <1>1, <1>3
  <2>2. c.got \in Seq(V) /\ v \in V
    BY DEF Cursors, Fields
  <2>3. LastRead(d) = v
    BY <2>1, <2>2, LastReadIs
  <2>4. CASE Len(LastRead(d)) > p.max_identifier_bytes
    <3>1. e = Fail(d, "IdentifierLength")
      BY <1>3, <2>4 DEF TakeString, d
    <3> HIDE DEF e
    <3>2. e \in Cursors(V) /\ e.error # "ok"
      BY <1>1, <3>1 DEF Fail, Cursors, ReadErrors
    <3> QED BY <3>2 DEF e
  <2>5. CASE ~ (Len(LastRead(d)) > p.max_identifier_bytes) /\ ToSet(LastRead(d)) \cap NotUtf8 # {}
    <3>1. e = Fail(d, "InvalidUtf8")
      BY <1>3, <2>5 DEF TakeString, d
    <3> HIDE DEF e
    <3>2. e \in Cursors(V) /\ e.error # "ok"
      BY <1>1, <3>1 DEF Fail, Cursors, ReadErrors
    <3> QED BY <3>2 DEF e
  <2>6. CASE ~ (Len(LastRead(d)) > p.max_identifier_bytes) /\ ToSet(LastRead(d)) \cap NotUtf8 = {}
    <3>1. e = d
      BY <1>3, <2>6 DEF TakeString, d
    <3>2. v \in Texts
      BY <2>3, <2>6, InTexts
    <3> HIDE DEF e
    <3>3. /\ e \in Cursors(V) /\ c.error = "ok"
          /\ e.got = Append(c.got, v) /\ c.rest = Prefixed(v) \o e.rest
      BY <1>1, <1>3, <2>1, <3>1, Zenon
    <3> QED BY <3>2, <3>3, Zenon DEF e
  <2> QED BY <2>4, <2>5, <2>6
<1> QED BY <1>2, <1>3

(* take_string takes a prefixed text within both limits.                   *)
LEMMA TakeStringComplete ==
  ASSUME NEW V, Fields \subseteq V, NEW c \in Cursors(V), NEW p \in ValidationPolicies,
         c.error = "ok",
         NEW v \in Texts, NEW u \in Bytes, c.rest = Prefixed(v) \o u
  PROVE  /\ TakeString(c, p).error = "ok" => /\ TakeString(c, p).rest = u
                                             /\ TakeString(c, p).got = Append(c.got, v)
         /\ Len(v) <= TakeLimit(p) /\ Len(v) <= p.max_identifier_bytes
              => TakeString(c, p).error = "ok"
<1> DEFINE d == TakeBytes(c, p)
           e == TakeString(c, p)
<1>1. v \in Bytes /\ v \in V
  BY TextsAreBytes DEF Fields
<1>2. /\ d.error = "ok" => d.rest = u /\ d.got = Append(c.got, v)
      /\ Len(v) <= TakeLimit(p) => d.error = "ok"
  BY <1>1, TakeBytesComplete, Zenon
<1>3. d \in Cursors(V)
  BY TakeBytesSound, Zenon
<1> HIDE DEF d
<1>4. CASE d.error # "ok"
  <2>1. e = d
    BY <1>4 DEF TakeString, d
  <2> HIDE DEF e
  <2> QED BY <1>2, <1>4, <2>1 DEF e
<1>5. CASE d.error = "ok"
  <2>1. c.got \in Seq(V)
    BY DEF Cursors
  <2>2. LastRead(d) = v
    BY <1>1, <1>2, <1>5, <2>1, LastReadIs
  <2>3. ToSet(LastRead(d)) \cap NotUtf8 = {}
    BY <1>1, <2>2, InTexts
  <2>4. CASE Len(v) > p.max_identifier_bytes
    <3>1. e = Fail(d, "IdentifierLength")
      BY <1>5, <2>2, <2>4 DEF TakeString, d
    <3>2. e.error = "IdentifierLength"
      BY <1>3, <3>1 DEF Fail, Cursors
    <3>3. Len(v) \in Nat /\ p.max_identifier_bytes \in Nat
      BY <1>1 DEF Bytes, ValidationPolicies
    <3> HIDE DEF e
    <3> QED BY <2>4, <3>2, <3>3 DEF e
  <2>5. CASE ~ (Len(v) > p.max_identifier_bytes)
    <3>1. e = d
      BY <1>5, <2>2, <2>3, <2>5 DEF TakeString, d
    <3> HIDE DEF e
    <3> QED BY <1>2, <1>5, <3>1 DEF e
  <2> QED BY <2>4, <2>5
<1> QED BY <1>4, <1>5

(* Known refuses values outside the set and nothing else.                  *)
LEMMA KnownIs ==
  ASSUME NEW V, NEW c \in Cursors(V), NEW known
  PROVE  /\ Known(c, known) \in Cursors(V)
         /\ Known(c, known).error = "ok" =>
              Known(c, known) = c /\ c.error = "ok" /\ LastRead(c) \in known
         /\ c.error = "ok" /\ LastRead(c) \in known => Known(c, known) = c
<1>1. CASE c.error = "ok" /\ LastRead(c) \notin known
  BY <1>1 DEF Known, Fail, Cursors, ReadErrors
<1>2. CASE ~ (c.error = "ok" /\ LastRead(c) \notin known)
  BY <1>2 DEF Known
<1> QED BY <1>1, <1>2

(* What a read field means: its value is of its kind, and its bytes are    *)
(* what was read; the bytes of a value are read unless a limit refuses.    *)
Sound(V, c, d, kind) ==
  /\ d \in Cursors(V)
  /\ d.error = "ok" =>
       /\ c.error = "ok"
       /\ \E v \in ValuesOf(kind) : /\ d.got = Append(c.got, v)
                                    /\ c.rest = Piece(kind, v) \o d.rest

Complete(c, d, kind, p) ==
  \A v \in ValuesOf(kind), u \in Bytes :
    c.error = "ok" /\ c.rest = Piece(kind, v) \o u =>
      /\ d.error = "ok" => d.rest = u /\ d.got = Append(c.got, v)
      /\ Fits(kind, v, p) => d.error = "ok"

(* A field that is a number.                                               *)
LEMMA ReadNumber ==
  ASSUME NEW V, Fields \subseteq V, NEW c \in Cursors(V), c.error = "ok",
         NEW p \in ValidationPolicies
  PROVE  /\ Sound(V, c, TakeNumber(c), "number")
         /\ Complete(c, TakeNumber(c), "number", p)
<1> DEFINE d == TakeNumber(c)
<1>1. ValuesOf("number") = Nat /\ \A v : Piece("number", v) = <<v>>
  BY DEF ValuesOf, Piece, NumberKinds
<1>2. d \in Cursors(V)
  BY TakeNumberTyped, Zenon
<1>3. d.error = "ok" => \E v \in Nat : d.got = Append(c.got, v) /\ c.rest = <<v>> \o d.rest
  BY TakeNumberSound, Zenon
<1>4. \A v \in Nat, u \in Bytes : c.rest = <<v>> \o u =>
        d.error = "ok" /\ d.rest = u /\ d.got = Append(c.got, v)
  BY TakeNumberComplete, Zenon
<1> HIDE DEF d
<1>5. Sound(V, c, d, "number")
  BY <1>1, <1>2, <1>3, Zenon DEF Sound
<1>6. Complete(c, d, "number", p)
  BY <1>1, <1>4, Zenon DEF Complete
<1> QED BY <1>5, <1>6 DEF d

(* A field that is a byte string.                                          *)
LEMMA ReadBytes ==
  ASSUME NEW V, Fields \subseteq V, NEW c \in Cursors(V), c.error = "ok",
         NEW p \in ValidationPolicies
  PROVE  /\ Sound(V, c, TakeBytes(c, p), "bytes")
         /\ Complete(c, TakeBytes(c, p), "bytes", p)
<1> DEFINE d == TakeBytes(c, p)
<1>1. /\ ValuesOf("bytes") = Bytes /\ \A v : Piece("bytes", v) = Prefixed(v)
      /\ \A v : Fits("bytes", v, p) => Len(v) <= TakeLimit(p)
  BY DEF ValuesOf, Piece, NumberKinds, Fits
<1>2. /\ d \in Cursors(V)
      /\ d.error = "ok" =>
           /\ c.error = "ok"
           /\ \E v \in Bytes : d.got = Append(c.got, v) /\ c.rest = Prefixed(v) \o d.rest
  BY TakeBytesSound, Zenon
<1>3. \A v \in Bytes, u \in Bytes : c.rest = Prefixed(v) \o u =>
        /\ d.error = "ok" => d.rest = u /\ d.got = Append(c.got, v)
        /\ Len(v) <= TakeLimit(p) => d.error = "ok"
  BY TakeBytesComplete, Zenon
<1> HIDE DEF d
<1>4. Sound(V, c, d, "bytes")
  BY <1>1, <1>2, Zenon DEF Sound
<1>5. Complete(c, d, "bytes", p)
  BY <1>1, <1>3, Zenon DEF Complete
<1> QED BY <1>4, <1>5 DEF d

(* A field that is a text.                                                 *)
LEMMA ReadString ==
  ASSUME NEW V, Fields \subseteq V, NEW c \in Cursors(V), c.error = "ok",
         NEW p \in ValidationPolicies
  PROVE  /\ Sound(V, c, TakeString(c, p), "string")
         /\ Complete(c, TakeString(c, p), "string", p)
<1> DEFINE d == TakeString(c, p)
<1>1. /\ ValuesOf("string") = Texts /\ \A v : Piece("string", v) = Prefixed(v)
      /\ \A v : Fits("string", v, p) => Len(v) <= TakeLimit(p) /\ Len(v) <= p.max_identifier_bytes
  BY DEF ValuesOf, Piece, NumberKinds, Fits
<1>2. /\ d \in Cursors(V)
      /\ d.error = "ok" =>
           /\ c.error = "ok"
           /\ \E v \in Texts : d.got = Append(c.got, v) /\ c.rest = Prefixed(v) \o d.rest
  BY TakeStringSound, Zenon
<1>3. \A v \in Texts, u \in Bytes : c.rest = Prefixed(v) \o u =>
        /\ d.error = "ok" => d.rest = u /\ d.got = Append(c.got, v)
        /\ Len(v) <= TakeLimit(p) /\ Len(v) <= p.max_identifier_bytes => d.error = "ok"
  BY TakeStringComplete, Zenon
<1> HIDE DEF d
<1>4. Sound(V, c, d, "string")
  BY <1>1, <1>2, Zenon DEF Sound
<1>5. Complete(c, d, "string", p)
  BY <1>1, <1>3, Zenon DEF Complete
<1> QED BY <1>4, <1>5 DEF d

(* A reader followed by Known reads the known values.                      *)
LEMMA ReadKnown ==
  ASSUME NEW V, Fields \subseteq V, NEW c \in Cursors(V), NEW d, NEW p, NEW base, NEW kind,
         NEW known, ValuesOf(kind) = known, known \subseteq ValuesOf(base),
         ValuesOf(base) \subseteq V,
         \A v : Piece(kind, v) = Piece(base, v) /\ (Fits(kind, v, p) => Fits(base, v, p)),
         Sound(V, c, d, base), Complete(c, d, base, p)
  PROVE  Sound(V, c, Known(d, known), kind) /\ Complete(c, Known(d, known), kind, p)
<1> DEFINE e == Known(d, known)
<1>1. d \in Cursors(V) /\ c.got \in Seq(V)
  BY DEF Sound, Cursors
<1>2. /\ e \in Cursors(V)
      /\ e.error = "ok" => e = d /\ d.error = "ok" /\ LastRead(d) \in known
      /\ d.error = "ok" /\ LastRead(d) \in known => e = d
  BY <1>1, KnownIs
<1> HIDE DEF e
<1>3. ASSUME e.error = "ok"
      PROVE  /\ c.error = "ok"
             /\ \E v \in known : e.got = Append(c.got, v) /\ c.rest = Piece(kind, v) \o e.rest
  <2>1. PICK v \in ValuesOf(base) : d.got = Append(c.got, v) /\ c.rest = Piece(base, v) \o d.rest
    BY <1>2, <1>3 DEF Sound
  <2>2. LastRead(d) = v
    BY <1>1, <2>1, LastReadIs
  <2>3. e.got = Append(c.got, v) /\ c.rest = Piece(kind, v) \o e.rest /\ v \in known
    BY <1>2, <1>3, <2>1, <2>2, Zenon
  <2>4. c.error = "ok"
    BY <1>2, <1>3 DEF Sound
  <2> QED BY <2>3, <2>4
<1>4. ASSUME NEW v \in known, NEW u \in Bytes, c.error = "ok", c.rest = Piece(kind, v) \o u
      PROVE  /\ e.error = "ok" => e.rest = u /\ e.got = Append(c.got, v)
             /\ Fits(kind, v, p) => e.error = "ok"
  <2>1. c.rest = Piece(base, v) \o u /\ v \in ValuesOf(base)
    BY <1>4, Zenon
  <2>2. /\ d.error = "ok" => d.rest = u /\ d.got = Append(c.got, v)
        /\ Fits(base, v, p) => d.error = "ok"
    BY <1>4, <2>1, Zenon DEF Complete
  <2>3. d.error = "ok" => LastRead(d) = v
    BY <1>1, <2>1, <2>2, LastReadIs
  <2> QED BY <1>2, <2>2, <2>3, Zenon
<1>5. Sound(V, c, e, kind)
  BY <1>2, <1>3, Zenon DEF Sound
<1>6. Complete(c, e, kind, p)
  BY <1>4, Zenon DEF Complete
<1> QED BY <1>5, <1>6 DEF e

(* A field of any kind is read as it was written, and only so.             *)
LEMMA ReadFieldReads ==
  ASSUME NEW V, Fields \subseteq V, NEW c \in Cursors(V), NEW p \in ValidationPolicies,
         NEW kind \in FieldKinds
  PROVE  /\ Sound(V, c, ReadField(c, kind, p), kind)
         /\ Complete(c, ReadField(c, kind, p), kind, p)
<1>1. CASE c.error # "ok"
  <2>1. ReadField(c, kind, p) = c
    BY <1>1 DEF ReadField
  <2> QED BY <1>1, <2>1 DEF Sound, Complete
<1>2. CASE c.error = "ok"
  <2>1. CASE kind = "number"
    <3>1. ReadField(c, kind, p) = TakeNumber(c)
      BY <1>2, <2>1 DEF ReadField
    <3> QED BY <1>2, <2>1, <3>1, ReadNumber
  <2>2. CASE kind = "bytes"
    <3>1. ReadField(c, kind, p) = TakeBytes(c, p)
      BY <1>2, <2>2 DEF ReadField
    <3> QED BY <1>2, <2>2, <3>1, ReadBytes
  <2>3. CASE kind = "string"
    <3>1. ReadField(c, kind, p) = TakeString(c, p)
      BY <1>2, <2>3 DEF ReadField
    <3> QED BY <1>2, <2>3, <3>1, ReadString
  <2>4. ValuesOf("number") = Nat /\ ValuesOf("bytes") = Bytes /\ Nat \subseteq V /\ Bytes \subseteq V
    BY DEF ValuesOf, Fields
  <2>5. CASE kind = "format"
    <3>1. ReadField(c, kind, p) = Known(TakeNumber(c), {FormatVersion})
      BY <1>2, <2>5 DEF ReadField
    <3>2. ValuesOf("format") = {FormatVersion} /\ FormatVersion \in Nat
      BY RulesAssumption DEF ValuesOf
    <3>3. \A v : Piece("format", v) = Piece("number", v) /\ (Fits("format", v, p) => Fits("number", v, p))
      BY DEF Piece, Fits, NumberKinds
    <3>4. Sound(V, c, TakeNumber(c), "number") /\ Complete(c, TakeNumber(c), "number", p)
      BY <1>2, ReadNumber
    <3>5. {FormatVersion} \subseteq ValuesOf("number") /\ ValuesOf("number") \subseteq V
      BY <2>4, <3>2
    <3> QED BY <2>5, <3>1, <3>2, <3>3, <3>4, <3>5, ReadKnown
  <2>6. CASE kind = "suite"
    <3>1. ReadField(c, kind, p) = Known(TakeNumber(c), Suites)
      BY <1>2, <2>6 DEF ReadField
    <3>2. ValuesOf("suite") = Suites /\ Suites \subseteq Nat
      BY RulesAssumption DEF ValuesOf
    <3>3. \A v : Piece("suite", v) = Piece("number", v) /\ (Fits("suite", v, p) => Fits("number", v, p))
      BY DEF Piece, Fits, NumberKinds
    <3>4. Sound(V, c, TakeNumber(c), "number") /\ Complete(c, TakeNumber(c), "number", p)
      BY <1>2, ReadNumber
    <3>5. Suites \subseteq ValuesOf("number") /\ ValuesOf("number") \subseteq V
      BY <2>4, <3>2
    <3> QED BY <2>6, <3>1, <3>2, <3>3, <3>4, <3>5, ReadKnown
  <2>7. CASE kind = "record domain"
    <3>1. ReadField(c, kind, p) = Known(TakeBytes(c, p), {RecordDomain})
      BY <1>2, <2>7 DEF ReadField
    <3>2. ValuesOf("record domain") = {RecordDomain} /\ RecordDomain \in Bytes
      BY LengthAssumption DEF ValuesOf
    <3>3. \A v : /\ Piece("record domain", v) = Piece("bytes", v)
                 /\ (Fits("record domain", v, p) => Fits("bytes", v, p))
      BY DEF Piece, Fits, NumberKinds
    <3>4. Sound(V, c, TakeBytes(c, p), "bytes") /\ Complete(c, TakeBytes(c, p), "bytes", p)
      BY <1>2, ReadBytes
    <3>5. {RecordDomain} \subseteq ValuesOf("bytes") /\ ValuesOf("bytes") \subseteq V
      BY <2>4, <3>2
    <3>6. /\ Sound(V, c, Known(TakeBytes(c, p), {RecordDomain}), "record domain")
          /\ Complete(c, Known(TakeBytes(c, p), {RecordDomain}), "record domain", p)
      <4> DEFINE d == TakeBytes(c, p)
                 known == {RecordDomain}
      <4>1. ValuesOf("record domain") = known
        BY <3>2
      <4> HIDE DEF d, known
      <4> QED BY <4>1, <3>3, <3>4, <3>5, ReadKnown DEF d, known
    <3> QED BY <2>7, <3>1, <3>6
  <2>8. CASE kind = "context domain"
    <3>1. ReadField(c, kind, p) = Known(TakeBytes(c, p), {ContextDomain})
      BY <1>2, <2>8 DEF ReadField
    <3>2. ValuesOf("context domain") = {ContextDomain} /\ ContextDomain \in Bytes
      BY LengthAssumption DEF ValuesOf
    <3>3. \A v : /\ Piece("context domain", v) = Piece("bytes", v)
                 /\ (Fits("context domain", v, p) => Fits("bytes", v, p))
      BY DEF Piece, Fits, NumberKinds
    <3>4. Sound(V, c, TakeBytes(c, p), "bytes") /\ Complete(c, TakeBytes(c, p), "bytes", p)
      BY <1>2, ReadBytes
    <3>5. {ContextDomain} \subseteq ValuesOf("bytes") /\ ValuesOf("bytes") \subseteq V
      BY <2>4, <3>2
    <3>6. /\ Sound(V, c, Known(TakeBytes(c, p), {ContextDomain}), "context domain")
          /\ Complete(c, Known(TakeBytes(c, p), {ContextDomain}), "context domain", p)
      <4> DEFINE d == TakeBytes(c, p)
                 known == {ContextDomain}
      <4>1. ValuesOf("context domain") = known
        BY <3>2
      <4> HIDE DEF d, known
      <4> QED BY <4>1, <3>3, <3>4, <3>5, ReadKnown DEF d, known
    <3> QED BY <2>8, <3>1, <3>6
  <2> QED BY <2>1, <2>2, <2>3, <2>5, <2>6, <2>7, <2>8 DEF FieldKinds, NumberKinds
<1> QED BY <1>1, <1>2
-----------------------------------------------------------------------------
(* Fields one after the other.                                             *)

(* What is written for a field is a byte string.                           *)
LEMMA PiecesAreBytes ==
  ASSUME NEW kind \in FieldKinds, NEW v \in ValuesOf(kind)
  PROVE  v \in Fields /\ Piece(kind, v) \in Bytes
<1>1. CASE kind \in NumberKinds
  <2>1. v \in Nat
    BY <1>1, RulesAssumption DEF NumberKinds, ValuesOf
  <2> QED BY <1>1, <2>1 DEF Fields, Piece, Bytes
<1>2. CASE kind \notin NumberKinds
  <2>1. v \in Bytes
    BY <1>2, LengthAssumption, TextsAreBytes DEF FieldKinds, NumberKinds, ValuesOf
  <2>2. Prefixed(v) \in Bytes
    BY <2>1, PrefixedIsBytes
  <2> QED BY <1>2, <2>1, <2>2 DEF Fields, Piece
<1> QED BY <1>1, <1>2

(* Pieces(kinds, vs, qs): vs are values of the kinds, and qs their bytes.  *)
Pieces(kinds, vs, qs) ==
  /\ Len(vs) = Len(kinds) /\ Len(qs) = Len(kinds)
  /\ \A i \in 1..Len(kinds) : vs[i] \in ValuesOf(kinds[i]) /\ qs[i] = Piece(kinds[i], vs[i])

AllFit(kinds, vs, p) == \A i \in 1..Len(kinds) : Fits(kinds[i], vs[i], p)

(* A chain that starts typed stays typed.                                  *)
LEMMA ChainTyped ==
  ASSUME NEW T, NEW n \in Nat, NEW d, d[0] \in T, \A i \in 1..n : d[i - 1] \in T => d[i] \in T
  PROVE  \A i \in 0..n : d[i] \in T
<1> DEFINE S == { m \in Nat : m <= n => d[m] \in T }
<1>1. 0 \in S
  OBVIOUS
<1>2. ASSUME NEW m \in Nat, m \in S PROVE m + 1 \in S
  <2>1. CASE m + 1 <= n
    <3>1. m + 1 \in 1..n /\ (m + 1) - 1 = m /\ m <= n
      BY <2>1
    <3> QED BY <1>2, <3>1
  <2>2. CASE ~ (m + 1 <= n)
    BY <2>2
  <2> QED BY <2>1, <2>2
<1>3. \A m \in Nat : m \in S
  <2> HIDE DEF S
  <2> QED BY <1>1, <1>2, Induction
<1> QED BY <1>3

(* Reading fields leaves a cursor.                                         *)
LEMMA ReadFieldsTyped ==
  ASSUME NEW V, Fields \subseteq V, NEW c \in Cursors(V),
         NEW kinds \in Seq(FieldKinds), NEW p \in ValidationPolicies
  PROVE  ReadFields(c, kinds, p) \in Cursors(V)
<1> DEFINE n == Len(kinds)
<1>1. n \in Nat
  OBVIOUS
<1>2. PICK d : /\ d[0] = c
               /\ \A i \in 1..n : d[i] = ReadField(d[i - 1], kinds[i], p)
               /\ ReadFields(c, kinds, p) = d[n]
  BY <1>1, ReadFieldsChain
<1>3. ASSUME NEW i \in 1..n, d[i - 1] \in Cursors(V) PROVE d[i] \in Cursors(V)
  <2>1. kinds[i] \in FieldKinds
    OBVIOUS
  <2>2. Sound(V, d[i - 1], ReadField(d[i - 1], kinds[i], p), kinds[i])
    BY <1>3, <2>1, ReadFieldReads
  <2> QED BY <1>2, <2>2 DEF Sound
<1>4. \A i \in 0..n : d[i] \in Cursors(V)
  <2> HIDE DEF n
  <2> QED BY <1>1, <1>2, <1>3, ChainTyped
<1> QED BY <1>1, <1>2, <1>4

(* The fields read are those whose bytes came next, one after the other.   *)
LEMMA ReadFieldsSound ==
  ASSUME NEW c \in Cursors(Fields), c.got = <<>>,
         NEW kinds \in Seq(FieldKinds), NEW p \in ValidationPolicies,
         ReadFields(c, kinds, p).error = "ok"
  PROVE  /\ c.error = "ok"
         /\ \E qs \in Seq(Bytes) :
           /\ Pieces(kinds, ReadFields(c, kinds, p).got, qs)
           /\ c.rest = FlattenSeq(qs) \o ReadFields(c, kinds, p).rest
<1> DEFINE n == Len(kinds)
           R == { x \in (1..n) \X Fields \X Bytes :
                    x[2] \in ValuesOf(kinds[x[1]]) /\ x[3] = Piece(kinds[x[1]], x[2]) }
<1>1. n \in Nat
  OBVIOUS
<1>2. PICK d : /\ d[0] = c
               /\ \A i \in 1..n : d[i] = ReadField(d[i - 1], kinds[i], p)
               /\ ReadFields(c, kinds, p) = d[n]
  BY <1>1, ReadFieldsChain
<1>3. ASSUME NEW i \in 1..n, d[i - 1] \in Cursors(Fields)
      PROVE  Sound(Fields, d[i - 1], d[i], kinds[i])
  <2>1. kinds[i] \in FieldKinds
    OBVIOUS
  <2>2. Sound(Fields, d[i - 1], ReadField(d[i - 1], kinds[i], p), kinds[i])
    BY <1>3, <2>1, ReadFieldReads
  <2> QED BY <1>2, <2>2
<1>4. \A i \in 0..n : d[i] \in Cursors(Fields)
  <2>1. \A i \in 1..n : d[i - 1] \in Cursors(Fields) => d[i] \in Cursors(Fields)
    BY <1>3 DEF Sound
  <2> HIDE DEF n
  <2> QED BY <1>1, <1>2, <2>1, ChainTyped
<1>5. \A i, v, q : <<i, v, q>> \in R <=>
        /\ i \in 1..n /\ v \in Fields /\ q \in Bytes
        /\ v \in ValuesOf(kinds[i]) /\ q = Piece(kinds[i], v)
  OBVIOUS
<1> HIDE DEF R
<1>6. ASSUME NEW i \in 1..n, d[i].error = "ok"
      PROVE  /\ d[i - 1].error = "ok"
             /\ \E v \in Fields, q \in Bytes :
                  /\ <<i, v, q>> \in R
                  /\ d[i].got = Append(d[i - 1].got, v)
                  /\ d[i - 1].rest = q \o d[i].rest
  <2>1. i - 1 \in 0..n /\ kinds[i] \in FieldKinds
    OBVIOUS
  <2>2. Sound(Fields, d[i - 1], d[i], kinds[i])
    BY <1>3, <1>4, <2>1
  <2>3. PICK v \in ValuesOf(kinds[i]) : /\ d[i].got = Append(d[i - 1].got, v)
                                        /\ d[i - 1].rest = Piece(kinds[i], v) \o d[i].rest
    BY <1>6, <2>2 DEF Sound
  <2>4. v \in Fields /\ Piece(kinds[i], v) \in Bytes
    BY <2>1, PiecesAreBytes
  <2>5. <<i, v, Piece(kinds[i], v)>> \in R
    BY <1>5, <2>4
  <2>6. d[i - 1].error = "ok"
    BY <1>6, <2>2 DEF Sound
  <2> QED BY <2>3, <2>4, <2>5, <2>6
<1>7. PICK qs \in Seq(Bytes) : HasRead(R, n, d, qs)
  <2> HIDE DEF n
  <2>1. d[0].got = <<>> /\ d[n].error = "ok"
    BY <1>2 DEF n
  <2>2. Links(Fields, R, n, d)
    BY <1>6 DEF Links
  <2> QED BY <1>1, <1>4, <2>1, <2>2, ChainSound
<1>8. Pieces(kinds, d[n].got, qs)
  BY <1>5, <1>7 DEF Pieces, HasRead
<1>9. d[0].rest = FlattenSeq(qs) \o d[n].rest
  BY <1>7, Zenon DEF HasRead
<1>10. c.error = "ok"
  BY <1>2, <1>7 DEF HasRead
<1> QED BY <1>2, <1>8, <1>9, <1>10, Zenon

(* Fields written within the limits are all read.                          *)
LEMMA ReadFieldsComplete ==
  ASSUME NEW c \in Cursors(Fields), c.got = <<>>, c.error = "ok",
         NEW kinds \in Seq(FieldKinds), NEW p \in ValidationPolicies,
         NEW vs \in Seq(Fields), NEW qs \in Seq(Bytes), Pieces(kinds, vs, qs),
         NEW t \in Bytes, c.rest = FlattenSeq(qs) \o t
  PROVE  /\ ReadFields(c, kinds, p).error = "ok" =>
              ReadFields(c, kinds, p).rest = t /\ ReadFields(c, kinds, p).got = vs
         /\ AllFit(kinds, vs, p) => ReadFields(c, kinds, p).error = "ok"
<1> DEFINE n == Len(kinds)
           fits == AllFit(kinds, vs, p)
<1>1. n \in Nat
  OBVIOUS
<1>2. PICK d : /\ d[0] = c
               /\ \A i \in 1..n : d[i] = ReadField(d[i - 1], kinds[i], p)
               /\ ReadFields(c, kinds, p) = d[n]
  BY <1>1, ReadFieldsChain
<1>3. ASSUME NEW i \in 1..n, d[i - 1] \in Cursors(Fields)
      PROVE  Sound(Fields, d[i - 1], d[i], kinds[i]) /\ Complete(d[i - 1], d[i], kinds[i], p)
  <2>1. kinds[i] \in FieldKinds
    OBVIOUS
  <2>2. /\ Sound(Fields, d[i - 1], ReadField(d[i - 1], kinds[i], p), kinds[i])
        /\ Complete(d[i - 1], ReadField(d[i - 1], kinds[i], p), kinds[i], p)
    BY <1>3, <2>1, ReadFieldReads
  <2> QED BY <1>2, <2>2
<1>4. \A i \in 0..n : d[i] \in Cursors(Fields)
  <2>1. \A i \in 1..n : d[i - 1] \in Cursors(Fields) => d[i] \in Cursors(Fields)
    BY <1>3 DEF Sound
  <2> HIDE DEF n
  <2> QED BY <1>1, <1>2, <2>1, ChainTyped
<1>5. ASSUME NEW i \in 1..n
      PROVE  Sound(Fields, d[i - 1], d[i], kinds[i]) /\ Complete(d[i - 1], d[i], kinds[i], p)
  <2>1. i - 1 \in 0..n
    OBVIOUS
  <2> QED BY <1>3, <1>4, <2>1
<1>6. \A i \in 1..n : d[i].error = "ok" => d[i - 1].error = "ok"
  BY <1>5 DEF Sound
<1>7. ASSUME NEW i \in 1..n, NEW u \in Bytes, d[i - 1].error = "ok", d[i - 1].rest = qs[i] \o u
      PROVE  /\ d[i].error = "ok" => d[i].rest = u /\ d[i].got = Append(d[i - 1].got, vs[i])
             /\ fits = TRUE => d[i].error = "ok"
  <2>1. vs[i] \in ValuesOf(kinds[i]) /\ qs[i] = Piece(kinds[i], vs[i])
    BY DEF Pieces
  <2>2. fits => Fits(kinds[i], vs[i], p)
    BY DEF AllFit
  <2>3. d[i - 1].rest = Piece(kinds[i], vs[i]) \o u
    BY <1>7, <2>1, Zenon
  <2>4. Complete(d[i - 1], d[i], kinds[i], p)
    BY <1>5
  <2>5. /\ d[i].error = "ok" => d[i].rest = u /\ d[i].got = Append(d[i - 1].got, vs[i])
        /\ Fits(kinds[i], vs[i], p) => d[i].error = "ok"
    BY <1>7, <2>1, <2>3, <2>4, Zenon DEF Complete
  <2> QED BY <2>2, <2>5
<1>8. fits \in BOOLEAN /\ Len(vs) = n /\ Len(qs) = n
  BY DEF AllFit, Pieces
<1>9. Ends(vs, t, n, d, fits)
  <2> HIDE DEF n, fits
  <2>1. d[0].got = <<>> /\ d[0].error = "ok" /\ d[0].rest = FlattenSeq(qs) \o t
    BY <1>2, Zenon
  <2>2. Follows(vs, qs, t, n, d, fits)
    BY <1>6, <1>7, <2>1 DEF Follows
  <2> QED BY <1>1, <1>4, <1>8, <2>2, ChainComplete
<1> QED BY <1>2, <1>8, <1>9 DEF Ends
-----------------------------------------------------------------------------
(* Elements of a list.                                                     *)

(* The values of a list of kinds, and their bytes one after another.       *)
RawOf(kinds) ==
  { g \in Seq(Fields) : Len(g) = Len(kinds) /\ \A i \in 1..Len(kinds) : g[i] \in ValuesOf(kinds[i]) }

PiecesOf(kinds, g) == [i \in 1..Len(kinds) |-> Piece(kinds[i], g[i])]
ElementBytes(kinds, g) == FlattenSeq(PiecesOf(kinds, g))

(* Byte strings put end to end are one.                                    *)
LEMMA FlattenIsBytes ==
  ASSUME NEW qs \in Seq(Bytes)
  PROVE  FlattenSeq(qs) \in Bytes
<1>1. <<>> \in Bytes
  BY DEF Bytes
<1> QED BY <1>1, FlattenOneMore DEF Bytes

(* What is written for the fields of an element.                           *)
LEMMA RawPieces ==
  ASSUME NEW kinds \in Seq(FieldKinds), NEW g \in RawOf(kinds)
  PROVE  /\ PiecesOf(kinds, g) \in Seq(Bytes) /\ Pieces(kinds, g, PiecesOf(kinds, g))
         /\ ElementBytes(kinds, g) \in Bytes /\ g \in Seq(Fields)
<1>1. \A i \in 1..Len(kinds) : kinds[i] \in FieldKinds /\ g[i] \in ValuesOf(kinds[i])
  BY DEF RawOf
<1>2. \A i \in 1..Len(kinds) : Piece(kinds[i], g[i]) \in Bytes
  BY <1>1, PiecesAreBytes
<1>3. PiecesOf(kinds, g) \in Seq(Bytes) /\ Len(PiecesOf(kinds, g)) = Len(kinds)
  BY <1>2 DEF PiecesOf
<1>4. Pieces(kinds, g, PiecesOf(kinds, g))
  BY <1>1, <1>3 DEF Pieces, PiecesOf, RawOf
<1>5. g \in Seq(Fields)
  BY DEF RawOf
<1> QED BY <1>3, <1>4, <1>5, FlattenIsBytes DEF ElementBytes

(* There is only one way to write them.                                    *)
LEMMA PiecesAreThose ==
  ASSUME NEW kinds \in Seq(FieldKinds), NEW g \in Seq(Fields), NEW qs \in Seq(Bytes),
         Pieces(kinds, g, qs)
  PROVE  g \in RawOf(kinds) /\ qs = PiecesOf(kinds, g)
<1>1. g \in RawOf(kinds)
  BY DEF Pieces, RawOf
<1>2. PiecesOf(kinds, g) \in Seq(Bytes) /\ Pieces(kinds, g, PiecesOf(kinds, g))
  BY <1>1, RawPieces
<1> DEFINE r == PiecesOf(kinds, g)
<1>3. Len(qs) = Len(r) /\ \A i \in 1..Len(qs) : qs[i] = r[i]
  BY <1>2 DEF Pieces
<1>4. qs = r
  BY <1>2, <1>3, SeqEqual
<1> QED BY <1>1, <1>4

(* ReadFieldsSound in terms of elements: the bytes taken are the           *)
(* element's.                                                              *)
LEMMA FieldsSound ==
  ASSUME NEW c \in Cursors(Fields), c.got = <<>>,
         NEW kinds \in Seq(FieldKinds), NEW p \in ValidationPolicies,
         ReadFields(c, kinds, p).error = "ok"
  PROVE  /\ c.error = "ok" /\ ReadFields(c, kinds, p).got \in RawOf(kinds)
         /\ c.rest = ElementBytes(kinds, ReadFields(c, kinds, p).got) \o ReadFields(c, kinds, p).rest
<1> DEFINE d == ReadFields(c, kinds, p)
<1>1. c.error = "ok"
  BY ReadFieldsSound
<1>2. PICK qs \in Seq(Bytes) : Pieces(kinds, d.got, qs) /\ c.rest = FlattenSeq(qs) \o d.rest
  BY ReadFieldsSound, Zenon
<1>3. d \in Cursors(Fields)
  BY ReadFieldsTyped
<1>4. d.got \in Seq(Fields)
  BY <1>3 DEF Cursors
<1> HIDE DEF d
<1>5. d.got \in RawOf(kinds) /\ qs = PiecesOf(kinds, d.got)
  BY <1>2, <1>4, PiecesAreThose
<1>6. c.rest = ElementBytes(kinds, d.got) \o d.rest
  BY <1>2, <1>5, Zenon DEF ElementBytes
<1> QED BY <1>1, <1>5, <1>6 DEF d

FieldsRead(g, t, kinds, p, d) ==
  /\ d.error = "ok" => d.rest = t /\ d.got = g
  /\ AllFit(kinds, g, p) => d.error = "ok"

(* ReadFieldsComplete in terms of elements.                                *)
LEMMA FieldsComplete ==
  ASSUME NEW c \in Cursors(Fields), c.got = <<>>, c.error = "ok",
         NEW kinds \in Seq(FieldKinds), NEW p \in ValidationPolicies,
         NEW g \in RawOf(kinds), NEW t \in Bytes, c.rest = ElementBytes(kinds, g) \o t
  PROVE  FieldsRead(g, t, kinds, p, ReadFields(c, kinds, p))
<1> DEFINE qs == PiecesOf(kinds, g)
<1>1. qs \in Seq(Bytes) /\ Pieces(kinds, g, qs) /\ g \in Seq(Fields)
  BY RawPieces
<1>2. c.rest = FlattenSeq(qs) \o t
  BY DEF ElementBytes
<1> HIDE DEF qs
<1> QED BY <1>1, <1>2, ReadFieldsComplete, Zenon DEF FieldsRead

(* A cursor with other values in it.                                       *)
WithGot(c, g) == [c EXCEPT !.got = g]

(* A cursor with other values read is one.                                 *)
LEMMA WithGotTyped ==
  ASSUME NEW U, NEW V, NEW c \in Cursors(U), NEW g \in Seq(V)
  PROVE  /\ WithGot(c, g) \in Cursors(V) /\ WithGot(c, g).got = g
         /\ WithGot(c, g).rest = c.rest /\ WithGot(c, g).error = c.error
<1>1. c = [rest |-> c.rest, got |-> c.got, error |-> c.error] /\ c.rest \in Bytes
      /\ c.error \in ReadErrors \cup {"ok"}
  BY DEF Cursors
<1>2. WithGot(c, g) = [rest |-> c.rest, got |-> g, error |-> c.error]
  BY <1>1 DEF WithGot
<1> QED BY <1>1, <1>2 DEF Cursors

(* One element of a list.                                                  *)
LEMMA ElementTyped ==
  ASSUME NEW V, Seq(Fields) \subseteq V, NEW c \in Cursors(V),
         NEW kinds \in Seq(FieldKinds), NEW p \in ValidationPolicies
  PROVE  LET b == [c EXCEPT !.got = <<>>]
             e == ReadFields(b, kinds, p)
             d == ReadElement(c, kinds, p)
         IN  /\ b \in Cursors(Fields) /\ b.got = <<>> /\ b.rest = c.rest /\ b.error = c.error
             /\ e \in Cursors(Fields) /\ d \in Cursors(V)
             /\ d.rest = e.rest /\ d.error = e.error /\ d.got = Append(c.got, e.got)
<1> DEFINE b == [c EXCEPT !.got = <<>>]
           e == ReadFields(b, kinds, p)
           d == ReadElement(c, kinds, p)
<1>1. b \in Cursors(Fields) /\ b.got = <<>> /\ b.rest = c.rest /\ b.error = c.error
  <2> DEFINE none == <<>>
  <2>1. none \in Seq(Fields)
    OBVIOUS
  <2>2. b = WithGot(c, none)
    BY Zenon DEF WithGot
  <2> HIDE DEF b, none
  <2>3. b \in Cursors(Fields) /\ b.got = none /\ b.rest = c.rest /\ b.error = c.error
    BY <2>1, <2>2, WithGotTyped
  <2> QED BY <2>3 DEF none
<1>2. e \in Cursors(Fields)
  <2> HIDE DEF b
  <2> QED BY <1>1, ReadFieldsTyped
<1>3. d = [e EXCEPT !.got = Append(c.got, e.got)]
  BY DEF ReadElement
<1> HIDE DEF b, e, d
<1>4. e.got \in V /\ c.got \in Seq(V)
  BY <1>2 DEF Cursors
<1>5. d \in Cursors(V) /\ d.rest = e.rest /\ d.error = e.error /\ d.got = Append(c.got, e.got)
  <2> DEFINE more == Append(c.got, e.got)
  <2>1. more \in Seq(V)
    BY <1>4
  <2>2. d = WithGot(e, more)
    BY <1>3, Zenon DEF WithGot
  <2> HIDE DEF more
  <2>3. d \in Cursors(V) /\ d.rest = e.rest /\ d.error = e.error /\ d.got = more
    BY <1>2, <2>1, <2>2, WithGotTyped
  <2> QED BY <2>3 DEF more
<1> QED BY <1>1, <1>2, <1>5 DEF b, e, d

(* An element read is one whose bytes came next.                           *)
LEMMA ElementSound ==
  ASSUME NEW V, Seq(Fields) \subseteq V, NEW c \in Cursors(V),
         NEW kinds \in Seq(FieldKinds), NEW p \in ValidationPolicies,
         ReadElement(c, kinds, p).error = "ok"
  PROVE  /\ c.error = "ok"
         /\ \E g \in RawOf(kinds) :
              /\ ReadElement(c, kinds, p).got = Append(c.got, g)
              /\ c.rest = ElementBytes(kinds, g) \o ReadElement(c, kinds, p).rest
<1> DEFINE b == [c EXCEPT !.got = <<>>]
           e == ReadFields(b, kinds, p)
           d == ReadElement(c, kinds, p)
<1>1. /\ b \in Cursors(Fields) /\ b.got = <<>> /\ b.rest = c.rest /\ b.error = c.error
      /\ d.rest = e.rest /\ d.error = e.error /\ d.got = Append(c.got, e.got)
  BY ElementTyped
<1> HIDE DEF b, d
<1>2. b.error = "ok" /\ e.got \in RawOf(kinds) /\ b.rest = ElementBytes(kinds, e.got) \o e.rest
  <2>1. e.error = "ok"
    BY <1>1 DEF d
  <2> QED BY <1>1, <2>1, FieldsSound, Zenon
<1> HIDE DEF e
<1> QED BY <1>1, <1>2, Zenon DEF d

ElementDone(c, g, t, kinds, p, d) ==
  /\ d.error = "ok" => d.rest = t /\ d.got = Append(c.got, g)
  /\ AllFit(kinds, g, p) => d.error = "ok"

(* An element written within the limits is read.                           *)
LEMMA ElementComplete ==
  ASSUME NEW V, Seq(Fields) \subseteq V, NEW c \in Cursors(V), c.error = "ok",
         NEW kinds \in Seq(FieldKinds), NEW p \in ValidationPolicies,
         NEW g \in RawOf(kinds), NEW t \in Bytes, c.rest = ElementBytes(kinds, g) \o t
  PROVE  ElementDone(c, g, t, kinds, p, ReadElement(c, kinds, p))
<1> DEFINE b == [c EXCEPT !.got = <<>>]
           e == ReadFields(b, kinds, p)
           d == ReadElement(c, kinds, p)
<1>1. /\ b \in Cursors(Fields) /\ b.got = <<>> /\ b.rest = c.rest /\ b.error = c.error
      /\ d.rest = e.rest /\ d.error = e.error /\ d.got = Append(c.got, e.got)
  BY ElementTyped
<1> HIDE DEF b, d
<1>2. b.error = "ok" /\ b.rest = ElementBytes(kinds, g) \o t
  BY <1>1, Zenon
<1>3. FieldsRead(g, t, kinds, p, e)
  BY <1>1, <1>2, FieldsComplete, Zenon
<1> HIDE DEF e
<1>4. ElementDone(c, g, t, kinds, p, d)
  BY <1>1, <1>3 DEF FieldsRead, ElementDone
<1> QED BY <1>4 DEF d

ElementList == Seq(Fields)

PiecesOfAll(kinds, gs) == [i \in DOMAIN gs |-> ElementBytes(kinds, gs[i])]

(* What is written for the elements of a list.                             *)
LEMMA AllPieces ==
  ASSUME NEW kinds \in Seq(FieldKinds), NEW gs \in Seq(RawOf(kinds))
  PROVE  /\ PiecesOfAll(kinds, gs) \in Seq(Bytes) /\ Len(PiecesOfAll(kinds, gs)) = Len(gs)
         /\ \A i \in 1..Len(gs) : PiecesOfAll(kinds, gs)[i] = ElementBytes(kinds, gs[i])
         /\ gs \in Seq(ElementList) /\ FlattenSeq(PiecesOfAll(kinds, gs)) \in Bytes
<1>1. DOMAIN gs = 1..Len(gs) /\ Len(gs) \in Nat /\ \A i \in 1..Len(gs) : gs[i] \in RawOf(kinds)
  OBVIOUS
<1>2. \A i \in 1..Len(gs) : ElementBytes(kinds, gs[i]) \in Bytes /\ gs[i] \in ElementList
  BY <1>1, RawPieces DEF ElementList
<1>3. /\ PiecesOfAll(kinds, gs) \in Seq(Bytes) /\ Len(PiecesOfAll(kinds, gs)) = Len(gs)
      /\ \A i \in 1..Len(gs) : PiecesOfAll(kinds, gs)[i] = ElementBytes(kinds, gs[i])
  BY <1>1, <1>2 DEF PiecesOfAll
<1>4. gs \in Seq(ElementList)
  BY <1>1, <1>2
<1> QED BY <1>3, <1>4, FlattenIsBytes

(* Reading an element leaves a cursor.                                     *)
LEMMA ElementReads ==
  ASSUME NEW c \in Cursors(ElementList),
         NEW kinds \in Seq(FieldKinds), NEW p \in ValidationPolicies
  PROVE  ReadElement(c, kinds, p) \in Cursors(ElementList)
<1>1. Seq(Fields) \subseteq ElementList
  BY DEF ElementList
<1> QED BY <1>1, ElementTyped

(* And so does reading any number of them.                                 *)
LEMMA ElementsTyped ==
  ASSUME NEW c \in Cursors(ElementList), NEW n \in Nat,
         NEW kinds \in Seq(FieldKinds), NEW p \in ValidationPolicies,
         NEW d, d[0] = c, \A i \in 1..n : d[i] = ReadElement(d[i - 1], kinds, p)
  PROVE  \A i \in 0..n : d[i] \in Cursors(ElementList)
<1>1. \A i \in 1..n : d[i - 1] \in Cursors(ElementList) => d[i] \in Cursors(ElementList)
  BY ElementReads
<1> HIDE DEF ElementList
<1> QED BY <1>1, ChainTyped

(* What ReadElements makes of its cursor.                                  *)
ElementsRead(c, n, kinds, d) ==
  /\ c.error = "ok"
  /\ d.got \in Seq(RawOf(kinds)) /\ Len(d.got) = n
  /\ c.rest = FlattenSeq(PiecesOfAll(kinds, d.got)) \o d.rest

(* The elements read are those whose bytes came next.                      *)
LEMMA ElementsSound ==
  ASSUME NEW c \in Cursors(ElementList), c.got = <<>>, NEW n \in Nat,
         NEW kinds \in Seq(FieldKinds), NEW p \in ValidationPolicies
  PROVE  /\ ReadElements(c, n, kinds, p) \in Cursors(ElementList)
         /\ ReadElements(c, n, kinds, p).error = "ok" =>
              ElementsRead(c, n, kinds, ReadElements(c, n, kinds, p))
<1> DEFINE R == { x \in (1..n) \X ElementList \X Bytes :
                    x[2] \in RawOf(kinds) /\ x[3] = ElementBytes(kinds, x[2]) }
<1>1. PICK d : /\ d[0] = c
               /\ \A i \in 1..n : d[i] = ReadElement(d[i - 1], kinds, p)
               /\ ReadElements(c, n, kinds, p) = d[n]
  BY ReadElementsChain
<1>2. \A i \in 0..n : d[i] \in Cursors(ElementList)
  BY <1>1, ElementsTyped
<1>3. \A i, v, q : <<i, v, q>> \in R <=>
        /\ i \in 1..n /\ v \in ElementList /\ q \in Bytes
        /\ v \in RawOf(kinds) /\ q = ElementBytes(kinds, v)
  OBVIOUS
<1> HIDE DEF R
<1>4. ASSUME NEW i \in 1..n, d[i].error = "ok"
      PROVE  /\ d[i - 1].error = "ok"
             /\ \E v \in ElementList, q \in Bytes :
                  /\ <<i, v, q>> \in R
                  /\ d[i].got = Append(d[i - 1].got, v)
                  /\ d[i - 1].rest = q \o d[i].rest
  <2>1. i - 1 \in 0..n /\ d[i] = ReadElement(d[i - 1], kinds, p)
    BY <1>1
  <2>2. d[i - 1] \in Cursors(ElementList) /\ Seq(Fields) \subseteq ElementList
    BY <1>2, <2>1 DEF ElementList
  <2>3. ReadElement(d[i - 1], kinds, p).error = "ok"
    BY <1>4, <2>1
  <2>4. /\ d[i - 1].error = "ok"
        /\ \E g \in RawOf(kinds) :
              /\ ReadElement(d[i - 1], kinds, p).got = Append(d[i - 1].got, g)
              /\ d[i - 1].rest = ElementBytes(kinds, g) \o ReadElement(d[i - 1], kinds, p).rest
    BY <2>2, <2>3, ElementSound
  <2>5. PICK g \in RawOf(kinds) :
              /\ d[i].got = Append(d[i - 1].got, g)
              /\ d[i - 1].rest = ElementBytes(kinds, g) \o d[i].rest
    BY <2>1, <2>4
  <2>6. g \in ElementList /\ ElementBytes(kinds, g) \in Bytes
    BY RawPieces DEF ElementList
  <2>7. <<i, g, ElementBytes(kinds, g)>> \in R
    BY <1>3, <2>6
  <2> QED BY <2>4, <2>5, <2>6, <2>7
<1>5. ASSUME d[n].error = "ok" PROVE ElementsRead(c, n, kinds, d[n])
  <2>1. d[0].got = <<>> /\ Links(ElementList, R, n, d)
    BY <1>1, <1>4 DEF Links
  <2>2. PICK qs \in Seq(Bytes) : HasRead(R, n, d, qs)
    BY <1>2, <1>5, <2>1, ChainSound
  <2> DEFINE gs == d[n].got
  <2>3. /\ c.error = "ok" /\ Len(qs) = n /\ Len(gs) = n
        /\ \A i \in 1..n : <<i, gs[i], qs[i]>> \in R
    BY <1>1, <2>2 DEF HasRead
  <2>4. gs \in Seq(ElementList)
    BY <1>2 DEF Cursors
  <2> HIDE DEF gs
  <2>5. \A i \in 1..n : gs[i] \in RawOf(kinds) /\ qs[i] = ElementBytes(kinds, gs[i])
    BY <1>3, <2>3
  <2>6. gs \in Seq(RawOf(kinds))
    <3> HIDE DEF ElementList
    <3> QED BY <2>3, <2>4, <2>5
  <2> DEFINE r == PiecesOfAll(kinds, gs)
  <2>7. r \in Seq(Bytes) /\ Len(r) = n /\ \A i \in 1..n : r[i] = ElementBytes(kinds, gs[i])
    BY <2>3, <2>6, AllPieces
  <2>8. qs = r
    <3> HIDE DEF r
    <3>1. Len(qs) = Len(r) /\ \A i \in 1..Len(qs) : qs[i] = r[i]
      BY <2>3, <2>5, <2>7
    <3> QED BY <2>7, <3>1, SeqEqual
  <2>9. c.rest = FlattenSeq(qs) \o d[n].rest
    BY <1>1, <2>2, Zenon DEF HasRead
  <2>10. c.rest = FlattenSeq(PiecesOfAll(kinds, gs)) \o d[n].rest
    BY <2>8, <2>9, Zenon
  <2> QED BY <2>3, <2>6, <2>10, Zenon DEF ElementsRead, gs
<1>6. d[n] \in Cursors(ElementList)
  BY <1>2
<1> QED BY <1>1, <1>5, <1>6

ElementsDone(gs, t, kinds, p, d) ==
  /\ d.error = "ok" => d.rest = t /\ d.got = gs
  /\ (\A i \in 1..Len(gs) : AllFit(kinds, gs[i], p)) => d.error = "ok"

(* All elements of a list written within the limits are read.              *)
LEMMA ElementsComplete ==
  ASSUME NEW c \in Cursors(ElementList), c.got = <<>>, c.error = "ok",
         NEW kinds \in Seq(FieldKinds), NEW p \in ValidationPolicies,
         NEW gs \in Seq(RawOf(kinds)), NEW t \in Bytes,
         c.rest = FlattenSeq(PiecesOfAll(kinds, gs)) \o t
  PROVE  ElementsDone(gs, t, kinds, p, ReadElements(c, Len(gs), kinds, p))
<1> DEFINE n == Len(gs)
           qs == PiecesOfAll(kinds, gs)
           fits == \A i \in 1..n : AllFit(kinds, gs[i], p)
<1>1. n \in Nat
  OBVIOUS
<1>2. /\ qs \in Seq(Bytes) /\ Len(qs) = n /\ gs \in Seq(ElementList)
      /\ \A i \in 1..n : qs[i] = ElementBytes(kinds, gs[i])
  BY AllPieces
<1>3. \A i \in 1..n : gs[i] \in RawOf(kinds)
  OBVIOUS
<1> HIDE DEF qs
<1>4. PICK d : /\ d[0] = c
               /\ \A i \in 1..n : d[i] = ReadElement(d[i - 1], kinds, p)
               /\ ReadElements(c, n, kinds, p) = d[n]
  <2> HIDE DEF n
  <2> QED BY <1>1, ReadElementsChain
<1>5. \A i \in 0..n : d[i] \in Cursors(ElementList)
  <2> HIDE DEF n
  <2> QED BY <1>1, <1>4, ElementsTyped
<1>6. ASSUME NEW i \in 1..n
      PROVE  d[i - 1] \in Cursors(ElementList) /\ d[i] = ReadElement(d[i - 1], kinds, p)
             /\ Seq(Fields) \subseteq ElementList
  <2>1. i - 1 \in 0..n
    OBVIOUS
  <2> QED BY <1>4, <1>5, <2>1 DEF ElementList
<1>7. ASSUME NEW i \in 1..n, d[i].error = "ok" PROVE d[i - 1].error = "ok"
  <2>1. ReadElement(d[i - 1], kinds, p).error = "ok"
    BY <1>6, <1>7
  <2> QED BY <1>6, <2>1, ElementSound
<1>8. ASSUME NEW i \in 1..n, NEW u \in Bytes, d[i - 1].error = "ok", d[i - 1].rest = qs[i] \o u
      PROVE  /\ d[i].error = "ok" => d[i].rest = u /\ d[i].got = Append(d[i - 1].got, gs[i])
             /\ fits = TRUE => d[i].error = "ok"
  <2> DEFINE g == gs[i]
             b == d[i - 1]
             e == ReadElement(b, kinds, p)
  <2>1. g \in RawOf(kinds) /\ b \in Cursors(ElementList) /\ b.error = "ok" /\ d[i] = e
        /\ Seq(Fields) \subseteq ElementList
    BY <1>3, <1>6, <1>8
  <2>2. b.rest = ElementBytes(kinds, g) \o u
    BY <1>2, <1>8
  <2> HIDE DEF g, b
  <2>3. ElementDone(b, g, u, kinds, p, e)
    BY <2>1, <2>2, ElementComplete, Zenon
  <2>4. fits = TRUE => AllFit(kinds, g, p)
    BY DEF g
  <2> HIDE DEF e, fits
  <2> QED BY <2>1, <2>3, <2>4 DEF g, b, ElementDone
<1>9. Ends(gs, t, n, d, fits)
  <2> HIDE DEF n, fits
  <2>1. d[0].got = <<>> /\ d[0].error = "ok" /\ d[0].rest = FlattenSeq(qs) \o t
    BY <1>4, Zenon DEF qs
  <2>2. Follows(gs, qs, t, n, d, fits)
    BY <1>7, <1>8, <2>1 DEF Follows
  <2>3. Len(gs) = n
    BY DEF n
  <2> QED BY <1>1, <1>2, <1>5, <2>2, <2>3, ChainComplete
<1> QED BY <1>4, <1>9 DEF Ends, ElementsDone
-----------------------------------------------------------------------------
(* Contexts, envelopes and indexes as the fields they are written as.      *)

(* The concatenation of n pieces, one by one.                              *)
LEMMA FlattenSteps ==
  ASSUME NEW qs, Len(qs) \in Nat \ {0}
  PROVE  \E f : /\ f[1] = qs[1] /\ FlattenSeq(qs) = f[Len(qs)]
                /\ \A i \in 1..(Len(qs) - 1) : f[i + 1] = f[i] \o qs[i + 1]
<1>1. PICK f : Flat(f, qs, Len(qs)) /\ FlattenSeq(qs) = f[Len(qs)]
  BY FlattenIsFlat
<1> DEFINE n == Len(qs)
<1>2. n \in Nat /\ n \in Nat \ {0}
  OBVIOUS
<1>3. f[1] = qs[1]
  BY <1>1, <1>2, FlatFirst
<1>4. ASSUME NEW i \in 1..(n - 1) PROVE f[i + 1] = f[i] \o qs[i + 1]
  <2> HIDE DEF n
  <2> QED BY <1>1, <1>2, FlatStep, Zenon DEF n
<1> QED BY <1>1, <1>3, <1>4

(* A context as the values of its fields, in their order.                  *)
RawContext(x) == <<ContextDomain, x.tenant, x.object_id, x.field, x.epoch, x.version, x.schema_version>>

(* The seven fields of a context.                                          *)
LEMMA ContextFieldKinds ==
  /\ ContextFields \in Seq(FieldKinds) /\ Len(ContextFields) = 7
  /\ /\ ContextFields[1] = "context domain"
         /\ ContextFields[2] = "string"
         /\ ContextFields[3] = "string"
         /\ ContextFields[4] = "string"
         /\ ContextFields[5] = "number"
         /\ ContextFields[6] = "number"
         /\ ContextFields[7] = "number"
BY DEF ContextFields, FieldKinds, NumberKinds

(* Their places.                                                           *)
LEMMA ContextPlaces ==
  1 \in 1..7 /\ 2 \in 1..7 /\ 3 \in 1..7 /\ 4 \in 1..7 /\ 5 \in 1..7 /\ 6 \in 1..7 /\ 7 \in 1..7
OBVIOUS

(* What is read of context fields is that of one of the type.              *)
LEMMA ContextFromRaw ==
  ASSUME NEW g \in RawOf(ContextFields)
  PROVE  AsContext(g) \in Contexts /\ g = RawContext(AsContext(g))
<1>1. g \in Seq(Fields) /\ Len(g) = 7
  BY ContextFieldKinds DEF RawOf
<1>2. \A i \in 1..7 : g[i] \in ValuesOf(ContextFields[i])
  BY ContextFieldKinds DEF RawOf
<1>3. /\ g[1] \in ValuesOf(ContextFields[1])
      /\ g[2] \in ValuesOf(ContextFields[2])
      /\ g[3] \in ValuesOf(ContextFields[3])
      /\ g[4] \in ValuesOf(ContextFields[4])
      /\ g[5] \in ValuesOf(ContextFields[5])
      /\ g[6] \in ValuesOf(ContextFields[6])
      /\ g[7] \in ValuesOf(ContextFields[7])
  BY <1>2, ContextPlaces, Zenon
<1>4. /\ g[1] \in ValuesOf("context domain")
      /\ g[2] \in ValuesOf("string")
      /\ g[3] \in ValuesOf("string")
      /\ g[4] \in ValuesOf("string")
      /\ g[5] \in ValuesOf("number")
      /\ g[6] \in ValuesOf("number")
      /\ g[7] \in ValuesOf("number")
  BY <1>3, ContextFieldKinds, Zenon
<1>5. /\ g[1] \in {ContextDomain}
      /\ g[2] \in Texts
      /\ g[3] \in Texts
      /\ g[4] \in Texts
      /\ g[5] \in Nat
      /\ g[6] \in Nat
      /\ g[7] \in Nat
  BY <1>4 DEF ValuesOf
<1>6. AsContext(g) \in Contexts
  BY <1>5 DEF AsContext, Contexts
<1>7. RawContext(AsContext(g)) = <<ContextDomain, g[2], g[3], g[4], g[5], g[6], g[7]>>
  BY DEF RawContext, AsContext
<1> DEFINE h == <<ContextDomain, g[2], g[3], g[4], g[5], g[6], g[7]>>
<1>8. g = h
  <2>1. h \in Seq(Fields) /\ Len(h) = 7
    BY <1>5, TextsAreBytes, LengthAssumption DEF Fields
  <2>2. \A i \in 1..7 : h[i] = g[i]
    BY <1>5
  <2> HIDE DEF h
  <2> QED BY <1>1, <2>1, <2>2, SeqEqual
<1> QED BY <1>6, <1>7, <1>8, Zenon

(* The fields of one of the type are fields of its kinds, and give it back.*)
LEMMA RawFromContext ==
  ASSUME NEW x \in Contexts
  PROVE  RawContext(x) \in RawOf(ContextFields) /\ AsContext(RawContext(x)) = x
<1> DEFINE g == RawContext(x)
<1>1. /\ x.tenant \in Texts
      /\ x.object_id \in Texts
      /\ x.field \in Texts
      /\ x.epoch \in Nat
      /\ x.version \in Nat
      /\ x.schema_version \in Nat
  BY DEF Contexts
<1>2. x = [tenant |-> x.tenant, object_id |-> x.object_id, field |-> x.field, epoch |-> x.epoch, version |-> x.version, schema_version |-> x.schema_version]
  BY DEF Contexts
<1>3. ContextDomain \in Bytes /\ Texts \subseteq Bytes
  BY LengthAssumption, TextsAreBytes
<1>4. /\ g[1] = ContextDomain
      /\ g[2] = x.tenant
      /\ g[3] = x.object_id
      /\ g[4] = x.field
      /\ g[5] = x.epoch
      /\ g[6] = x.version
      /\ g[7] = x.schema_version
  BY DEF RawContext
<1>5. Len(g) = 7 /\ g \in Seq(Fields)
  BY <1>1, <1>3 DEF RawContext, Fields
<1> HIDE DEF g
<1>6. AsContext(g) = x
  BY <1>2, <1>4, Zenon DEF AsContext
<1>7. /\ g[1] \in ValuesOf("context domain")
      /\ g[2] \in ValuesOf("string")
      /\ g[3] \in ValuesOf("string")
      /\ g[4] \in ValuesOf("string")
      /\ g[5] \in ValuesOf("number")
      /\ g[6] \in ValuesOf("number")
      /\ g[7] \in ValuesOf("number")
  BY <1>1, <1>4 DEF ValuesOf
<1>8. /\ g[1] \in ValuesOf(ContextFields[1])
      /\ g[2] \in ValuesOf(ContextFields[2])
      /\ g[3] \in ValuesOf(ContextFields[3])
      /\ g[4] \in ValuesOf(ContextFields[4])
      /\ g[5] \in ValuesOf(ContextFields[5])
      /\ g[6] \in ValuesOf(ContextFields[6])
      /\ g[7] \in ValuesOf(ContextFields[7])
  BY <1>7, ContextFieldKinds, Zenon
<1>9. ASSUME NEW i \in 1..7 PROVE g[i] \in ValuesOf(ContextFields[i])
  <2>1. i = 1 \/ i = 2 \/ i = 3 \/ i = 4 \/ i = 5 \/ i = 6 \/ i = 7
    OBVIOUS
  <2> QED BY <1>8, <2>1, Zenon
<1>10. g \in RawOf(ContextFields)
  BY <1>5, <1>9, ContextFieldKinds DEF RawOf
<1> QED BY <1>6, <1>10 DEF g

(* The bytes written for context are the pieces of its fields, joined.     *)
LEMMA ContextPieces ==
  ASSUME NEW x \in Contexts
  PROVE  LET qs == PiecesOf(ContextFields, RawContext(x)) IN
         /\ /\ qs[1] = Prefixed(ContextDomain)
         /\ qs[2] = Prefixed(x.tenant)
         /\ qs[3] = Prefixed(x.object_id)
         /\ qs[4] = Prefixed(x.field)
         /\ qs[5] = <<x.epoch>>
         /\ qs[6] = <<x.version>>
         /\ qs[7] = <<x.schema_version>>
         /\ qs \in Seq(Bytes) /\ Len(qs) = 7
<1> DEFINE g == RawContext(x)
           qs == PiecesOf(ContextFields, g)
<1>1. g \in RawOf(ContextFields) /\ ContextFields \in Seq(FieldKinds) /\ Len(ContextFields) = 7
  BY RawFromContext, ContextFieldKinds
<1>2. qs \in Seq(Bytes)
  BY <1>1, RawPieces
<1>3. Len(qs) = 7 /\ \A i \in 1..7 : qs[i] = Piece(ContextFields[i], g[i])
  BY <1>1 DEF PiecesOf
<1>4. /\ g[1] = ContextDomain
      /\ g[2] = x.tenant
      /\ g[3] = x.object_id
      /\ g[4] = x.field
      /\ g[5] = x.epoch
      /\ g[6] = x.version
      /\ g[7] = x.schema_version
  BY DEF RawContext
<1> HIDE DEF g, qs
<1>5. /\ qs[1] = Piece(ContextFields[1], g[1])
      /\ qs[2] = Piece(ContextFields[2], g[2])
      /\ qs[3] = Piece(ContextFields[3], g[3])
      /\ qs[4] = Piece(ContextFields[4], g[4])
      /\ qs[5] = Piece(ContextFields[5], g[5])
      /\ qs[6] = Piece(ContextFields[6], g[6])
      /\ qs[7] = Piece(ContextFields[7], g[7])
  BY <1>3, ContextPlaces, Zenon
<1>6. /\ qs[1] = Piece("context domain", ContextDomain)
      /\ qs[2] = Piece("string", x.tenant)
      /\ qs[3] = Piece("string", x.object_id)
      /\ qs[4] = Piece("string", x.field)
      /\ qs[5] = Piece("number", x.epoch)
      /\ qs[6] = Piece("number", x.version)
      /\ qs[7] = Piece("number", x.schema_version)
  BY <1>4, <1>5, ContextFieldKinds, Zenon
<1>7. /\ qs[1] = Prefixed(ContextDomain)
      /\ qs[2] = Prefixed(x.tenant)
      /\ qs[3] = Prefixed(x.object_id)
      /\ qs[4] = Prefixed(x.field)
      /\ qs[5] = <<x.epoch>>
      /\ qs[6] = <<x.version>>
      /\ qs[7] = <<x.schema_version>>
  BY <1>6 DEF Piece, NumberKinds
<1> QED BY <1>2, <1>3, <1>7, Zenon DEF qs, g

(* Their bytes, joined one by one.                                         *)
LEMMA ContextJoined ==
  ASSUME NEW x \in Contexts
  PROVE  LET qs == PiecesOf(ContextFields, RawContext(x)) IN
         \E f : /\ f[1] = qs[1] /\ FlattenSeq(qs) = f[7]
               /\ /\ f[2] = f[1] \o qs[2]
               /\ f[3] = f[2] \o qs[3]
               /\ f[4] = f[3] \o qs[4]
               /\ f[5] = f[4] \o qs[5]
               /\ f[6] = f[5] \o qs[6]
               /\ f[7] = f[6] \o qs[7]
<1> DEFINE qs == PiecesOf(ContextFields, RawContext(x))
<1>1. Len(qs) = 7
  BY ContextPieces, Zenon
<1> HIDE DEF qs
<1>2. PICK f : /\ f[1] = qs[1] /\ FlattenSeq(qs) = f[7]
               /\ \A i \in 1..6 : f[i + 1] = f[i] \o qs[i + 1]
  <2>1. Len(qs) \in Nat \ {0} /\ Len(qs) - 1 = 6
    BY <1>1
  <2> QED BY <1>1, <2>1, FlattenSteps, ZenonT(60)
<1>3. 1 \in 1..6 /\ 2 \in 1..6 /\ 3 \in 1..6 /\ 4 \in 1..6 /\ 5 \in 1..6 /\ 6 \in 1..6
  OBVIOUS
<1>4. /\ f[1 + 1] = f[1] \o qs[1 + 1]
      /\ f[2 + 1] = f[2] \o qs[2 + 1]
      /\ f[3 + 1] = f[3] \o qs[3 + 1]
      /\ f[4 + 1] = f[4] \o qs[4 + 1]
      /\ f[5 + 1] = f[5] \o qs[5 + 1]
      /\ f[6 + 1] = f[6] \o qs[6 + 1]
  BY <1>2, <1>3, Zenon
<1>5. 1 + 1 = 2 /\ 2 + 1 = 3 /\ 3 + 1 = 4 /\ 4 + 1 = 5 /\ 5 + 1 = 6 /\ 6 + 1 = 7
  OBVIOUS
<1>6. /\ f[2] = f[1] \o qs[2]
      /\ f[3] = f[2] \o qs[3]
      /\ f[4] = f[3] \o qs[4]
      /\ f[5] = f[4] \o qs[5]
      /\ f[6] = f[5] \o qs[6]
      /\ f[7] = f[6] \o qs[7]
  BY <1>4, <1>5, Zenon
<1> QED BY <1>2, <1>6, Zenon DEF qs

(* An envelope as the values of its fields, in their order.                *)
RawEnvelope(x) == <<x.recipient_id, x.key_epoch, x.recipient_key_id, x.encapsulated_key, x.wrapped_dek>>

(* The five fields of an envelope.                                         *)
LEMMA EnvelopeFieldKinds ==
  /\ EnvelopeFields \in Seq(FieldKinds) /\ Len(EnvelopeFields) = 5
  /\ /\ EnvelopeFields[1] = "string"
         /\ EnvelopeFields[2] = "number"
         /\ EnvelopeFields[3] = "number"
         /\ EnvelopeFields[4] = "bytes"
         /\ EnvelopeFields[5] = "bytes"
BY DEF EnvelopeFields, FieldKinds, NumberKinds

(* Their places.                                                           *)
LEMMA EnvelopePlaces ==
  1 \in 1..5 /\ 2 \in 1..5 /\ 3 \in 1..5 /\ 4 \in 1..5 /\ 5 \in 1..5
OBVIOUS

(* What is read of envelope fields is that of one of the type.             *)
LEMMA EnvelopeFromRaw ==
  ASSUME NEW g \in RawOf(EnvelopeFields)
  PROVE  AsEnvelope(g) \in Envelopes /\ g = RawEnvelope(AsEnvelope(g))
<1>1. g \in Seq(Fields) /\ Len(g) = 5
  BY EnvelopeFieldKinds DEF RawOf
<1>2. \A i \in 1..5 : g[i] \in ValuesOf(EnvelopeFields[i])
  BY EnvelopeFieldKinds DEF RawOf
<1>3. /\ g[1] \in ValuesOf(EnvelopeFields[1])
      /\ g[2] \in ValuesOf(EnvelopeFields[2])
      /\ g[3] \in ValuesOf(EnvelopeFields[3])
      /\ g[4] \in ValuesOf(EnvelopeFields[4])
      /\ g[5] \in ValuesOf(EnvelopeFields[5])
  BY <1>2, EnvelopePlaces, Zenon
<1>4. /\ g[1] \in ValuesOf("string")
      /\ g[2] \in ValuesOf("number")
      /\ g[3] \in ValuesOf("number")
      /\ g[4] \in ValuesOf("bytes")
      /\ g[5] \in ValuesOf("bytes")
  BY <1>3, EnvelopeFieldKinds, Zenon
<1>5. /\ g[1] \in Texts
      /\ g[2] \in Nat
      /\ g[3] \in Nat
      /\ g[4] \in Bytes
      /\ g[5] \in Bytes
  BY <1>4 DEF ValuesOf
<1>6. AsEnvelope(g) \in Envelopes
  BY <1>5 DEF AsEnvelope, Envelopes
<1>7. RawEnvelope(AsEnvelope(g)) = <<g[1], g[2], g[3], g[4], g[5]>>
  BY DEF RawEnvelope, AsEnvelope
<1> DEFINE h == <<g[1], g[2], g[3], g[4], g[5]>>
<1>8. g = h
  <2>1. h \in Seq(Fields) /\ Len(h) = 5
    BY <1>5, TextsAreBytes, LengthAssumption DEF Fields
  <2>2. \A i \in 1..5 : h[i] = g[i]
    BY <1>5
  <2> HIDE DEF h
  <2> QED BY <1>1, <2>1, <2>2, SeqEqual
<1> QED BY <1>6, <1>7, <1>8, Zenon

(* The fields of one of the type are fields of its kinds, and give it back.*)
LEMMA RawFromEnvelope ==
  ASSUME NEW x \in Envelopes
  PROVE  RawEnvelope(x) \in RawOf(EnvelopeFields) /\ AsEnvelope(RawEnvelope(x)) = x
<1> DEFINE g == RawEnvelope(x)
<1>1. /\ x.recipient_id \in Texts
      /\ x.key_epoch \in Nat
      /\ x.recipient_key_id \in Nat
      /\ x.encapsulated_key \in Bytes
      /\ x.wrapped_dek \in Bytes
  BY DEF Envelopes
<1>2. x = [recipient_id |-> x.recipient_id, key_epoch |-> x.key_epoch, recipient_key_id |-> x.recipient_key_id, encapsulated_key |-> x.encapsulated_key, wrapped_dek |-> x.wrapped_dek]
  BY DEF Envelopes
<1>3. ContextDomain \in Bytes /\ Texts \subseteq Bytes
  BY LengthAssumption, TextsAreBytes
<1>4. /\ g[1] = x.recipient_id
      /\ g[2] = x.key_epoch
      /\ g[3] = x.recipient_key_id
      /\ g[4] = x.encapsulated_key
      /\ g[5] = x.wrapped_dek
  BY DEF RawEnvelope
<1>5. Len(g) = 5 /\ g \in Seq(Fields)
  BY <1>1, <1>3 DEF RawEnvelope, Fields
<1> HIDE DEF g
<1>6. AsEnvelope(g) = x
  BY <1>2, <1>4, Zenon DEF AsEnvelope
<1>7. /\ g[1] \in ValuesOf("string")
      /\ g[2] \in ValuesOf("number")
      /\ g[3] \in ValuesOf("number")
      /\ g[4] \in ValuesOf("bytes")
      /\ g[5] \in ValuesOf("bytes")
  BY <1>1, <1>4 DEF ValuesOf
<1>8. /\ g[1] \in ValuesOf(EnvelopeFields[1])
      /\ g[2] \in ValuesOf(EnvelopeFields[2])
      /\ g[3] \in ValuesOf(EnvelopeFields[3])
      /\ g[4] \in ValuesOf(EnvelopeFields[4])
      /\ g[5] \in ValuesOf(EnvelopeFields[5])
  BY <1>7, EnvelopeFieldKinds, Zenon
<1>9. ASSUME NEW i \in 1..5 PROVE g[i] \in ValuesOf(EnvelopeFields[i])
  <2>1. i = 1 \/ i = 2 \/ i = 3 \/ i = 4 \/ i = 5
    OBVIOUS
  <2> QED BY <1>8, <2>1, Zenon
<1>10. g \in RawOf(EnvelopeFields)
  BY <1>5, <1>9, EnvelopeFieldKinds DEF RawOf
<1> QED BY <1>6, <1>10 DEF g

(* The bytes written for envelope are the pieces of its fields, joined.    *)
LEMMA EnvelopePieces ==
  ASSUME NEW x \in Envelopes
  PROVE  LET qs == PiecesOf(EnvelopeFields, RawEnvelope(x)) IN
         /\ /\ qs[1] = Prefixed(x.recipient_id)
         /\ qs[2] = <<x.key_epoch>>
         /\ qs[3] = <<x.recipient_key_id>>
         /\ qs[4] = Prefixed(x.encapsulated_key)
         /\ qs[5] = Prefixed(x.wrapped_dek)
         /\ qs \in Seq(Bytes) /\ Len(qs) = 5
<1> DEFINE g == RawEnvelope(x)
           qs == PiecesOf(EnvelopeFields, g)
<1>1. g \in RawOf(EnvelopeFields) /\ EnvelopeFields \in Seq(FieldKinds) /\ Len(EnvelopeFields) = 5
  BY RawFromEnvelope, EnvelopeFieldKinds
<1>2. qs \in Seq(Bytes)
  BY <1>1, RawPieces
<1>3. Len(qs) = 5 /\ \A i \in 1..5 : qs[i] = Piece(EnvelopeFields[i], g[i])
  BY <1>1 DEF PiecesOf
<1>4. /\ g[1] = x.recipient_id
      /\ g[2] = x.key_epoch
      /\ g[3] = x.recipient_key_id
      /\ g[4] = x.encapsulated_key
      /\ g[5] = x.wrapped_dek
  BY DEF RawEnvelope
<1> HIDE DEF g, qs
<1>5. /\ qs[1] = Piece(EnvelopeFields[1], g[1])
      /\ qs[2] = Piece(EnvelopeFields[2], g[2])
      /\ qs[3] = Piece(EnvelopeFields[3], g[3])
      /\ qs[4] = Piece(EnvelopeFields[4], g[4])
      /\ qs[5] = Piece(EnvelopeFields[5], g[5])
  BY <1>3, EnvelopePlaces, Zenon
<1>6. /\ qs[1] = Piece("string", x.recipient_id)
      /\ qs[2] = Piece("number", x.key_epoch)
      /\ qs[3] = Piece("number", x.recipient_key_id)
      /\ qs[4] = Piece("bytes", x.encapsulated_key)
      /\ qs[5] = Piece("bytes", x.wrapped_dek)
  BY <1>4, <1>5, EnvelopeFieldKinds, Zenon
<1>7. /\ qs[1] = Prefixed(x.recipient_id)
      /\ qs[2] = <<x.key_epoch>>
      /\ qs[3] = <<x.recipient_key_id>>
      /\ qs[4] = Prefixed(x.encapsulated_key)
      /\ qs[5] = Prefixed(x.wrapped_dek)
  BY <1>6 DEF Piece, NumberKinds
<1> QED BY <1>2, <1>3, <1>7, Zenon DEF qs, g

(* Their bytes, joined one by one.                                         *)
LEMMA EnvelopeJoined ==
  ASSUME NEW x \in Envelopes
  PROVE  LET qs == PiecesOf(EnvelopeFields, RawEnvelope(x)) IN
         \E f : /\ f[1] = qs[1] /\ FlattenSeq(qs) = f[5]
               /\ /\ f[2] = f[1] \o qs[2]
               /\ f[3] = f[2] \o qs[3]
               /\ f[4] = f[3] \o qs[4]
               /\ f[5] = f[4] \o qs[5]
<1> DEFINE qs == PiecesOf(EnvelopeFields, RawEnvelope(x))
<1>1. Len(qs) = 5
  BY EnvelopePieces, Zenon
<1> HIDE DEF qs
<1>2. PICK f : /\ f[1] = qs[1] /\ FlattenSeq(qs) = f[5]
               /\ \A i \in 1..4 : f[i + 1] = f[i] \o qs[i + 1]
  <2>1. Len(qs) \in Nat \ {0} /\ Len(qs) - 1 = 4
    BY <1>1
  <2> QED BY <1>1, <2>1, FlattenSteps, ZenonT(60)
<1>3. 1 \in 1..4 /\ 2 \in 1..4 /\ 3 \in 1..4 /\ 4 \in 1..4
  OBVIOUS
<1>4. /\ f[1 + 1] = f[1] \o qs[1 + 1]
      /\ f[2 + 1] = f[2] \o qs[2 + 1]
      /\ f[3 + 1] = f[3] \o qs[3 + 1]
      /\ f[4 + 1] = f[4] \o qs[4 + 1]
  BY <1>2, <1>3, Zenon
<1>5. 1 + 1 = 2 /\ 2 + 1 = 3 /\ 3 + 1 = 4 /\ 4 + 1 = 5
  OBVIOUS
<1>6. /\ f[2] = f[1] \o qs[2]
      /\ f[3] = f[2] \o qs[3]
      /\ f[4] = f[3] \o qs[4]
      /\ f[5] = f[4] \o qs[5]
  BY <1>4, <1>5, Zenon
<1> QED BY <1>2, <1>6, Zenon DEF qs

(* An index as the values of its fields, in their order.                   *)
RawIndex(x) == <<x.label, x.schema_version, x.canonicalizer_id, x.canonicalizer_version, x.key_epoch, x.token>>

(* The six fields of an index.                                             *)
LEMMA IndexFieldKinds ==
  /\ IndexFields \in Seq(FieldKinds) /\ Len(IndexFields) = 6
  /\ /\ IndexFields[1] = "string"
         /\ IndexFields[2] = "number"
         /\ IndexFields[3] = "string"
         /\ IndexFields[4] = "number"
         /\ IndexFields[5] = "number"
         /\ IndexFields[6] = "number"
BY DEF IndexFields, FieldKinds, NumberKinds

(* Their places.                                                           *)
LEMMA IndexPlaces ==
  1 \in 1..6 /\ 2 \in 1..6 /\ 3 \in 1..6 /\ 4 \in 1..6 /\ 5 \in 1..6 /\ 6 \in 1..6
OBVIOUS

(* What is read of index fields is that of one of the type.                *)
LEMMA IndexFromRaw ==
  ASSUME NEW g \in RawOf(IndexFields)
  PROVE  AsIndex(g) \in Indexes /\ g = RawIndex(AsIndex(g))
<1>1. g \in Seq(Fields) /\ Len(g) = 6
  BY IndexFieldKinds DEF RawOf
<1>2. \A i \in 1..6 : g[i] \in ValuesOf(IndexFields[i])
  BY IndexFieldKinds DEF RawOf
<1>3. /\ g[1] \in ValuesOf(IndexFields[1])
      /\ g[2] \in ValuesOf(IndexFields[2])
      /\ g[3] \in ValuesOf(IndexFields[3])
      /\ g[4] \in ValuesOf(IndexFields[4])
      /\ g[5] \in ValuesOf(IndexFields[5])
      /\ g[6] \in ValuesOf(IndexFields[6])
  BY <1>2, IndexPlaces, Zenon
<1>4. /\ g[1] \in ValuesOf("string")
      /\ g[2] \in ValuesOf("number")
      /\ g[3] \in ValuesOf("string")
      /\ g[4] \in ValuesOf("number")
      /\ g[5] \in ValuesOf("number")
      /\ g[6] \in ValuesOf("number")
  BY <1>3, IndexFieldKinds, Zenon
<1>5. /\ g[1] \in Texts
      /\ g[2] \in Nat
      /\ g[3] \in Texts
      /\ g[4] \in Nat
      /\ g[5] \in Nat
      /\ g[6] \in Nat
  BY <1>4 DEF ValuesOf
<1>6. AsIndex(g) \in Indexes
  BY <1>5 DEF AsIndex, Indexes
<1>7. RawIndex(AsIndex(g)) = <<g[1], g[2], g[3], g[4], g[5], g[6]>>
  BY DEF RawIndex, AsIndex
<1> DEFINE h == <<g[1], g[2], g[3], g[4], g[5], g[6]>>
<1>8. g = h
  <2>1. h \in Seq(Fields) /\ Len(h) = 6
    BY <1>5, TextsAreBytes, LengthAssumption DEF Fields
  <2>2. \A i \in 1..6 : h[i] = g[i]
    BY <1>5
  <2> HIDE DEF h
  <2> QED BY <1>1, <2>1, <2>2, SeqEqual
<1> QED BY <1>6, <1>7, <1>8, Zenon

(* The fields of one of the type are fields of its kinds, and give it back.*)
LEMMA RawFromIndex ==
  ASSUME NEW x \in Indexes
  PROVE  RawIndex(x) \in RawOf(IndexFields) /\ AsIndex(RawIndex(x)) = x
<1> DEFINE g == RawIndex(x)
<1>1. /\ x.label \in Texts
      /\ x.schema_version \in Nat
      /\ x.canonicalizer_id \in Texts
      /\ x.canonicalizer_version \in Nat
      /\ x.key_epoch \in Nat
      /\ x.token \in Nat
  BY DEF Indexes
<1>2. x = [label |-> x.label, schema_version |-> x.schema_version, canonicalizer_id |-> x.canonicalizer_id, canonicalizer_version |-> x.canonicalizer_version, key_epoch |-> x.key_epoch, token |-> x.token]
  BY DEF Indexes
<1>3. ContextDomain \in Bytes /\ Texts \subseteq Bytes
  BY LengthAssumption, TextsAreBytes
<1>4. /\ g[1] = x.label
      /\ g[2] = x.schema_version
      /\ g[3] = x.canonicalizer_id
      /\ g[4] = x.canonicalizer_version
      /\ g[5] = x.key_epoch
      /\ g[6] = x.token
  BY DEF RawIndex
<1>5. Len(g) = 6 /\ g \in Seq(Fields)
  BY <1>1, <1>3 DEF RawIndex, Fields
<1> HIDE DEF g
<1>6. AsIndex(g) = x
  BY <1>2, <1>4, Zenon DEF AsIndex
<1>7. /\ g[1] \in ValuesOf("string")
      /\ g[2] \in ValuesOf("number")
      /\ g[3] \in ValuesOf("string")
      /\ g[4] \in ValuesOf("number")
      /\ g[5] \in ValuesOf("number")
      /\ g[6] \in ValuesOf("number")
  BY <1>1, <1>4 DEF ValuesOf
<1>8. /\ g[1] \in ValuesOf(IndexFields[1])
      /\ g[2] \in ValuesOf(IndexFields[2])
      /\ g[3] \in ValuesOf(IndexFields[3])
      /\ g[4] \in ValuesOf(IndexFields[4])
      /\ g[5] \in ValuesOf(IndexFields[5])
      /\ g[6] \in ValuesOf(IndexFields[6])
  BY <1>7, IndexFieldKinds, Zenon
<1>9. ASSUME NEW i \in 1..6 PROVE g[i] \in ValuesOf(IndexFields[i])
  <2>1. i = 1 \/ i = 2 \/ i = 3 \/ i = 4 \/ i = 5 \/ i = 6
    OBVIOUS
  <2> QED BY <1>8, <2>1, Zenon
<1>10. g \in RawOf(IndexFields)
  BY <1>5, <1>9, IndexFieldKinds DEF RawOf
<1> QED BY <1>6, <1>10 DEF g

(* The bytes written for index are the pieces of its fields, joined.       *)
LEMMA IndexPieces ==
  ASSUME NEW x \in Indexes
  PROVE  LET qs == PiecesOf(IndexFields, RawIndex(x)) IN
         /\ /\ qs[1] = Prefixed(x.label)
         /\ qs[2] = <<x.schema_version>>
         /\ qs[3] = Prefixed(x.canonicalizer_id)
         /\ qs[4] = <<x.canonicalizer_version>>
         /\ qs[5] = <<x.key_epoch>>
         /\ qs[6] = <<x.token>>
         /\ qs \in Seq(Bytes) /\ Len(qs) = 6
<1> DEFINE g == RawIndex(x)
           qs == PiecesOf(IndexFields, g)
<1>1. g \in RawOf(IndexFields) /\ IndexFields \in Seq(FieldKinds) /\ Len(IndexFields) = 6
  BY RawFromIndex, IndexFieldKinds
<1>2. qs \in Seq(Bytes)
  BY <1>1, RawPieces
<1>3. Len(qs) = 6 /\ \A i \in 1..6 : qs[i] = Piece(IndexFields[i], g[i])
  BY <1>1 DEF PiecesOf
<1>4. /\ g[1] = x.label
      /\ g[2] = x.schema_version
      /\ g[3] = x.canonicalizer_id
      /\ g[4] = x.canonicalizer_version
      /\ g[5] = x.key_epoch
      /\ g[6] = x.token
  BY DEF RawIndex
<1> HIDE DEF g, qs
<1>5. /\ qs[1] = Piece(IndexFields[1], g[1])
      /\ qs[2] = Piece(IndexFields[2], g[2])
      /\ qs[3] = Piece(IndexFields[3], g[3])
      /\ qs[4] = Piece(IndexFields[4], g[4])
      /\ qs[5] = Piece(IndexFields[5], g[5])
      /\ qs[6] = Piece(IndexFields[6], g[6])
  BY <1>3, IndexPlaces, Zenon
<1>6. /\ qs[1] = Piece("string", x.label)
      /\ qs[2] = Piece("number", x.schema_version)
      /\ qs[3] = Piece("string", x.canonicalizer_id)
      /\ qs[4] = Piece("number", x.canonicalizer_version)
      /\ qs[5] = Piece("number", x.key_epoch)
      /\ qs[6] = Piece("number", x.token)
  BY <1>4, <1>5, IndexFieldKinds, Zenon
<1>7. /\ qs[1] = Prefixed(x.label)
      /\ qs[2] = <<x.schema_version>>
      /\ qs[3] = Prefixed(x.canonicalizer_id)
      /\ qs[4] = <<x.canonicalizer_version>>
      /\ qs[5] = <<x.key_epoch>>
      /\ qs[6] = <<x.token>>
  BY <1>6 DEF Piece, NumberKinds
<1> QED BY <1>2, <1>3, <1>7, Zenon DEF qs, g

(* Their bytes, joined one by one.                                         *)
LEMMA IndexJoined ==
  ASSUME NEW x \in Indexes
  PROVE  LET qs == PiecesOf(IndexFields, RawIndex(x)) IN
         \E f : /\ f[1] = qs[1] /\ FlattenSeq(qs) = f[6]
               /\ /\ f[2] = f[1] \o qs[2]
               /\ f[3] = f[2] \o qs[3]
               /\ f[4] = f[3] \o qs[4]
               /\ f[5] = f[4] \o qs[5]
               /\ f[6] = f[5] \o qs[6]
<1> DEFINE qs == PiecesOf(IndexFields, RawIndex(x))
<1>1. Len(qs) = 6
  BY IndexPieces, Zenon
<1> HIDE DEF qs
<1>2. PICK f : /\ f[1] = qs[1] /\ FlattenSeq(qs) = f[6]
               /\ \A i \in 1..5 : f[i + 1] = f[i] \o qs[i + 1]
  <2>1. Len(qs) \in Nat \ {0} /\ Len(qs) - 1 = 5
    BY <1>1
  <2> QED BY <1>1, <2>1, FlattenSteps, ZenonT(60)
<1>3. 1 \in 1..5 /\ 2 \in 1..5 /\ 3 \in 1..5 /\ 4 \in 1..5 /\ 5 \in 1..5
  OBVIOUS
<1>4. /\ f[1 + 1] = f[1] \o qs[1 + 1]
      /\ f[2 + 1] = f[2] \o qs[2 + 1]
      /\ f[3 + 1] = f[3] \o qs[3 + 1]
      /\ f[4 + 1] = f[4] \o qs[4 + 1]
      /\ f[5 + 1] = f[5] \o qs[5 + 1]
  BY <1>2, <1>3, Zenon
<1>5. 1 + 1 = 2 /\ 2 + 1 = 3 /\ 3 + 1 = 4 /\ 4 + 1 = 5 /\ 5 + 1 = 6
  OBVIOUS
<1>6. /\ f[2] = f[1] \o qs[2]
      /\ f[3] = f[2] \o qs[3]
      /\ f[4] = f[3] \o qs[4]
      /\ f[5] = f[4] \o qs[5]
      /\ f[6] = f[5] \o qs[6]
  BY <1>4, <1>5, Zenon
<1> QED BY <1>2, <1>6, Zenon DEF qs

(* encode_context writes the bytes of its fields, in the order             *)
(* decode_context reads them.                                              *)
LEMMA ContextBytesAre ==
  ASSUME NEW x \in Contexts
  PROVE  ContextBytes(x) = ElementBytes(ContextFields, RawContext(x)) /\ ContextBytes(x) \in Bytes
<1> DEFINE qs == PiecesOf(ContextFields, RawContext(x))
<1>1. /\ qs[1] = Prefixed(ContextDomain)
      /\ qs[2] = Prefixed(x.tenant)
      /\ qs[3] = Prefixed(x.object_id)
      /\ qs[4] = Prefixed(x.field)
      /\ qs[5] = <<x.epoch>>
      /\ qs[6] = <<x.version>>
      /\ qs[7] = <<x.schema_version>>
      /\ qs \in Seq(Bytes) /\ Len(qs) = 7
  BY ContextPieces, Zenon
<1>2. PICK f : /\ f[1] = qs[1] /\ FlattenSeq(qs) = f[7]
               /\ f[2] = f[1] \o qs[2]
               /\ f[3] = f[2] \o qs[3]
               /\ f[4] = f[3] \o qs[4]
               /\ f[5] = f[4] \o qs[5]
               /\ f[6] = f[5] \o qs[6]
               /\ f[7] = f[6] \o qs[7]
  BY ContextJoined, Zenon
<1>3. FlattenSeq(qs) = ElementBytes(ContextFields, RawContext(x))
  BY Zenon DEF ElementBytes
<1> HIDE DEF qs
<1>4. ElementBytes(ContextFields, RawContext(x)) \in Bytes
  BY RawFromContext, ContextFieldKinds, RawPieces, Zenon
<1> DEFINE s == Prefixed(ContextDomain) \o Prefixed(x.tenant) \o Prefixed(x.object_id) \o Prefixed(x.field)
           a == x.epoch
           b == x.version
           d == x.schema_version
<1>5. f[4] = s
  BY <1>1, <1>2, Zenon
<1>6. s \in Seq(Nat) /\ a \in Nat /\ b \in Nat /\ d \in Nat
  <2> HIDE DEF s, a, b, d
  <2>1. qs[1] \in Bytes /\ qs[2] \in Bytes /\ qs[3] \in Bytes /\ qs[4] \in Bytes
    <3>1. ASSUME NEW i \in 1..7 PROVE qs[i] \in Bytes
      BY <1>1, ElementOfSeq
    <3> QED BY <3>1, ContextPlaces, Zenon
  <2>2. f[1] \in Bytes
    BY <1>2, <2>1
  <2>3. f[2] \in Bytes
    BY <1>2, <2>1, <2>2, BytesConcat, Zenon
  <2>4. f[3] \in Bytes
    BY <1>2, <2>1, <2>3, BytesConcat, Zenon
  <2>5. f[4] \in Bytes
    BY <1>2, <2>1, <2>4, BytesConcat, Zenon
  <2>6. x.epoch \in Nat /\ x.version \in Nat /\ x.schema_version \in Nat
    BY DEF Contexts
  <2> QED BY <1>5, <2>5, <2>6, Zenon DEF Bytes, a, b, d
<1>7. ContextBytes(x) = s \o <<a, b, d>>
  BY Zenon DEF ContextBytes
<1>8. qs[5] = <<a>> /\ qs[6] = <<b>> /\ qs[7] = <<d>>
  BY <1>1
<1> HIDE DEF s, a, b, d
<1>9. f[7] = ((s \o <<a>>) \o <<b>>) \o <<d>>
  BY <1>8, <1>2, <1>5, Zenon
<1>10. ((s \o <<a>>) \o <<b>>) \o <<d>> = s \o <<a, b, d>>
  <2>1. ThreeAppended(s, a, b, d)
    BY <1>6, Triple
  <2> QED BY <2>1, Zenon DEF ThreeAppended
<1> QED BY <1>2, <1>3, <1>4, <1>7, <1>9, <1>10, Zenon

(* The bytes of an envelope are those of its fields, as they are read.     *)
LEMMA EnvelopeBytesAre ==
  ASSUME NEW x \in Envelopes
  PROVE  /\ EnvelopeBytes(x) = ElementBytes(EnvelopeFields, RawEnvelope(x))
         /\ EnvelopeBytes(x) \in Bytes
<1> DEFINE qs == PiecesOf(EnvelopeFields, RawEnvelope(x))
<1>1. /\ qs[1] = Prefixed(x.recipient_id)
      /\ qs[2] = <<x.key_epoch>>
      /\ qs[3] = <<x.recipient_key_id>>
      /\ qs[4] = Prefixed(x.encapsulated_key)
      /\ qs[5] = Prefixed(x.wrapped_dek)
      /\ qs \in Seq(Bytes) /\ Len(qs) = 5
  BY EnvelopePieces, Zenon
<1>2. PICK f : /\ f[1] = qs[1] /\ FlattenSeq(qs) = f[5]
               /\ f[2] = f[1] \o qs[2]
               /\ f[3] = f[2] \o qs[3]
               /\ f[4] = f[3] \o qs[4]
               /\ f[5] = f[4] \o qs[5]
  BY EnvelopeJoined, Zenon
<1>3. FlattenSeq(qs) = ElementBytes(EnvelopeFields, RawEnvelope(x))
  BY Zenon DEF ElementBytes
<1> HIDE DEF qs
<1>4. ElementBytes(EnvelopeFields, RawEnvelope(x)) \in Bytes
  BY RawFromEnvelope, EnvelopeFieldKinds, RawPieces, Zenon
<1> DEFINE s == Prefixed(x.recipient_id)
           a == x.key_epoch
           b == x.recipient_key_id
<1>5. f[1] = s
  BY <1>1, <1>2, Zenon
<1>6. s \in Seq(Nat) /\ a \in Nat /\ b \in Nat
  <2>1. qs[1] \in Bytes
    BY <1>1
  <2>2. x.key_epoch \in Nat /\ x.recipient_key_id \in Nat
    BY DEF Envelopes
  <2> QED BY <1>1, <2>1, <2>2, Zenon DEF Bytes
<1>7. EnvelopeBytes(x) = ((s \o <<a, b>>) \o Prefixed(x.encapsulated_key)) \o Prefixed(x.wrapped_dek)
  BY Zenon DEF EnvelopeBytes
<1>8. qs[2] = <<a>> /\ qs[3] = <<b>>
  BY <1>1
<1> HIDE DEF s, a, b
<1>9. f[3] = (s \o <<a>>) \o <<b>>
  BY <1>8, <1>2, <1>5, Zenon
<1>10. (s \o <<a>>) \o <<b>> = s \o <<a, b>>
  BY <1>6, Pair, Zenon
<1>11. f[5] = ((s \o <<a, b>>) \o Prefixed(x.encapsulated_key)) \o Prefixed(x.wrapped_dek)
  BY <1>1, <1>2, <1>9, <1>10, Zenon
<1> QED BY <1>2, <1>3, <1>4, <1>7, <1>11, Zenon

(* The bytes of an index are those of its fields, as they are read.        *)
LEMMA IndexBytesAre ==
  ASSUME NEW x \in Indexes
  PROVE  IndexBytes(x) = ElementBytes(IndexFields, RawIndex(x)) /\ IndexBytes(x) \in Bytes
<1> DEFINE qs == PiecesOf(IndexFields, RawIndex(x))
<1>1. /\ qs[1] = Prefixed(x.label)
      /\ qs[2] = <<x.schema_version>>
      /\ qs[3] = Prefixed(x.canonicalizer_id)
      /\ qs[4] = <<x.canonicalizer_version>>
      /\ qs[5] = <<x.key_epoch>>
      /\ qs[6] = <<x.token>>
      /\ qs \in Seq(Bytes) /\ Len(qs) = 6
  BY IndexPieces, Zenon
<1>2. PICK f : /\ f[1] = qs[1] /\ FlattenSeq(qs) = f[6]
               /\ f[2] = f[1] \o qs[2]
               /\ f[3] = f[2] \o qs[3]
               /\ f[4] = f[3] \o qs[4]
               /\ f[5] = f[4] \o qs[5]
               /\ f[6] = f[5] \o qs[6]
  BY IndexJoined, Zenon
<1>3. FlattenSeq(qs) = ElementBytes(IndexFields, RawIndex(x))
  BY Zenon DEF ElementBytes
<1> HIDE DEF qs
<1>4. ElementBytes(IndexFields, RawIndex(x)) \in Bytes
  BY RawFromIndex, IndexFieldKinds, RawPieces, Zenon
<1> DEFINE s == (Prefixed(x.label) \o <<x.schema_version>>) \o Prefixed(x.canonicalizer_id)
           a == x.canonicalizer_version
           b == x.key_epoch
           d == x.token
<1>5. f[3] = s
  BY <1>1, <1>2, Zenon
<1>6. s \in Seq(Nat) /\ a \in Nat /\ b \in Nat /\ d \in Nat
  <2> HIDE DEF s, a, b, d
  <2>1. qs[1] \in Bytes /\ qs[2] \in Bytes /\ qs[3] \in Bytes
    <3>1. ASSUME NEW i \in 1..6 PROVE qs[i] \in Bytes
      BY <1>1, ElementOfSeq
    <3> QED BY <3>1, IndexPlaces, Zenon
  <2>2. f[1] \in Bytes
    BY <1>2, <2>1
  <2>3. f[2] \in Bytes
    BY <1>2, <2>1, <2>2, BytesConcat, Zenon
  <2>4. f[3] \in Bytes
    BY <1>2, <2>1, <2>3, BytesConcat, Zenon
  <2>5. x.canonicalizer_version \in Nat /\ x.key_epoch \in Nat /\ x.token \in Nat
    BY DEF Indexes
  <2> QED BY <1>5, <2>4, <2>5, Zenon DEF Bytes, a, b, d
<1>7. IndexBytes(x) = s \o <<a, b, d>>
  BY Zenon DEF IndexBytes
<1>8. qs[4] = <<a>> /\ qs[5] = <<b>> /\ qs[6] = <<d>>
  BY <1>1
<1> HIDE DEF s, a, b, d
<1>9. f[6] = ((s \o <<a>>) \o <<b>>) \o <<d>>
  BY <1>8, <1>2, <1>5, Zenon
<1>10. ((s \o <<a>>) \o <<b>>) \o <<d>> = s \o <<a, b, d>>
  <2>1. ThreeAppended(s, a, b, d)
    BY <1>6, Triple
  <2> QED BY <2>1, Zenon DEF ThreeAppended
<1> QED BY <1>2, <1>3, <1>4, <1>7, <1>9, <1>10, Zenon
-----------------------------------------------------------------------------
(* The context nested in a string, and the two lists.                      *)

(* The values read for the fields of a record.                             *)
Values == Fields \cup Contexts \cup Seq(ElementList)

(* What may be read for a field of a record.                               *)
LEMMA ValuesCover == Fields \subseteq Values /\ Contexts \subseteq Values /\ Seq(ElementList) \subseteq Values
BY DEF Values

(* A value read is the one whose bytes came next.                          *)
Took(c, d, v, piece) == d.got = Append(c.got, v) /\ c.rest = piece \o d.rest

(* A cursor that fails.                                                    *)
LEMMA FailTyped ==
  ASSUME NEW V, NEW c \in Cursors(V), NEW e \in ReadErrors
  PROVE  Fail(c, e) \in Cursors(V) /\ Fail(c, e).error # "ok"
BY DEF Fail, Cursors, ReadErrors

(* A cursor at the start of some bytes.                                    *)
LEMMA CursorTyped ==
  ASSUME NEW V, NEW s \in Bytes
  PROVE  /\ Cursor(s) \in Cursors(V) /\ Cursor(s).got = <<>> /\ Cursor(s).rest = s
         /\ Cursor(s).error = "ok"
BY DEF Cursor, Cursors

(* Nothing after a byte string.                                            *)
LEMMA BytesThenNothing ==
  ASSUME NEW s \in Bytes
  PROVE  s \o <<>> = s /\ <<>> \in Bytes
BY ConcatEmptySeq DEF Bytes

(* The nested context.                                                     *)
TookContext(c, d) ==
  /\ d \in Cursors(Values)
  /\ d.error = "ok" =>
       c.error = "ok" /\ \E x \in Contexts : Took(c, d, x, Prefixed(ContextBytes(x)))

(* A context read is one whose bytes came next, as one string, and nothing *)
(* else in that string.                                                    *)
LEMMA TakeContextSound ==
  ASSUME NEW c \in Cursors(Values), NEW p \in ValidationPolicies
  PROVE  TookContext(c, TakeContext(c, p))
<1> DEFINE d == TakeBytes(c, p)
           n == ReadFields(Cursor(LastRead(d)), ContextFields, p)
           e == TakeContext(c, p)
<1>1. /\ d \in Cursors(Values)
      /\ d.error = "ok" =>
           /\ c.error = "ok"
           /\ \E v \in Bytes : d.got = Append(c.got, v) /\ c.rest = Prefixed(v) \o d.rest
  BY TakeBytesSound, ValuesCover, Zenon
<1>2. CASE d.error # "ok"
  <2>1. e = d
    BY <1>2 DEF TakeContext
  <2> HIDE DEF d, e
  <2> QED BY <1>1, <1>2, <2>1 DEF TookContext, e
<1>3. CASE d.error = "ok"
  <2>1. PICK v \in Bytes : d.got = Append(c.got, v) /\ c.rest = Prefixed(v) \o d.rest
    BY <1>1, <1>3
  <2>2. c.got \in Seq(Values) /\ v \in Values
    BY DEF Cursors, Values, Fields
  <2>3. LastRead(d) = v
    <3> HIDE DEF d
    <3> QED BY <2>1, <2>2, LastReadIs, Zenon
  <2>4. /\ Cursor(v) \in Cursors(Fields) /\ Cursor(v).got = <<>> /\ Cursor(v).rest = v
    BY CursorTyped, Zenon
  <2>5. n = ReadFields(Cursor(v), ContextFields, p) /\ n \in Cursors(Fields)
    BY <2>3, <2>4, ContextFieldKinds, ReadFieldsTyped, Zenon
  <2>6. CASE n.error # "ok"
    <3>1. e = Fail(d, n.error)
      BY <1>3, <2>6 DEF TakeContext
    <3> HIDE DEF d, n, e
    <3>2. n.error \in ReadErrors
      BY <2>5, <2>6 DEF Cursors
    <3>3. e \in Cursors(Values) /\ e.error # "ok"
      BY <1>1, <3>1, <3>2, FailTyped
    <3> QED BY <3>3 DEF TookContext, e
  <2>7. CASE n.error = "ok" /\ n.rest # <<>>
    <3>1. e = Fail(d, "TrailingBytes")
      BY <1>3, <2>7 DEF TakeContext
    <3> HIDE DEF d, n, e
    <3>2. e \in Cursors(Values) /\ e.error # "ok"
      BY <1>1, <3>1, FailTyped DEF ReadErrors
    <3> QED BY <3>2 DEF TookContext, e
  <2>8. CASE n.error = "ok" /\ n.rest = <<>>
    <3> DEFINE x == AsContext(n.got)
               g == Append(c.got, x)
    <3>1. e = WithGot(d, g)
      BY <1>3, <2>8 DEF TakeContext, WithGot
    <3> HIDE DEF d, n, e
    <3>2. n.got \in RawOf(ContextFields) /\ Cursor(v).rest = ElementBytes(ContextFields, n.got) \o n.rest
      BY <2>4, <2>5, <2>8, FieldsSound, ContextFieldKinds, Zenon
    <3>3. x \in Contexts /\ n.got = RawContext(x)
      BY <3>2, ContextFromRaw
    <3> HIDE DEF x
    <3>4. ContextBytes(x) = ElementBytes(ContextFields, n.got) /\ ContextBytes(x) \in Bytes
      BY <3>3, ContextBytesAre
    <3>5. v = ContextBytes(x) \o <<>>
      BY <2>4, <2>8, <3>2, <3>4, Zenon
    <3>6. v = ContextBytes(x)
      BY <3>4, <3>5, BytesThenNothing, Zenon
    <3>7. g \in Seq(Values)
      BY <2>2, <3>3, ValuesCover
    <3> HIDE DEF g
    <3>8. e \in Cursors(Values) /\ e.got = g /\ e.rest = d.rest
      BY <1>1, <3>1, <3>7, WithGotTyped
    <3>9. c.rest = Prefixed(ContextBytes(x)) \o e.rest
      BY <2>1, <3>6, <3>8, Zenon
    <3>10. Took(c, e, x, Prefixed(ContextBytes(x)))
      BY <3>8, <3>9, Zenon DEF Took, g
    <3> QED BY <1>1, <1>3, <3>3, <3>8, <3>10 DEF TookContext, e
  <2> QED BY <2>6, <2>7, <2>8
<1> QED BY <1>2, <1>3

(* The bytes of a value come off the cursor, and nothing refuses if it fits. *)
Done(c, d, v, u, fits) ==
  /\ d.error = "ok" => d.rest = u /\ d.got = Append(c.got, v)
  /\ fits = TRUE => d.error = "ok"

ContextFits(x, p) ==
  /\ Len(ContextBytes(x)) <= TakeLimit(p)
  /\ AllFit(ContextFields, RawContext(x), p)

(* A context within the limits is read.                                    *)
LEMMA TakeContextComplete ==
  ASSUME NEW c \in Cursors(Values), NEW p \in ValidationPolicies, c.error = "ok",
         NEW x \in Contexts, NEW u \in Bytes, c.rest = Prefixed(ContextBytes(x)) \o u
  PROVE  Done(c, TakeContext(c, p), x, u, ContextFits(x, p))
<1> DEFINE v == ContextBytes(x)
           d == TakeBytes(c, p)
           n == ReadFields(Cursor(LastRead(d)), ContextFields, p)
           e == TakeContext(c, p)
<1>0. v \in Bytes /\ v = ElementBytes(ContextFields, RawContext(x))
  BY ContextBytesAre
<1> HIDE DEF v
<1>1. /\ d.error = "ok" => d.rest = u /\ d.got = Append(c.got, v)
      /\ Len(v) <= TakeLimit(p) => d.error = "ok"
  <2>1. \A w \in Bytes, t \in Bytes : c.rest = Prefixed(w) \o t =>
          /\ d.error = "ok" => d.rest = t /\ d.got = Append(c.got, w)
          /\ Len(w) <= TakeLimit(p) => d.error = "ok"
    BY TakeBytesComplete, Zenon
  <2>2. c.rest = Prefixed(v) \o u
    BY DEF v
  <2> HIDE DEF d, n, e
  <2> QED BY <1>0, <2>1, <2>2, Zenon
<1>2. CASE d.error # "ok"
  <2>1. e = d
    BY <1>2 DEF TakeContext
  <2> HIDE DEF d, e
  <2>2. ContextFits(x, p) # TRUE
    BY <1>1, <1>2 DEF ContextFits, v
  <2> QED BY <1>2, <2>1, <2>2 DEF Done, e
<1>3. CASE d.error = "ok"
  <2>2. c.got \in Seq(Values) /\ v \in Values
    BY <1>0 DEF Cursors, Values, Fields
  <2>3. LastRead(d) = v
    <3> HIDE DEF d
    <3> QED BY <1>1, <1>3, <2>2, LastReadIs, Zenon
  <2>4. /\ Cursor(v) \in Cursors(Fields) /\ Cursor(v).got = <<>> /\ Cursor(v).rest = v
        /\ Cursor(v).error = "ok"
    BY <1>0, CursorTyped, Zenon
  <2>5. n = ReadFields(Cursor(v), ContextFields, p)
    BY <2>3, Zenon
  <2> DEFINE none == <<>>
             g == RawContext(x)
  <2>6. FieldsRead(g, none, ContextFields, p, n)
    <3>1. none \in Bytes /\ v \o none = v
      BY <1>0, BytesThenNothing
    <3>2. g \in RawOf(ContextFields)
      BY RawFromContext
    <3> HIDE DEF none, g, n
    <3>3. Cursor(v).rest = ElementBytes(ContextFields, g) \o none
      BY <1>0, <2>4, <3>1, Zenon DEF g
    <3> QED BY <2>4, <2>5, <3>1, <3>2, <3>3, ContextFieldKinds, FieldsComplete, Zenon
  <2>7. CASE n.error # "ok"
    <3>1. e = Fail(d, n.error)
      BY <1>3, <2>7 DEF TakeContext
    <3>2. d \in Cursors(Values)
      BY TakeBytesSound, ValuesCover
    <3> HIDE DEF d, n, e
    <3>3. e.error # "ok"
      BY <2>7, <3>1, <3>2 DEF Fail, Cursors
    <3>4. ContextFits(x, p) # TRUE
      <4> HIDE DEF g, none
      <4> QED BY <2>6, <2>7 DEF FieldsRead, ContextFits, g
    <3> QED BY <3>3, <3>4 DEF Done, e
  <2>8. CASE n.error = "ok"
    <3>1. n.rest = <<>> /\ n.got = g
      BY <2>6, <2>8, Zenon DEF FieldsRead
    <3>2. AsContext(n.got) = x
      BY <3>1, RawFromContext
    <3> DEFINE h == Append(c.got, x)
    <3>3. e = WithGot(d, h)
      BY <1>3, <2>8, <3>1, <3>2 DEF TakeContext, WithGot
    <3>4. d \in Cursors(Values)
      BY TakeBytesSound, ValuesCover
    <3>5. h \in Seq(Values)
      BY <2>2, ValuesCover
    <3> HIDE DEF d, n, e, h
    <3>6. e.got = h /\ e.rest = d.rest /\ e.error = d.error
      BY <3>3, <3>4, <3>5, WithGotTyped
    <3> QED BY <1>1, <1>3, <3>6 DEF Done, e, h
  <2> QED BY <2>7, <2>8
<1> QED BY <1>2, <1>3

(* A list, its count and its elements.                                     *)
ListBytes(kinds, gs) == Counted(PiecesOfAll(kinds, gs))

TookList(c, d, kinds) ==
  /\ d \in Cursors(Values)
  /\ d.error = "ok" =>
       c.error = "ok" /\ \E gs \in Seq(RawOf(kinds)) : Took(c, d, gs, ListBytes(kinds, gs))

(* A list begins with its count.                                           *)
LEMMA ListThen ==
  ASSUME NEW kinds \in Seq(FieldKinds), NEW gs \in Seq(RawOf(kinds)), NEW u \in Bytes
  PROVE  LET F == FlattenSeq(PiecesOfAll(kinds, gs)) IN
         /\ F \in Bytes /\ F \o u \in Bytes /\ ListBytes(kinds, gs) \in Bytes
         /\ ListBytes(kinds, gs) \o u = <<Len(gs)>> \o (F \o u)
         /\ gs \in Values
<1> DEFINE qs == PiecesOfAll(kinds, gs)
           F == FlattenSeq(qs)
           h == <<Len(gs)>>
<1>1. F \in Bytes /\ Len(qs) = Len(gs) /\ gs \in Seq(ElementList)
  BY AllPieces
<1>2. h \in Bytes
  BY DEF Bytes
<1>3. ListBytes(kinds, gs) = h \o F
  BY <1>1 DEF ListBytes, Counted
<1>4. gs \in Values
  BY <1>1, ValuesCover
<1> HIDE DEF h, qs, F
<1>5. (h \o F) \o u = h \o (F \o u) /\ F \o u \in Bytes /\ h \o F \in Bytes
  BY <1>1, <1>2, BytesAssociate, BytesConcat, Zenon
<1> QED BY <1>1, <1>3, <1>4, <1>5, Zenon DEF h, qs, F

(* The elements of a list are gathered from none.                          *)
LEMMA EmptyGot ==
  ASSUME NEW d \in Cursors(Values)
  PROVE  LET b == [d EXCEPT !.got = <<>>] IN
         b \in Cursors(ElementList) /\ b.got = <<>> /\ b.rest = d.rest /\ b.error = d.error
<1> DEFINE none == <<>>
           b == [d EXCEPT !.got = <<>>]
<1>1. none \in Seq(ElementList)
  OBVIOUS
<1>2. b = WithGot(d, none)
  BY Zenon DEF WithGot
<1> HIDE DEF b, none
<1>3. b \in Cursors(ElementList) /\ b.got = none /\ b.rest = d.rest /\ b.error = d.error
  BY <1>1, <1>2, WithGotTyped
<1> QED BY <1>3 DEF none, b

(* A list read is one whose count and elements came next.                  *)
LEMMA TakeListSound ==
  ASSUME NEW c \in Cursors(Values), NEW limit \in Nat,
         NEW kinds \in Seq(FieldKinds), NEW p \in ValidationPolicies
  PROVE  TookList(c, TakeList(c, limit, kinds, p), kinds)
<1> DEFINE d == TakeLength(c, limit)
           b == [d EXCEPT !.got = <<>>]
           h == Head(c.rest)
           e == ReadElements(b, h, kinds, p)
           r == TakeList(c, limit, kinds, p)
<1>1. /\ d \in Cursors(Values)
      /\ d.error = "ok" =>
              /\ c.rest # <<>> /\ h \in Nat /\ h <= limit
              /\ c.error = "ok" /\ d.got = c.got
              /\ c.rest = <<h>> \o d.rest
  BY TakeLengthTyped, Zenon
<1>2. CASE d.error # "ok"
  <2>1. r = d
    BY <1>2 DEF TakeList
  <2> HIDE DEF d, r
  <2> QED BY <1>1, <1>2, <2>1 DEF TookList, r
<1>3. CASE d.error = "ok"
  <2>1. b \in Cursors(ElementList) /\ b.got = <<>> /\ b.rest = d.rest /\ b.error = d.error
    <3> HIDE DEF d
    <3> QED BY <1>1, EmptyGot, Zenon
  <2>2. h \in Nat /\ c.error = "ok" /\ c.rest = <<h>> \o d.rest
    BY <1>1, <1>3
  <2>3. e \in Cursors(ElementList) /\ (e.error = "ok" => ElementsRead(b, h, kinds, e))
    <3> HIDE DEF b, h
    <3> QED BY <2>1, <2>2, ElementsSound, Zenon
  <2>4. CASE e.error # "ok"
    <3>1. r = Fail(d, e.error)
      BY <1>3, <2>4 DEF TakeList
    <3> HIDE DEF d, r, e
    <3>2. e.error \in ReadErrors
      BY <2>3, <2>4 DEF Cursors
    <3>3. r \in Cursors(Values) /\ r.error # "ok"
      BY <1>1, <3>1, <3>2, FailTyped
    <3> QED BY <3>3 DEF TookList, r
  <2>5. CASE e.error = "ok"
    <3> DEFINE gs == e.got
               g == Append(c.got, gs)
    <3>1. r = WithGot(e, g)
      BY <1>3, <2>5 DEF TakeList, WithGot
    <3> HIDE DEF e
    <3>2. gs \in Seq(RawOf(kinds)) /\ Len(gs) = h
          /\ b.rest = FlattenSeq(PiecesOfAll(kinds, gs)) \o e.rest
      BY <2>3, <2>5, Zenon DEF ElementsRead
    <3>3. e.rest \in Bytes /\ c.got \in Seq(Values)
      BY <2>3 DEF Cursors
    <3> HIDE DEF d, b, h, r, gs
    <3>4. /\ gs \in Values
          /\ ListBytes(kinds, gs) \o e.rest = <<Len(gs)>> \o (FlattenSeq(PiecesOfAll(kinds, gs)) \o e.rest)
      BY <3>2, <3>3, ListThen, Zenon
    <3>5. c.rest = ListBytes(kinds, gs) \o e.rest
      BY <2>1, <2>2, <3>2, <3>4, Zenon
    <3>6. g \in Seq(Values)
      BY <3>3, <3>4
    <3> HIDE DEF g
    <3>7. r \in Cursors(Values) /\ r.got = g /\ r.rest = e.rest
      BY <2>3, <3>1, <3>6, WithGotTyped
    <3>8. Took(c, r, gs, ListBytes(kinds, gs))
      BY <3>5, <3>7, Zenon DEF Took, g
    <3> QED BY <2>2, <3>2, <3>7, <3>8 DEF TookList, r
  <2> QED BY <2>4, <2>5
<1> QED BY <1>2, <1>3

ListFits(gs, limit, kinds, p) ==
  Len(gs) <= limit /\ \A i \in 1..Len(gs) : AllFit(kinds, gs[i], p)

(* A list within the limits is read.                                       *)
LEMMA TakeListComplete ==
  ASSUME NEW c \in Cursors(Values), c.error = "ok", NEW limit \in Nat,
         NEW kinds \in Seq(FieldKinds), NEW p \in ValidationPolicies,
         NEW gs \in Seq(RawOf(kinds)), NEW u \in Bytes, c.rest = ListBytes(kinds, gs) \o u
  PROVE  Done(c, TakeList(c, limit, kinds, p), gs, u, ListFits(gs, limit, kinds, p))
<1> DEFINE d == TakeLength(c, limit)
           b == [d EXCEPT !.got = <<>>]
           h == Head(c.rest)
           e == ReadElements(b, h, kinds, p)
           r == TakeList(c, limit, kinds, p)
           F == FlattenSeq(PiecesOfAll(kinds, gs))
           w == F \o u
           n == Len(gs)
<1>0. n \in Nat
  OBVIOUS
<1>1. c.rest = <<n>> \o w /\ w \in Bytes /\ gs \in Values
  BY ListThen, Zenon
<1> HIDE DEF w, n
<1>2. /\ h = n
      /\ d.error = "ok" => d = [c EXCEPT !.rest = w]
      /\ n <= limit => d.error = "ok"
  BY <1>0, <1>1, TakeLengthComplete, Zenon
<1>3. d \in Cursors(Values)
  BY TakeLengthTyped, Zenon
<1>4. CASE d.error # "ok"
  <2>1. r = d
    BY <1>4 DEF TakeList
  <2> HIDE DEF d, r
  <2>2. ListFits(gs, limit, kinds, p) # TRUE
    BY <1>2, <1>4 DEF ListFits, n
  <2> QED BY <1>4, <2>1, <2>2 DEF Done, r
<1>5. CASE d.error = "ok"
  <2>1. b \in Cursors(ElementList) /\ b.got = <<>> /\ b.rest = d.rest /\ b.error = "ok"
    <3> HIDE DEF d
    <3> QED BY <1>3, <1>5, EmptyGot, Zenon
  <2>2. d.rest = w
    <3> HIDE DEF d
    <3> QED BY <1>2, <1>5, <1>1 DEF Cursors
  <2>3. b.rest = F \o u
    BY <2>1, <2>2, Zenon DEF w
  <2>4. e = ReadElements(b, n, kinds, p)
    BY <1>2
  <2>5. ElementsDone(gs, u, kinds, p, e)
    <3> HIDE DEF b, e
    <3> QED BY <2>1, <2>3, <2>4, ElementsComplete, Zenon DEF n
  <2>6. e \in Cursors(ElementList)
    <3> HIDE DEF b, e
    <3> QED BY <1>0, <2>1, <2>4, ElementsSound, Zenon
  <2>7. CASE e.error # "ok"
    <3>1. r = Fail(d, e.error)
      BY <1>5, <2>7 DEF TakeList
    <3> HIDE DEF d, r, e
    <3>2. r.error # "ok"
      BY <1>3, <2>7, <3>1 DEF Fail, Cursors
    <3>3. ListFits(gs, limit, kinds, p) # TRUE
      BY <2>5, <2>7 DEF ElementsDone, ListFits
    <3> QED BY <3>2, <3>3 DEF Done, r
  <2>8. CASE e.error = "ok"
    <3> DEFINE g == Append(c.got, gs)
    <3> HIDE DEF e
    <3>1. e.got = gs /\ e.rest = u
      BY <2>5, <2>8, Zenon DEF ElementsDone
    <3>2. r = WithGot(e, g)
      BY <1>5, <2>8, <3>1 DEF TakeList, WithGot, e
    <3>3. c.got \in Seq(Values)
      BY DEF Cursors
    <3>4. g \in Seq(Values)
      BY <1>1, <3>3
    <3> HIDE DEF d, r, g
    <3>5. r.got = g /\ r.rest = u
      BY <2>6, <3>1, <3>2, <3>4, WithGotTyped
    <3>6. r.error = "ok"
      BY <2>6, <2>8, <3>2, <3>4, WithGotTyped
    <3> QED BY <3>5, <3>6 DEF Done, r, g
  <2> QED BY <2>7, <2>8
<1> QED BY <1>4, <1>5
-----------------------------------------------------------------------------
(* The thirteen fields of a record.                                        *)

(* The fields of a record: their kinds, values, bytes and limits.          *)
RecordKinds == FieldKinds \cup {"context", "recipients", "indexes"}

RecordValues(kind) ==
  CASE kind = "context"    -> Contexts
    [] kind = "recipients" -> Seq(RawOf(EnvelopeFields))
    [] kind = "indexes"    -> Seq(RawOf(IndexFields))
    [] OTHER               -> ValuesOf(kind)

RecordPiece(kind, v) ==
  CASE kind = "context"    -> Prefixed(ContextBytes(v))
    [] kind = "recipients" -> ListBytes(EnvelopeFields, v)
    [] kind = "indexes"    -> ListBytes(IndexFields, v)
    [] OTHER               -> Piece(kind, v)

RecordFits(kind, v, p) ==
  CASE kind = "context"    -> ContextFits(v, p)
    [] kind = "recipients" -> ListFits(v, p.max_recipients, EnvelopeFields, p)
    [] kind = "indexes"    -> ListFits(v, p.max_indexes, IndexFields, p)
    [] OTHER               -> Fits(kind, v, p)

RecordSound(c, d, kind) ==
  /\ d \in Cursors(Values)
  /\ d.error = "ok" =>
       c.error = "ok" /\ \E v \in RecordValues(kind) : Took(c, d, v, RecordPiece(kind, v))

RecordComplete(c, d, kind, p) ==
  \A v \in RecordValues(kind), u \in Bytes :
    c.error = "ok" /\ c.rest = RecordPiece(kind, v) \o u => Done(c, d, v, u, RecordFits(kind, v, p))

(* The kinds of field that elements have too.                              *)
LEMMA OtherKinds ==
  ASSUME NEW kind \in FieldKinds
  PROVE  kind # "context" /\ kind # "recipients" /\ kind # "indexes"
BY DEF FieldKinds, NumberKinds

(* What is written for a field of a record is a byte string.               *)
LEMMA RecordPieceTyped ==
  ASSUME NEW kind \in RecordKinds, NEW v \in RecordValues(kind)
  PROVE  v \in Values /\ RecordPiece(kind, v) \in Bytes
<1>1. CASE kind = "context"
  <2>1. v \in Contexts /\ RecordPiece(kind, v) = Prefixed(ContextBytes(v))
    BY <1>1 DEF RecordValues, RecordPiece
  <2>2. Prefixed(ContextBytes(v)) \in Bytes
    BY <2>1, ContextBytesAre, PrefixedIsBytes
  <2> QED BY <2>1, <2>2, ValuesCover
<1>2. CASE kind = "recipients"
  <2>1. v \in Seq(RawOf(EnvelopeFields)) /\ RecordPiece(kind, v) = ListBytes(EnvelopeFields, v)
    BY <1>2 DEF RecordValues, RecordPiece
  <2>2. <<>> \in Bytes
    BY DEF Bytes
  <2> QED BY <2>1, <2>2, ListThen, EnvelopeFieldKinds
<1>3. CASE kind = "indexes"
  <2>1. v \in Seq(RawOf(IndexFields)) /\ RecordPiece(kind, v) = ListBytes(IndexFields, v)
    BY <1>3 DEF RecordValues, RecordPiece
  <2>2. <<>> \in Bytes
    BY DEF Bytes
  <2> QED BY <2>1, <2>2, ListThen, IndexFieldKinds
<1>4. CASE kind \in FieldKinds
  <2>1. v \in ValuesOf(kind) /\ RecordPiece(kind, v) = Piece(kind, v)
    BY <1>4, OtherKinds DEF RecordValues, RecordPiece
  <2> QED BY <1>4, <2>1, PiecesAreBytes, ValuesCover
<1> QED BY <1>1, <1>2, <1>3, <1>4 DEF RecordKinds

(* A field of a record is read soundly and completely.                     *)
LEMMA ReadRecordFieldReads ==
  ASSUME NEW c \in Cursors(Values), NEW p \in ValidationPolicies, NEW kind \in RecordKinds
  PROVE  /\ RecordSound(c, ReadRecordField(c, kind, p), kind)
         /\ RecordComplete(c, ReadRecordField(c, kind, p), kind, p)
<1> DEFINE d == ReadRecordField(c, kind, p)
<1>0. p.max_recipients \in Nat /\ p.max_indexes \in Nat
  BY DEF ValidationPolicies
<1>1. CASE c.error # "ok"
  <2>1. d = c
    BY <1>1 DEF ReadRecordField
  <2> HIDE DEF d
  <2> QED BY <1>1, <2>1 DEF RecordSound, RecordComplete, d
<1>2. CASE c.error = "ok" /\ kind = "context"
  <2>1. d = TakeContext(c, p)
    BY <1>2 DEF ReadRecordField
  <2>2. /\ RecordValues(kind) = Contexts
        /\ \A v : RecordPiece(kind, v) = Prefixed(ContextBytes(v))
        /\ \A v : RecordFits(kind, v, p) = ContextFits(v, p)
    BY <1>2 DEF RecordValues, RecordPiece, RecordFits
  <2> HIDE DEF d
  <2>3. TookContext(c, d)
    BY <2>1, TakeContextSound, Zenon
  <2>4. ASSUME NEW v \in Contexts, NEW u \in Bytes, c.rest = Prefixed(ContextBytes(v)) \o u
        PROVE  Done(c, d, v, u, ContextFits(v, p))
    BY <1>2, <2>1, <2>4, TakeContextComplete
  <2>5. RecordSound(c, d, kind)
    BY <2>2, <2>3, Zenon DEF TookContext, RecordSound
  <2>6. RecordComplete(c, d, kind, p)
    BY <2>2, <2>4, Zenon DEF RecordComplete
  <2> QED BY <2>5, <2>6 DEF d
<1>3. CASE c.error = "ok" /\ kind = "recipients"
  <2> DEFINE ks == EnvelopeFields
             limit == p.max_recipients
  <2>1. d = TakeList(c, limit, ks, p) /\ ks \in Seq(FieldKinds)
    BY <1>3, EnvelopeFieldKinds DEF ReadRecordField
  <2>2. /\ RecordValues(kind) = Seq(RawOf(ks))
        /\ \A v : RecordPiece(kind, v) = ListBytes(ks, v)
        /\ \A v : RecordFits(kind, v, p) = ListFits(v, limit, ks, p)
    BY <1>3 DEF RecordValues, RecordPiece, RecordFits
  <2> HIDE DEF d, ks, limit
  <2>3. limit \in Nat
    BY <1>0 DEF limit
  <2>4. TookList(c, d, ks)
    BY <2>1, <2>3, TakeListSound, Zenon
  <2>5. ASSUME NEW v \in Seq(RawOf(ks)), NEW u \in Bytes, c.rest = ListBytes(ks, v) \o u
        PROVE  Done(c, d, v, u, ListFits(v, limit, ks, p))
    BY <1>3, <2>1, <2>3, <2>5, TakeListComplete
  <2>6. RecordSound(c, d, kind)
    BY <2>2, <2>4, Zenon DEF TookList, RecordSound
  <2>7. RecordComplete(c, d, kind, p)
    BY <2>2, <2>5, Zenon DEF RecordComplete
  <2> QED BY <2>6, <2>7 DEF d
<1>4. CASE c.error = "ok" /\ kind = "indexes"
  <2> DEFINE ks == IndexFields
             limit == p.max_indexes
  <2>1. d = TakeList(c, limit, ks, p) /\ ks \in Seq(FieldKinds)
    BY <1>4, IndexFieldKinds DEF ReadRecordField
  <2>2. /\ RecordValues(kind) = Seq(RawOf(ks))
        /\ \A v : RecordPiece(kind, v) = ListBytes(ks, v)
        /\ \A v : RecordFits(kind, v, p) = ListFits(v, limit, ks, p)
    BY <1>4 DEF RecordValues, RecordPiece, RecordFits
  <2> HIDE DEF d, ks, limit
  <2>3. limit \in Nat
    BY <1>0 DEF limit
  <2>4. TookList(c, d, ks)
    BY <2>1, <2>3, TakeListSound, Zenon
  <2>5. ASSUME NEW v \in Seq(RawOf(ks)), NEW u \in Bytes, c.rest = ListBytes(ks, v) \o u
        PROVE  Done(c, d, v, u, ListFits(v, limit, ks, p))
    BY <1>4, <2>1, <2>3, <2>5, TakeListComplete
  <2>6. RecordSound(c, d, kind)
    BY <2>2, <2>4, Zenon DEF TookList, RecordSound
  <2>7. RecordComplete(c, d, kind, p)
    BY <2>2, <2>5, Zenon DEF RecordComplete
  <2> QED BY <2>6, <2>7 DEF d
<1>5. CASE c.error = "ok" /\ kind \in FieldKinds
  <2>1. d = ReadField(c, kind, p)
    BY <1>5, OtherKinds DEF ReadRecordField
  <2>2. /\ RecordValues(kind) = ValuesOf(kind)
        /\ \A v : RecordPiece(kind, v) = Piece(kind, v)
        /\ \A v : RecordFits(kind, v, p) = Fits(kind, v, p)
    BY <1>5, OtherKinds DEF RecordValues, RecordPiece, RecordFits
  <2> HIDE DEF d
  <2>3. Sound(Values, c, d, kind) /\ Complete(c, d, kind, p)
    BY <1>5, <2>1, ReadFieldReads, ValuesCover
  <2>4. \A v : Fits(kind, v, p) \in BOOLEAN
    BY DEF Fits
  <2>5. RecordSound(c, d, kind)
    BY <2>2, <2>3, Zenon DEF Sound, RecordSound, Took
  <2>6. RecordComplete(c, d, kind, p)
    BY <2>2, <2>3, <2>4, Zenon DEF Complete, RecordComplete, Done
  <2> QED BY <2>5, <2>6 DEF d
<1> QED BY <1>1, <1>2, <1>3, <1>4, <1>5 DEF RecordKinds

(* What is read of a record, in the order of its fields.                   *)
RawRecords ==
  { g \in Seq(Values) : Len(g) = 13 /\ \A i \in 1..13 : g[i] \in RecordValues(RecordFields[i]) }

RecordPieces(g) == [i \in 1..13 |-> RecordPiece(RecordFields[i], g[i])]

(* The thirteen fields of a record.                                        *)
LEMMA RecordFieldKinds ==
  /\ RecordFields \in Seq(RecordKinds) /\ Len(RecordFields) = 13
  /\ RecordFields[1] = "record domain"
  /\ RecordFields[2] = "format"
  /\ RecordFields[3] = "suite"
  /\ RecordFields[4] = "context"
  /\ RecordFields[5] = "number"
  /\ RecordFields[6] = "number"
  /\ RecordFields[7] = "number"
  /\ RecordFields[8] = "bytes"
  /\ RecordFields[9] = "bytes"
  /\ RecordFields[10] = "recipients"
  /\ RecordFields[11] = "indexes"
  /\ RecordFields[12] = "number"
  /\ RecordFields[13] = "bytes"
<1>1. /\ Len(RecordFields) = 13
      /\ RecordFields[1] = "record domain"
      /\ RecordFields[2] = "format"
      /\ RecordFields[3] = "suite"
      /\ RecordFields[4] = "context"
      /\ RecordFields[5] = "number"
      /\ RecordFields[6] = "number"
      /\ RecordFields[7] = "number"
      /\ RecordFields[8] = "bytes"
      /\ RecordFields[9] = "bytes"
      /\ RecordFields[10] = "recipients"
      /\ RecordFields[11] = "indexes"
      /\ RecordFields[12] = "number"
      /\ RecordFields[13] = "bytes"
  BY DEF RecordFields
<1>2. /\ "record domain" \in RecordKinds /\ "format" \in RecordKinds /\ "suite" \in RecordKinds
      /\ "context" \in RecordKinds /\ "number" \in RecordKinds /\ "bytes" \in RecordKinds
      /\ "recipients" \in RecordKinds /\ "indexes" \in RecordKinds
  BY DEF RecordKinds, FieldKinds, NumberKinds
<1>3. ASSUME NEW i \in 1..13 PROVE RecordFields[i] \in RecordKinds
  <2>1. \/ i = 1 \/ i = 2 \/ i = 3 \/ i = 4 \/ i = 5 \/ i = 6 \/ i = 7
        \/ i = 8 \/ i = 9 \/ i = 10 \/ i = 11 \/ i = 12 \/ i = 13
    OBVIOUS
  <2> QED BY <1>1, <1>2, <2>1, Zenon
<1>4. RecordFields = [i \in 1..13 |-> RecordFields[i]]
  BY DEF RecordFields
<1>5. RecordFields \in Seq(RecordKinds)
  BY <1>3, <1>4
<1> QED BY <1>1, <1>5, Zenon

(* Each of them is of a known kind.                                        *)
LEMMA RecordFieldsIn ==
  ASSUME NEW i \in 1..13
  PROVE  RecordFields[i] \in RecordKinds
<1>1. RecordFields \in Seq(RecordKinds) /\ Len(RecordFields) = 13
  BY RecordFieldKinds
<1> QED BY <1>1, ElementOfSeq

(* What is written for the fields of a record.                             *)
LEMMA RawRecordTyped ==
  ASSUME NEW g \in RawRecords
  PROVE  RecordPieces(g) \in Seq(Bytes) /\ Len(RecordPieces(g)) = 13 /\ g \in Seq(Values) /\ Len(g) = 13
         /\ \A i \in 1..13 : RecordPieces(g)[i] = RecordPiece(RecordFields[i], g[i])
         /\ FlattenSeq(RecordPieces(g)) \in Bytes
<1>1. \A i \in 1..13 : RecordPiece(RecordFields[i], g[i]) \in Bytes
  BY RecordPieceTyped, RecordFieldsIn DEF RawRecords
<1>2. RecordPieces(g) \in Seq(Bytes) /\ Len(RecordPieces(g)) = 13
      /\ \A i \in 1..13 : RecordPieces(g)[i] = RecordPiece(RecordFields[i], g[i])
  BY <1>1 DEF RecordPieces
<1> QED BY <1>2, FlattenIsBytes DEF RawRecords

ParseTyped(bytes, p, d) ==
  /\ d[0] = Cursor(bytes)
  /\ Parse(bytes, p) = d[13]
  /\ \A i \in 0..13 : d[i] \in Cursors(Values)
  /\ \A i \in 1..13 : /\ RecordSound(d[i - 1], d[i], RecordFields[i])
                      /\ RecordComplete(d[i - 1], d[i], RecordFields[i], p)

(* decode reads the thirteen fields in turn.                               *)
LEMMA ParseReads ==
  ASSUME NEW bytes \in Bytes, NEW p \in ValidationPolicies
  PROVE  \E d : ParseTyped(bytes, p, d)
<1>1. PICK d : /\ d[0] = Cursor(bytes)
               /\ \A i \in 1..13 : d[i] = ReadRecordField(d[i - 1], RecordFields[i], p)
               /\ Parse(bytes, p) = d[13]
  BY ParseChain
<1>2. ASSUME NEW i \in 1..13, d[i - 1] \in Cursors(Values)
      PROVE  /\ RecordSound(d[i - 1], d[i], RecordFields[i])
             /\ RecordComplete(d[i - 1], d[i], RecordFields[i], p)
  <2>1. RecordFields[i] \in RecordKinds
    BY RecordFieldsIn
  <2>2. d[i] = ReadRecordField(d[i - 1], RecordFields[i], p)
    BY <1>1
  <2> QED BY <1>2, <2>1, <2>2, ReadRecordFieldReads
<1>3. d[0] \in Cursors(Values)
  BY <1>1, CursorTyped
<1>4. \A i \in 1..13 : d[i - 1] \in Cursors(Values) => d[i] \in Cursors(Values)
  BY <1>2 DEF RecordSound
<1>5. 13 \in Nat
  OBVIOUS
<1>6. \A i \in 0..13 : d[i] \in Cursors(Values)
  BY <1>3, <1>4, <1>5, ChainTyped
<1>7. ASSUME NEW i \in 1..13 PROVE i - 1 \in 0..13
  OBVIOUS
<1> QED BY <1>1, <1>2, <1>6, <1>7 DEF ParseTyped

(* What is parsed is written exactly in the bytes that were read.          *)
Parsed(bytes, c) ==
  c.got \in RawRecords /\ bytes = FlattenSeq(RecordPieces(c.got)) \o c.rest

(* What decode reads without an error is what the bytes spell, with what   *)
(* is left behind it.                                                      *)
LEMMA ParseSound ==
  ASSUME NEW bytes \in Bytes, NEW p \in ValidationPolicies
  PROVE  /\ Parse(bytes, p) \in Cursors(Values)
         /\ Parse(bytes, p).error = "ok" => Parsed(bytes, Parse(bytes, p))
<1> DEFINE R == { x \in (1..13) \X Values \X Bytes :
                    /\ x[2] \in RecordValues(RecordFields[x[1]])
                    /\ x[3] = RecordPiece(RecordFields[x[1]], x[2]) }
<1>1. PICK d : ParseTyped(bytes, p, d)
  BY ParseReads
<1>2. d[0] = Cursor(bytes) /\ Parse(bytes, p) = d[13] /\ \A i \in 0..13 : d[i] \in Cursors(Values)
  BY <1>1 DEF ParseTyped
<1>3. \A i, v, q : <<i, v, q>> \in R <=>
        /\ i \in 1..13 /\ v \in Values /\ q \in Bytes
        /\ v \in RecordValues(RecordFields[i]) /\ q = RecordPiece(RecordFields[i], v)
  OBVIOUS
<1> HIDE DEF R
<1>4. ASSUME NEW i \in 1..13, d[i].error = "ok"
      PROVE  /\ d[i - 1].error = "ok"
             /\ \E v \in Values, q \in Bytes :
                  /\ <<i, v, q>> \in R
                  /\ d[i].got = Append(d[i - 1].got, v)
                  /\ d[i - 1].rest = q \o d[i].rest
  <2>1. RecordFields[i] \in RecordKinds /\ RecordSound(d[i - 1], d[i], RecordFields[i])
    BY <1>1, RecordFieldsIn DEF ParseTyped
  <2>2. PICK v \in RecordValues(RecordFields[i]) : Took(d[i - 1], d[i], v, RecordPiece(RecordFields[i], v))
    BY <1>4, <2>1 DEF RecordSound
  <2>3. v \in Values /\ RecordPiece(RecordFields[i], v) \in Bytes
    BY <2>1, RecordPieceTyped
  <2>4. <<i, v, RecordPiece(RecordFields[i], v)>> \in R
    BY <1>3, <2>3
  <2>5. d[i - 1].error = "ok"
    BY <1>4, <2>1 DEF RecordSound
  <2> QED BY <2>2, <2>3, <2>4, <2>5 DEF Took
<1>5. ASSUME d[13].error = "ok" PROVE Parsed(bytes, d[13])
  <2>1. d[0].got = <<>> /\ d[0].rest = bytes
    BY <1>2, CursorTyped
  <2>2. Links(Values, R, 13, d)
    BY <1>4 DEF Links
  <2>3. 13 \in Nat
    OBVIOUS
  <2>4. PICK qs \in Seq(Bytes) : HasRead(R, 13, d, qs)
    BY <1>2, <1>5, <2>1, <2>2, <2>3, ChainSound
  <2> DEFINE g == d[13].got
  <2>5. Len(qs) = 13 /\ Len(g) = 13 /\ \A i \in 1..13 : <<i, g[i], qs[i]>> \in R
    BY <2>4 DEF HasRead
  <2>6. g \in Seq(Values)
    BY <1>2 DEF Cursors
  <2> HIDE DEF g
  <2>7. \A i \in 1..13 : g[i] \in RecordValues(RecordFields[i]) /\ qs[i] = RecordPiece(RecordFields[i], g[i])
    BY <1>3, <2>5
  <2>8. g \in RawRecords
    BY <2>5, <2>6, <2>7 DEF RawRecords
  <2> DEFINE r == RecordPieces(g)
  <2>9. r \in Seq(Bytes) /\ Len(r) = 13 /\ \A i \in 1..13 : r[i] = RecordPiece(RecordFields[i], g[i])
    BY <2>8, RawRecordTyped
  <2>10. qs = r
    <3> HIDE DEF r
    <3>1. Len(qs) = Len(r) /\ \A i \in 1..Len(qs) : qs[i] = r[i]
      BY <2>5, <2>7, <2>9
    <3> QED BY <2>9, <3>1, SeqEqual
  <2>11. bytes = FlattenSeq(qs) \o d[13].rest
    BY <2>1, <2>4, Zenon DEF HasRead
  <2>12. bytes = FlattenSeq(RecordPieces(g)) \o d[13].rest
    BY <2>10, <2>11, Zenon
  <2> QED BY <2>8, <2>12, Zenon DEF Parsed, g
<1>6. d[13] \in Cursors(Values)
  BY <1>2
<1> QED BY <1>2, <1>5, <1>6

(* The written form of a record is parsed to that record.                  *)
LEMMA ParseComplete ==
  ASSUME NEW g \in RawRecords, NEW p \in ValidationPolicies, NEW fits,
         fits = TRUE => \A i \in 1..13 : RecordFits(RecordFields[i], g[i], p) = TRUE
  PROVE  LET c == Parse(FlattenSeq(RecordPieces(g)), p) IN
         /\ c.error = "ok" => c.got = g /\ c.rest = <<>>
         /\ fits = TRUE => c.error = "ok"
<1> DEFINE qs == RecordPieces(g)
           bytes == FlattenSeq(qs)
           none == <<>>
<1>1. /\ qs \in Seq(Bytes) /\ Len(qs) = 13 /\ g \in Seq(Values) /\ Len(g) = 13 /\ bytes \in Bytes
      /\ \A i \in 1..13 : qs[i] = RecordPiece(RecordFields[i], g[i])
  BY RawRecordTyped
<1> HIDE DEF qs
<1>2. bytes = bytes \o none /\ none \in Bytes
  <2> HIDE DEF bytes
  <2> QED BY <1>1, BytesThenNothing
<1> HIDE DEF none
<1>3. PICK d : ParseTyped(bytes, p, d)
  <2> HIDE DEF bytes
  <2> QED BY <1>1, ParseReads
<1>4. d[0] = Cursor(bytes) /\ Parse(bytes, p) = d[13] /\ \A i \in 0..13 : d[i] \in Cursors(Values)
  BY <1>3, Zenon DEF ParseTyped
<1>5. d[0].got = <<>> /\ d[0].error = "ok" /\ d[0].rest = FlattenSeq(qs) \o none
  <2>1. d[0].got = <<>> /\ d[0].error = "ok" /\ d[0].rest = bytes
    <3> HIDE DEF bytes
    <3> QED BY <1>1, <1>4, CursorTyped
  <2> QED BY <1>2, <2>1, Zenon
<1>6. ASSUME NEW i \in 1..13, d[i].error = "ok" PROVE d[i - 1].error = "ok"
  <2>1. RecordSound(d[i - 1], d[i], RecordFields[i])
    BY <1>3, Zenon DEF ParseTyped
  <2> QED BY <1>6, <2>1, Zenon DEF RecordSound
<1>7. ASSUME NEW i \in 1..13, NEW u \in Bytes, d[i - 1].error = "ok", d[i - 1].rest = qs[i] \o u
      PROVE  Done(d[i - 1], d[i], g[i], u, fits)
  <2>1. RecordComplete(d[i - 1], d[i], RecordFields[i], p)
    BY <1>3, Zenon DEF ParseTyped
  <2>2. g[i] \in RecordValues(RecordFields[i])
    BY DEF RawRecords
  <2>3. d[i - 1].rest = RecordPiece(RecordFields[i], g[i]) \o u
    BY <1>1, <1>7, Zenon
  <2>4. Done(d[i - 1], d[i], g[i], u, RecordFits(RecordFields[i], g[i], p))
    BY <1>7, <2>1, <2>2, <2>3, Zenon DEF RecordComplete
  <2> QED BY <2>4, Zenon DEF Done
<1>8. Ends(g, none, 13, d, fits)
  <2>1. Follows(g, qs, none, 13, d, fits)
    BY <1>5, <1>6, <1>7 DEF Follows, Done
  <2>2. 13 \in Nat
    OBVIOUS
  <2> QED BY <1>1, <1>2, <1>4, <2>1, <2>2, ChainComplete
<1> QED BY <1>4, <1>8 DEF Ends, none, qs
-----------------------------------------------------------------------------
(* Records as the values read for their fields.                            *)

(* Lists of them, as they are read and written.                            *)
RawEnvelopes(s) == [i \in DOMAIN s |-> RawEnvelope(s[i])]
AsEnvelopes(gs) == [i \in DOMAIN gs |-> AsEnvelope(gs[i])]

(* The envelopes read are envelopes, and determine what was read.          *)
LEMMA EnvelopesFromRaw ==
  ASSUME NEW gs \in Seq(RawOf(EnvelopeFields))
  PROVE  AsEnvelopes(gs) \in Seq(Envelopes) /\ RawEnvelopes(AsEnvelopes(gs)) = gs
<1> DEFINE s == AsEnvelopes(gs)
           n == Len(gs)
           T == RawOf(EnvelopeFields)
<1>1. n \in Nat /\ DOMAIN gs = 1..n /\ gs = [i \in 1..n |-> gs[i]] /\ \A i \in 1..n : gs[i] \in T
  <2> HIDE DEF T
  <2> QED BY DEF T
<1> HIDE DEF n, T
<1>2. \A i \in 1..n : AsEnvelope(gs[i]) \in Envelopes /\ gs[i] = RawEnvelope(AsEnvelope(gs[i]))
  BY <1>1, EnvelopeFromRaw DEF T
<1>3. s = [i \in 1..n |-> AsEnvelope(gs[i])]
  BY <1>1, Zenon DEF AsEnvelopes
<1> HIDE DEF s
<1>4. s \in Seq(Envelopes) /\ DOMAIN s = 1..n /\ \A i \in 1..n : s[i] = AsEnvelope(gs[i])
  BY <1>1, <1>2, <1>3
<1>5. RawEnvelopes(s) = [i \in 1..n |-> RawEnvelope(s[i])]
  BY <1>4, Zenon DEF RawEnvelopes
<1>6. RawEnvelopes(s) = gs
  BY <1>1, <1>2, <1>4, <1>5
<1> QED BY <1>4, <1>6 DEF s

(* Envelopes are what is read for them.                                    *)
LEMMA RawFromEnvelopes ==
  ASSUME NEW s \in Seq(Envelopes)
  PROVE  /\ RawEnvelopes(s) \in Seq(RawOf(EnvelopeFields)) /\ AsEnvelopes(RawEnvelopes(s)) = s
         /\ PiecesOfAll(EnvelopeFields, RawEnvelopes(s)) = [i \in DOMAIN s |-> EnvelopeBytes(s[i])]
         /\ Len(RawEnvelopes(s)) = Len(s) /\ \A i \in 1..Len(s) : RawEnvelopes(s)[i] = RawEnvelope(s[i])
<1> DEFINE gs == RawEnvelopes(s)
           n == Len(s)
           T == RawOf(EnvelopeFields)
<1>1. n \in Nat /\ DOMAIN s = 1..n /\ s = [i \in 1..n |-> s[i]] /\ \A i \in 1..n : s[i] \in Envelopes
  OBVIOUS
<1> HIDE DEF n, T
<1>2. \A i \in 1..n : /\ RawEnvelope(s[i]) \in T /\ AsEnvelope(RawEnvelope(s[i])) = s[i]
                      /\ EnvelopeBytes(s[i]) = ElementBytes(EnvelopeFields, RawEnvelope(s[i]))
  BY <1>1, RawFromEnvelope, EnvelopeBytesAre DEF T
<1>3. gs = [i \in 1..n |-> RawEnvelope(s[i])]
  BY <1>1, Zenon DEF RawEnvelopes
<1> HIDE DEF gs
<1>4. gs \in Seq(T) /\ DOMAIN gs = 1..n /\ Len(gs) = n /\ \A i \in 1..n : gs[i] = RawEnvelope(s[i])
  BY <1>1, <1>2, <1>3
<1>5. AsEnvelopes(gs) = [i \in 1..n |-> AsEnvelope(gs[i])]
  BY <1>4, Zenon DEF AsEnvelopes
<1>6. AsEnvelopes(gs) = s
  BY <1>1, <1>2, <1>4, <1>5
<1>7. PiecesOfAll(EnvelopeFields, gs) = [i \in 1..n |-> ElementBytes(EnvelopeFields, gs[i])]
  BY <1>4, Zenon DEF PiecesOfAll
<1>8. PiecesOfAll(EnvelopeFields, gs) = [i \in DOMAIN s |-> EnvelopeBytes(s[i])]
  BY <1>1, <1>2, <1>4, <1>7
<1> QED BY <1>4, <1>6, <1>8, Zenon DEF gs, n, T

(* Lists of them, as they are read and written.                            *)
RawIndexes(s) == [i \in DOMAIN s |-> RawIndex(s[i])]
AsIndexes(gs) == [i \in DOMAIN gs |-> AsIndex(gs[i])]

(* The indexes read are indexes, and determine what was read.              *)
LEMMA IndexesFromRaw ==
  ASSUME NEW gs \in Seq(RawOf(IndexFields))
  PROVE  AsIndexes(gs) \in Seq(Indexes) /\ RawIndexes(AsIndexes(gs)) = gs
<1> DEFINE s == AsIndexes(gs)
           n == Len(gs)
           T == RawOf(IndexFields)
<1>1. n \in Nat /\ DOMAIN gs = 1..n /\ gs = [i \in 1..n |-> gs[i]] /\ \A i \in 1..n : gs[i] \in T
  <2> HIDE DEF T
  <2> QED BY DEF T
<1> HIDE DEF n, T
<1>2. \A i \in 1..n : AsIndex(gs[i]) \in Indexes /\ gs[i] = RawIndex(AsIndex(gs[i]))
  BY <1>1, IndexFromRaw DEF T
<1>3. s = [i \in 1..n |-> AsIndex(gs[i])]
  BY <1>1, Zenon DEF AsIndexes
<1> HIDE DEF s
<1>4. s \in Seq(Indexes) /\ DOMAIN s = 1..n /\ \A i \in 1..n : s[i] = AsIndex(gs[i])
  BY <1>1, <1>2, <1>3
<1>5. RawIndexes(s) = [i \in 1..n |-> RawIndex(s[i])]
  BY <1>4, Zenon DEF RawIndexes
<1>6. RawIndexes(s) = gs
  BY <1>1, <1>2, <1>4, <1>5
<1> QED BY <1>4, <1>6 DEF s

(* Indexes are what is read for them.                                      *)
LEMMA RawFromIndexes ==
  ASSUME NEW s \in Seq(Indexes)
  PROVE  /\ RawIndexes(s) \in Seq(RawOf(IndexFields)) /\ AsIndexes(RawIndexes(s)) = s
         /\ PiecesOfAll(IndexFields, RawIndexes(s)) = [i \in DOMAIN s |-> IndexBytes(s[i])]
         /\ Len(RawIndexes(s)) = Len(s) /\ \A i \in 1..Len(s) : RawIndexes(s)[i] = RawIndex(s[i])
<1> DEFINE gs == RawIndexes(s)
           n == Len(s)
           T == RawOf(IndexFields)
<1>1. n \in Nat /\ DOMAIN s = 1..n /\ s = [i \in 1..n |-> s[i]] /\ \A i \in 1..n : s[i] \in Indexes
  OBVIOUS
<1> HIDE DEF n, T
<1>2. \A i \in 1..n : /\ RawIndex(s[i]) \in T /\ AsIndex(RawIndex(s[i])) = s[i]
                      /\ IndexBytes(s[i]) = ElementBytes(IndexFields, RawIndex(s[i]))
  BY <1>1, RawFromIndex, IndexBytesAre DEF T
<1>3. gs = [i \in 1..n |-> RawIndex(s[i])]
  BY <1>1, Zenon DEF RawIndexes
<1> HIDE DEF gs
<1>4. gs \in Seq(T) /\ DOMAIN gs = 1..n /\ Len(gs) = n /\ \A i \in 1..n : gs[i] = RawIndex(s[i])
  BY <1>1, <1>2, <1>3
<1>5. AsIndexes(gs) = [i \in 1..n |-> AsIndex(gs[i])]
  BY <1>4, Zenon DEF AsIndexes
<1>6. AsIndexes(gs) = s
  BY <1>1, <1>2, <1>4, <1>5
<1>7. PiecesOfAll(IndexFields, gs) = [i \in 1..n |-> ElementBytes(IndexFields, gs[i])]
  BY <1>4, Zenon DEF PiecesOfAll
<1>8. PiecesOfAll(IndexFields, gs) = [i \in DOMAIN s |-> IndexBytes(s[i])]
  BY <1>1, <1>2, <1>4, <1>7
<1> QED BY <1>4, <1>6, <1>8, Zenon DEF gs, n, T

(* A record as the values of its fields, in their order.                   *)
RawRecord(r) ==
  <<RecordDomain, r.format_version, r.suite, r.context,
    r.manifest_revision, r.previous_manifest_hash, r.key_commitment,
    r.nonce, r.ciphertext,
    RawEnvelopes(r.recipients), RawIndexes(r.indexes), r.signer, r.signature>>

(* The places of a record's fields.                                        *)
LEMMA RecordPlaces ==
  /\ 1 \in 1..13 /\ 2 \in 1..13 /\ 3 \in 1..13 /\ 4 \in 1..13 /\ 5 \in 1..13 /\ 6 \in 1..13 /\ 7 \in 1..13
  /\ 8 \in 1..13 /\ 9 \in 1..13 /\ 10 \in 1..13 /\ 11 \in 1..13 /\ 12 \in 1..13 /\ 13 \in 1..13
OBVIOUS

(* The values each kind of field can have.                                 *)
LEMMA RecordValuesAre ==
      /\ RecordValues("bytes") = Bytes
      /\ RecordValues("context") = Contexts
      /\ RecordValues("format") = {FormatVersion}
      /\ RecordValues("indexes") = Seq(RawOf(IndexFields))
      /\ RecordValues("number") = Nat
      /\ RecordValues("recipients") = Seq(RawOf(EnvelopeFields))
      /\ RecordValues("record domain") = {RecordDomain}
      /\ RecordValues("suite") = Suites
BY DEF RecordValues, ValuesOf

(* The values read for the fields of a record.                             *)
LEMMA RawRecordValues ==
  ASSUME NEW g \in RawRecords
  PROVE
      /\ g[1] \in {RecordDomain}
      /\ g[2] \in {FormatVersion}
      /\ g[3] \in Suites
      /\ g[4] \in Contexts
      /\ g[5] \in Nat
      /\ g[6] \in Nat
      /\ g[7] \in Nat
      /\ g[8] \in Bytes
      /\ g[9] \in Bytes
      /\ g[10] \in Seq(RawOf(EnvelopeFields))
      /\ g[11] \in Seq(RawOf(IndexFields))
      /\ g[12] \in Nat
      /\ g[13] \in Bytes
<1>1. \A i \in 1..13 : g[i] \in RecordValues(RecordFields[i])
  BY DEF RawRecords
<1>2. /\ g[1] \in RecordValues(RecordFields[1])
      /\ g[2] \in RecordValues(RecordFields[2])
      /\ g[3] \in RecordValues(RecordFields[3])
      /\ g[4] \in RecordValues(RecordFields[4])
      /\ g[5] \in RecordValues(RecordFields[5])
      /\ g[6] \in RecordValues(RecordFields[6])
      /\ g[7] \in RecordValues(RecordFields[7])
      /\ g[8] \in RecordValues(RecordFields[8])
      /\ g[9] \in RecordValues(RecordFields[9])
      /\ g[10] \in RecordValues(RecordFields[10])
      /\ g[11] \in RecordValues(RecordFields[11])
      /\ g[12] \in RecordValues(RecordFields[12])
      /\ g[13] \in RecordValues(RecordFields[13])
  BY <1>1, RecordPlaces, Zenon
<1>3. /\ g[1] \in RecordValues("record domain")
      /\ g[2] \in RecordValues("format")
      /\ g[3] \in RecordValues("suite")
      /\ g[4] \in RecordValues("context")
      /\ g[5] \in RecordValues("number")
      /\ g[6] \in RecordValues("number")
      /\ g[7] \in RecordValues("number")
      /\ g[8] \in RecordValues("bytes")
      /\ g[9] \in RecordValues("bytes")
      /\ g[10] \in RecordValues("recipients")
      /\ g[11] \in RecordValues("indexes")
      /\ g[12] \in RecordValues("number")
      /\ g[13] \in RecordValues("bytes")
  BY <1>2, RecordFieldKinds, Zenon
<1> QED BY <1>3, RecordValuesAre, Zenon

(* Where each of them goes.                                                *)
LEMMA AsRecordFields ==
  ASSUME NEW g
  PROVE  LET r == AsRecord(g) IN
      /\ r.format_version = g[2]
      /\ r.suite = g[3]
      /\ r.context = g[4]
      /\ r.manifest_revision = g[5]
      /\ r.previous_manifest_hash = g[6]
      /\ r.key_commitment = g[7]
      /\ r.nonce = g[8]
      /\ r.ciphertext = g[9]
      /\ r.recipients = AsEnvelopes(g[10])
      /\ r.indexes = AsIndexes(g[11])
      /\ r.signer = g[12]
      /\ r.signature = g[13]
BY Zenon DEF AsRecord, AsEnvelopes, AsIndexes

(* The values read make a record, which determines them.                   *)
LEMMA RecordFromRaw ==
  ASSUME NEW g \in RawRecords
  PROVE  AsRecord(g) \in Records /\ RawRecord(AsRecord(g)) = g
<1> DEFINE r == AsRecord(g)
           h == RawRecord(r)
<1>1. /\ g[1] \in {RecordDomain}
      /\ g[2] \in {FormatVersion}
      /\ g[3] \in Suites
      /\ g[4] \in Contexts
      /\ g[5] \in Nat
      /\ g[6] \in Nat
      /\ g[7] \in Nat
      /\ g[8] \in Bytes
      /\ g[9] \in Bytes
      /\ g[10] \in Seq(RawOf(EnvelopeFields))
      /\ g[11] \in Seq(RawOf(IndexFields))
      /\ g[12] \in Nat
      /\ g[13] \in Bytes
  BY RawRecordValues, Zenon
<1>2. /\ r.format_version = g[2]
      /\ r.suite = g[3]
      /\ r.context = g[4]
      /\ r.manifest_revision = g[5]
      /\ r.previous_manifest_hash = g[6]
      /\ r.key_commitment = g[7]
      /\ r.nonce = g[8]
      /\ r.ciphertext = g[9]
      /\ r.recipients = AsEnvelopes(g[10])
      /\ r.indexes = AsIndexes(g[11])
      /\ r.signer = g[12]
      /\ r.signature = g[13]
  BY AsRecordFields, Zenon
<1>3. /\ AsEnvelopes(g[10]) \in Seq(Envelopes) /\ RawEnvelopes(AsEnvelopes(g[10])) = g[10]
      /\ AsIndexes(g[11]) \in Seq(Indexes) /\ RawIndexes(AsIndexes(g[11])) = g[11]
  BY <1>1, EnvelopesFromRaw, IndexesFromRaw, Zenon
<1>4. r \in Records
  <2> DEFINE es == AsEnvelopes(g[10])
             xs == AsIndexes(g[11])
  <2>1. r = [format_version |-> g[2], suite |-> g[3], context |-> g[4], manifest_revision |-> g[5],
             previous_manifest_hash |-> g[6], key_commitment |-> g[7], nonce |-> g[8],
             ciphertext |-> g[9], recipients |-> es, indexes |-> xs, signer |-> g[12],
             signature |-> g[13]]
    BY Zenon DEF AsRecord, AsEnvelopes, AsIndexes
  <2>2. es \in Seq(Envelopes) /\ xs \in Seq(Indexes) /\ g[2] \in Nat
    BY <1>1, <1>3, RulesAssumption
  <2> HIDE DEF es, xs, r
  <2> QED BY <1>1, <2>1, <2>2 DEF Records
<1> HIDE DEF r
<1>5. Len(h) = 13 /\ h = [i \in 1..13 |-> h[i]]
  BY DEF RawRecord
<1>6. /\ h[1] = RecordDomain /\ h[2] = r.format_version /\ h[3] = r.suite /\ h[4] = r.context
      /\ h[5] = r.manifest_revision /\ h[6] = r.previous_manifest_hash /\ h[7] = r.key_commitment
      /\ h[8] = r.nonce /\ h[9] = r.ciphertext /\ h[10] = RawEnvelopes(r.recipients)
      /\ h[11] = RawIndexes(r.indexes) /\ h[12] = r.signer /\ h[13] = r.signature
  BY DEF RawRecord
<1> HIDE DEF h
<1>7. g[1] = RecordDomain
  BY <1>1
<1>8. /\ h[1] = g[1]
      /\ h[2] = g[2]
      /\ h[3] = g[3]
      /\ h[4] = g[4]
      /\ h[5] = g[5]
      /\ h[6] = g[6]
      /\ h[7] = g[7]
      /\ h[8] = g[8]
      /\ h[9] = g[9]
      /\ h[10] = g[10]
      /\ h[11] = g[11]
      /\ h[12] = g[12]
      /\ h[13] = g[13]
  BY <1>2, <1>3, <1>6, <1>7, Zenon
<1>9. ASSUME NEW i \in 1..13 PROVE h[i] = g[i]
  <2>1. \/ i = 1 \/ i = 2 \/ i = 3 \/ i = 4 \/ i = 5 \/ i = 6 \/ i = 7
        \/ i = 8 \/ i = 9 \/ i = 10 \/ i = 11 \/ i = 12 \/ i = 13
    OBVIOUS
  <2> QED BY <1>8, <2>1, Zenon
<1>10. g = [i \in 1..13 |-> g[i]]
  BY DEF RawRecords
<1>11. h = g
  BY <1>5, <1>9, <1>10
<1> QED BY <1>4, <1>11 DEF h, r

(* The fields of a record have their types.                                *)
LEMMA RecordTypes ==
  ASSUME NEW r \in Records
  PROVE
      /\ r.format_version \in Nat
      /\ r.suite \in Suites
      /\ r.context \in Contexts
      /\ r.manifest_revision \in Nat
      /\ r.previous_manifest_hash \in Nat
      /\ r.key_commitment \in Nat
      /\ r.nonce \in Bytes
      /\ r.ciphertext \in Bytes
      /\ r.recipients \in Seq(Envelopes)
      /\ r.indexes \in Seq(Indexes)
      /\ r.signer \in Nat
      /\ r.signature \in Bytes
BY DEF Records

(* The values of a record's fields, place by place.                        *)
LEMMA RawFields ==
  ASSUME NEW r
  PROVE  LET g == RawRecord(r) IN
      /\ g[1] = RecordDomain
      /\ g[2] = r.format_version
      /\ g[3] = r.suite
      /\ g[4] = r.context
      /\ g[5] = r.manifest_revision
      /\ g[6] = r.previous_manifest_hash
      /\ g[7] = r.key_commitment
      /\ g[8] = r.nonce
      /\ g[9] = r.ciphertext
      /\ g[10] = RawEnvelopes(r.recipients)
      /\ g[11] = RawIndexes(r.indexes)
      /\ g[12] = r.signer
      /\ g[13] = r.signature
BY DEF RawRecord

(* A record of this format is what is made of its values.                  *)
LEMMA RawFromRecord ==
  ASSUME NEW r \in Records, r.format_version = FormatVersion
  PROVE  RawRecord(r) \in RawRecords /\ AsRecord(RawRecord(r)) = r
<1> DEFINE g == RawRecord(r)
<1>1. /\ g[1] = RecordDomain
      /\ g[2] = r.format_version
      /\ g[3] = r.suite
      /\ g[4] = r.context
      /\ g[5] = r.manifest_revision
      /\ g[6] = r.previous_manifest_hash
      /\ g[7] = r.key_commitment
      /\ g[8] = r.nonce
      /\ g[9] = r.ciphertext
      /\ g[10] = RawEnvelopes(r.recipients)
      /\ g[11] = RawIndexes(r.indexes)
      /\ g[12] = r.signer
      /\ g[13] = r.signature
  BY RawFields, Zenon
<1>2. Len(g) = 13 /\ g = [i \in 1..13 |-> g[i]]
  BY DEF RawRecord
<1> HIDE DEF g
<1>3. /\ r.format_version \in Nat
      /\ r.suite \in Suites
      /\ r.context \in Contexts
      /\ r.manifest_revision \in Nat
      /\ r.previous_manifest_hash \in Nat
      /\ r.key_commitment \in Nat
      /\ r.nonce \in Bytes
      /\ r.ciphertext \in Bytes
      /\ r.recipients \in Seq(Envelopes)
      /\ r.indexes \in Seq(Indexes)
      /\ r.signer \in Nat
      /\ r.signature \in Bytes
  BY RecordTypes, Zenon
<1>4. /\ RawEnvelopes(r.recipients) \in Seq(RawOf(EnvelopeFields))
      /\ AsEnvelopes(RawEnvelopes(r.recipients)) = r.recipients
      /\ RawIndexes(r.indexes) \in Seq(RawOf(IndexFields))
      /\ AsIndexes(RawIndexes(r.indexes)) = r.indexes
  BY <1>3, RawFromEnvelopes, RawFromIndexes, Zenon
<1>5. r.format_version \in {FormatVersion} /\ RecordDomain \in {RecordDomain}
  OBVIOUS
<1>6. /\ g[1] \in {RecordDomain}
      /\ g[2] \in {FormatVersion}
      /\ g[3] \in Suites
      /\ g[4] \in Contexts
      /\ g[5] \in Nat
      /\ g[6] \in Nat
      /\ g[7] \in Nat
      /\ g[8] \in Bytes
      /\ g[9] \in Bytes
      /\ g[10] \in Seq(RawOf(EnvelopeFields))
      /\ g[11] \in Seq(RawOf(IndexFields))
      /\ g[12] \in Nat
      /\ g[13] \in Bytes
  BY <1>1, <1>3, <1>4, <1>5, Zenon
<1>7. /\ g[1] \in RecordValues("record domain")
      /\ g[2] \in RecordValues("format")
      /\ g[3] \in RecordValues("suite")
      /\ g[4] \in RecordValues("context")
      /\ g[5] \in RecordValues("number")
      /\ g[6] \in RecordValues("number")
      /\ g[7] \in RecordValues("number")
      /\ g[8] \in RecordValues("bytes")
      /\ g[9] \in RecordValues("bytes")
      /\ g[10] \in RecordValues("recipients")
      /\ g[11] \in RecordValues("indexes")
      /\ g[12] \in RecordValues("number")
      /\ g[13] \in RecordValues("bytes")
  BY <1>6, RecordValuesAre, Zenon
<1>8. /\ g[1] \in RecordValues(RecordFields[1])
      /\ g[2] \in RecordValues(RecordFields[2])
      /\ g[3] \in RecordValues(RecordFields[3])
      /\ g[4] \in RecordValues(RecordFields[4])
      /\ g[5] \in RecordValues(RecordFields[5])
      /\ g[6] \in RecordValues(RecordFields[6])
      /\ g[7] \in RecordValues(RecordFields[7])
      /\ g[8] \in RecordValues(RecordFields[8])
      /\ g[9] \in RecordValues(RecordFields[9])
      /\ g[10] \in RecordValues(RecordFields[10])
      /\ g[11] \in RecordValues(RecordFields[11])
      /\ g[12] \in RecordValues(RecordFields[12])
      /\ g[13] \in RecordValues(RecordFields[13])
  BY <1>7, RecordFieldKinds, Zenon
<1>9. ASSUME NEW i \in 1..13 PROVE g[i] \in RecordValues(RecordFields[i])
  <2>1. \/ i = 1 \/ i = 2 \/ i = 3 \/ i = 4 \/ i = 5 \/ i = 6 \/ i = 7
        \/ i = 8 \/ i = 9 \/ i = 10 \/ i = 11 \/ i = 12 \/ i = 13
    OBVIOUS
  <2> QED BY <1>8, <2>1, Zenon
<1>10. \A i \in 1..13 : g[i] \in Values
  BY <1>9, RecordPieceTyped, RecordFieldsIn
<1>11. g \in RawRecords
  BY <1>2, <1>9, <1>10 DEF RawRecords
<1>12. AsRecord(g) = r
  <2>1. AsRecord(g) = [format_version |-> g[2], suite |-> g[3], context |-> g[4],
           manifest_revision |-> g[5], previous_manifest_hash |-> g[6], key_commitment |-> g[7],
           nonce |-> g[8], ciphertext |-> g[9], recipients |-> AsEnvelopes(g[10]),
           indexes |-> AsIndexes(g[11]), signer |-> g[12], signature |-> g[13]]
    BY Zenon DEF AsRecord, AsEnvelopes, AsIndexes
  <2>2. r = [format_version |-> r.format_version, suite |-> r.suite, context |-> r.context,
           manifest_revision |-> r.manifest_revision, previous_manifest_hash |-> r.previous_manifest_hash, key_commitment |-> r.key_commitment,
           nonce |-> r.nonce, ciphertext |-> r.ciphertext, recipients |-> r.recipients,
           indexes |-> r.indexes, signer |-> r.signer, signature |-> r.signature]
    BY DEF Records
  <2>3. AsEnvelopes(g[10]) = r.recipients /\ AsIndexes(g[11]) = r.indexes
    BY <1>1, <1>4, Zenon
  <2> QED BY <1>1, <2>1, <2>2, <2>3, Zenon
<1> QED BY <1>11, <1>12 DEF g

RecordPiecesAre(r, qs) ==
      /\ qs[1] = Prefixed(RecordDomain)
      /\ qs[2] = <<r.format_version>>
      /\ qs[3] = <<r.suite>>
      /\ qs[4] = Prefixed(ContextBytes(r.context))
      /\ qs[5] = <<r.manifest_revision>>
      /\ qs[6] = <<r.previous_manifest_hash>>
      /\ qs[7] = <<r.key_commitment>>
      /\ qs[8] = Prefixed(r.nonce)
      /\ qs[9] = Prefixed(r.ciphertext)
      /\ qs[10] = Counted([i \in DOMAIN r.recipients |-> EnvelopeBytes(r.recipients[i])])
      /\ qs[11] = Counted([i \in DOMAIN r.indexes |-> IndexBytes(r.indexes[i])])
      /\ qs[12] = <<r.signer>>
      /\ qs[13] = Prefixed(r.signature)

(* What is written for each of them.                                       *)
LEMMA RecordPiecesWritten ==
  ASSUME NEW r \in Records
  PROVE  /\ RecordPiecesAre(r, RecordPieces(RawRecord(r)))
         /\ RecordPieces(RawRecord(r)) \in Seq(Bytes) /\ Len(RecordPieces(RawRecord(r))) = 13
<1> DEFINE g == RawRecord(r)
           qs == RecordPieces(g)
<1>1. Len(qs) = 13 /\ DOMAIN qs = 1..13 /\ qs = [i \in 1..13 |-> qs[i]]
      /\ \A i \in 1..13 : qs[i] = RecordPiece(RecordFields[i], g[i])
  <2> HIDE DEF g
  <2> QED BY DEF RecordPieces
<1>2. /\ g[1] = RecordDomain
      /\ g[2] = r.format_version
      /\ g[3] = r.suite
      /\ g[4] = r.context
      /\ g[5] = r.manifest_revision
      /\ g[6] = r.previous_manifest_hash
      /\ g[7] = r.key_commitment
      /\ g[8] = r.nonce
      /\ g[9] = r.ciphertext
      /\ g[10] = RawEnvelopes(r.recipients)
      /\ g[11] = RawIndexes(r.indexes)
      /\ g[12] = r.signer
      /\ g[13] = r.signature
  BY RawFields, Zenon
<1> HIDE DEF g, qs
<1>3. /\ qs[1] = RecordPiece(RecordFields[1], g[1])
      /\ qs[2] = RecordPiece(RecordFields[2], g[2])
      /\ qs[3] = RecordPiece(RecordFields[3], g[3])
      /\ qs[4] = RecordPiece(RecordFields[4], g[4])
      /\ qs[5] = RecordPiece(RecordFields[5], g[5])
      /\ qs[6] = RecordPiece(RecordFields[6], g[6])
      /\ qs[7] = RecordPiece(RecordFields[7], g[7])
      /\ qs[8] = RecordPiece(RecordFields[8], g[8])
      /\ qs[9] = RecordPiece(RecordFields[9], g[9])
      /\ qs[10] = RecordPiece(RecordFields[10], g[10])
      /\ qs[11] = RecordPiece(RecordFields[11], g[11])
      /\ qs[12] = RecordPiece(RecordFields[12], g[12])
      /\ qs[13] = RecordPiece(RecordFields[13], g[13])
  BY <1>1, RecordPlaces, Zenon
<1>4. /\ qs[1] = RecordPiece("record domain", RecordDomain)
      /\ qs[2] = RecordPiece("format", r.format_version)
      /\ qs[3] = RecordPiece("suite", r.suite)
      /\ qs[4] = RecordPiece("context", r.context)
      /\ qs[5] = RecordPiece("number", r.manifest_revision)
      /\ qs[6] = RecordPiece("number", r.previous_manifest_hash)
      /\ qs[7] = RecordPiece("number", r.key_commitment)
      /\ qs[8] = RecordPiece("bytes", r.nonce)
      /\ qs[9] = RecordPiece("bytes", r.ciphertext)
      /\ qs[10] = RecordPiece("recipients", RawEnvelopes(r.recipients))
      /\ qs[11] = RecordPiece("indexes", RawIndexes(r.indexes))
      /\ qs[12] = RecordPiece("number", r.signer)
      /\ qs[13] = RecordPiece("bytes", r.signature)
  BY <1>2, <1>3, RecordFieldKinds, ZenonT(60)
<1>5. \A v : /\ RecordPiece("record domain", v) = Prefixed(v)
              /\ RecordPiece("format", v) = <<v>>
              /\ RecordPiece("suite", v) = <<v>>
              /\ RecordPiece("context", v) = Prefixed(ContextBytes(v))
              /\ RecordPiece("number", v) = <<v>>
              /\ RecordPiece("bytes", v) = Prefixed(v)
              /\ RecordPiece("recipients", v) = ListBytes(EnvelopeFields, v)
              /\ RecordPiece("indexes", v) = ListBytes(IndexFields, v)
  BY DEF RecordPiece, Piece, NumberKinds
<1>6. /\ r.format_version \in Nat
      /\ r.suite \in Suites
      /\ r.context \in Contexts
      /\ r.manifest_revision \in Nat
      /\ r.previous_manifest_hash \in Nat
      /\ r.key_commitment \in Nat
      /\ r.nonce \in Bytes
      /\ r.ciphertext \in Bytes
      /\ r.recipients \in Seq(Envelopes)
      /\ r.indexes \in Seq(Indexes)
      /\ r.signer \in Nat
      /\ r.signature \in Bytes
  BY RecordTypes, Zenon
<1>7. /\ ListBytes(EnvelopeFields, RawEnvelopes(r.recipients))
            = Counted([i \in DOMAIN r.recipients |-> EnvelopeBytes(r.recipients[i])])
      /\ ListBytes(IndexFields, RawIndexes(r.indexes))
            = Counted([i \in DOMAIN r.indexes |-> IndexBytes(r.indexes[i])])
  BY <1>6, RawFromEnvelopes, RawFromIndexes, Zenon DEF ListBytes
<1>8. RecordPiecesAre(r, qs)
  BY <1>4, <1>5, <1>7, Zenon DEF RecordPiecesAre
<1>9. /\ Prefixed(RecordDomain) \in Bytes /\ Prefixed(ContextBytes(r.context)) \in Bytes
      /\ Prefixed(r.nonce) \in Bytes /\ Prefixed(r.ciphertext) \in Bytes
      /\ Prefixed(r.signature) \in Bytes
  BY <1>6, LengthAssumption, ContextBytesAre, PrefixedIsBytes
<1>10. \A n \in Nat : <<n>> \in Bytes
  BY DEF Bytes
<1>11. r.suite \in Nat
  BY <1>6, RulesAssumption
<1>12. /\ ListBytes(EnvelopeFields, RawEnvelopes(r.recipients)) \in Bytes
       /\ ListBytes(IndexFields, RawIndexes(r.indexes)) \in Bytes
  <2>1. /\ RawEnvelopes(r.recipients) \in Seq(RawOf(EnvelopeFields))
        /\ RawIndexes(r.indexes) \in Seq(RawOf(IndexFields))
    BY <1>6, RawFromEnvelopes, RawFromIndexes, Zenon
  <2>2. <<>> \in Bytes
    BY DEF Bytes
  <2> QED BY <2>1, <2>2, ListThen, EnvelopeFieldKinds, IndexFieldKinds
<1>13. /\ qs[1] \in Bytes
      /\ qs[2] \in Bytes
      /\ qs[3] \in Bytes
      /\ qs[4] \in Bytes
      /\ qs[5] \in Bytes
      /\ qs[6] \in Bytes
      /\ qs[7] \in Bytes
      /\ qs[8] \in Bytes
      /\ qs[9] \in Bytes
      /\ qs[10] \in Bytes
      /\ qs[11] \in Bytes
      /\ qs[12] \in Bytes
      /\ qs[13] \in Bytes
  BY <1>6, <1>7, <1>8, <1>9, <1>10, <1>11, <1>12, Zenon DEF RecordPiecesAre
<1>14. ASSUME NEW i \in 1..13 PROVE qs[i] \in Bytes
  <2>1. \/ i = 1 \/ i = 2 \/ i = 3 \/ i = 4 \/ i = 5 \/ i = 6 \/ i = 7
        \/ i = 8 \/ i = 9 \/ i = 10 \/ i = 11 \/ i = 12 \/ i = 13
    OBVIOUS
  <2> QED BY <1>13, <2>1, Zenon
<1>15. qs \in Seq(Bytes)
  BY <1>1, <1>14
<1> QED BY <1>1, <1>8, <1>15, Zenon DEF qs, g

(* The bytes of a record are the pieces of its fields, joined.             *)
LEMMA EncodeIs ==
  ASSUME NEW r \in Records
  PROVE  Encode(r) = FlattenSeq(RecordPieces(RawRecord(r))) /\ Encode(r) \in Bytes
<1> DEFINE qs == RecordPieces(RawRecord(r))
<1>1. RecordPiecesAre(r, qs) /\ qs \in Seq(Bytes) /\ Len(qs) = 13
  BY RecordPiecesWritten, Zenon
<1> HIDE DEF qs
<1>2. PICK f : /\ f[1] = qs[1] /\ FlattenSeq(qs) = f[13]
               /\ \A i \in 1..12 : f[i + 1] = f[i] \o qs[i + 1]
  <2>1. Len(qs) \in Nat \ {0} /\ Len(qs) - 1 = 12
    BY <1>1
  <2> QED BY <1>1, <2>1, FlattenSteps, ZenonT(60)
<1>3. /\ 1 \in 1..12 /\ 2 \in 1..12 /\ 3 \in 1..12 /\ 4 \in 1..12 /\ 5 \in 1..12 /\ 6 \in 1..12
      /\ 7 \in 1..12 /\ 8 \in 1..12 /\ 9 \in 1..12 /\ 10 \in 1..12 /\ 11 \in 1..12 /\ 12 \in 1..12
  OBVIOUS
<1>4. /\ f[1 + 1] = f[1] \o qs[1 + 1]
      /\ f[2 + 1] = f[2] \o qs[2 + 1]
      /\ f[3 + 1] = f[3] \o qs[3 + 1]
      /\ f[4 + 1] = f[4] \o qs[4 + 1]
      /\ f[5 + 1] = f[5] \o qs[5 + 1]
      /\ f[6 + 1] = f[6] \o qs[6 + 1]
      /\ f[7 + 1] = f[7] \o qs[7 + 1]
      /\ f[8 + 1] = f[8] \o qs[8 + 1]
      /\ f[9 + 1] = f[9] \o qs[9 + 1]
      /\ f[10 + 1] = f[10] \o qs[10 + 1]
      /\ f[11 + 1] = f[11] \o qs[11 + 1]
      /\ f[12 + 1] = f[12] \o qs[12 + 1]
  BY <1>2, <1>3, Zenon
<1>5. /\ 1 + 1 = 2 /\ 2 + 1 = 3 /\ 3 + 1 = 4 /\ 4 + 1 = 5 /\ 5 + 1 = 6 /\ 6 + 1 = 7
      /\ 7 + 1 = 8 /\ 8 + 1 = 9 /\ 9 + 1 = 10 /\ 10 + 1 = 11 /\ 11 + 1 = 12 /\ 12 + 1 = 13
  OBVIOUS
<1>6. /\ f[2] = f[1] \o qs[2]
      /\ f[3] = f[2] \o qs[3]
      /\ f[4] = f[3] \o qs[4]
      /\ f[5] = f[4] \o qs[5]
      /\ f[6] = f[5] \o qs[6]
      /\ f[7] = f[6] \o qs[7]
      /\ f[8] = f[7] \o qs[8]
      /\ f[9] = f[8] \o qs[9]
      /\ f[10] = f[9] \o qs[10]
      /\ f[11] = f[10] \o qs[11]
      /\ f[12] = f[11] \o qs[12]
      /\ f[13] = f[12] \o qs[13]
  BY <1>4, <1>5, Zenon
<1>7. ASSUME NEW i \in 1..13 PROVE qs[i] \in Bytes
  BY <1>1, ElementOfSeq
<1>8. /\ qs[1] \in Bytes
      /\ qs[2] \in Bytes
      /\ qs[3] \in Bytes
      /\ qs[4] \in Bytes
      /\ qs[5] \in Bytes
      /\ qs[6] \in Bytes
      /\ qs[7] \in Bytes
      /\ qs[8] \in Bytes
      /\ qs[9] \in Bytes
      /\ qs[10] \in Bytes
      /\ qs[11] \in Bytes
      /\ qs[12] \in Bytes
      /\ qs[13] \in Bytes
  BY <1>7, RecordPlaces, Zenon
<1> DEFINE a == r.format_version
           b == r.suite
           t == Prefixed(ContextBytes(r.context))
           k == r.manifest_revision
           l == r.previous_manifest_hash
           m == r.key_commitment
           s == Prefixed(RecordDomain)
           w == (s \o <<a, b>>) \o t
<1>9. a \in Nat /\ b \in Nat /\ k \in Nat /\ l \in Nat /\ m \in Nat
  BY RecordTypes, RulesAssumption
<1>10. /\ qs[1] = s /\ qs[2] = <<a>> /\ qs[3] = <<b>> /\ qs[4] = t
       /\ qs[5] = <<k>> /\ qs[6] = <<l>> /\ qs[7] = <<m>>
  BY <1>1, Zenon DEF RecordPiecesAre
<1> DEFINE n8 == Prefixed(r.nonce)
           n9 == Prefixed(r.ciphertext)
           n10 == Counted([i \in DOMAIN r.recipients |-> EnvelopeBytes(r.recipients[i])])
           n11 == Counted([i \in DOMAIN r.indexes |-> IndexBytes(r.indexes[i])])
           n12 == <<r.signer>>
           n13 == Prefixed(r.signature)
<1>11. qs[8] = n8 /\ qs[9] = n9 /\ qs[10] = n10 /\ qs[11] = n11 /\ qs[12] = n12 /\ qs[13] = n13
  BY <1>1, Zenon DEF RecordPiecesAre
<1>12. Encode(r) = ((((((w \o <<k, l, m>>) \o n8) \o n9) \o n10) \o n11) \o n12) \o n13
  BY Zenon DEF Encode, SigningBytes
<1> HIDE DEF a, b, t, k, l, m, s, n8, n9, n10, n11, n12, n13
<1>13. f[3] = (s \o <<a>>) \o <<b>>
  BY <1>2, <1>6, <1>10, Zenon
<1>14. s \in Seq(Nat)
  BY <1>8, <1>10, Zenon DEF Bytes
<1>15. (s \o <<a>>) \o <<b>> = s \o <<a, b>>
  BY <1>9, <1>14, Pair, Zenon
<1>16. f[4] = w
  BY <1>6, <1>10, <1>13, <1>15, Zenon
<1>17. f[4] \in Bytes
  <2>1. f[1] \in Bytes
    BY <1>2, <1>8
  <2>2. f[2] \in Bytes
    BY <1>6, <1>8, <2>1, BytesConcat, Zenon
  <2>3. f[3] \in Bytes
    BY <1>6, <1>8, <2>2, BytesConcat, Zenon
  <2> QED BY <1>6, <1>8, <2>3, BytesConcat, Zenon
<1> HIDE DEF w
<1>18. w \in Seq(Nat)
  BY <1>16, <1>17, Zenon DEF Bytes
<1>19. f[7] = ((w \o <<k>>) \o <<l>>) \o <<m>>
  BY <1>6, <1>10, <1>16, Zenon
<1>20. ((w \o <<k>>) \o <<l>>) \o <<m>> = w \o <<k, l, m>>
  <2>1. ThreeAppended(w, k, l, m)
    BY <1>9, <1>18, Triple
  <2> QED BY <2>1, Zenon DEF ThreeAppended
<1>21. f[13] = ((((((w \o <<k, l, m>>) \o n8) \o n9) \o n10) \o n11) \o n12) \o n13
  BY <1>6, <1>11, <1>19, <1>20, Zenon
<1>22. Encode(r) = FlattenSeq(qs)
  BY <1>2, <1>12, <1>21, Zenon
<1>23. FlattenSeq(qs) \in Bytes
  BY <1>1, FlattenIsBytes
<1> QED BY <1>22, <1>23, Zenon DEF qs
-----------------------------------------------------------------------------
(* The checks of policy.rs: what the first failing one says.               *)

(* The errors of validate_limits and of preflight; checks, and that only   *)
(* checks with an error in E fail.                                         *)
LimitErrors ==
  {"UnsupportedFormat", "IdentifierLength", "InvalidVersion", "InvalidManifestChain",
   "InvalidNonceLength", "CiphertextSize", "RecipientCount", "InvalidKeyEpoch",
   "NonCanonicalRecipients", "InvalidEncapsulatedKeyLength", "InvalidWrappedDekLength",
   "IndexCount", "InvalidIndexDefinition", "NonCanonicalIndexes", "InvalidSignatureLength"}

InputErrors ==
  {"InvalidRecordInput", "PayloadTooLarge", "NoRecipients", "InvalidKeyIdentity",
   "InvalidIndexScope"}

CheckErrors == LimitErrors \cup InputErrors

Checks == [bad : BOOLEAN, error : CheckErrors]
Only(s, E) == \A i \in 1..Len(s) : s[i].bad => s[i].error \in E

(* A check and its error.                                                  *)
LEMMA CheckIs ==
  ASSUME NEW bad \in BOOLEAN, NEW error \in CheckErrors
  PROVE  /\ Check(bad, error) \in Checks /\ Check(bad, error).bad = bad
         /\ Check(bad, error).error = error
BY DEF Check, Checks

FirstFailing(s, n) ==
  \/ FirstError(s) = "ok" /\ \A i \in 1..n : ~ s[i].bad
  \/ \E i \in 1..n : s[i].bad /\ FirstError(s) = s[i].error
                      /\ \A j \in 1..n : s[j].bad => i <= j

(* The first of the checks that fail.                                      *)
LEMMA FirstErrorFails ==
  ASSUME NEW n \in Nat, NEW s, DOMAIN s = 1..n
  PROVE  FirstFailing(s, n)
<1> DEFINE F == { i \in DOMAIN s : s[i].bad }
<1>1. F = { i \in 1..n : s[i].bad } /\ F \subseteq Nat
  OBVIOUS
<1>2. FirstError(s) = IF F = {} THEN "ok" ELSE s[Min(F)].error
  BY DEF FirstError
<1>3. CASE F = {}
  BY <1>1, <1>2, <1>3 DEF FirstFailing
<1>4. CASE F # {}
  <2>1. \E x \in F : \A y \in F : x <= y
    <3> HIDE DEF F
    <3> QED BY <1>1, <1>4, Least
  <2>2. Min(F) \in F /\ \A y \in F : Min(F) <= y
    <3> HIDE DEF F
    <3> QED BY <2>1 DEF Min
  <2> DEFINE m == Min(F)
  <2>3. m \in 1..n /\ s[m].bad /\ \A j \in 1..n : s[j].bad => m <= j
    BY <1>1, <2>2
  <2>4. FirstError(s) = s[m].error
    BY <1>2, <1>4
  <2> HIDE DEF m
  <2> QED BY <2>3, <2>4 DEF FirstFailing
<1> QED BY <1>3, <1>4

(* The first error is that of a failing check none precedes.               *)
LEMMA FirstErrorIs ==
  ASSUME NEW s \in Seq(Checks)
  PROVE  \/ FirstError(s) = "ok" /\ \A i \in 1..Len(s) : ~ s[i].bad
         \/ \E i \in 1..Len(s) : s[i].bad /\ FirstError(s) = s[i].error
                                 /\ \A j \in 1..Len(s) : s[j].bad => i <= j
<1>1. DOMAIN s = 1..Len(s) /\ Len(s) \in Nat
  OBVIOUS
<1>2. FirstFailing(s, Len(s))
  BY <1>1, FirstErrorFails
<1> QED BY <1>2 DEF FirstFailing

(* Where only errors of E can occur, the first is one of them.             *)
LEMMA FirstErrorIn ==
  ASSUME NEW s \in Seq(Checks), NEW E, Only(s, E)
  PROVE  FirstError(s) \in E \cup {"ok"}
BY FirstErrorIs DEF Only

(* There is no error when no check fails.                                  *)
LEMMA NoErrorIs ==
  ASSUME NEW s \in Seq(Checks)
  PROVE  FirstError(s) = "ok" <=> Only(s, {})
<1>1. \A i \in 1..Len(s) : s[i] \in Checks
  OBVIOUS
<1>2. \A i \in 1..Len(s) : s[i].error # "ok"
  BY <1>1 DEF Checks, CheckErrors, LimitErrors, InputErrors
<1> QED BY <1>2, FirstErrorIs DEF Only

(* Checks one after the other.                                             *)
LEMMA OnlyConcat ==
  ASSUME NEW s \in Seq(Checks), NEW t \in Seq(Checks), NEW E
  PROVE  s \o t \in Seq(Checks) /\ (Only(s \o t, E) <=> Only(s, E) /\ Only(t, E))
<1> DEFINE u == s \o t
           m == Len(s)
           n == Len(t)
<1>1. /\ u \in Seq(Checks) /\ Len(u) = m + n /\ m \in Nat /\ n \in Nat
      /\ \A i \in 1..(m + n) : u[i] = IF i <= m THEN s[i] ELSE t[i - m]
  BY ConcatProperties
<1> HIDE DEF u
<1>2. ASSUME Only(u, E) PROVE Only(s, E)
  <2>1. ASSUME NEW i \in 1..m PROVE i \in 1..(m + n) /\ u[i] = s[i]
    BY <1>1
  <2> QED BY <1>1, <1>2, <2>1 DEF Only
<1>3. ASSUME Only(u, E) PROVE Only(t, E)
  <2>1. ASSUME NEW i \in 1..n PROVE m + i \in 1..(m + n) /\ u[m + i] = t[i]
    <3>1. m + i \in 1..(m + n) /\ ~ (m + i <= m) /\ (m + i) - m = i
      BY <1>1
    <3>2. u[m + i] = t[(m + i) - m]
      BY <1>1, <3>1
    <3> QED BY <3>1, <3>2
  <2> QED BY <1>1, <1>3, <2>1 DEF Only
<1>4. ASSUME Only(s, E), Only(t, E) PROVE Only(u, E)
  <2>1. ASSUME NEW i \in 1..(m + n), u[i].bad PROVE u[i].error \in E
    <3>1. CASE i <= m
      BY <1>1, <1>4, <2>1, <3>1 DEF Only
    <3>2. CASE ~ (i <= m)
      <4>1. i - m \in 1..n /\ u[i] = t[i - m]
        BY <1>1, <3>2
      <4> QED BY <1>4, <2>1, <4>1 DEF Only
    <3> QED BY <3>1, <3>2
  <2> QED BY <1>1, <2>1 DEF Only
<1> QED BY <1>1, <1>2, <1>3, <1>4 DEF u

OnlyAll(qs, E) == \A i \in 1..Len(qs) : Only(qs[i], E)

(* Checks of each element of a list.                                       *)
LEMMA OnlyFlatten ==
  ASSUME NEW qs \in Seq(Seq(Checks)), NEW E
  PROVE  /\ FlattenSeq(qs) \in Seq(Checks)
         /\ Only(FlattenSeq(qs), E) <=> OnlyAll(qs, E)
<1> DEFINE n == Len(qs)
           C == Seq(Checks)
<1>0. n \in Nat /\ qs \in Seq(C) /\ \A i \in 1..n : qs[i] \in C
  <2>1. qs \in Seq(C)
    OBVIOUS
  <2> HIDE DEF C
  <2> QED BY <2>1
<1>1. CASE n = 0
  <2>1. qs = <<>>
    <3> HIDE DEF C
    <3> QED BY <1>0, <1>1
  <2>2. FlattenSeq(qs) = <<>>
    BY <2>1, FlattenEmpty
  <2>3. <<>> \in Seq(Checks) /\ Only(<<>>, E) /\ OnlyAll(qs, E)
    BY <1>1 DEF Only, OnlyAll
  <2> QED BY <2>2, <2>3
<1>2. CASE n # 0
  <2>1. PICK f : f[1] = qs[1] /\ FlattenSeq(qs) = f[n] /\ \A i \in 1..(n - 1) : f[i + 1] = f[i] \o qs[i + 1]
    <3>1. Len(qs) \in Nat \ {0}
      BY <1>0, <1>2
    <3> QED BY <3>1, FlattenSteps
  <2> DEFINE Claim(m) == m \in 1..n => /\ f[m] \in C
                                       /\ Only(f[m], E) <=> \A i \in 1..m : Only(qs[i], E)
             S == { m \in Nat : Claim(m) }
  <2>2. 0 \in S
    OBVIOUS
  <2>3. ASSUME NEW m \in Nat, m \in S PROVE m + 1 \in S
    <3>0. SUFFICES Claim(m + 1)
      <4> HIDE DEF Claim
      <4> QED OBVIOUS
    <3>1. SUFFICES ASSUME m + 1 \in 1..n
                   PROVE  f[m + 1] \in C /\ (Only(f[m + 1], E) <=> \A i \in 1..(m + 1) : Only(qs[i], E))
      OBVIOUS
    <3>2. qs[m + 1] \in C
      BY <1>0, <3>1
    <3>3. CASE m = 0
      <4>1. f[m + 1] = qs[1] /\ qs[1] \in C /\ m + 1 = 1
        BY <2>1, <3>2, <3>3
      <4>2. \A i \in 1..(m + 1) : i = 1
        BY <3>3
      <4> HIDE DEF C
      <4> QED BY <4>1, <4>2, <3>1
    <3>4. CASE m # 0
      <4>1. m \in 1..n /\ m \in 1..(n - 1)
        BY <3>1, <3>4
      <4>2. f[m] \in C /\ (Only(f[m], E) <=> \A i \in 1..m : Only(qs[i], E))
        BY <2>3, <4>1
      <4>3. f[m + 1] = f[m] \o qs[m + 1]
        BY <2>1, <4>1
      <4>4. f[m] \o qs[m + 1] \in C
            /\ (Only(f[m] \o qs[m + 1], E) <=> Only(f[m], E) /\ Only(qs[m + 1], E))
        BY <3>2, <4>2, OnlyConcat
      <4> DEFINE a == f[m]
                 b == f[m + 1]
                 c == qs[m + 1]
      <4>5. b \in C /\ (Only(b, E) <=> Only(a, E) /\ Only(c, E))
        BY <4>3, <4>4, Zenon
      <4>6. \A i : i \in 1..(m + 1) <=> i \in 1..m \/ i = m + 1
        OBVIOUS
      <4> HIDE DEF a, b, C
      <4>7. (\A i \in 1..(m + 1) : Only(qs[i], E)) <=> (\A i \in 1..m : Only(qs[i], E)) /\ Only(c, E)
        BY <4>6, Zenon DEF c
      <4> QED BY <4>2, <4>5, <4>7, Zenon DEF a, b
    <3> QED BY <3>3, <3>4
  <2>4. \A m \in Nat : m \in S
    <3> HIDE DEF S
    <3> QED BY <2>2, <2>3, Induction
  <2>5. f[n] \in C /\ (Only(f[n], E) <=> \A i \in 1..n : Only(qs[i], E))
    BY <1>0, <1>2, <2>4
  <2> QED BY <2>1, <2>5, Zenon DEF OnlyAll
<1> QED BY <1>1, <1>2

(* What validate_limits demands, but for what fails with an error in E.    *)
GoodLabel(s, p) == s # <<>> /\ Len(s) <= p.max_identifier_bytes

ContextOnly(c, p, E) ==
  /\ GoodLabel(c.tenant, p) \/ "IdentifierLength" \in E
  /\ GoodLabel(c.object_id, p) \/ "IdentifierLength" \in E
  /\ GoodLabel(c.field, p) \/ "IdentifierLength" \in E
  /\ 0 \notin {c.epoch, c.version, c.schema_version} \/ "InvalidVersion" \in E

EnvelopeOnly(es, i, p, E) ==
  /\ GoodLabel(es[i].recipient_id, p) \/ "IdentifierLength" \in E
  /\ es[i].key_epoch # 0 \/ "InvalidKeyEpoch" \in E
  /\ (i > 1 => KeyBefore(EnvelopeKey(es[i - 1]), EnvelopeKey(es[i]))) \/ "NonCanonicalRecipients" \in E
  /\ Len(es[i].encapsulated_key) = KeyLen \/ "InvalidEncapsulatedKeyLength" \in E
  /\ Len(es[i].wrapped_dek) = WrappedLen \/ "InvalidWrappedDekLength" \in E

IndexOnly(xs, i, p, E) ==
  /\ GoodLabel(xs[i].label, p) \/ "IdentifierLength" \in E
  /\ GoodLabel(xs[i].canonicalizer_id, p) \/ "IdentifierLength" \in E
  /\ 0 \notin {xs[i].key_epoch, xs[i].schema_version, xs[i].canonicalizer_version}
       \/ "InvalidIndexDefinition" \in E
  /\ (i > 1 => KeyBefore(IndexLabel(xs[i - 1]), IndexLabel(xs[i]))) \/ "NonCanonicalIndexes" \in E

HeaderOnly(r, p, E) ==
  /\ ~ ChainBroken(r) \/ "InvalidManifestChain" \in E
  /\ Len(r.nonce) = NonceLen[r.suite] \/ "InvalidNonceLength" \in E
  /\ Len(r.ciphertext) \in TagLen..p.max_ciphertext_bytes \/ "CiphertextSize" \in E
  /\ Len(r.recipients) \in 1..p.max_recipients \/ "RecipientCount" \in E

LimitsOnly(r, p, E) ==
  /\ r.format_version = FormatVersion \/ "UnsupportedFormat" \in E
  /\ ContextOnly(r.context, p, E)
  /\ HeaderOnly(r, p, E)
  /\ \A i \in 1..Len(r.recipients) : EnvelopeOnly(r.recipients, i, p, E)
  /\ Len(r.indexes) <= p.max_indexes \/ "IndexCount" \in E
  /\ \A i \in 1..Len(r.indexes) : IndexOnly(r.indexes, i, p, E)
  /\ Len(r.signature) = SignatureLen \/ "InvalidSignatureLength" \in E

(* One check.                                                              *)
LEMMA OneCheck ==
  ASSUME NEW a \in Checks, NEW E
  PROVE  <<a>> \in Seq(Checks) /\ (Only(<<a>>, E) <=> (a.bad => a.error \in E))
<1> DEFINE s == <<a>>
<1>1. s \in Seq(Checks) /\ Len(s) = 1 /\ s[1] = a
  OBVIOUS
<1> HIDE DEF s
<1>2. Only(s, E) <=> (a.bad => a.error \in E)
  BY <1>1 DEF Only
<1> QED BY <1>1, <1>2 DEF s

(* Four checks.                                                            *)
LEMMA FourChecks ==
  ASSUME NEW a \in Checks, NEW b \in Checks, NEW c \in Checks, NEW d \in Checks, NEW E
  PROVE  /\ <<a, b, c, d>> \in Seq(Checks)
         /\ Only(<<a, b, c, d>>, E) <=> /\ a.bad => a.error \in E
                                        /\ b.bad => b.error \in E
                                        /\ c.bad => c.error \in E
                                        /\ d.bad => d.error \in E
<1> DEFINE s == <<a, b, c, d>>
<1>1. s \in Seq(Checks) /\ Len(s) = 4 /\ s[1] = a /\ s[2] = b /\ s[3] = c /\ s[4] = d
  OBVIOUS
<1>2. 1 \in 1..4 /\ 2 \in 1..4 /\ 3 \in 1..4 /\ 4 \in 1..4
      /\ \A i \in 1..4 : i = 1 \/ i = 2 \/ i = 3 \/ i = 4
  OBVIOUS
<1> HIDE DEF s
<1>3. Only(s, E) <=> \A i \in 1..4 : s[i].bad => s[i].error \in E
  BY <1>1, Zenon DEF Only
<1>4. Only(s, E) <=> /\ a.bad => a.error \in E
                     /\ b.bad => b.error \in E
                     /\ c.bad => c.error \in E
                     /\ d.bad => d.error \in E
  BY <1>1, <1>2, <1>3, Zenon
<1> QED BY <1>1, <1>4 DEF s

(* Five checks.                                                            *)
LEMMA FiveChecks ==
  ASSUME NEW a \in Checks, NEW b \in Checks, NEW c \in Checks, NEW d \in Checks, NEW e \in Checks, NEW E
  PROVE  /\ <<a, b, c, d, e>> \in Seq(Checks)
         /\ Only(<<a, b, c, d, e>>, E) <=> /\ a.bad => a.error \in E
                                           /\ b.bad => b.error \in E
                                           /\ c.bad => c.error \in E
                                           /\ d.bad => d.error \in E
                                           /\ e.bad => e.error \in E
<1> DEFINE s == <<a, b, c, d, e>>
<1>1. s \in Seq(Checks) /\ Len(s) = 5 /\ s[1] = a /\ s[2] = b /\ s[3] = c /\ s[4] = d /\ s[5] = e
  OBVIOUS
<1>2. 1 \in 1..5 /\ 2 \in 1..5 /\ 3 \in 1..5 /\ 4 \in 1..5 /\ 5 \in 1..5
      /\ \A i \in 1..5 : i = 1 \/ i = 2 \/ i = 3 \/ i = 4 \/ i = 5
  OBVIOUS
<1> HIDE DEF s
<1>3. Only(s, E) <=> \A i \in 1..5 : s[i].bad => s[i].error \in E
  BY <1>1, Zenon DEF Only
<1>4. Only(s, E) <=> /\ a.bad => a.error \in E
                     /\ b.bad => b.error \in E
                     /\ c.bad => c.error \in E
                     /\ d.bad => d.error \in E
                     /\ e.bad => e.error \in E
  BY <1>1, <1>2, <1>3, Zenon
<1> QED BY <1>1, <1>4 DEF s

(* check_id: a label is neither empty nor too long.                        *)
LEMMA LabelCheckIs ==
  ASSUME NEW s \in Texts, NEW p \in ValidationPolicies, NEW E
  PROVE  /\ LabelCheck(s, p) \in Checks
         /\ (LabelCheck(s, p).bad => LabelCheck(s, p).error \in E)
              <=> (GoodLabel(s, p) \/ "IdentifierLength" \in E)
<1> DEFINE bad == s = <<>> \/ Len(s) > p.max_identifier_bytes
           e == "IdentifierLength"
<1>1. bad \in BOOLEAN /\ e \in CheckErrors
  BY DEF CheckErrors, LimitErrors
<1>2. LabelCheck(s, p) = Check(bad, e)
  BY DEF LabelCheck
<1>3. bad <=> ~ GoodLabel(s, p)
  <2>1. Len(s) \in Nat /\ p.max_identifier_bytes \in Nat
    BY DEF Texts, ValidationPolicies
  <2> QED BY <2>1 DEF GoodLabel
<1> HIDE DEF bad
<1> QED BY <1>1, <1>2, <1>3, CheckIs

(* A check that fails when something does not hold.                        *)
LEMMA BadCheck ==
  ASSUME NEW bad \in BOOLEAN, NEW good \in BOOLEAN, bad <=> ~ good, NEW error \in CheckErrors, NEW E
  PROVE  /\ Check(bad, error) \in Checks
         /\ (Check(bad, error).bad => Check(bad, error).error \in E) <=> (good \/ error \in E)
BY CheckIs

(* What validate_context_shape checks.                                     *)
LEMMA ContextChecksAre ==
  ASSUME NEW c \in Contexts, NEW p \in ValidationPolicies, NEW E
  PROVE  ContextChecks(c, p) \in Seq(Checks) /\ (Only(ContextChecks(c, p), E) <=> ContextOnly(c, p, E))
<1>1. c.tenant \in Texts /\ c.object_id \in Texts /\ c.field \in Texts
  BY DEF Contexts
<1> DEFINE k1 == LabelCheck(c.tenant, p)
           k2 == LabelCheck(c.object_id, p)
           k3 == LabelCheck(c.field, p)
           bad == 0 \in {c.epoch, c.version, c.schema_version}
           k4 == Check(bad, "InvalidVersion")
<1>2. k1 \in Checks /\ ((k1.bad => k1.error \in E) <=> GoodLabel(c.tenant, p) \/ "IdentifierLength" \in E)
  BY <1>1, LabelCheckIs
<1>3. k2 \in Checks /\ ((k2.bad => k2.error \in E) <=> GoodLabel(c.object_id, p) \/ "IdentifierLength" \in E)
  BY <1>1, LabelCheckIs
<1>4. k3 \in Checks /\ ((k3.bad => k3.error \in E) <=> GoodLabel(c.field, p) \/ "IdentifierLength" \in E)
  BY <1>1, LabelCheckIs
<1>5. k4 \in Checks /\ ((k4.bad => k4.error \in E) <=> ~ bad \/ "InvalidVersion" \in E)
  <2>1. bad \in BOOLEAN /\ "InvalidVersion" \in CheckErrors
    BY DEF CheckErrors, LimitErrors
  <2> HIDE DEF bad
  <2> QED BY <2>1, CheckIs
<1>6. ContextChecks(c, p) = <<k1, k2, k3, k4>>
  BY DEF ContextChecks
<1> HIDE DEF k1, k2, k3, k4
<1>7. /\ <<k1, k2, k3, k4>> \in Seq(Checks)
      /\ Only(<<k1, k2, k3, k4>>, E) <=> /\ k1.bad => k1.error \in E
                                         /\ k2.bad => k2.error \in E
                                         /\ k3.bad => k3.error \in E
                                         /\ k4.bad => k4.error \in E
  BY <1>2, <1>3, <1>4, <1>5, FourChecks
<1> DEFINE s == <<k1, k2, k3, k4>>
<1> HIDE DEF s
<1>8. s \in Seq(Checks) /\ ContextChecks(c, p) = s
  BY <1>6, <1>7 DEF s
<1>9. Only(s, E) <=> /\ k1.bad => k1.error \in E
                     /\ k2.bad => k2.error \in E
                     /\ k3.bad => k3.error \in E
                     /\ k4.bad => k4.error \in E
  BY <1>7 DEF s
<1>10. Only(s, E) <=> ContextOnly(c, p, E)
  BY <1>2, <1>3, <1>4, <1>5, <1>9, Zenon DEF ContextOnly
<1> QED BY <1>8, <1>10, Zenon

(* What validate_limits checks of each envelope, its predecessor included. *)
LEMMA EnvelopeChecksAre ==
  ASSUME NEW es \in Seq(Envelopes), NEW i \in 1..Len(es), NEW p \in ValidationPolicies, NEW E
  PROVE  /\ EnvelopeChecks(es, i, p) \in Seq(Checks)
         /\ Only(EnvelopeChecks(es, i, p), E) <=> EnvelopeOnly(es, i, p, E)
<1> DEFINE e == es[i]
           order == i > 1 => KeyBefore(EnvelopeKey(es[i - 1]), EnvelopeKey(es[i]))
           b2 == es[i].key_epoch = 0
           b3 == i > 1 /\ ~ KeyBefore(EnvelopeKey(es[i - 1]), EnvelopeKey(es[i]))
           b4 == Len(es[i].encapsulated_key) # KeyLen
           b5 == Len(es[i].wrapped_dek) # WrappedLen
           k1 == LabelCheck(es[i].recipient_id, p)
           k2 == Check(b2, "InvalidKeyEpoch")
           k3 == Check(b3, "NonCanonicalRecipients")
           k4 == Check(b4, "InvalidEncapsulatedKeyLength")
           k5 == Check(b5, "InvalidWrappedDekLength")
<1>1. es[i].recipient_id \in Texts
  <2>1. e \in Envelopes
    OBVIOUS
  <2> QED BY <2>1 DEF Envelopes
<1>2. /\ b2 \in BOOLEAN /\ b3 \in BOOLEAN /\ b4 \in BOOLEAN /\ b5 \in BOOLEAN
      /\ b2 <=> ~ (es[i].key_epoch # 0)
      /\ b3 <=> ~ order
      /\ b4 <=> ~ (Len(es[i].encapsulated_key) = KeyLen)
      /\ b5 <=> ~ (Len(es[i].wrapped_dek) = WrappedLen)
  BY DEF KeyBefore
<1>3. /\ "InvalidKeyEpoch" \in CheckErrors /\ "NonCanonicalRecipients" \in CheckErrors
      /\ "InvalidEncapsulatedKeyLength" \in CheckErrors /\ "InvalidWrappedDekLength" \in CheckErrors
  BY DEF CheckErrors, LimitErrors
<1>4. EnvelopeChecks(es, i, p) = <<k1, k2, k3, k4, k5>>
  BY DEF EnvelopeChecks
<1>5. k1 \in Checks /\ ((k1.bad => k1.error \in E) <=> GoodLabel(es[i].recipient_id, p) \/ "IdentifierLength" \in E)
  BY <1>1, LabelCheckIs
<1>6. EnvelopeOnly(es, i, p, E) <=>
        /\ GoodLabel(es[i].recipient_id, p) \/ "IdentifierLength" \in E
        /\ es[i].key_epoch # 0 \/ "InvalidKeyEpoch" \in E
        /\ order \/ "NonCanonicalRecipients" \in E
        /\ Len(es[i].encapsulated_key) = KeyLen \/ "InvalidEncapsulatedKeyLength" \in E
        /\ Len(es[i].wrapped_dek) = WrappedLen \/ "InvalidWrappedDekLength" \in E
  BY Zenon DEF EnvelopeOnly
<1> HIDE DEF b2, b3, b4, b5, order
<1>7. /\ k2 \in Checks /\ ((k2.bad => k2.error \in E) <=> (~ b2 \/ "InvalidKeyEpoch" \in E))
      /\ k3 \in Checks /\ ((k3.bad => k3.error \in E) <=> (~ b3 \/ "NonCanonicalRecipients" \in E))
      /\ k4 \in Checks /\ ((k4.bad => k4.error \in E) <=> (~ b4 \/ "InvalidEncapsulatedKeyLength" \in E))
      /\ k5 \in Checks /\ ((k5.bad => k5.error \in E) <=> (~ b5 \/ "InvalidWrappedDekLength" \in E))
  BY <1>2, <1>3, CheckIs
<1> HIDE DEF k1, k2, k3, k4, k5
<1> DEFINE s == <<k1, k2, k3, k4, k5>>
<1>8. /\ s \in Seq(Checks)
      /\ Only(s, E) <=> /\ k1.bad => k1.error \in E
                        /\ k2.bad => k2.error \in E
                        /\ k3.bad => k3.error \in E
                        /\ k4.bad => k4.error \in E
                        /\ k5.bad => k5.error \in E
  BY <1>5, <1>7, FiveChecks
<1> HIDE DEF s
<1>9. Only(s, E) <=> EnvelopeOnly(es, i, p, E)
  BY <1>2, <1>5, <1>6, <1>7, <1>8, Zenon
<1> QED BY <1>4, <1>8, <1>9, Zenon DEF s

(* What it checks of each index.                                           *)
LEMMA IndexChecksAre ==
  ASSUME NEW xs \in Seq(Indexes), NEW i \in 1..Len(xs), NEW p \in ValidationPolicies, NEW E
  PROVE  /\ IndexChecks(xs, i, p) \in Seq(Checks)
         /\ Only(IndexChecks(xs, i, p), E) <=> IndexOnly(xs, i, p, E)
<1> DEFINE e == xs[i]
           order == i > 1 => KeyBefore(IndexLabel(xs[i - 1]), IndexLabel(xs[i]))
           b3 == 0 \in {xs[i].key_epoch, xs[i].schema_version, xs[i].canonicalizer_version}
           b4 == i > 1 /\ ~ KeyBefore(IndexLabel(xs[i - 1]), IndexLabel(xs[i]))
           k1 == LabelCheck(xs[i].label, p)
           k2 == LabelCheck(xs[i].canonicalizer_id, p)
           k3 == Check(b3, "InvalidIndexDefinition")
           k4 == Check(b4, "NonCanonicalIndexes")
<1>1. xs[i].label \in Texts /\ xs[i].canonicalizer_id \in Texts
  <2>1. e \in Indexes
    OBVIOUS
  <2> QED BY <2>1 DEF Indexes
<1>2. b3 \in BOOLEAN /\ b4 \in BOOLEAN /\ (b4 <=> ~ order)
  BY DEF KeyBefore
<1>3. "InvalidIndexDefinition" \in CheckErrors /\ "NonCanonicalIndexes" \in CheckErrors
  BY DEF CheckErrors, LimitErrors
<1>4. IndexChecks(xs, i, p) = <<k1, k2, k3, k4>>
  BY DEF IndexChecks
<1>5. /\ k1 \in Checks
      /\ (k1.bad => k1.error \in E) <=> GoodLabel(xs[i].label, p) \/ "IdentifierLength" \in E
      /\ k2 \in Checks
      /\ (k2.bad => k2.error \in E) <=> GoodLabel(xs[i].canonicalizer_id, p) \/ "IdentifierLength" \in E
  BY <1>1, LabelCheckIs
<1>6. IndexOnly(xs, i, p, E) <=>
        /\ GoodLabel(xs[i].label, p) \/ "IdentifierLength" \in E
        /\ GoodLabel(xs[i].canonicalizer_id, p) \/ "IdentifierLength" \in E
        /\ ~ b3 \/ "InvalidIndexDefinition" \in E
        /\ order \/ "NonCanonicalIndexes" \in E
  BY Zenon DEF IndexOnly
<1> HIDE DEF b3, b4, order
<1>7. /\ k3 \in Checks /\ ((k3.bad => k3.error \in E) <=> (~ b3 \/ "InvalidIndexDefinition" \in E))
      /\ k4 \in Checks /\ ((k4.bad => k4.error \in E) <=> (~ b4 \/ "NonCanonicalIndexes" \in E))
  BY <1>2, <1>3, CheckIs
<1> HIDE DEF k1, k2, k3, k4
<1> DEFINE s == <<k1, k2, k3, k4>>
<1>8. /\ s \in Seq(Checks)
      /\ Only(s, E) <=> /\ k1.bad => k1.error \in E
                        /\ k2.bad => k2.error \in E
                        /\ k3.bad => k3.error \in E
                        /\ k4.bad => k4.error \in E
  BY <1>5, <1>7, FourChecks
<1> HIDE DEF s
<1>9. Only(s, E) <=> IndexOnly(xs, i, p, E)
  BY <1>2, <1>5, <1>6, <1>7, <1>8, Zenon
<1> QED BY <1>4, <1>8, <1>9, Zenon DEF s

(* What it checks of the rest.                                             *)
LEMMA HeaderChecksAre ==
  ASSUME NEW r \in Records, NEW p \in ValidationPolicies, NEW E
  PROVE  LET s == << Check(ChainBroken(r), "InvalidManifestChain"),
                     Check(Len(r.nonce) # NonceLen[r.suite], "InvalidNonceLength"),
                     Check(Len(r.ciphertext) \notin TagLen..p.max_ciphertext_bytes, "CiphertextSize"),
                     Check(Len(r.recipients) \notin 1..p.max_recipients, "RecipientCount") >>
         IN  s \in Seq(Checks) /\ (Only(s, E) <=> HeaderOnly(r, p, E))
<1> DEFINE b1 == ChainBroken(r)
           b2 == Len(r.nonce) # NonceLen[r.suite]
           b3 == Len(r.ciphertext) \notin TagLen..p.max_ciphertext_bytes
           b4 == Len(r.recipients) \notin 1..p.max_recipients
           k1 == Check(b1, "InvalidManifestChain")
           k2 == Check(b2, "InvalidNonceLength")
           k3 == Check(b3, "CiphertextSize")
           k4 == Check(b4, "RecipientCount")
<1>1. b1 \in BOOLEAN /\ b2 \in BOOLEAN /\ b3 \in BOOLEAN /\ b4 \in BOOLEAN
  BY DEF ChainBroken
<1>2. /\ "InvalidManifestChain" \in CheckErrors /\ "InvalidNonceLength" \in CheckErrors
      /\ "CiphertextSize" \in CheckErrors /\ "RecipientCount" \in CheckErrors
  BY DEF CheckErrors, LimitErrors
<1>3. HeaderOnly(r, p, E) <=>
        /\ ~ b1 \/ "InvalidManifestChain" \in E
        /\ ~ b2 \/ "InvalidNonceLength" \in E
        /\ ~ b3 \/ "CiphertextSize" \in E
        /\ ~ b4 \/ "RecipientCount" \in E
  BY Zenon DEF HeaderOnly
<1> HIDE DEF b1, b2, b3, b4
<1>4. /\ k1 \in Checks /\ ((k1.bad => k1.error \in E) <=> (~ b1 \/ "InvalidManifestChain" \in E))
      /\ k2 \in Checks /\ ((k2.bad => k2.error \in E) <=> (~ b2 \/ "InvalidNonceLength" \in E))
      /\ k3 \in Checks /\ ((k3.bad => k3.error \in E) <=> (~ b3 \/ "CiphertextSize" \in E))
      /\ k4 \in Checks /\ ((k4.bad => k4.error \in E) <=> (~ b4 \/ "RecipientCount" \in E))
  BY <1>1, <1>2, CheckIs
<1> HIDE DEF k1, k2, k3, k4
<1> DEFINE s == <<k1, k2, k3, k4>>
<1>5. /\ s \in Seq(Checks)
      /\ Only(s, E) <=> /\ k1.bad => k1.error \in E
                        /\ k2.bad => k2.error \in E
                        /\ k3.bad => k3.error \in E
                        /\ k4.bad => k4.error \in E
  BY <1>4, FourChecks
<1> HIDE DEF s
<1>6. s \in Seq(Checks) /\ (Only(s, E) <=> HeaderOnly(r, p, E))
  BY <1>3, <1>4, <1>5, Zenon
<1> QED BY <1>6, Zenon DEF s, k1, k2, k3, k4, b1, b2, b3, b4

(* A check by itself.                                                      *)
LEMMA SingleCheckIs ==
  ASSUME NEW bad \in BOOLEAN, NEW good \in BOOLEAN, bad <=> ~ good,
         NEW error \in CheckErrors, NEW E
  PROVE  /\ <<Check(bad, error)>> \in Seq(Checks)
         /\ Only(<<Check(bad, error)>>, E) <=> good \/ error \in E
<1> DEFINE k == Check(bad, error)
<1>1. k \in Checks /\ ((k.bad => k.error \in E) <=> good \/ error \in E)
  BY BadCheck
<1> HIDE DEF k
<1> DEFINE s == <<k>>
<1>2. s \in Seq(Checks) /\ (Only(s, E) <=> (k.bad => k.error \in E))
  BY <1>1, OneCheck
<1> HIDE DEF s
<1>3. s \in Seq(Checks) /\ (Only(s, E) <=> good \/ error \in E)
  BY <1>1, <1>2, Zenon
<1> QED BY <1>3, Zenon DEF s, k

(* The checks that validate_limits makes, and which of them may fail.      *)
LEMMA LimitsAre ==
  ASSUME NEW r \in Records, NEW p \in ValidationPolicies
  PROVE  \E s \in Seq(Checks) : Limits(r, p) = FirstError(s) /\ \A E : Only(s, E) <=> LimitsOnly(r, p, E)
<1> DEFINE b1 == r.format_version # FormatVersion
           s1 == << Check(b1, "UnsupportedFormat") >>
           s2 == ContextChecks(r.context, p)
           s3 == << Check(ChainBroken(r), "InvalidManifestChain"),
                    Check(Len(r.nonce) # NonceLen[r.suite], "InvalidNonceLength"),
                    Check(Len(r.ciphertext) \notin TagLen..p.max_ciphertext_bytes, "CiphertextSize"),
                    Check(Len(r.recipients) \notin 1..p.max_recipients, "RecipientCount") >>
           q4 == [i \in DOMAIN r.recipients |-> EnvelopeChecks(r.recipients, i, p)]
           s4 == FlattenSeq(q4)
           b5 == Len(r.indexes) > p.max_indexes
           s5 == << Check(b5, "IndexCount") >>
           q6 == [i \in DOMAIN r.indexes |-> IndexChecks(r.indexes, i, p)]
           s6 == FlattenSeq(q6)
           b7 == Len(r.signature) # SignatureLen
           s7 == << Check(b7, "InvalidSignatureLength") >>
           s == (((((s1 \o s2) \o s3) \o s4) \o s5) \o s6) \o s7
           C == Seq(Checks)
<1>0. /\ r.context \in Contexts /\ r.recipients \in Seq(Envelopes) /\ r.indexes \in Seq(Indexes)
  BY RecordTypes
<1>1. Limits(r, p) = FirstError(s)
  BY Zenon DEF Limits
<1>2. /\ "UnsupportedFormat" \in CheckErrors /\ "IndexCount" \in CheckErrors
      /\ "InvalidSignatureLength" \in CheckErrors
  BY DEF CheckErrors, LimitErrors
<1>3. s1 \in C /\ \A E : Only(s1, E) <=> r.format_version = FormatVersion \/ "UnsupportedFormat" \in E
  <2> DEFINE g == r.format_version = FormatVersion
  <2>1. b1 \in BOOLEAN /\ g \in BOOLEAN /\ (b1 <=> ~ g)
    OBVIOUS
  <2> HIDE DEF b1, g
  <2>2. s1 \in Seq(Checks) /\ \A E : Only(s1, E) <=> g \/ "UnsupportedFormat" \in E
    BY <1>2, <2>1, SingleCheckIs, Zenon
  <2> QED BY <2>2, Zenon DEF g
<1>4. s2 \in C /\ \A E : Only(s2, E) <=> ContextOnly(r.context, p, E)
  BY <1>0, ContextChecksAre, Zenon
<1>5. s3 \in C /\ \A E : Only(s3, E) <=> HeaderOnly(r, p, E)
  BY HeaderChecksAre, Zenon
<1>6. s4 \in C /\ \A E : Only(s4, E) <=> \A i \in 1..Len(r.recipients) : EnvelopeOnly(r.recipients, i, p, E)
  <2> DEFINE es == r.recipients
             n == Len(es)
  <2>1. n \in Nat /\ DOMAIN es = 1..n /\ es \in Seq(Envelopes)
    BY <1>0
  <2> HIDE DEF es
  <2>2. \A i \in 1..n : EnvelopeChecks(es, i, p) \in C
    BY <2>1, EnvelopeChecksAre
  <2>3. \A i \in 1..n : \A E : Only(EnvelopeChecks(es, i, p), E) <=> EnvelopeOnly(es, i, p, E)
    BY <2>1, EnvelopeChecksAre
  <2> HIDE DEF n, C
  <2>4. q4 = [i \in 1..n |-> EnvelopeChecks(es, i, p)]
    BY <2>1, Zenon DEF es
  <2> HIDE DEF q4
  <2>5. q4 \in Seq(C) /\ Len(q4) = n /\ \A i \in 1..n : q4[i] = EnvelopeChecks(es, i, p)
    BY <2>1, <2>2, <2>4
  <2>6. FlattenSeq(q4) \in C /\ \A E : Only(FlattenSeq(q4), E) <=> OnlyAll(q4, E)
    <3>1. q4 \in Seq(Seq(Checks))
      BY <2>5 DEF C
    <3> QED BY <3>1, OnlyFlatten, Zenon DEF C
  <2>7. \A E : OnlyAll(q4, E) <=> \A i \in 1..n : EnvelopeOnly(es, i, p, E)
    BY <2>3, <2>5, Zenon DEF OnlyAll
  <2> QED BY <2>6, <2>7, Zenon DEF n, es
<1>7. s5 \in C /\ \A E : Only(s5, E) <=> Len(r.indexes) <= p.max_indexes \/ "IndexCount" \in E
  <2> DEFINE g == Len(r.indexes) <= p.max_indexes
  <2>1. b5 \in BOOLEAN /\ g \in BOOLEAN /\ (b5 <=> ~ g)
    <3>1. Len(r.indexes) \in Nat /\ p.max_indexes \in Nat
      BY <1>0 DEF ValidationPolicies
    <3> QED BY <3>1
  <2> HIDE DEF b5, g
  <2>2. s5 \in Seq(Checks) /\ \A E : Only(s5, E) <=> g \/ "IndexCount" \in E
    BY <1>2, <2>1, SingleCheckIs, Zenon
  <2> QED BY <2>2, Zenon DEF g
<1>8. s6 \in C /\ \A E : Only(s6, E) <=> \A i \in 1..Len(r.indexes) : IndexOnly(r.indexes, i, p, E)
  <2> DEFINE es == r.indexes
             n == Len(es)
  <2>1. n \in Nat /\ DOMAIN es = 1..n /\ es \in Seq(Indexes)
    BY <1>0
  <2> HIDE DEF es
  <2>2. \A i \in 1..n : IndexChecks(es, i, p) \in C
    BY <2>1, IndexChecksAre
  <2>3. \A i \in 1..n : \A E : Only(IndexChecks(es, i, p), E) <=> IndexOnly(es, i, p, E)
    BY <2>1, IndexChecksAre
  <2> HIDE DEF n, C
  <2>4. q6 = [i \in 1..n |-> IndexChecks(es, i, p)]
    BY <2>1, Zenon DEF es
  <2> HIDE DEF q6
  <2>5. q6 \in Seq(C) /\ Len(q6) = n /\ \A i \in 1..n : q6[i] = IndexChecks(es, i, p)
    BY <2>1, <2>2, <2>4
  <2>6. FlattenSeq(q6) \in C /\ \A E : Only(FlattenSeq(q6), E) <=> OnlyAll(q6, E)
    <3>1. q6 \in Seq(Seq(Checks))
      BY <2>5 DEF C
    <3> QED BY <3>1, OnlyFlatten, Zenon DEF C
  <2>7. \A E : OnlyAll(q6, E) <=> \A i \in 1..n : IndexOnly(es, i, p, E)
    BY <2>3, <2>5, Zenon DEF OnlyAll
  <2> QED BY <2>6, <2>7, Zenon DEF n, es
<1>9. s7 \in C /\ \A E : Only(s7, E) <=> Len(r.signature) = SignatureLen \/ "InvalidSignatureLength" \in E
  <2> DEFINE g == Len(r.signature) = SignatureLen
  <2>1. b7 \in BOOLEAN /\ g \in BOOLEAN /\ (b7 <=> ~ g)
    OBVIOUS
  <2> HIDE DEF b7, g
  <2>2. s7 \in Seq(Checks) /\ \A E : Only(s7, E) <=> g \/ "InvalidSignatureLength" \in E
    BY <1>2, <2>1, SingleCheckIs, Zenon
  <2> QED BY <2>2, Zenon DEF g
<1> HIDE DEF s1, s2, s3, s4, s5, s6, s7
<1>10. \A x \in C, y \in C : x \o y \in C /\ \A E : Only(x \o y, E) <=> Only(x, E) /\ Only(y, E)
  BY OnlyConcat, Zenon
<1> HIDE DEF C
<1> DEFINE t2 == s1 \o s2
           t3 == t2 \o s3
           t4 == t3 \o s4
           t5 == t4 \o s5
           t6 == t5 \o s6
           t7 == t6 \o s7
<1>11. t2 \in C /\ \A E : Only(t2, E) <=> Only(s1, E) /\ Only(s2, E)
  BY <1>3, <1>4, <1>10, Zenon
<1> HIDE DEF t2
<1>12. t3 \in C /\ \A E : Only(t3, E) <=> Only(t2, E) /\ Only(s3, E)
  BY <1>5, <1>10, <1>11, Zenon
<1> HIDE DEF t3
<1>13. t4 \in C /\ \A E : Only(t4, E) <=> Only(t3, E) /\ Only(s4, E)
  BY <1>6, <1>10, <1>12, Zenon
<1> HIDE DEF t4
<1>14. t5 \in C /\ \A E : Only(t5, E) <=> Only(t4, E) /\ Only(s5, E)
  BY <1>7, <1>10, <1>13, Zenon
<1> HIDE DEF t5
<1>15. t6 \in C /\ \A E : Only(t6, E) <=> Only(t5, E) /\ Only(s6, E)
  BY <1>8, <1>10, <1>14, Zenon
<1> HIDE DEF t6
<1>16. t7 \in C /\ \A E : Only(t7, E) <=> Only(t6, E) /\ Only(s7, E)
  BY <1>9, <1>10, <1>15, Zenon
<1>17. s = t7
  BY Zenon DEF t6, t5, t4, t3, t2
<1> HIDE DEF t7, s
<1>18. ASSUME NEW E PROVE Only(t7, E) <=> LimitsOnly(r, p, E)
  <2>1. Only(t7, E) <=> /\ Only(s1, E) /\ Only(s2, E) /\ Only(s3, E) /\ Only(s4, E)
                        /\ Only(s5, E) /\ Only(s6, E) /\ Only(s7, E)
    BY <1>11, <1>12, <1>13, <1>14, <1>15, <1>16, Zenon
  <2> QED BY <2>1, <1>3, <1>4, <1>5, <1>6, <1>7, <1>8, <1>9, Zenon DEF LimitsOnly
<1> QED BY <1>1, <1>16, <1>17, <1>18, Zenon DEF C

(* Limits fails for nothing but what LimitsOnly leaves open.               *)
LEMMA LimitsIn ==
  ASSUME NEW r \in Records, NEW p \in ValidationPolicies, NEW E, LimitsOnly(r, p, E)
  PROVE  Limits(r, p) \in E \cup {"ok"}
<1>1. PICK s \in Seq(Checks) : Limits(r, p) = FirstError(s) /\ \A F : Only(s, F) <=> LimitsOnly(r, p, F)
  BY LimitsAre
<1> QED BY <1>1, FirstErrorIn

(* validate_limits lets a record through when every condition holds.       *)
LEMMA LimitsOk ==
  ASSUME NEW r \in Records, NEW p \in ValidationPolicies
  PROVE  Limits(r, p) = "ok" <=> LimitsOnly(r, p, {})
<1>1. PICK s \in Seq(Checks) : Limits(r, p) = FirstError(s) /\ \A F : Only(s, F) <=> LimitsOnly(r, p, F)
  BY LimitsAre
<1> QED BY <1>1, NoErrorIs

(* And answers with one of its errors otherwise.                           *)
LEMMA LimitsTyped ==
  ASSUME NEW r \in Records, NEW p \in ValidationPolicies
  PROVE  Limits(r, p) \in LimitErrors \cup {"ok"}
<1>1. LimitsOnly(r, p, LimitErrors)
  BY DEF LimitsOnly, ContextOnly, HeaderOnly, EnvelopeOnly, IndexOnly, LimitErrors
<1> QED BY <1>1, LimitsIn
-----------------------------------------------------------------------------
(* validate and validate_pinned.                                           *)

(* The first verdict that is an error.                                     *)
LEMMA FirstOfTwo ==
  ASSUME NEW a, NEW b
  PROVE  FirstOf(<<a, b>>) = IF a # "ok" THEN a ELSE b
<1> DEFINE v == <<a, b>>
           s == [i \in DOMAIN v |-> Check(v[i] # "ok", v[i])]
<1>1. DOMAIN v = 1..2 /\ v[1] = a /\ v[2] = b
  OBVIOUS
<1>2. FirstOf(v) = FirstError(s)
  BY Zenon DEF FirstOf
<1> HIDE DEF v
<1>3. DOMAIN s = 1..2 /\ \A i \in 1..2 : s[i].bad = (v[i] # "ok") /\ s[i].error = v[i]
  BY <1>1 DEF Check
<1>4. 1 \in 1..2 /\ 2 \in 1..2 /\ ~ (2 <= 1) /\ \A i \in 1..2 : i = 1 \/ i = 2
  OBVIOUS
<1>5. FirstFailing(s, 2)
  <2>1. 2 \in Nat
    OBVIOUS
  <2> HIDE DEF s
  <2> QED BY <1>3, <2>1, FirstErrorFails
<1> HIDE DEF s
<1> DEFINE e == FirstError(s)
<1>6. \/ e = "ok" /\ a = "ok" /\ b = "ok"
      \/ e = a /\ a # "ok"
      \/ e = b /\ b # "ok" /\ a = "ok"
  BY <1>1, <1>3, <1>4, <1>5, Zenon DEF FirstFailing
<1> HIDE DEF e
<1> QED BY <1>2, <1>6 DEF e, v

(* The first of three answers that refuses.                                *)
LEMMA FirstOfThree ==
  ASSUME NEW a, NEW b, NEW c
  PROVE  FirstOf(<<a, b, c>>) = IF a # "ok" THEN a ELSE IF b # "ok" THEN b ELSE c
<1> DEFINE v == <<a, b, c>>
           s == [i \in DOMAIN v |-> Check(v[i] # "ok", v[i])]
<1>1. DOMAIN v = 1..3 /\ v[1] = a /\ v[2] = b /\ v[3] = c
  OBVIOUS
<1>2. FirstOf(v) = FirstError(s)
  BY Zenon DEF FirstOf
<1> HIDE DEF v
<1>3. DOMAIN s = 1..3 /\ \A i \in 1..3 : s[i].bad = (v[i] # "ok") /\ s[i].error = v[i]
  BY <1>1 DEF Check
<1>4. 1 \in 1..3 /\ 2 \in 1..3 /\ 3 \in 1..3 /\ ~ (2 <= 1) /\ ~ (3 <= 1) /\ ~ (3 <= 2)
      /\ \A i \in 1..3 : i = 1 \/ i = 2 \/ i = 3
  OBVIOUS
<1>5. FirstFailing(s, 3)
  <2>1. 3 \in Nat
    OBVIOUS
  <2> HIDE DEF s
  <2> QED BY <1>3, <2>1, FirstErrorFails
<1> HIDE DEF s
<1> DEFINE e == FirstError(s)
<1>6. \/ e = "ok" /\ a = "ok" /\ b = "ok" /\ c = "ok"
      \/ e = a /\ a # "ok"
      \/ e = b /\ b # "ok" /\ a = "ok"
      \/ e = c /\ c # "ok" /\ a = "ok" /\ b = "ok"
  BY <1>1, <1>3, <1>4, <1>5, Zenon DEF FirstFailing
<1> HIDE DEF e
<1> QED BY <1>2, <1>6 DEF e, v

(* The first of four answers that refuses.                                 *)
LEMMA FirstOfFour ==
  ASSUME NEW a, NEW b, NEW c, NEW d
  PROVE  FirstOf(<<a, b, c, d>>)
           = IF a # "ok" THEN a ELSE IF b # "ok" THEN b ELSE IF c # "ok" THEN c ELSE d
<1> DEFINE v == <<a, b, c, d>>
           s == [i \in DOMAIN v |-> Check(v[i] # "ok", v[i])]
<1>1. DOMAIN v = 1..4 /\ v[1] = a /\ v[2] = b /\ v[3] = c /\ v[4] = d
  OBVIOUS
<1>2. FirstOf(v) = FirstError(s)
  BY Zenon DEF FirstOf
<1> HIDE DEF v
<1>3. DOMAIN s = 1..4 /\ \A i \in 1..4 : s[i].bad = (v[i] # "ok") /\ s[i].error = v[i]
  BY <1>1 DEF Check
<1>4. /\ 1 \in 1..4 /\ 2 \in 1..4 /\ 3 \in 1..4 /\ 4 \in 1..4
      /\ ~ (2 <= 1) /\ ~ (3 <= 1) /\ ~ (3 <= 2) /\ ~ (4 <= 1) /\ ~ (4 <= 2) /\ ~ (4 <= 3)
      /\ \A i \in 1..4 : i = 1 \/ i = 2 \/ i = 3 \/ i = 4
  OBVIOUS
<1>5. FirstFailing(s, 4)
  <2>1. 4 \in Nat
    OBVIOUS
  <2> HIDE DEF s
  <2> QED BY <1>3, <2>1, FirstErrorFails
<1> HIDE DEF s
<1> DEFINE e == FirstError(s)
<1>6. \/ e = "ok" /\ a = "ok" /\ b = "ok" /\ c = "ok" /\ d = "ok"
      \/ e = a /\ a # "ok"
      \/ e = b /\ b # "ok" /\ a = "ok"
      \/ e = c /\ c # "ok" /\ a = "ok" /\ b = "ok"
      \/ e = d /\ d # "ok" /\ a = "ok" /\ b = "ok" /\ c = "ok"
  BY <1>1, <1>3, <1>4, <1>5, ZenonT(60) DEF FirstFailing
<1> HIDE DEF e
<1> QED BY <1>2, <1>6 DEF e, v

(* validate_structure: the limits, then the signature.                     *)
LEMMA StructureIs ==
  ASSUME NEW r, NEW p, NEW genuine \in BOOLEAN
  PROVE  Structure(r, p, genuine) =
           IF Limits(r, p) # "ok" THEN Limits(r, p) ELSE IF genuine THEN "ok" ELSE "InvalidSignature"
<1> DEFINE b == IF genuine THEN "ok" ELSE "InvalidSignature"
           a == Limits(r, p)
<1>1. Structure(r, p, genuine) = FirstOf(<<a, b>>)
  BY Zenon DEF Structure
<1>2. FirstOf(<<a, b>>) = IF a # "ok" THEN a ELSE b
  <2> HIDE DEF a, b
  <2> QED BY FirstOfTwo, Zenon
<1> HIDE DEF a
<1>3. Structure(r, p, genuine) = IF a # "ok" THEN a ELSE b
  BY <1>1, <1>2, Zenon
<1> QED BY <1>3, Zenon DEF a

(* The limits do not look at the signers a policy allows.                  *)
LEMMA LimitsIgnoresSigners ==
  ASSUME NEW r, NEW p \in ValidationPolicies, NEW signers
  PROVE  Limits(r, [p EXCEPT !.allowed_signers = signers]) = Limits(r, p)
<1> DEFINE q == [p EXCEPT !.allowed_signers = signers]
<1>1. /\ q.max_ciphertext_bytes = p.max_ciphertext_bytes /\ q.max_recipients = p.max_recipients
      /\ q.max_indexes = p.max_indexes /\ q.max_identifier_bytes = p.max_identifier_bytes
  BY DEF ValidationPolicies
<1> HIDE DEF q
<1>2. \A s : LabelCheck(s, q) = LabelCheck(s, p)
  BY <1>1, Zenon DEF LabelCheck
<1>3. ASSUME NEW c
      PROVE  ContextChecks(c, q) = ContextChecks(c, p)
  <2> DEFINE v == Check(0 \in {c.epoch, c.version, c.schema_version}, "InvalidVersion")
  <2>1. \A z \in ValidationPolicies \cup {q} : ContextChecks(c, z)
          = <<LabelCheck(c.tenant, z), LabelCheck(c.object_id, z), LabelCheck(c.field, z), v>>
    BY SMT DEF ContextChecks
  <2> HIDE DEF v
  <2>2. /\ LabelCheck(c.tenant, q) = LabelCheck(c.tenant, p)
        /\ LabelCheck(c.object_id, q) = LabelCheck(c.object_id, p)
        /\ LabelCheck(c.field, q) = LabelCheck(c.field, p)
    BY <1>2, Zenon
  <2> QED BY <2>1, <2>2, Zenon
<1>4. \A es, i : EnvelopeChecks(es, i, q) = EnvelopeChecks(es, i, p)
  BY <1>2, ZenonT(60) DEF EnvelopeChecks
<1>5. ASSUME NEW xs, NEW i
      PROVE  IndexChecks(xs, i, q) = IndexChecks(xs, i, p)
  <2> DEFINE v == Check(0 \in {xs[i].key_epoch, xs[i].schema_version, xs[i].canonicalizer_version},
                        "InvalidIndexDefinition")
             w == Check(i > 1 /\ ~ KeyBefore(IndexLabel(xs[i - 1]), IndexLabel(xs[i])),
                        "NonCanonicalIndexes")
  <2>1. \A z \in ValidationPolicies \cup {q} : IndexChecks(xs, i, z)
          = <<LabelCheck(xs[i].label, z), LabelCheck(xs[i].canonicalizer_id, z), v, w>>
    BY SMT DEF IndexChecks
  <2> HIDE DEF v, w
  <2>2. /\ LabelCheck(xs[i].label, q) = LabelCheck(xs[i].label, p)
        /\ LabelCheck(xs[i].canonicalizer_id, q) = LabelCheck(xs[i].canonicalizer_id, p)
    BY <1>2, Zenon
  <2> QED BY <2>1, <2>2, Zenon
<1>6. /\ [i \in DOMAIN r.recipients |-> EnvelopeChecks(r.recipients, i, q)]
            = [i \in DOMAIN r.recipients |-> EnvelopeChecks(r.recipients, i, p)]
      /\ [i \in DOMAIN r.indexes |-> IndexChecks(r.indexes, i, q)]
            = [i \in DOMAIN r.indexes |-> IndexChecks(r.indexes, i, p)]
  BY <1>4, <1>5
<1>7. Limits(r, q) = Limits(r, p)
  BY <1>1, <1>3, <1>6, Zenon DEF Limits
<1> QED BY <1>7 DEF q

(* validate_pinned answers as validate does under a policy with that one   *)
(* signer.                                                                 *)
LEMMA PinnedIsValidate ==
  ASSUME NEW r, NEW p \in ValidationPolicies, NEW pin, NEW genuine \in BOOLEAN
  PROVE  ValidatePinned(r, pin, p, genuine) = Validate(r, [p EXCEPT !.allowed_signers = {pin}], genuine)
<1> DEFINE q == [p EXCEPT !.allowed_signers = {pin}]
           l == Limits(r, p)
           g == IF genuine THEN "ok" ELSE "InvalidSignature"
           t == IF r.signer = pin THEN "ok" ELSE "UntrustedSigner"
           u == IF r.signer \in q.allowed_signers THEN "ok" ELSE "UntrustedSigner"
           n == IF q.allowed_signers = {} THEN "NoTrustedSigners" ELSE "ok"
           z == Structure(r, q, genuine)
<1>1. q.allowed_signers = {pin}
  BY DEF ValidationPolicies
<1>2. u = t /\ n = "ok"
  <2> HIDE DEF q
  <2> QED BY <1>1
<1>3. Limits(r, q) = l
  BY LimitsIgnoresSigners
<1>4. z = IF l # "ok" THEN l ELSE g
  <2>1. z = IF Limits(r, q) # "ok" THEN Limits(r, q) ELSE g
    <3> HIDE DEF q
    <3> QED BY StructureIs
  <2> HIDE DEF q, l, g, z
  <2> QED BY <1>3, <2>1
<1> DEFINE f == FirstOf(<<g, "UntrustedSigner">>)
           e == IF r.signer = pin THEN g ELSE f
<1>5. ValidatePinned(r, pin, p, genuine) = FirstOf(<<l, e>>)
  BY Zenon DEF ValidatePinned
<1>6. Validate(r, q, genuine) = FirstOf(<<z, n, u>>)
  BY Zenon DEF Validate
<1>9. f = (IF g # "ok" THEN g ELSE "UntrustedSigner")
  <2> HIDE DEF g
  <2> QED BY FirstOfTwo, Zenon
<1>10. e = (IF g # "ok" THEN g ELSE t)
  <2> HIDE DEF g, f
  <2> QED BY <1>9
<1> HIDE DEF l, g, t, u, n, z, e
<1>7. FirstOf(<<l, e>>) = IF l # "ok" THEN l ELSE e
  BY FirstOfTwo, Zenon
<1>8. FirstOf(<<z, n, u>>) = IF z # "ok" THEN z ELSE IF n # "ok" THEN n ELSE u
  BY FirstOfThree, Zenon
<1> QED BY <1>2, <1>4, <1>5, <1>6, <1>7, <1>8, <1>10

(* validate_pinned answers as validate does: in every state.               *)
THEOREM PathsAgreeHolds == Spec => []PathsAgree
<1>1. PathsAgree
  <2>1. ASSUME NEW p \in Policies, NEW pin \in Signers, NEW genuine \in BOOLEAN
        PROVE  ValidatePinned(record, pin, p, genuine)
                 = Validate(record, [p EXCEPT !.allowed_signers = {pin}], genuine)
    <3>1. p \in ValidationPolicies
      BY LengthAssumption
    <3> QED BY <3>1, PinnedIsValidate
  <2> QED BY <2>1 DEF PathsAgree
<1> QED BY <1>1, PTL
-----------------------------------------------------------------------------
(* decode: what it accepts, and what it takes.                             *)

(* What validate_structure answers.                                        *)
LEMMA StructureTyped ==
  ASSUME NEW r \in Records, NEW p \in ValidationPolicies, NEW genuine \in BOOLEAN
  PROVE  /\ Structure(r, p, genuine) \in LimitErrors \cup {"ok", "InvalidSignature"}
         /\ Structure(r, p, genuine) = "ok" <=> Limits(r, p) = "ok" /\ genuine = TRUE
BY StructureIs, LimitsTyped

(* Bytes that are parsed to their end are the encoding of what is parsed.  *)
LEMMA ParsedIsEncoded ==
  ASSUME NEW bytes \in Bytes, NEW p \in ValidationPolicies,
         Parse(bytes, p).error = "ok", Parse(bytes, p).rest = <<>>
  PROVE  LET g == Parse(bytes, p).got IN
         /\ g \in RawRecords /\ AsRecord(g) \in Records /\ AsRecord(g).format_version = FormatVersion
         /\ Encode(AsRecord(g)) = bytes /\ bytes = FlattenSeq(RecordPieces(g))
<1> DEFINE c == Parse(bytes, p)
           g == c.got
           r == AsRecord(g)
<1>1. Parsed(bytes, c)
  BY ParseSound, Zenon
<1> HIDE DEF c
<1>2. g \in RawRecords /\ bytes = FlattenSeq(RecordPieces(g)) \o c.rest
  BY <1>1, Zenon DEF Parsed
<1>3. r \in Records /\ RawRecord(r) = g
  BY <1>2, RecordFromRaw, Zenon
<1>4. r.format_version = FormatVersion
  <2>1. g[2] \in {FormatVersion}
    BY <1>2, RawRecordValues
  <2>2. r.format_version = g[2]
    BY AsRecordFields
  <2> QED BY <2>1, <2>2
<1> HIDE DEF r, g
<1> DEFINE f == FlattenSeq(RecordPieces(g))
           e == <<>>
<1>5. f \in Bytes
  BY <1>2, RawRecordTyped
<1> HIDE DEF f
<1>6. f \o e = f
  BY <1>5, BytesThenNothing
<1>7. c.rest = e /\ bytes = f \o c.rest
  BY <1>2 DEF c, f
<1> HIDE DEF e
<1>8. bytes = f
  BY <1>6, <1>7, Zenon
<1>9. Encode(r) = f
  BY <1>3, EncodeIs, Zenon DEF f
<1> QED BY <1>2, <1>3, <1>4, <1>8, <1>9, Zenon DEF r, g, c, f

(* What decode answers, and what it means that it accepts.                 *)
DecodeErrors == ReadErrors \cup LimitErrors \cup {"InvalidSignature"}

AcceptedAs(bytes, p, r) ==
  /\ r \in Records /\ r.format_version = FormatVersion
  /\ Parse(bytes, p).error = "ok" /\ r = AsRecord(Parse(bytes, p).got)
  /\ Encode(r) = bytes /\ Limits(r, p) = "ok" /\ Genuine(r)

(* A signature is genuine or not.                                          *)
LEMMA GenuineIsBoolean ==
  ASSUME NEW r
  PROVE  Genuine(r) \in BOOLEAN
BY DEF Genuine

(* An answer's parts.                                                      *)
LEMMA AnswerIs ==
  ASSUME NEW v, NEW r
  PROVE  Answer(v, r).verdict = v /\ Answer(v, r).record = r
BY DEF Answer

(* decode answers with one of its errors or with a record it checked; re-  *)
(* encoding never fails.                                                   *)
LEMMA DecodeSound ==
  ASSUME NEW bytes \in Bytes, NEW p \in ValidationPolicies
  PROVE  /\ Decode(bytes, p).verdict \in DecodeErrors \cup {"ok"}
         /\ Decode(bytes, p).verdict = "ok" => AcceptedAs(bytes, p, Decode(bytes, p).record)
<1> DEFINE c == Parse(bytes, p)
           r == AsRecord(c.got)
           a == Decode(bytes, p)
           s == Structure(r, p, Genuine(r))
<1>1. c.error \in ReadErrors \cup {"ok"}
  BY ParseSound DEF Cursors
<1>2. a = IF c.error # "ok" THEN Answer(c.error, Nothing)
          ELSE IF c.rest # <<>> THEN Answer("TrailingBytes", Nothing)
          ELSE IF Encode(r) # bytes THEN Answer("NonCanonicalEncoding", Nothing)
          ELSE IF s # "ok" THEN Answer(s, Nothing)
          ELSE Answer("ok", r)
  BY Zenon DEF Decode, Judged
<1>3. c.error = "ok" /\ c.rest = <<>> =>
        /\ r \in Records /\ r.format_version = FormatVersion /\ Encode(r) = bytes
  BY ParsedIsEncoded, Zenon
<1>4. r \in Records => /\ s \in LimitErrors \cup {"ok", "InvalidSignature"}
                       /\ s = "ok" => Limits(r, p) = "ok" /\ Genuine(r)
  <2> DEFINE b == Genuine(r)
  <2>1. b \in BOOLEAN
    BY GenuineIsBoolean
  <2>2. s = Structure(r, p, b)
    OBVIOUS
  <2> HIDE DEF r, s, b
  <2>3. r \in Records => /\ s \in LimitErrors \cup {"ok", "InvalidSignature"}
                         /\ s = "ok" => Limits(r, p) = "ok" /\ b
    BY <2>1, <2>2, StructureTyped
  <2> QED BY <2>3 DEF b
<1> HIDE DEF c, r, a, s
<1>5. CASE c.error # "ok"
  <2>1. a.verdict = c.error
    BY <1>2, <1>5, AnswerIs
  <2> QED BY <1>1, <1>5, <2>1 DEF a, DecodeErrors
<1>6. CASE c.error = "ok" /\ c.rest # <<>>
  <2>1. a.verdict = "TrailingBytes"
    BY <1>2, <1>6, AnswerIs
  <2> QED BY <2>1 DEF a, DecodeErrors, ReadErrors
<1>7. CASE c.error = "ok" /\ c.rest = <<>> /\ s # "ok"
  <2>1. a.verdict = s
    BY <1>2, <1>3, <1>7, AnswerIs
  <2> QED BY <1>3, <1>4, <1>7, <2>1 DEF a, DecodeErrors
<1>8. CASE c.error = "ok" /\ c.rest = <<>> /\ s = "ok"
  <2>1. a.verdict = "ok" /\ a.record = r
    BY <1>2, <1>3, <1>8, AnswerIs
  <2>2. r = AsRecord(Parse(bytes, p).got) /\ Parse(bytes, p).error = "ok"
    BY <1>8, Zenon DEF r, c
  <2> QED BY <1>3, <1>4, <1>8, <2>1, <2>2 DEF a, AcceptedAs
<1> QED BY <1>5, <1>6, <1>7, <1>8

(* The comparison with the re-encoding never fails.                        *)
LEMMA NeverNonCanonical ==
  ASSUME NEW bytes \in Bytes, NEW p \in ValidationPolicies
  PROVE  Decode(bytes, p).verdict # "NonCanonicalEncoding"
BY DecodeSound DEF DecodeErrors, ReadErrors, LimitErrors

(* Bytes of a record within the limits are decoded to it.                  *)
LEMMA DecodeComplete ==
  ASSUME NEW r \in Records, NEW p \in ValidationPolicies, Limits(r, p) = "ok", Genuine(r),
         \A i \in 1..13 : RecordFits(RecordFields[i], RawRecord(r)[i], p) = TRUE
  PROVE  Decode(Encode(r), p) = Answer("ok", r)
<1> DEFINE g == RawRecord(r)
           bytes == Encode(r)
           c == Parse(bytes, p)
           s == Structure(r, p, Genuine(r))
<1>1. r.format_version = FormatVersion
  BY LimitsOk DEF LimitsOnly
<1>2. g \in RawRecords /\ AsRecord(g) = r
  BY <1>1, RawFromRecord
<1>3. bytes = FlattenSeq(RecordPieces(g))
  BY EncodeIs
<1>4. c.error = "ok" /\ c.got = g /\ c.rest = <<>>
  <2> HIDE DEF g
  <2>1. LET d == Parse(FlattenSeq(RecordPieces(g)), p) IN
        /\ d.error = "ok" => d.got = g /\ d.rest = <<>>
        /\ TRUE = TRUE => d.error = "ok"
    <3>1. \A i \in 1..13 : RecordFits(RecordFields[i], g[i], p) = TRUE
      BY DEF g
    <3> QED BY <1>2, <3>1, ParseComplete
  <2> HIDE DEF bytes
  <2>2. c = Parse(FlattenSeq(RecordPieces(g)), p)
    BY <1>3, Zenon
  <2> HIDE DEF c
  <2> QED BY <2>1, <2>2
<1>5. s = "ok"
  BY StructureTyped, GenuineIsBoolean
<1> HIDE DEF g, bytes, c, s
<1>6. Decode(bytes, p) = IF c.error # "ok" THEN Answer(c.error, Nothing)
          ELSE IF c.rest # <<>> THEN Answer("TrailingBytes", Nothing)
          ELSE IF Encode(r) # bytes THEN Answer("NonCanonicalEncoding", Nothing)
          ELSE IF s # "ok" THEN Answer(s, Nothing)
          ELSE Answer("ok", r)
  BY <1>2, <1>4, Zenon DEF Decode, Judged, c, s
<1> QED BY <1>4, <1>5, <1>6, Zenon DEF bytes

(* When a field of each kind fits.                                         *)
LEMMA NumberFits ==
  ASSUME NEW v, NEW p
  PROVE  /\ Fits("number", v, p) = TRUE /\ Fits("format", v, p) = TRUE /\ Fits("suite", v, p) = TRUE
BY DEF Fits, NumberKinds

(* A byte string no longer than take_bytes reads.                          *)
LEMMA BytesFit ==
  ASSUME NEW v, NEW p, Len(v) <= TakeLimit(p)
  PROVE  /\ Fits("bytes", v, p) = TRUE /\ Fits("record domain", v, p) = TRUE
         /\ Fits("context domain", v, p) = TRUE
BY DEF Fits, NumberKinds

(* A text within both limits.                                              *)
LEMMA StringFits ==
  ASSUME NEW v, NEW p, Len(v) <= TakeLimit(p), Len(v) <= p.max_identifier_bytes
  PROVE  Fits("string", v, p) = TRUE
BY DEF Fits, NumberKinds

(* The room a policy leaves.                                               *)
LEMMA Room ==
  ASSUME NEW p \in Policies
  PROVE  /\ p \in ValidationPolicies /\ TakeLimit(p) \in Nat
         /\ p.max_identifier_bytes \in Nat /\ p.max_identifier_bytes <= TakeLimit(p)
         /\ Len(ContextDomain) \in Nat /\ Len(ContextDomain) <= TakeLimit(p)
         /\ Len(RecordDomain) <= TakeLimit(p)
         /\ 3 * p.max_identifier_bytes + Len(ContextDomain) + 7 <= TakeLimit(p)
         /\ KeyLen <= TakeLimit(p) /\ WrappedLen <= TakeLimit(p) /\ SignatureLen <= TakeLimit(p)
         /\ \A suite \in Suites : NonceLen[suite] <= TakeLimit(p)
         /\ p.max_ciphertext_bytes \in Nat /\ p.max_ciphertext_bytes <= TakeLimit(p)
<1>1. p \in ValidationPolicies
  BY LengthAssumption
<1>2. /\ TakeLimit(p) \in Nat /\ TakeLimit(p) >= LengthFloor /\ TakeLimit(p) >= p.max_ciphertext_bytes
      /\ LengthFloor \in Nat
  BY <1>1, TakeLimitBounds, LengthAssumption
<1>3. p.max_identifier_bytes \in Nat /\ p.max_ciphertext_bytes \in Nat
  BY <1>1 DEF ValidationPolicies
<1>4. Len(ContextDomain) \in Nat /\ Len(RecordDomain) \in Nat
  BY LengthAssumption DEF Bytes
<1>5. 3 * p.max_identifier_bytes + Len(ContextDomain) + 7 <= TakeLimit(p)
  BY LengthAssumption
<1>6. /\ KeyLen \in Nat /\ WrappedLen \in Nat /\ SignatureLen \in Nat /\ NonceLen \in [Suites -> Nat]
  BY RulesAssumption
<1>7. /\ KeyLen <= LengthFloor /\ WrappedLen <= LengthFloor /\ SignatureLen <= LengthFloor
      /\ Len(RecordDomain) <= LengthFloor
      /\ \A suite \in Suites : NonceLen[suite] <= LengthFloor
  BY LengthAssumption
<1> DEFINE t == TakeLimit(p)
           m == p.max_identifier_bytes
           l == Len(ContextDomain)
<1> HIDE DEF t, m, l
<1>8. t \in Nat /\ m \in Nat /\ l \in Nat /\ 3 * m + l + 7 <= t
  BY <1>2, <1>3, <1>4, <1>5 DEF t, m, l
<1>9. m <= t /\ l <= t
  BY <1>8
<1>10. m <= TakeLimit(p) /\ l <= TakeLimit(p)
  BY <1>9 DEF t
<1>11. \A suite \in Suites : NonceLen[suite] <= TakeLimit(p)
  BY <1>2, <1>6, <1>7
<1>12. KeyLen <= TakeLimit(p) /\ WrappedLen <= TakeLimit(p) /\ SignatureLen <= TakeLimit(p) /\ Len(RecordDomain) <= TakeLimit(p)
  BY <1>2, <1>4, <1>6, <1>7
<1> QED BY <1>1, <1>2, <1>3, <1>4, <1>5, <1>10, <1>11, <1>12 DEF m, l

(* Lengths add up.                                                         *)
LEMMA BytesLen ==
  ASSUME NEW x \in Bytes, NEW y \in Bytes
  PROVE  x \o y \in Bytes /\ Len(x \o y) = Len(x) + Len(y) /\ Len(x) \in Nat /\ Len(y) \in Nat
BY ConcatProperties DEF Bytes

(* The nested context is three identifiers long, and a little.             *)
LEMMA ContextBytesLen ==
  ASSUME NEW c \in Contexts
  PROVE  Len(ContextBytes(c)) = Len(ContextDomain) + Len(c.tenant) + Len(c.object_id) + Len(c.field) + 7
<1> DEFINE a0 == Prefixed(ContextDomain)
           a1 == Prefixed(c.tenant)
           a2 == Prefixed(c.object_id)
           a3 == Prefixed(c.field)
           a4 == <<c.epoch, c.version, c.schema_version>>
           l0 == Len(ContextDomain)
           l1 == Len(c.tenant)
           l2 == Len(c.object_id)
           l3 == Len(c.field)
<1>1. c.tenant \in Bytes /\ c.object_id \in Bytes /\ c.field \in Bytes
      /\ c.epoch \in Nat /\ c.version \in Nat /\ c.schema_version \in Nat /\ ContextDomain \in Bytes
  BY TextsAreBytes, LengthAssumption DEF Contexts
<1>2. /\ a0 \in Bytes /\ Len(a0) = l0 + 1 /\ a1 \in Bytes /\ Len(a1) = l1 + 1
      /\ a2 \in Bytes /\ Len(a2) = l2 + 1 /\ a3 \in Bytes /\ Len(a3) = l3 + 1
  BY <1>1, PrefixedIsBytes
<1>3. a4 \in Bytes /\ Len(a4) = 3
  BY <1>1 DEF Bytes
<1>4. l0 \in Nat /\ l1 \in Nat /\ l2 \in Nat /\ l3 \in Nat
  BY <1>1 DEF Bytes
<1>5. ContextBytes(c) = (((a0 \o a1) \o a2) \o a3) \o a4
  BY Zenon DEF ContextBytes
<1> HIDE DEF a0, a1, a2, a3, a4, l0, l1, l2, l3
<1> DEFINE b1 == a0 \o a1
           b2 == b1 \o a2
           b3 == b2 \o a3
           b4 == b3 \o a4
<1>6. b1 \in Bytes /\ Len(b1) = Len(a0) + Len(a1)
  BY <1>2, BytesLen, Zenon
<1> HIDE DEF b1
<1>7. b2 \in Bytes /\ Len(b2) = Len(b1) + Len(a2)
  BY <1>2, <1>6, BytesLen, Zenon
<1> HIDE DEF b2
<1>8. b3 \in Bytes /\ Len(b3) = Len(b2) + Len(a3)
  BY <1>2, <1>7, BytesLen, Zenon
<1> HIDE DEF b3
<1>9. b4 \in Bytes /\ Len(b4) = Len(b3) + Len(a4)
  BY <1>3, <1>8, BytesLen, Zenon
<1>10. ContextBytes(c) = b4
  BY <1>5, Zenon DEF b1, b2, b3
<1> HIDE DEF b4
<1>11. Len(b4) = l0 + l1 + l2 + l3 + 7
  BY <1>2, <1>3, <1>4, <1>6, <1>7, <1>8, <1>9
<1> QED BY <1>10, <1>11 DEF l0, l1, l2, l3

(* What an identifier within the limits leaves to the reader.              *)
LEMMA LabelFits ==
  ASSUME NEW p \in Policies, NEW s \in Texts, GoodLabel(s, p)
  PROVE  Fits("string", s, p) = TRUE /\ Len(s) \in Nat /\ Len(s) <= p.max_identifier_bytes
<1>1. Len(s) \in Nat /\ Len(s) <= p.max_identifier_bytes
  BY DEF GoodLabel, Texts
<1>2. Len(s) <= TakeLimit(p)
  BY <1>1, Room
<1> QED BY <1>1, <1>2, StringFits

(* The limits of a context are those of its reader.                        *)
LEMMA ContextFitsLimits ==
  ASSUME NEW p \in Policies, NEW c \in Contexts, ContextOnly(c, p, {})
  PROVE  ContextFits(c, p) = TRUE
<1>1. c.tenant \in Texts /\ c.object_id \in Texts /\ c.field \in Texts
  BY DEF Contexts
<1>2. GoodLabel(c.tenant, p) /\ GoodLabel(c.object_id, p) /\ GoodLabel(c.field, p)
  BY DEF ContextOnly
<1>3. /\ Fits("string", c.tenant, p) = TRUE /\ Len(c.tenant) \in Nat /\ Len(c.tenant) <= p.max_identifier_bytes
      /\ Fits("string", c.object_id, p) = TRUE /\ Len(c.object_id) \in Nat /\ Len(c.object_id) <= p.max_identifier_bytes
      /\ Fits("string", c.field, p) = TRUE /\ Len(c.field) \in Nat /\ Len(c.field) <= p.max_identifier_bytes
  BY <1>1, <1>2, LabelFits
<1>4. Len(ContextBytes(c)) <= TakeLimit(p)
  <2> DEFINE a == Len(c.tenant)
             b == Len(c.object_id)
             d == Len(c.field)
             l == Len(ContextDomain)
             m == p.max_identifier_bytes
             t == TakeLimit(p)
  <2>1. /\ a \in Nat /\ b \in Nat /\ d \in Nat /\ l \in Nat /\ m \in Nat /\ t \in Nat
        /\ a <= m /\ b <= m /\ d <= m /\ 3 * m + l + 7 <= t
    BY <1>3, Room
  <2>2. Len(ContextBytes(c)) = l + a + b + d + 7
    BY ContextBytesLen
  <2> HIDE DEF a, b, d, l, m, t
  <2>3. l + a + b + d + 7 <= t
    BY <2>1
  <2> QED BY <2>2, <2>3 DEF t
<1>5. Fits("context domain", ContextDomain, p) = TRUE
  <2>1. Len(ContextDomain) <= TakeLimit(p)
    BY Room
  <2> QED BY <2>1, BytesFit
<1> DEFINE g == RawContext(c)
<1>6. /\ g[1] = ContextDomain /\ g[2] = c.tenant /\ g[3] = c.object_id /\ g[4] = c.field
  BY DEF RawContext
<1> HIDE DEF g
<1>7. ASSUME NEW i \in 1..7 PROVE Fits(ContextFields[i], g[i], p)
  <2>1. i = 1 \/ i = 2 \/ i = 3 \/ i = 4 \/ i = 5 \/ i = 6 \/ i = 7
    OBVIOUS
  <2> QED BY <1>3, <1>5, <1>6, <2>1, ContextFieldKinds, NumberFits, Zenon
<1>8. AllFit(ContextFields, g, p)
  BY <1>7, ContextFieldKinds DEF AllFit
<1> QED BY <1>4, <1>8 DEF ContextFits, g

(* The limits of an envelope are those of its reader.                      *)
LEMMA EnvelopeFits ==
  ASSUME NEW p \in Policies, NEW es \in Seq(Envelopes), NEW i \in 1..Len(es), EnvelopeOnly(es, i, p, {})
  PROVE  AllFit(EnvelopeFields, RawEnvelope(es[i]), p)
<1> DEFINE e == es[i]
<1>1. e \in Envelopes
  BY ElementOfSeq
<1>2. /\ e.recipient_id \in Texts /\ GoodLabel(e.recipient_id, p)
      /\ Len(e.encapsulated_key) = KeyLen /\ Len(e.wrapped_dek) = WrappedLen
  BY <1>1 DEF Envelopes, EnvelopeOnly
<1> HIDE DEF e
<1>3. /\ Fits("string", e.recipient_id, p) = TRUE
      /\ Fits("bytes", e.encapsulated_key, p) = TRUE /\ Fits("bytes", e.wrapped_dek, p) = TRUE
  BY <1>2, LabelFits, BytesFit, Room
<1> DEFINE g == RawEnvelope(e)
<1>4. g[1] = e.recipient_id /\ g[4] = e.encapsulated_key /\ g[5] = e.wrapped_dek
  BY DEF RawEnvelope
<1> HIDE DEF g
<1>5. ASSUME NEW j \in 1..5 PROVE Fits(EnvelopeFields[j], g[j], p)
  <2>1. j = 1 \/ j = 2 \/ j = 3 \/ j = 4 \/ j = 5
    OBVIOUS
  <2> QED BY <1>3, <1>4, <2>1, EnvelopeFieldKinds, NumberFits, Zenon
<1>6. AllFit(EnvelopeFields, g, p)
  BY <1>5, EnvelopeFieldKinds DEF AllFit
<1> QED BY <1>6 DEF g, e

(* The limits of an index are those of its reader.                         *)
LEMMA IndexFits ==
  ASSUME NEW p \in Policies, NEW xs \in Seq(Indexes), NEW i \in 1..Len(xs), IndexOnly(xs, i, p, {})
  PROVE  AllFit(IndexFields, RawIndex(xs[i]), p)
<1> DEFINE x == xs[i]
<1>1. x \in Indexes
  BY ElementOfSeq
<1>2. /\ x.label \in Texts /\ GoodLabel(x.label, p)
      /\ x.canonicalizer_id \in Texts /\ GoodLabel(x.canonicalizer_id, p)
  BY <1>1 DEF Indexes, IndexOnly
<1> HIDE DEF x
<1>3. Fits("string", x.label, p) = TRUE /\ Fits("string", x.canonicalizer_id, p) = TRUE
  BY <1>2, LabelFits
<1> DEFINE g == RawIndex(x)
<1>4. g[1] = x.label /\ g[3] = x.canonicalizer_id
  BY DEF RawIndex
<1> HIDE DEF g
<1>5. ASSUME NEW j \in 1..6 PROVE Fits(IndexFields[j], g[j], p)
  <2>1. j = 1 \/ j = 2 \/ j = 3 \/ j = 4 \/ j = 5 \/ j = 6
    OBVIOUS
  <2> QED BY <1>3, <1>4, <2>1, IndexFieldKinds, NumberFits, Zenon
<1>6. AllFit(IndexFields, g, p)
  BY <1>5, IndexFieldKinds DEF AllFit
<1> QED BY <1>6 DEF g, x

(* Every field of a record within the limits fits what the reader reads.   *)
LEMMA RecordFitsLimits ==
  ASSUME NEW p \in Policies, NEW r \in Records, Limits(r, p) = "ok"
  PROVE  \A i \in 1..13 : RecordFits(RecordFields[i], RawRecord(r)[i], p) = TRUE
<1> DEFINE g == RawRecord(r)
           fit(i) == RecordFits(RecordFields[i], g[i], p) = TRUE
<1>0. p \in ValidationPolicies
  BY Room
<1>1. LimitsOnly(r, p, {})
  BY <1>0, LimitsOk
<1>2. /\ ContextOnly(r.context, p, {})
      /\ Len(r.nonce) = NonceLen[r.suite]
      /\ Len(r.ciphertext) \in TagLen..p.max_ciphertext_bytes
      /\ Len(r.recipients) \in 1..p.max_recipients
      /\ \A i \in 1..Len(r.recipients) : EnvelopeOnly(r.recipients, i, p, {})
      /\ Len(r.indexes) <= p.max_indexes
      /\ \A i \in 1..Len(r.indexes) : IndexOnly(r.indexes, i, p, {})
      /\ Len(r.signature) = SignatureLen
  BY <1>1 DEF LimitsOnly, HeaderOnly
<1>3. /\ r.suite \in Suites /\ r.context \in Contexts
      /\ r.nonce \in Bytes /\ r.ciphertext \in Bytes
      /\ r.recipients \in Seq(Envelopes) /\ r.indexes \in Seq(Indexes) /\ r.signature \in Bytes
  BY RecordTypes
<1>4. /\ g[1] = RecordDomain /\ g[4] = r.context /\ g[8] = r.nonce /\ g[9] = r.ciphertext
      /\ g[10] = RawEnvelopes(r.recipients) /\ g[11] = RawIndexes(r.indexes) /\ g[13] = r.signature
  BY RawFields
<1> HIDE DEF g
<1>5. /\ Fits("record domain", RecordDomain, p) = TRUE
      /\ Fits("bytes", r.nonce, p) = TRUE
      /\ Fits("bytes", r.ciphertext, p) = TRUE
      /\ Fits("bytes", r.signature, p) = TRUE
  <2>1. /\ Len(RecordDomain) <= TakeLimit(p) /\ Len(r.nonce) <= TakeLimit(p)
        /\ Len(r.signature) <= TakeLimit(p)
    BY <1>2, <1>3, Room
  <2>2. Len(r.ciphertext) <= TakeLimit(p)
    <3>1. Len(r.ciphertext) <= p.max_ciphertext_bytes /\ Len(r.ciphertext) \in Nat
      BY <1>2, <1>3 DEF Bytes
    <3> QED BY <3>1, Room
  <2> QED BY <2>1, <2>2, BytesFit
<1>6. ContextFits(r.context, p) = TRUE
  BY <1>2, <1>3, ContextFitsLimits
<1>7. ListFits(RawEnvelopes(r.recipients), p.max_recipients, EnvelopeFields, p) = TRUE
  <2>1. /\ Len(RawEnvelopes(r.recipients)) = Len(r.recipients)
        /\ \A i \in 1..Len(r.recipients) : RawEnvelopes(r.recipients)[i] = RawEnvelope(r.recipients[i])
    BY <1>3, RawFromEnvelopes, Zenon
  <2>2. \A i \in 1..Len(r.recipients) : AllFit(EnvelopeFields, RawEnvelope(r.recipients[i]), p)
    BY <1>2, <1>3, EnvelopeFits
  <2>3. Len(r.recipients) <= p.max_recipients
    BY <1>2
  <2> QED BY <2>1, <2>2, <2>3 DEF ListFits
<1>8. ListFits(RawIndexes(r.indexes), p.max_indexes, IndexFields, p) = TRUE
  <2>1. /\ Len(RawIndexes(r.indexes)) = Len(r.indexes)
        /\ \A i \in 1..Len(r.indexes) : RawIndexes(r.indexes)[i] = RawIndex(r.indexes[i])
    BY <1>3, RawFromIndexes, Zenon
  <2>2. \A i \in 1..Len(r.indexes) : AllFit(IndexFields, RawIndex(r.indexes[i]), p)
    BY <1>2, <1>3, IndexFits
  <2> QED BY <1>2, <2>1, <2>2 DEF ListFits
<1>9. /\ \A v : RecordFits("context", v, p) = ContextFits(v, p)
      /\ \A v : RecordFits("recipients", v, p) = ListFits(v, p.max_recipients, EnvelopeFields, p)
      /\ \A v : RecordFits("indexes", v, p) = ListFits(v, p.max_indexes, IndexFields, p)
      /\ \A v : /\ RecordFits("number", v, p) = Fits("number", v, p)
                /\ RecordFits("format", v, p) = Fits("format", v, p)
                /\ RecordFits("suite", v, p) = Fits("suite", v, p)
                /\ RecordFits("bytes", v, p) = Fits("bytes", v, p)
                /\ RecordFits("record domain", v, p) = Fits("record domain", v, p)
  BY DEF RecordFits
<1>10. /\ \A v : RecordFits("number", v, p) = TRUE
       /\ \A v : RecordFits("format", v, p) = TRUE
       /\ \A v : RecordFits("suite", v, p) = TRUE
  BY <1>9, NumberFits
<1>11. /\ RecordFits("context", r.context, p) = TRUE
       /\ RecordFits("recipients", RawEnvelopes(r.recipients), p) = TRUE
       /\ RecordFits("indexes", RawIndexes(r.indexes), p) = TRUE
       /\ RecordFits("bytes", r.nonce, p) = TRUE
       /\ RecordFits("bytes", r.ciphertext, p) = TRUE
       /\ RecordFits("bytes", r.signature, p) = TRUE
       /\ RecordFits("record domain", RecordDomain, p) = TRUE
  BY <1>5, <1>6, <1>7, <1>8, <1>9
<1>12. ASSUME NEW i \in 1..13 PROVE fit(i)
  <2>1. \/ i = 1 \/ i = 2 \/ i = 3 \/ i = 4 \/ i = 5 \/ i = 6 \/ i = 7
        \/ i = 8 \/ i = 9 \/ i = 10 \/ i = 11 \/ i = 12 \/ i = 13
    OBVIOUS
  <2>2. fit(1) /\ fit(2) /\ fit(3) /\ fit(4) /\ fit(5) /\ fit(6) /\ fit(7)
    BY <1>4, <1>10, <1>11, RecordFieldKinds, Zenon
  <2>3. fit(8) /\ fit(9) /\ fit(10) /\ fit(11) /\ fit(12) /\ fit(13)
    BY <1>4, <1>10, <1>11, RecordFieldKinds, Zenon
  <2> HIDE DEF fit
  <2> QED BY <2>1, <2>2, <2>3, Zenon
<1> QED BY <1>12 DEF g

(* Undamaged bytes of a record within the limits are decoded to it.        *)
LEMMA ValidIsDecoded ==
  ASSUME NEW r \in Records, NEW p \in Policies, Limits(r, p) = "ok", Genuine(r)
  PROVE  Decode(Encode(r), p) = Answer("ok", r)
BY RecordFitsLimits, DecodeComplete, Room

(* The bytes of the first part stay where they are.                        *)
LEMMA BytesAt ==
  ASSUME NEW x \in Bytes, NEW y \in Bytes
  PROVE  /\ \A i \in 1..Len(x) : i \in 1..Len(x \o y) /\ (x \o y)[i] = x[i]
         /\ Len(y) = 1 => /\ Len(x) + 1 \in 1..Len(x \o y)
                          /\ (x \o y)[Len(x) + 1] = y[1]
<1> DEFINE z == x \o y
<1>1. /\ Len(z) = Len(x) + Len(y) /\ Len(x) \in Nat /\ Len(y) \in Nat
      /\ \A i \in 1..(Len(x) + Len(y)) : z[i] = IF i <= Len(x) THEN x[i] ELSE y[i - Len(x)]
  BY ConcatProperties DEF Bytes
<1> HIDE DEF z
<1>2. \A i \in 1..Len(x) : i \in 1..Len(z) /\ z[i] = x[i]
  BY <1>1
<1>3. ASSUME Len(y) = 1 PROVE Len(x) + 1 \in 1..Len(z) /\ z[Len(x) + 1] = y[1]
  <2>1. Len(x) + 1 \in 1..(Len(x) + Len(y)) /\ ~ (Len(x) + 1 <= Len(x)) /\ (Len(x) + 1) - Len(x) = 1
    BY <1>1, <1>3
  <2>2. z[Len(x) + 1] = y[(Len(x) + 1) - Len(x)]
    BY <1>1, <2>1, Zenon
  <2> QED BY <1>1, <2>1, <2>2
<1> QED BY <1>2, <1>3 DEF z

(* The format version follows the domain in the bytes of a record.         *)
LEMMA FormatPlace ==
  ASSUME NEW r \in Records
  PROVE  Encode(r)[Len(Prefixed(RecordDomain)) + 1] = r.format_version
<1> DEFINE qs == RecordPieces(RawRecord(r))
           k == Len(qs[1]) + 1
           v == r.format_version
           w == <<v>>
<1>1. RecordPiecesAre(r, qs) /\ qs \in Seq(Bytes) /\ Len(qs) = 13 /\ Encode(r) = FlattenSeq(qs)
  BY RecordPiecesWritten, EncodeIs, Zenon
<1> HIDE DEF qs
<1>2. PICK f : /\ f[1] = qs[1] /\ FlattenSeq(qs) = f[13]
               /\ \A i \in 1..12 : f[i + 1] = f[i] \o qs[i + 1]
  <2>1. Len(qs) \in Nat \ {0} /\ Len(qs) - 1 = 12
    BY <1>1
  <2> QED BY <1>1, <2>1, FlattenSteps, ZenonT(60)
<1>3. qs[1] = Prefixed(RecordDomain) /\ qs[2] = w
  BY <1>1, Zenon DEF RecordPiecesAre
<1>4. w \in Bytes /\ Len(w) = 1 /\ w[1] = v
  BY RecordTypes DEF Bytes
<1> HIDE DEF w, v
<1>5. \A i \in 1..13 : qs[i] \in Bytes
  BY <1>1, ElementOfSeq
<1>6. Len(qs[1]) \in Nat /\ qs[1] \in Bytes
  <2>1. qs[1] \in Bytes
    BY <1>5, RecordPlaces, Zenon
  <2> QED BY <2>1, BytesEmpty DEF Bytes
<1> DEFINE Good(i) == f[i] \in Bytes /\ k \in 1..Len(f[i]) /\ f[i][k] = v
           S == { n \in Nat : n + 2 <= 13 => Good(n + 2) }
<1>7. Good(2)
  <2>1. 1 \in 1..12 /\ 1 + 1 = 2
    OBVIOUS
  <2>2. f[2] = qs[1] \o w
    BY <1>2, <1>3, <2>1, Zenon
  <2>3. qs[1] \o w \in Bytes
    BY <1>4, <1>6, BytesConcat, Zenon
  <2>4. k \in 1..Len(qs[1] \o w) /\ (qs[1] \o w)[k] = w[1]
    BY <1>4, <1>6, BytesAt, Zenon
  <2> QED BY <1>4, <2>2, <2>3, <2>4, Zenon
<1> HIDE DEF k
<1>8. ASSUME NEW i \in 2..12, Good(i) PROVE Good(i + 1)
  <2>1. i \in 1..12 /\ i + 1 \in 1..13
    BY <1>8
  <2>2. f[i + 1] = f[i] \o qs[i + 1] /\ qs[i + 1] \in Bytes
    BY <1>2, <1>5, <2>1, Zenon
  <2>3. f[i] \o qs[i + 1] \in Bytes
    BY <1>8, <2>2, BytesConcat, Zenon
  <2>4. k \in 1..Len(f[i] \o qs[i + 1]) /\ (f[i] \o qs[i + 1])[k] = f[i][k]
    BY <1>8, <2>2, BytesAt, Zenon
  <2> QED BY <1>8, <2>2, <2>3, <2>4, Zenon
<1> HIDE DEF Good
<1>9. 0 \in S
  BY <1>7
<1>10. ASSUME NEW n \in Nat, n \in S PROVE n + 1 \in S
  <2>1. CASE (n + 1) + 2 <= 13
    <3>1. n + 2 \in 2..12 /\ (n + 2) + 1 = (n + 1) + 2 /\ n + 2 <= 13
      BY <2>1
    <3>2. Good(n + 2)
      BY <1>10, <3>1
    <3>3. Good((n + 2) + 1)
      BY <1>8, <3>1, <3>2
    <3> QED BY <3>1, <3>3
  <2>2. CASE ~ ((n + 1) + 2 <= 13)
    BY <2>2
  <2> QED BY <2>1, <2>2
<1>11. 11 \in S
  <2> HIDE DEF S
  <2> QED BY <1>9, <1>10, Induction
<1>12. Good(13)
  BY <1>11
<1> QED BY <1>1, <1>2, <1>3, <1>12, Zenon DEF Good, k, v

(* What decode accepts under a signature is the record that was signed.    *)
LEMMA AcceptedRecord ==
  ASSUME NEW r \in Records, NEW bytes, NEW p \in ValidationPolicies,
         record \in Records, AcceptedAs(bytes, p, r)
  PROVE  r = record
<1>1. Encode(r) = Encode(record)
  BY Zenon DEF AcceptedAs, Genuine, Encode
<1>2. record.format_version = FormatVersion
  <2>1. /\ Encode(r)[Len(Prefixed(RecordDomain)) + 1] = r.format_version
        /\ Encode(record)[Len(Prefixed(RecordDomain)) + 1] = record.format_version
    BY FormatPlace, Zenon
  <2> QED BY <1>1, <2>1, Zenon DEF AcceptedAs
<1> DEFINE h == RawRecord(record)
           c == Parse(bytes, p)
<1>3. h \in RawRecords /\ AsRecord(h) = record
  BY <1>2, RawFromRecord
<1>4. bytes = FlattenSeq(RecordPieces(h))
  <2>1. Encode(record) = bytes
    BY <1>1, Zenon DEF AcceptedAs
  <2> QED BY <2>1, EncodeIs, Zenon
<1>5. c.error = "ok" /\ r = AsRecord(c.got)
  BY Zenon DEF AcceptedAs
<1> HIDE DEF h
<1>6. Parse(FlattenSeq(RecordPieces(h)), p).error = "ok"
         => Parse(FlattenSeq(RecordPieces(h)), p).got = h
  BY <1>3, FALSE = TRUE => TRUE, ParseComplete
<1>7. c.got = h
  BY <1>4, <1>5, <1>6, Zenon
<1> QED BY <1>3, <1>5, <1>7, Zenon
-----------------------------------------------------------------------------
(* The order of texts, and sorting by it.                                  *)

(* The order of identifiers, element by element.                           *)
BeforeAt(s, t, n) ==
  /\ n <= Len(s) /\ n < Len(t)
  /\ \A i \in 1..n : s[i] = t[i]
  /\ n = Len(s) \/ s[n + 1] < t[n + 1]

(* A text is a sequence of numbers.                                        *)
LEMMA TextIs ==
  ASSUME NEW s \in Texts
  PROVE  /\ Len(s) \in Nat /\ s \in Seq(Nat)
         /\ \A i \in 1..Len(s) : s[i] \in Nat
<1>1. s \in Bytes
  BY TextsAreBytes
<1> QED BY <1>1 DEF Bytes

(* Two prefixes agree when every element does.                             *)
LEMMA PrefixesAgree ==
  ASSUME NEW s \in Seq(Nat), NEW t \in Seq(Nat), NEW n \in Nat, n <= Len(s), n <= Len(t)
  PROVE  SubSeq(s, 1, n) = SubSeq(t, 1, n) <=> \A i \in 1..n : s[i] = t[i]
<1> DEFINE a == SubSeq(s, 1, n)
           b == SubSeq(t, 1, n)
<1>0. Len(s) \in Nat /\ Len(t) \in Nat /\ \A i \in 1..n : s[i] \in Nat /\ t[i] \in Nat
  BY SMTT(30)
<1>1. a \in Seq(Nat) /\ Len(a) = n /\ \A i \in 1..n : a[i] = s[i]
  BY <1>0, SubSeqProperties
<1>2. b \in Seq(Nat) /\ Len(b) = n /\ \A i \in 1..n : b[i] = t[i]
  BY <1>0, SubSeqProperties
<1> HIDE DEF a, b
<1>3. ASSUME a = b PROVE \A i \in 1..n : s[i] = t[i]
  BY <1>1, <1>2, <1>3
<1>4. ASSUME \A i \in 1..n : s[i] = t[i] PROVE a = b
  <2>1. Len(a) = Len(b) /\ \A i \in 1..Len(a) : a[i] = b[i]
    BY <1>1, <1>2, <1>4
  <2> QED BY <1>1, <1>2, <2>1, SeqEqual
<1> QED BY <1>3, <1>4 DEF a, b

(* One text comes before another at the first place they differ.           *)
LEMMA BeforeIs ==
  ASSUME NEW s \in Texts, NEW t \in Texts
  PROVE  Before(s, t) <=> \E n \in Nat : BeforeAt(s, t, n)
<1>1. s \in Seq(Nat) /\ t \in Seq(Nat) /\ Len(s) \in Nat /\ Len(t) \in Nat
  BY TextIs
<1>2. ASSUME NEW n \in 0..Len(t), n <= Len(s)
      PROVE  SubSeq(s, 1, n) = SubSeq(t, 1, n) <=> \A i \in 1..n : s[i] = t[i]
  BY <1>1, <1>2, PrefixesAgree
<1>3. ASSUME Before(s, t) PROVE \E n \in Nat : BeforeAt(s, t, n)
  <2>1. PICK n \in 0..Len(t) :
          /\ n <= Len(s) /\ SubSeq(s, 1, n) = SubSeq(t, 1, n) /\ n < Len(t)
          /\ n = Len(s) \/ s[n + 1] < t[n + 1]
    BY <1>3 DEF Before
  <2>2. n \in Nat /\ BeforeAt(s, t, n)
    BY <1>2, <2>1 DEF BeforeAt
  <2> QED BY <2>2
<1>4. ASSUME NEW n \in Nat, BeforeAt(s, t, n) PROVE Before(s, t)
  <2>1. n \in 0..Len(t) /\ n <= Len(s) /\ n < Len(t)
    BY <1>1, <1>4 DEF BeforeAt
  <2>2. SubSeq(s, 1, n) = SubSeq(t, 1, n)
    BY <1>2, <1>4, <2>1 DEF BeforeAt
  <2> QED BY <1>4, <2>1, <2>2 DEF Before, BeforeAt
<1> QED BY <1>3, <1>4

(* No text comes before itself.                                            *)
LEMMA BeforeIrreflexive ==
  ASSUME NEW s \in Texts
  PROVE  ~ Before(s, s)
<1> SUFFICES ASSUME NEW n \in Nat, BeforeAt(s, s, n) PROVE FALSE
  BY BeforeIs
<1>1. n < Len(s) /\ (n = Len(s) \/ s[n + 1] < s[n + 1])
  BY DEF BeforeAt
<1>2. s[n + 1] \in Nat
  BY <1>1, TextIs
<1> QED BY <1>1, <1>2, TextIs

(* The order of texts is transitive.                                       *)
LEMMA BeforeTransitive ==
  ASSUME NEW s \in Texts, NEW t \in Texts, NEW u \in Texts, Before(s, t), Before(t, u)
  PROVE  Before(s, u)
<1>1. PICK m \in Nat : BeforeAt(s, t, m)
  BY BeforeIs
<1>2. PICK n \in Nat : BeforeAt(t, u, n)
  BY BeforeIs
<1>3. /\ m <= Len(s) /\ m < Len(t) /\ \A i \in 1..m : s[i] = t[i]
      /\ m = Len(s) \/ s[m + 1] < t[m + 1]
  BY <1>1 DEF BeforeAt
<1>4. /\ n <= Len(t) /\ n < Len(u) /\ \A i \in 1..n : t[i] = u[i]
      /\ n = Len(t) \/ t[n + 1] < u[n + 1]
  BY <1>2 DEF BeforeAt
<1>5. /\ Len(s) \in Nat /\ Len(t) \in Nat /\ Len(u) \in Nat
      /\ \A i \in 1..Len(s) : s[i] \in Nat
      /\ \A i \in 1..Len(t) : t[i] \in Nat
      /\ \A i \in 1..Len(u) : u[i] \in Nat
  BY TextIs
<1>6. CASE m < n
  <2>1. m + 1 \in 1..n /\ \A i \in 1..m : i \in 1..n
    BY <1>6
  <2>2. t[m + 1] = u[m + 1] /\ \A i \in 1..m : s[i] = u[i]
    BY <1>3, <1>4, <2>1
  <2>3. BeforeAt(s, u, m)
    BY <1>3, <1>4, <1>5, <1>6, <2>2 DEF BeforeAt
  <2> QED BY <2>3, BeforeIs
<1>7. CASE n < m
  <2>1. n + 1 \in 1..m /\ \A i \in 1..n : i \in 1..m
    BY <1>7
  <2>2. s[n + 1] = t[n + 1] /\ \A i \in 1..n : s[i] = u[i]
    BY <1>3, <1>4, <2>1
  <2>3. BeforeAt(s, u, n)
    BY <1>3, <1>4, <1>5, <1>7, <2>2 DEF BeforeAt
  <2> QED BY <2>3, BeforeIs
<1>8. CASE n = m
  <2>1. \A i \in 1..m : s[i] = u[i]
    BY <1>3, <1>4, <1>8
  <2>2. t[m + 1] < u[m + 1] /\ m + 1 \in 1..Len(t) /\ m + 1 \in 1..Len(u)
    BY <1>3, <1>4, <1>5, <1>8
  <2>3. m = Len(s) \/ (m + 1 \in 1..Len(s) /\ s[m + 1] < t[m + 1])
    BY <1>3, <1>5
  <2>4. m = Len(s) \/ s[m + 1] < u[m + 1]
    BY <1>5, <2>2, <2>3
  <2>5. BeforeAt(s, u, m)
    BY <1>3, <1>4, <1>8, <2>1, <2>4 DEF BeforeAt
  <2> QED BY <2>5, BeforeIs
<1> QED BY <1>6, <1>7, <1>8

(* And total.                                                              *)
LEMMA BeforeTotal ==
  ASSUME NEW s \in Texts, NEW t \in Texts, s # t
  PROVE  Before(s, t) \/ Before(t, s)
<1> DEFINE T == { i \in Nat \ {0} : i > Len(s) \/ i > Len(t) \/ s[i] # t[i] }
<1>1. /\ Len(s) \in Nat /\ Len(t) \in Nat /\ s \in Seq(Nat) /\ t \in Seq(Nat)
      /\ \A i \in 1..Len(s) : s[i] \in Nat
      /\ \A i \in 1..Len(t) : t[i] \in Nat
  BY TextIs
<1>2. T \subseteq Nat /\ Len(s) + 1 \in T
  BY <1>1
<1>3. PICK k \in T : \A i \in T : k <= i
  <2> HIDE DEF T
  <2> QED BY <1>2, Least
<1>4. k \in Nat \ {0} /\ (k > Len(s) \/ k > Len(t) \/ s[k] # t[k])
  OBVIOUS
<1>5. ASSUME NEW i \in 1..(k - 1) PROVE i <= Len(s) /\ i <= Len(t) /\ s[i] = t[i]
  <2>1. i \in Nat \ {0} /\ ~ (k <= i)
    BY <1>4
  <2>2. i \notin T
    BY <1>3, <2>1
  <2> QED BY <1>1, <2>1, <2>2
<1> DEFINE n == k - 1
<1>6. n \in Nat /\ n + 1 = k /\ n <= Len(s) /\ n <= Len(t) /\ \A i \in 1..n : s[i] = t[i]
  <2>1. k = 1 \/ k - 1 \in 1..(k - 1)
    BY <1>4
  <2> QED BY <1>1, <1>4, <1>5, <2>1
<1> HIDE DEF n, T
<1>7. CASE n = Len(s) /\ n = Len(t)
  <2>1. \A i \in 1..Len(s) : s[i] = t[i]
    BY <1>6, <1>7
  <2> QED BY <1>1, <1>7, <2>1, SeqEqual
<1>8. CASE n = Len(s) /\ n < Len(t)
  <2>1. BeforeAt(s, t, n)
    BY <1>6, <1>8 DEF BeforeAt
  <2> QED BY <1>6, <2>1, BeforeIs
<1>9. CASE n < Len(s) /\ n = Len(t)
  <2>1. BeforeAt(t, s, n)
    BY <1>6, <1>9 DEF BeforeAt
  <2> QED BY <1>6, <2>1, BeforeIs
<1>10. CASE n < Len(s) /\ n < Len(t)
  <2>1. n + 1 \in 1..Len(s) /\ n + 1 \in 1..Len(t) /\ s[n + 1] # t[n + 1]
    BY <1>1, <1>4, <1>6, <1>10
  <2>2. s[n + 1] < t[n + 1] \/ t[n + 1] < s[n + 1]
    BY <1>1, <2>1
  <2>3. BeforeAt(s, t, n) \/ BeforeAt(t, s, n)
    BY <1>6, <1>10, <2>2 DEF BeforeAt
  <2> QED BY <1>6, <2>3, BeforeIs
<1> QED BY <1>1, <1>6, <1>7, <1>8, <1>9, <1>10

(* The keys of envelopes and indexes, in their strict total order.         *)
Keys == Texts \X Nat

(* Pairs of a text and a number are strictly ordered.                      *)
LEMMA KeyOrder ==
  ASSUME NEW k \in Keys, NEW l \in Keys
  PROVE  /\ ~ KeyBefore(k, k)
         /\ k # l => KeyBefore(k, l) \/ KeyBefore(l, k)
         /\ \A m \in Keys : KeyBefore(k, l) /\ KeyBefore(l, m) => KeyBefore(k, m)
<1>1. /\ k[1] \in Texts /\ k[2] \in Nat /\ l[1] \in Texts /\ l[2] \in Nat
      /\ k = l <=> k[1] = l[1] /\ k[2] = l[2]
  BY DEF Keys
<1>2. ~ KeyBefore(k, k)
  BY <1>1, BeforeIrreflexive DEF KeyBefore
<1>3. ASSUME k # l PROVE KeyBefore(k, l) \/ KeyBefore(l, k)
  <2>1. CASE k[1] # l[1]
    BY <1>1, <2>1, BeforeTotal DEF KeyBefore
  <2>2. CASE k[1] = l[1]
    <3>1. k[2] < l[2] \/ l[2] < k[2]
      BY <1>1, <1>3, <2>2
    <3> QED BY <2>2, <3>1 DEF KeyBefore
  <2> QED BY <2>1, <2>2
<1>4. ASSUME NEW m \in Keys, KeyBefore(k, l), KeyBefore(l, m) PROVE KeyBefore(k, m)
  <2>1. m[1] \in Texts /\ m[2] \in Nat
    BY DEF Keys
  <2>2. Before(k[1], l[1]) /\ Before(l[1], m[1]) => Before(k[1], m[1])
    BY <1>1, <2>1, BeforeTransitive
  <2>3. k[2] < l[2] /\ l[2] < m[2] => k[2] < m[2]
    BY <1>1, <2>1
  <2> QED BY <1>4, <2>2, <2>3, Zenon DEF KeyBefore
<1> QED BY <1>2, <1>3, <1>4

(* When neighbours are in order, everything is.                            *)
LEMMA NeighboursSuffice ==
  ASSUME NEW n \in Nat, NEW keys, \A i \in 1..n : keys[i] \in Keys,
         \A i \in 2..n : KeyBefore(keys[i - 1], keys[i])
  PROVE  \A i, j \in 1..n : i # j => keys[i] # keys[j]
<1> DEFINE Far(d) == \A i \in 1..n : i + d + 1 <= n => KeyBefore(keys[i], keys[i + d + 1])
           S == { d \in Nat : Far(d) }
<1>1. 0 \in S
  <2>1. ASSUME NEW i \in 1..n, i + 0 + 1 <= n PROVE KeyBefore(keys[i], keys[i + 0 + 1])
    <3>1. i + 1 \in 2..n /\ (i + 1) - 1 = i /\ i + 0 + 1 = i + 1
      BY <2>1
    <3>2. KeyBefore(keys[(i + 1) - 1], keys[i + 1])
      BY <3>1
    <3> QED BY <3>1, <3>2
  <2> QED BY <2>1
<1>2. ASSUME NEW d \in Nat, d \in S PROVE d + 1 \in S
  <2>1. ASSUME NEW i \in 1..n, i + (d + 1) + 1 <= n PROVE KeyBefore(keys[i], keys[i + (d + 1) + 1])
    <3> DEFINE l == i + d + 1
    <3>1. l + 1 = i + (d + 1) + 1 /\ l \in 1..n /\ l <= n /\ l + 1 \in 2..n /\ (l + 1) - 1 = l
          /\ l + 1 \in 1..n
      BY <2>1
    <3>2. KeyBefore(keys[i], keys[l])
      BY <1>2, <3>1
    <3> HIDE DEF l
    <3>3. KeyBefore(keys[(l + 1) - 1], keys[l + 1])
      BY <3>1, Zenon
    <3>4. KeyBefore(keys[l], keys[l + 1])
      BY <3>1, <3>3
    <3>5. KeyBefore(keys[i], keys[l + 1])
      BY <3>1, <3>2, <3>4, KeyOrder
    <3> QED BY <3>1, <3>5
  <2> QED BY <2>1
<1>3. \A d \in Nat : d \in S
  <2> HIDE DEF S
  <2> QED BY <1>1, <1>2, Induction
<1>4. ASSUME NEW i \in 1..n, NEW j \in 1..n, i < j PROVE keys[i] # keys[j]
  <2>1. j - i - 1 \in Nat /\ i + (j - i - 1) + 1 = j
    BY <1>4
  <2>2. Far(j - i - 1)
    BY <1>3, <2>1
  <2>3. KeyBefore(keys[i], keys[j])
    BY <2>1, <2>2
  <2> QED BY <2>3, KeyOrder
<1>5. ASSUME NEW i \in 1..n, NEW j \in 1..n, i # j PROVE keys[i] # keys[j]
  <2>1. i < j \/ j < i
    BY <1>5
  <2> QED BY <1>4, <2>1
<1> QED BY <1>5

(* A stable sort puts everything in its own place.                         *)
Predecessors(keys, n, j) == { i \in 1..n : Precedes(keys, i, j) }

(* With equal keys in the order they had, so are places.                   *)
LEMMA PrecedesOrders ==
  ASSUME NEW n \in Nat, NEW keys, \A i \in 1..n : keys[i] \in Keys,
         NEW i \in 1..n, NEW j \in 1..n
  PROVE  /\ ~ Precedes(keys, i, i)
         /\ i # j => Precedes(keys, i, j) \/ Precedes(keys, j, i)
         /\ \A k \in 1..n : Precedes(keys, k, i) /\ Precedes(keys, i, j) => Precedes(keys, k, j)
<1>1. keys[i] \in Keys /\ keys[j] \in Keys
  OBVIOUS
<1>2. ~ Precedes(keys, i, i)
  BY <1>1, KeyOrder DEF Precedes
<1>3. ASSUME i # j PROVE Precedes(keys, i, j) \/ Precedes(keys, j, i)
  <2>1. i < j \/ j < i
    BY <1>3
  <2> QED BY <1>1, <2>1, KeyOrder DEF Precedes
<1>4. ASSUME NEW k \in 1..n, Precedes(keys, k, i), Precedes(keys, i, j) PROVE Precedes(keys, k, j)
  <2>1. keys[k] \in Keys
    OBVIOUS
  <2>2. KeyBefore(keys[k], keys[i]) /\ KeyBefore(keys[i], keys[j]) => KeyBefore(keys[k], keys[j])
    BY <1>1, <2>1, KeyOrder
  <2>3. k < i /\ i < j => k < j
    OBVIOUS
  <2> QED BY <1>4, <2>2, <2>3, Zenon DEF Precedes
<1> QED BY <1>2, <1>3, <1>4

(* Each element's place in the sorted sequence is one of the places, in    *)
(* order.                                                                  *)
LEMMA PlacesOrder ==
  ASSUME NEW n \in Nat, NEW keys, DOMAIN keys = 1..n, \A i \in 1..n : keys[i] \in Keys
  PROVE  /\ \A j \in 1..n : Place(keys, j) \in 1..n
         /\ \A i, j \in 1..n : Precedes(keys, i, j) <=> Place(keys, i) < Place(keys, j)
<1> DEFINE P(j) == Predecessors(keys, n, j)
           D == 1..n
<1>1. IsFiniteSet(D) /\ Cardinality(D) = n
  BY FS_Interval
<1>2. \A j \in D : Place(keys, j) = Cardinality(P(j)) + 1
  BY DEF Place, Predecessors
<1>3. \A i, j \in D : i \in P(j) <=> Precedes(keys, i, j)
  BY DEF Predecessors
<1>4. \A j \in D : P(j) \in SUBSET D
  BY DEF Predecessors
<1> HIDE DEF P, D
<1>5. ASSUME NEW j \in D
      PROVE  IsFiniteSet(P(j)) /\ Cardinality(P(j)) \in Nat /\ Cardinality(P(j)) < n
  <2>1. IsFiniteSet(P(j)) /\ Cardinality(P(j)) <= n /\ (Cardinality(P(j)) = n => P(j) = D)
    BY <1>1, <1>4, FS_Subset
  <2>2. j \notin P(j)
    <3>1. ~ Precedes(keys, j, j)
      BY PrecedesOrders DEF D
    <3> QED BY <1>3, <3>1
  <2>3. Cardinality(P(j)) \in Nat
    BY <2>1, FS_CardinalityType
  <2> QED BY <2>1, <2>2, <2>3
<1>6. ASSUME NEW i \in D, NEW j \in D, Precedes(keys, i, j)
      PROVE  Cardinality(P(i)) < Cardinality(P(j))
  <2>1. \A k \in D : Precedes(keys, k, i) => Precedes(keys, k, j)
    BY <1>6, PrecedesOrders DEF D
  <2>2. P(i) \in SUBSET P(j)
    BY <1>3, <1>4, <2>1
  <2>3. i \in P(j) /\ i \notin P(i)
    <3>1. ~ Precedes(keys, i, i)
      BY PrecedesOrders DEF D
    <3> QED BY <1>3, <1>6, <3>1
  <2>4. Cardinality(P(i)) <= Cardinality(P(j)) /\ Cardinality(P(i)) # Cardinality(P(j))
    <3>1. IsFiniteSet(P(j))
      BY <1>5
    <3> QED BY <2>2, <2>3, <3>1, FS_Subset
  <2> QED BY <1>5, <2>4
<1>7. \A j \in D : Place(keys, j) \in 1..n
  BY <1>2, <1>5
<1>8. ASSUME NEW i \in D, NEW j \in D
      PROVE  Precedes(keys, i, j) <=> Place(keys, i) < Place(keys, j)
  <2>1. Precedes(keys, i, j) => Place(keys, i) < Place(keys, j)
    BY <1>2, <1>5, <1>6
  <2>2. Precedes(keys, j, i) => Place(keys, j) < Place(keys, i)
    BY <1>2, <1>5, <1>6
  <2>3. i # j => Precedes(keys, i, j) \/ Precedes(keys, j, i)
    BY PrecedesOrders DEF D
  <2>4. Place(keys, i) \in Nat /\ Place(keys, j) \in Nat
    BY <1>7
  <2> QED BY <2>1, <2>2, <2>3, <2>4
<1> QED BY <1>7, <1>8 DEF D

(* Every place is taken.                                                   *)
LEMMA PlacesFilled ==
  ASSUME NEW n \in Nat, NEW keys, DOMAIN keys = 1..n, \A i \in 1..n : keys[i] \in Keys
  PROVE  \A m \in 1..n : \E i \in 1..n : Place(keys, i) = m
<1> DEFINE f == [i \in 1..n |-> Place(keys, i)]
           D == 1..n
<1>1. f \in [D -> D] /\ \A i \in D : f[i] = Place(keys, i)
  BY PlacesOrder
<1>2. ASSUME NEW i \in D, NEW j \in D, f[i] = f[j] PROVE i = j
  <2>1. Place(keys, i) \in Nat /\ Place(keys, i) = Place(keys, j)
    BY <1>2, PlacesOrder
  <2>2. ~ Precedes(keys, i, j) /\ ~ Precedes(keys, j, i)
    BY <2>1, PlacesOrder
  <2> QED BY <2>2, PrecedesOrders
<1>3. IsFiniteSet(D)
  BY FS_Interval
<1> HIDE DEF f, D
<1>4. f \in Injection(D, D)
  BY <1>1, <1>2 DEF Injection, IsInjective
<1>5. f \in Surjection(D, D)
  BY <1>3, <1>4, FS_Injection
<1>6. \A m \in D : \E i \in D : f[i] = m
  BY <1>5 DEF Surjection
<1> QED BY <1>1, <1>6 DEF D

(* What sorting returns: a permutation whose keys are in order.            *)
Sorts(s, t, n, pick) ==
  /\ \A m \in 1..n : pick[m] \in 1..n /\ t[m] = s[pick[m]]
  /\ \A i \in 1..n : \E m \in 1..n : pick[m] = i

(* Sorting permutes a sequence and puts its keys in order.                 *)
LEMMA SortedByIs ==
  ASSUME NEW T, NEW s \in Seq(T), NEW keys, DOMAIN keys = 1..Len(s),
         \A i \in 1..Len(s) : keys[i] \in Keys
  PROVE  LET t == SortedBy(s, keys)
             n == Len(s)
         IN  /\ t \in Seq(T) /\ Len(t) = n
             /\ \E pick : /\ Sorts(s, t, n, pick)
                          /\ (\A i, j \in 1..n : i # j => keys[i] # keys[j])
                               => \A m \in 2..n : KeyBefore(keys[pick[m - 1]], keys[pick[m]])
<1> DEFINE t == SortedBy(s, keys)
           n == Len(s)
           at(m) == CHOOSE i \in DOMAIN s : Place(keys, i) = m
           pick == [m \in 1..n |-> at(m)]
<1>1. n \in Nat /\ DOMAIN s = 1..n /\ \A i \in 1..n : s[i] \in T
  OBVIOUS
<1>2. t = [m \in 1..n |-> s[at(m)]]
  <2>1. t = [m \in DOMAIN s |-> s[at(m)]]
    BY Zenon DEF SortedBy
  <2>2. DOMAIN s = 1..n
    BY <1>1
  <2> HIDE DEF t, at, n
  <2> QED BY <2>1, <2>2, Zenon
<1>3. ASSUME NEW m \in 1..n PROVE at(m) \in 1..n /\ Place(keys, at(m)) = m
  <2>1. \E i \in DOMAIN s : Place(keys, i) = m
    <3>1. n \in Nat /\ DOMAIN keys = 1..n /\ \A i \in 1..n : keys[i] \in Keys
      BY <1>1
    <3> HIDE DEF n
    <3>2. \A k \in 1..n : \E i \in 1..n : Place(keys, i) = k
      BY <3>1, PlacesFilled, ZenonT(60)
    <3> QED BY <1>1, <3>2
  <2> QED BY <1>1, <2>1
<1> HIDE DEF at
<1>4. \A m \in 1..n : pick[m] \in 1..n /\ Place(keys, pick[m]) = m /\ t[m] = s[pick[m]]
  BY <1>2, <1>3
<1>5. t \in Seq(T) /\ Len(t) = n
  BY <1>1, <1>2, <1>3
<1> HIDE DEF pick, t, n
<1>6. \A i, j \in 1..n : Precedes(keys, i, j) <=> Place(keys, i) < Place(keys, j)
  BY <1>1, PlacesOrder DEF n
<1>7. \A j \in 1..n : Place(keys, j) \in 1..n
  BY <1>1, PlacesOrder DEF n
<1>8. ASSUME NEW i \in 1..n PROVE \E m \in 1..n : pick[m] = i
  <2> DEFINE m == Place(keys, i)
             j == pick[m]
  <2>1. m \in 1..n /\ j \in 1..n /\ Place(keys, j) = m
    BY <1>4, <1>7
  <2>2. ~ Precedes(keys, i, j) /\ ~ Precedes(keys, j, i)
    BY <1>1, <1>6, <2>1
  <2>3. \A k \in 1..n : keys[k] \in Keys
    BY DEF n
  <2> HIDE DEF j, m
  <2>4. i = j
    BY <1>1, <2>1, <2>2, <2>3, PrecedesOrders
  <2> QED BY <2>1, <2>4 DEF j
<1>9. ASSUME \A i, j \in 1..n : i # j => keys[i] # keys[j], NEW m \in 2..n
      PROVE  KeyBefore(keys[pick[m - 1]], keys[pick[m]])
  <2>1. m - 1 \in 1..n /\ m \in 1..n /\ m - 1 < m
    BY <1>1
  <2>2. /\ pick[m - 1] \in 1..n /\ Place(keys, pick[m - 1]) = m - 1
        /\ pick[m] \in 1..n /\ Place(keys, pick[m]) = m
    BY <1>4, <2>1
  <2>3. Precedes(keys, pick[m - 1], pick[m]) /\ pick[m - 1] # pick[m]
    BY <1>6, <2>1, <2>2
  <2> QED BY <1>9, <2>2, <2>3 DEF Precedes
<1>10. Sorts(s, t, n, pick)
  BY <1>4, <1>8 DEF Sorts
<1> QED BY <1>5, <1>9, <1>10 DEF t, n

(* Recipients sorted by (recipient_id, key_epoch).                         *)
LEMMA RecipientsSorted ==
  ASSUME NEW T, NEW s \in Seq(T), \A i \in 1..Len(s) : EnvelopeKey(s[i]) \in Keys
  PROVE  LET t == SortedRecipients(s)
             n == Len(s)
         IN  /\ t \in Seq(T) /\ Len(t) = n
             /\ \A m \in 1..n : \E i \in 1..n : t[m] = s[i]
             /\ ~ RepeatsRecipient(s) =>
                  \A m \in 2..n : KeyBefore(EnvelopeKey(t[m - 1]), EnvelopeKey(t[m]))
<1> DEFINE n == Len(s)
           keys == [i \in DOMAIN s |-> EnvelopeKey(s[i])]
           t == SortedBy(s, keys)
<1>1. n \in Nat /\ DOMAIN s = 1..n /\ DOMAIN keys = 1..Len(s) /\ \A i \in 1..n : keys[i] = EnvelopeKey(s[i])
  OBVIOUS
<1>2. SortedRecipients(s) = t
  BY Zenon DEF SortedRecipients
<1>3. \A i \in 1..Len(s) : keys[i] \in Keys
  BY <1>1
<1> HIDE DEF keys
<1>4. /\ t \in Seq(T) /\ Len(t) = n
      /\ \E pick : /\ Sorts(s, t, n, pick)
                   /\ (\A i, j \in 1..n : i # j => keys[i] # keys[j])
                        => \A m \in 2..n : KeyBefore(keys[pick[m - 1]], keys[pick[m]])
  BY <1>1, <1>3, SortedByIs
<1>5. PICK pick : /\ Sorts(s, t, n, pick)
                  /\ (\A i, j \in 1..n : i # j => keys[i] # keys[j])
                        => \A m \in 2..n : KeyBefore(keys[pick[m - 1]], keys[pick[m]])
  BY <1>4, Zenon
<1> HIDE DEF n, t
<1>6. \A m \in 1..n : pick[m] \in 1..n /\ t[m] = s[pick[m]]
  BY <1>5, Zenon DEF Sorts
<1>7. ASSUME ~ RepeatsRecipient(s), NEW m \in 2..n
      PROVE  KeyBefore(EnvelopeKey(t[m - 1]), EnvelopeKey(t[m]))
  <2>1. \A i, j \in 1..n : i # j => keys[i] # keys[j]
    BY <1>1, <1>7 DEF RepeatsRecipient
  <2>2. KeyBefore(keys[pick[m - 1]], keys[pick[m]])
    BY <1>5, <2>1
  <2>3. m - 1 \in 1..n /\ m \in 1..n
    BY <1>1
  <2>4. keys[pick[m - 1]] = EnvelopeKey(t[m - 1]) /\ keys[pick[m]] = EnvelopeKey(t[m])
    BY <1>1, <1>6, <2>3
  <2> QED BY <2>2, <2>4, Zenon
<1> QED BY <1>2, <1>4, <1>6, <1>7, Zenon DEF n

(* Indexes sorted by (label, key_epoch).                                   *)
LEMMA IndexesSorted ==
  ASSUME NEW T, NEW s \in Seq(T), \A i \in 1..Len(s) : IndexLabel(s[i]) \in Keys
  PROVE  LET t == SortedIndexes(s)
             n == Len(s)
         IN  /\ t \in Seq(T) /\ Len(t) = n
             /\ \A m \in 1..n : \E i \in 1..n : t[m] = s[i]
             /\ ~ RepeatsIndex(s) =>
                  \A m \in 2..n : KeyBefore(IndexLabel(t[m - 1]), IndexLabel(t[m]))
<1> DEFINE n == Len(s)
           keys == [i \in DOMAIN s |-> IndexLabel(s[i])]
           t == SortedBy(s, keys)
<1>1. n \in Nat /\ DOMAIN s = 1..n /\ DOMAIN keys = 1..Len(s) /\ \A i \in 1..n : keys[i] = IndexLabel(s[i])
  OBVIOUS
<1>2. SortedIndexes(s) = t
  BY Zenon DEF SortedIndexes
<1>3. \A i \in 1..Len(s) : keys[i] \in Keys
  BY <1>1
<1> HIDE DEF keys
<1>4. /\ t \in Seq(T) /\ Len(t) = n
      /\ \E pick : /\ Sorts(s, t, n, pick)
                   /\ (\A i, j \in 1..n : i # j => keys[i] # keys[j])
                        => \A m \in 2..n : KeyBefore(keys[pick[m - 1]], keys[pick[m]])
  BY <1>1, <1>3, SortedByIs
<1>5. PICK pick : /\ Sorts(s, t, n, pick)
                  /\ (\A i, j \in 1..n : i # j => keys[i] # keys[j])
                        => \A m \in 2..n : KeyBefore(keys[pick[m - 1]], keys[pick[m]])
  BY <1>4, Zenon
<1> HIDE DEF n, t
<1>6. \A m \in 1..n : pick[m] \in 1..n /\ t[m] = s[pick[m]]
  BY <1>5, Zenon DEF Sorts
<1>7. ASSUME ~ RepeatsIndex(s), NEW m \in 2..n
      PROVE  KeyBefore(IndexLabel(t[m - 1]), IndexLabel(t[m]))
  <2>1. \A i, j \in 1..n : i # j => keys[i] # keys[j]
    BY <1>1, <1>7 DEF RepeatsIndex
  <2>2. KeyBefore(keys[pick[m - 1]], keys[pick[m]])
    BY <1>5, <2>1
  <2>3. m - 1 \in 1..n /\ m \in 1..n
    BY <1>1
  <2>4. keys[pick[m - 1]] = IndexLabel(t[m - 1]) /\ keys[pick[m]] = IndexLabel(t[m])
    BY <1>1, <1>6, <2>3
  <2> QED BY <2>2, <2>4, Zenon
<1> QED BY <1>2, <1>4, <1>6, <1>7, Zenon DEF n

(* An accepted record names nobody and nothing twice.                      *)
LEMMA KeysOf ==
  /\ \A e \in Envelopes : EnvelopeKey(e) \in Keys
  /\ \A q \in Recipients : EnvelopeKey(q) \in Keys
  /\ \A x \in Indexes : IndexLabel(x) \in Keys
BY DEF EnvelopeKey, IndexLabel, Keys, Envelopes, Recipients, Indexes

(* validate_limits compares neighbours, and no two envelopes or indexes    *)
(* have the same key.                                                      *)
LEMMA NothingRepeats ==
  ASSUME NEW r \in Records, NEW p \in ValidationPolicies, Limits(r, p) = "ok"
  PROVE  ~ RepeatsRecipient(r.recipients) /\ ~ RepeatsIndex(r.indexes)
<1>1. LimitsOnly(r, p, {})
  BY LimitsOk
<1>2. r.recipients \in Seq(Envelopes) /\ r.indexes \in Seq(Indexes)
  BY RecordTypes
<1>3. ~ RepeatsRecipient(r.recipients)
  <2> DEFINE s == r.recipients
             n == Len(s)
             keys == [i \in 1..n |-> EnvelopeKey(s[i])]
  <2>1. n \in Nat /\ DOMAIN s = 1..n /\ \A i \in 1..n : s[i] \in Envelopes
    BY <1>2
  <2>2. \A i \in 1..n : keys[i] = EnvelopeKey(s[i]) /\ keys[i] \in Keys
    BY <2>1, KeysOf
  <2>3. ASSUME NEW i \in 2..n PROVE KeyBefore(keys[i - 1], keys[i])
    <3>1. i \in 1..n /\ i - 1 \in 1..n /\ i > 1
      BY <2>1
    <3>2. KeyBefore(EnvelopeKey(s[i - 1]), EnvelopeKey(s[i]))
      BY <1>1, <3>1 DEF LimitsOnly, EnvelopeOnly
    <3> QED BY <2>2, <3>1, <3>2
  <2> HIDE DEF keys, n
  <2>4. \A i, j \in 1..n : i # j => keys[i] # keys[j]
    BY <2>1, <2>2, <2>3, NeighboursSuffice
  <2> QED BY <2>1, <2>2, <2>4 DEF RepeatsRecipient
<1>4. ~ RepeatsIndex(r.indexes)
  <2> DEFINE s == r.indexes
             n == Len(s)
             keys == [i \in 1..n |-> IndexLabel(s[i])]
  <2>1. n \in Nat /\ DOMAIN s = 1..n /\ \A i \in 1..n : s[i] \in Indexes
    BY <1>2
  <2>2. \A i \in 1..n : keys[i] = IndexLabel(s[i]) /\ keys[i] \in Keys
    BY <2>1, KeysOf
  <2>3. ASSUME NEW i \in 2..n PROVE KeyBefore(keys[i - 1], keys[i])
    <3>1. i \in 1..n /\ i - 1 \in 1..n /\ i > 1
      BY <2>1
    <3>2. KeyBefore(IndexLabel(s[i - 1]), IndexLabel(s[i]))
      BY <1>1, <3>1 DEF LimitsOnly, IndexOnly
    <3> QED BY <2>2, <3>1, <3>2
  <2> HIDE DEF keys, n
  <2>4. \A i, j \in 1..n : i # j => keys[i] # keys[j]
    BY <2>1, <2>2, <2>3, NeighboursSuffice
  <2> QED BY <2>1, <2>2, <2>4 DEF RepeatsIndex
<1> QED BY <1>3, <1>4
-----------------------------------------------------------------------------
(* What seal and grant_recipient build.                                    *)

(* What preflight lets through.                                            *)
GoodInputs(c, plaintext, recipients, indexes) ==
  LET p == DefaultPolicy
  IN  /\ ContextOnly(c, p, {})
      /\ Len(plaintext) + TagLen <= p.max_ciphertext_bytes
      /\ Len(recipients) \in 1..p.max_recipients /\ Len(indexes) <= p.max_indexes
      /\ \A i \in 1..Len(recipients) :
           GoodLabel(recipients[i].recipient_id, p) /\ recipients[i].key_epoch # 0
      /\ \A i \in 1..Len(indexes) :
           /\ GoodLabel(indexes[i].label, p) /\ GoodLabel(indexes[i].canonicalizer_id, p)
           /\ 0 \notin {indexes[i].schema_version, indexes[i].canonicalizer_version,
                        indexes[i].key_epoch}

(* When check_id fails.                                                    *)
LEMMA LabelCheckBad ==
  ASSUME NEW s \in Texts, NEW p \in ValidationPolicies
  PROVE  LabelCheck(s, p).bad <=> ~ GoodLabel(s, p)
<1>1. Len(s) \in Nat /\ p.max_identifier_bytes \in Nat
  BY DEF Texts, ValidationPolicies
<1> DEFINE bad == s = <<>> \/ Len(s) > p.max_identifier_bytes
           e == "IdentifierLength"
<1>2. bad \in BOOLEAN /\ (bad <=> ~ GoodLabel(s, p))
  BY <1>1 DEF GoodLabel
<1>3. LabelCheck(s, p) = Check(bad, e) /\ e \in CheckErrors
  BY DEF LabelCheck, CheckErrors, LimitErrors
<1> HIDE DEF bad, e
<1> QED BY <1>2, <1>3, CheckIs

(* preflight answers with one of its errors, or the inputs are good.       *)
LEMMA PreflightIs ==
  ASSUME NEW c \in Contexts, NEW plaintext \in Bytes, NEW recipients \in Seq(Recipients),
         NEW indexes \in Seq(Indexes)
  PROVE  LET v == Preflight(c, plaintext, recipients, indexes)
         IN  /\ v \in InputErrors \cup {"ok"}
             /\ v = "ok" => GoodInputs(c, plaintext, recipients, indexes)
<1> DEFINE p == DefaultPolicy
           b1 == FirstError(ContextChecks(c, p)) # "ok"
           b2 == Len(plaintext) + TagLen > p.max_ciphertext_bytes
           b3 == recipients = <<>>
           b4 == Len(recipients) > p.max_recipients \/ Len(indexes) > p.max_indexes
           b5 == \E i \in DOMAIN recipients :
                   LabelCheck(recipients[i].recipient_id, p).bad \/ recipients[i].key_epoch = 0
           b6 == \E i \in DOMAIN indexes :
                   \/ LabelCheck(indexes[i].label, p).bad
                   \/ LabelCheck(indexes[i].canonicalizer_id, p).bad
                   \/ 0 \in {indexes[i].schema_version, indexes[i].canonicalizer_version,
                             indexes[i].key_epoch}
           e1 == "InvalidRecordInput"
           e2 == "PayloadTooLarge"
           e3 == "NoRecipients"
           e5 == "InvalidKeyIdentity"
           e6 == "InvalidIndexScope"
           s == <<Check(b1, e1), Check(b2, e2), Check(b3, e3), Check(b4, e1), Check(b5, e5), Check(b6, e6)>>
           v == Preflight(c, plaintext, recipients, indexes)
<1>0. /\ p \in ValidationPolicies /\ p.max_ciphertext_bytes \in Nat /\ p.max_recipients \in Nat
      /\ p.max_indexes \in Nat /\ TagLen \in Nat
  BY RulesAssumption DEF ValidationPolicies
<1>1. v = FirstError(s)
  BY Zenon DEF Preflight
<1>2. ~ b1 => ContextOnly(c, p, {})
  <2> DEFINE k == ContextChecks(c, p)
  <2>1. k \in Seq(Checks) /\ (Only(k, {}) <=> ContextOnly(c, p, {}))
    BY <1>0, ContextChecksAre
  <2> HIDE DEF k
  <2>2. FirstError(k) = "ok" => Only(k, {})
    BY <2>1, NoErrorIs
  <2> QED BY <2>1, <2>2 DEF k
<1>3. ~ b2 => Len(plaintext) + TagLen <= p.max_ciphertext_bytes
  BY <1>0 DEF Bytes
<1>4. ~ b3 /\ ~ b4 => Len(recipients) \in 1..p.max_recipients /\ Len(indexes) <= p.max_indexes
  BY <1>0
<1>5. ASSUME ~ b5, NEW i \in 1..Len(recipients)
      PROVE  GoodLabel(recipients[i].recipient_id, p) /\ recipients[i].key_epoch # 0
  <2>1. recipients[i].recipient_id \in Texts
    <3>1. recipients[i] \in Recipients
      BY ElementOfSeq
    <3> QED BY <3>1 DEF Recipients
  <2>2. ~ LabelCheck(recipients[i].recipient_id, p).bad /\ recipients[i].key_epoch # 0
    BY <1>5
  <2> QED BY <1>0, <2>1, <2>2, LabelCheckBad
<1>6. ASSUME ~ b6, NEW i \in 1..Len(indexes)
      PROVE  /\ GoodLabel(indexes[i].label, p) /\ GoodLabel(indexes[i].canonicalizer_id, p)
             /\ 0 \notin {indexes[i].schema_version, indexes[i].canonicalizer_version,
                          indexes[i].key_epoch}
  <2>1. indexes[i].label \in Texts /\ indexes[i].canonicalizer_id \in Texts
    <3>1. indexes[i] \in Indexes
      BY ElementOfSeq
    <3> QED BY <3>1 DEF Indexes
  <2>2. /\ ~ LabelCheck(indexes[i].label, p).bad /\ ~ LabelCheck(indexes[i].canonicalizer_id, p).bad
        /\ 0 \notin {indexes[i].schema_version, indexes[i].canonicalizer_version,
                     indexes[i].key_epoch}
    BY <1>6
  <2> QED BY <1>0, <2>1, <2>2, LabelCheckBad
<1>7. /\ e1 \in InputErrors /\ e2 \in InputErrors /\ e3 \in InputErrors /\ e5 \in InputErrors
      /\ e6 \in InputErrors
  BY DEF InputErrors
<1> HIDE DEF b1, b2, b3, b4, b5, b6, e1, e2, e3, e5, e6, v
<1>8. /\ DOMAIN s = 1..6
      /\ s[1].bad = b1 /\ s[1].error = e1
      /\ s[2].bad = b2 /\ s[2].error = e2
      /\ s[3].bad = b3 /\ s[3].error = e3
      /\ s[4].bad = b4 /\ s[4].error = e1
      /\ s[5].bad = b5 /\ s[5].error = e5
      /\ s[6].bad = b6 /\ s[6].error = e6
  BY DEF Check
<1>9. FirstFailing(s, 6)
  <2>1. 6 \in Nat
    OBVIOUS
  <2> HIDE DEF s
  <2> QED BY <1>8, <2>1, FirstErrorFails
<1> HIDE DEF s
<1>10. /\ 1 \in 1..6 /\ 2 \in 1..6 /\ 3 \in 1..6 /\ 4 \in 1..6 /\ 5 \in 1..6 /\ 6 \in 1..6
       /\ \A i \in 1..6 : i = 1 \/ i = 2 \/ i = 3 \/ i = 4 \/ i = 5 \/ i = 6
  OBVIOUS
<1>11. \/ v = "ok" /\ ~ b1 /\ ~ b2 /\ ~ b3 /\ ~ b4 /\ ~ b5 /\ ~ b6
       \/ v \in InputErrors
  BY <1>1, <1>7, <1>8, <1>9, <1>10, ZenonT(60) DEF FirstFailing
<1>12. v \in InputErrors => v # "ok"
  BY DEF InputErrors
<1>13. v = "ok" => GoodInputs(c, plaintext, recipients, indexes)
  BY <1>2, <1>3, <1>4, <1>5, <1>6, <1>11, <1>12, Zenon DEF GoodInputs
<1> QED BY <1>11, <1>13, Zenon DEF v

(* validate_own checks the limits, for the rest holds of its own record.   *)
LEMMA ValidateOwnIs ==
  ASSUME NEW r \in Records
  PROVE  ValidateOwn(r) = Limits(r, DefaultPolicy)
         /\ Validate(r, PolicyFor(r.signer), TRUE) = Limits(r, DefaultPolicy)
<1> DEFINE p == DefaultPolicy
           l == Limits(r, p)
           g == IF TRUE THEN "ok" ELSE "InvalidSignature"
           e == IF r.signer = r.signer THEN g ELSE FirstOf(<<g, "UntrustedSigner">>)
<1>1. ValidatePinned(r, r.signer, p, TRUE) = Validate(r, [p EXCEPT !.allowed_signers = {r.signer}], TRUE)
  <2>1. p \in ValidationPolicies /\ TRUE \in BOOLEAN
    BY RulesAssumption
  <2>2. \A x, pin : ValidatePinned(x, pin, p, TRUE)
                     = Validate(x, [p EXCEPT !.allowed_signers = {pin}], TRUE)
    <3> HIDE DEF p
    <3> QED BY <2>1, PinnedIsValidate, ZenonT(60)
  <2> QED BY <2>2, Zenon
<1>2. ValidatePinned(r, r.signer, p, TRUE) = FirstOf(<<l, e>>)
  BY Zenon DEF ValidatePinned
<1>3. e = "ok"
  OBVIOUS
<1> HIDE DEF l, e
<1>4. FirstOf(<<l, e>>) = IF l # "ok" THEN l ELSE e
  BY FirstOfTwo, Zenon
<1>5. ValidatePinned(r, r.signer, p, TRUE) = l
  BY <1>2, <1>3, <1>4
<1>6. Validate(r, PolicyFor(r.signer), TRUE) = l
  BY <1>1, <1>5, Zenon DEF PolicyFor
<1> QED BY <1>6, Zenon DEF ValidateOwn, l

(* The record that seal builds, and its limits.                            *)
LEMMA Zeros ==
  ASSUME NEW n \in Nat
  PROVE  [i \in 1..n |-> 0] \in Bytes /\ Len([i \in 1..n |-> 0]) = n
BY DEF Bytes

(* The envelope wrap_dek makes for a recipient.                            *)
LEMMA WrapIs ==
  ASSUME NEW q \in Recipients
  PROVE  /\ Wrap(q) \in Envelopes /\ EnvelopeKey(Wrap(q)) = EnvelopeKey(q)
         /\ Wrap(q).recipient_id = q.recipient_id /\ Wrap(q).key_epoch = q.key_epoch
         /\ Len(Wrap(q).encapsulated_key) = KeyLen /\ Len(Wrap(q).wrapped_dek) = WrappedLen
<1> DEFINE a == [i \in 1..KeyLen |-> 0]
           b == [i \in 1..WrappedLen |-> 0]
<1>1. a \in Bytes /\ Len(a) = KeyLen /\ b \in Bytes /\ Len(b) = WrappedLen
  BY RulesAssumption, Zeros
<1> HIDE DEF a, b
<1>2. Wrap(q) = [recipient_id |-> q.recipient_id, key_epoch |-> q.key_epoch,
                 recipient_key_id |-> q.recipient_key_id, encapsulated_key |-> a, wrapped_dek |-> b]
  BY Zenon DEF Wrap, a, b
<1> QED BY <1>1, <1>2 DEF Envelopes, Recipients, EnvelopeKey

(* The envelopes of the recipients sorted.                                 *)
LEMMA WrappedIs ==
  ASSUME NEW recipients \in Seq(Recipients)
  PROVE  LET t == SortedRecipients(recipients)
             es == [i \in DOMAIN t |-> Wrap(t[i])]
             n == Len(recipients)
         IN  /\ es \in Seq(Envelopes) /\ Len(es) = n
             /\ \A m \in 1..n : \E i \in 1..n :
                  /\ es[m].recipient_id = recipients[i].recipient_id
                  /\ es[m].key_epoch = recipients[i].key_epoch
             /\ \A m \in 1..n : Len(es[m].encapsulated_key) = KeyLen /\ Len(es[m].wrapped_dek) = WrappedLen
             /\ ~ RepeatsRecipient(recipients) =>
                  \A m \in 2..n : KeyBefore(EnvelopeKey(es[m - 1]), EnvelopeKey(es[m]))
<1> DEFINE t == SortedRecipients(recipients)
           es == [i \in DOMAIN t |-> Wrap(t[i])]
           n == Len(recipients)
<1>1. n \in Nat /\ \A i \in 1..n : recipients[i] \in Recipients
  BY ElementOfSeq
<1>2. /\ t \in Seq(Recipients) /\ Len(t) = n
      /\ \A m \in 1..n : \E i \in 1..n : t[m] = recipients[i]
      /\ ~ RepeatsRecipient(recipients) =>
           \A m \in 2..n : KeyBefore(EnvelopeKey(t[m - 1]), EnvelopeKey(t[m]))
  BY <1>1, KeysOf, RecipientsSorted
<1> HIDE DEF t, n
<1>3. DOMAIN t = 1..n /\ \A i \in 1..n : t[i] \in Recipients
  BY <1>1, <1>2, ElementOfSeq
<1>4. \A i \in 1..n : es[i] = Wrap(t[i])
  BY <1>3
<1>5. \A i \in 1..n : es[i] \in Envelopes /\ EnvelopeKey(es[i]) = EnvelopeKey(t[i])
                      /\ es[i].recipient_id = t[i].recipient_id /\ es[i].key_epoch = t[i].key_epoch
                      /\ Len(es[i].encapsulated_key) = KeyLen /\ Len(es[i].wrapped_dek) = WrappedLen
  BY <1>3, <1>4, WrapIs
<1>6. es = [i \in 1..n |-> es[i]]
  BY <1>3
<1> HIDE DEF es
<1>7. es \in Seq(Envelopes) /\ Len(es) = n
  BY <1>1, <1>5, <1>6
<1>8. \A m \in 1..n : \E i \in 1..n :
                  /\ es[m].recipient_id = recipients[i].recipient_id
                  /\ es[m].key_epoch = recipients[i].key_epoch
  <2> SUFFICES ASSUME NEW m \in 1..n
               PROVE  \E i \in 1..n : /\ es[m].recipient_id = recipients[i].recipient_id
                                      /\ es[m].key_epoch = recipients[i].key_epoch
    OBVIOUS
  <2>1. PICK i \in 1..n : t[m] = recipients[i]
    BY <1>2
  <2>2. es[m].recipient_id = t[m].recipient_id /\ es[m].key_epoch = t[m].key_epoch
    BY <1>5
  <2> QED BY <2>1, <2>2
<1>9. ASSUME ~ RepeatsRecipient(recipients), NEW m \in 2..n
      PROVE  KeyBefore(EnvelopeKey(es[m - 1]), EnvelopeKey(es[m]))
  <2>1. m - 1 \in 1..n /\ m \in 1..n
    BY <1>1
  <2>2. EnvelopeKey(es[m - 1]) = EnvelopeKey(t[m - 1]) /\ EnvelopeKey(es[m]) = EnvelopeKey(t[m])
    BY <1>5, <2>1
  <2> QED BY <1>2, <1>9, <2>2
<1> QED BY <1>5, <1>7, <1>8, <1>9, Zenon DEF es, t, n

BuiltAs(r, c, plaintext, recipients, indexes, suite, signer, signature) ==
  /\ r = [format_version |-> FormatVersion, suite |-> suite, context |-> c,
          manifest_revision |-> 1, previous_manifest_hash |-> NoHash, key_commitment |-> 0,
          nonce |-> r.nonce, ciphertext |-> r.ciphertext, recipients |-> r.recipients,
          indexes |-> r.indexes, signer |-> signer, signature |-> signature]
  /\ r.format_version = FormatVersion /\ r.suite = suite /\ r.context = c
  /\ r.manifest_revision = 1 /\ r.previous_manifest_hash = NoHash
  /\ r.nonce = [i \in 1..NonceLen[suite] |-> 0]
  /\ r.ciphertext = plaintext \o [i \in 1..TagLen |-> 0]
  /\ r.recipients = [i \in DOMAIN SortedRecipients(recipients) |-> Wrap(SortedRecipients(recipients)[i])]
  /\ r.indexes = SortedIndexes(indexes)
  /\ r.signer = signer /\ r.signature = signature

(* The fields of the record seal builds.                                   *)
LEMMA BuiltFields ==
  ASSUME NEW c, NEW plaintext, NEW recipients, NEW indexes, NEW suite, NEW signer, NEW signature
  PROVE  BuiltAs(Built(c, plaintext, recipients, indexes, suite, signer, signature),
                 c, plaintext, recipients, indexes, suite, signer, signature)
<1> DEFINE r == Built(c, plaintext, recipients, indexes, suite, signer, signature)
           t == SortedRecipients(recipients)
           a == [i \in 1..NonceLen[suite] |-> 0]
           b == plaintext \o [i \in 1..TagLen |-> 0]
           es == [i \in DOMAIN t |-> Wrap(t[i])]
           xs == SortedIndexes(indexes)
<1>1. r = [format_version |-> FormatVersion, suite |-> suite, context |-> c,
           manifest_revision |-> 1, previous_manifest_hash |-> NoHash, key_commitment |-> 0,
           nonce |-> a, ciphertext |-> b, recipients |-> es,
           indexes |-> xs, signer |-> signer, signature |-> signature]
  BY Zenon DEF Built
<1> HIDE DEF r, a, b, es, xs
<1>2. r = [format_version |-> FormatVersion, suite |-> suite, context |-> c,
           manifest_revision |-> 1, previous_manifest_hash |-> NoHash, key_commitment |-> 0,
           nonce |-> r.nonce, ciphertext |-> r.ciphertext, recipients |-> r.recipients,
           indexes |-> r.indexes, signer |-> signer, signature |-> signature]
  BY <1>1
<1>3. /\ r.format_version = FormatVersion /\ r.suite = suite /\ r.context = c
      /\ r.manifest_revision = 1 /\ r.previous_manifest_hash = NoHash
      /\ r.nonce = a /\ r.ciphertext = b /\ r.recipients = es /\ r.indexes = xs
      /\ r.signer = signer /\ r.signature = signature
  BY <1>1
<1>4. BuiltAs(r, c, plaintext, recipients, indexes, suite, signer, signature)
  BY <1>2, <1>3, Zenon DEF BuiltAs, a, b, es, xs
<1> QED BY <1>4 DEF r

(* It is a record, its lists sorted.                                       *)
LEMMA BuiltIs ==
  ASSUME NEW c \in Contexts, NEW plaintext \in Bytes, NEW recipients \in Seq(Recipients),
         NEW indexes \in Seq(Indexes), NEW suite \in Suites, NEW signer \in Nat,
         NEW signature \in Bytes, Len(signature) = SignatureLen
  PROVE  LET r == Built(c, plaintext, recipients, indexes, suite, signer, signature)
         IN  /\ r \in Records
             /\ /\ GoodInputs(c, plaintext, recipients, indexes)
                /\ ~ RepeatsRecipient(recipients) /\ ~ RepeatsIndex(indexes)
                => Limits(r, DefaultPolicy) = "ok"
<1> DEFINE r == Built(c, plaintext, recipients, indexes, suite, signer, signature)
           p == DefaultPolicy
           n == Len(recipients)
           m == Len(indexes)
<1>0. BuiltAs(r, c, plaintext, recipients, indexes, suite, signer, signature)
  BY BuiltFields
<1> HIDE DEF r
<1>1. /\ r = [format_version |-> FormatVersion, suite |-> suite, context |-> c,
              manifest_revision |-> 1, previous_manifest_hash |-> NoHash, key_commitment |-> 0,
              nonce |-> r.nonce, ciphertext |-> r.ciphertext, recipients |-> r.recipients,
              indexes |-> r.indexes, signer |-> signer, signature |-> signature]
      /\ r.format_version = FormatVersion /\ r.suite = suite /\ r.context = c
      /\ r.manifest_revision = 1 /\ r.previous_manifest_hash = NoHash
      /\ r.signature = signature
  BY <1>0, Zenon DEF BuiltAs
<1>2. r.nonce \in Bytes /\ Len(r.nonce) = NonceLen[r.suite]
  <2>1. NonceLen[suite] \in Nat
    BY RulesAssumption
  <2>2. r.nonce = [i \in 1..NonceLen[suite] |-> 0] /\ r.suite = suite
    BY <1>0, Zenon DEF BuiltAs
  <2> HIDE DEF r
  <2> QED BY <2>1, <2>2, Zeros
<1>3. r.ciphertext \in Bytes /\ Len(r.ciphertext) = Len(plaintext) + TagLen /\ Len(plaintext) \in Nat
  <2> DEFINE z == [i \in 1..TagLen |-> 0]
  <2>1. z \in Bytes /\ Len(z) = TagLen
    BY RulesAssumption, Zeros
  <2>2. r.ciphertext = plaintext \o z
    BY <1>0, Zenon DEF BuiltAs
  <2> HIDE DEF r, z
  <2>3. plaintext \o z \in Bytes /\ Len(plaintext \o z) = Len(plaintext) + Len(z) /\ Len(plaintext) \in Nat
    BY <2>1, BytesLen
  <2> QED BY <2>1, <2>2, <2>3, Zenon
<1>4. /\ r.recipients \in Seq(Envelopes) /\ Len(r.recipients) = n
      /\ \A k \in 1..n : \E i \in 1..n :
           /\ r.recipients[k].recipient_id = recipients[i].recipient_id
           /\ r.recipients[k].key_epoch = recipients[i].key_epoch
      /\ \A k \in 1..n : /\ Len(r.recipients[k].encapsulated_key) = KeyLen
                         /\ Len(r.recipients[k].wrapped_dek) = WrappedLen
      /\ ~ RepeatsRecipient(recipients) =>
           \A k \in 2..n : KeyBefore(EnvelopeKey(r.recipients[k - 1]), EnvelopeKey(r.recipients[k]))
  <2> DEFINE t == SortedRecipients(recipients)
             es == [i \in DOMAIN t |-> Wrap(t[i])]
  <2>1. r.recipients = es
    BY <1>0, Zenon DEF BuiltAs
  <2>2. /\ es \in Seq(Envelopes) /\ Len(es) = n
        /\ \A k \in 1..n : \E i \in 1..n :
             /\ es[k].recipient_id = recipients[i].recipient_id
             /\ es[k].key_epoch = recipients[i].key_epoch
        /\ \A k \in 1..n : Len(es[k].encapsulated_key) = KeyLen /\ Len(es[k].wrapped_dek) = WrappedLen
        /\ ~ RepeatsRecipient(recipients) =>
             \A k \in 2..n : KeyBefore(EnvelopeKey(es[k - 1]), EnvelopeKey(es[k]))
    BY WrappedIs, Zenon
  <2> HIDE DEF r, es
  <2> QED BY <2>1, <2>2
<1>5. /\ r.indexes \in Seq(Indexes) /\ Len(r.indexes) = m
      /\ \A k \in 1..m : \E i \in 1..m : r.indexes[k] = indexes[i]
      /\ ~ RepeatsIndex(indexes) =>
           \A k \in 2..m : KeyBefore(IndexLabel(r.indexes[k - 1]), IndexLabel(r.indexes[k]))
  <2> DEFINE t == SortedIndexes(indexes)
  <2>1. r.indexes = t
    BY <1>0, Zenon DEF BuiltAs
  <2>2. \A i \in 1..Len(indexes) : IndexLabel(indexes[i]) \in Keys
    BY KeysOf, ElementOfSeq
  <2>3. /\ t \in Seq(Indexes) /\ Len(t) = m
        /\ \A k \in 1..m : \E i \in 1..m : t[k] = indexes[i]
        /\ ~ RepeatsIndex(indexes) =>
             \A k \in 2..m : KeyBefore(IndexLabel(t[k - 1]), IndexLabel(t[k]))
    BY <2>2, IndexesSorted, Zenon
  <2> HIDE DEF r, t
  <2> QED BY <2>1, <2>3
<1>6. n \in Nat /\ m \in Nat
  OBVIOUS
<1> HIDE DEF r, n, m
<1>7. r \in Records
  <2>1. FormatVersion \in Nat /\ NoHash \in Nat /\ 1 \in Nat /\ 0 \in Nat
    BY RulesAssumption
  <2> QED BY <1>1, <1>2, <1>3, <1>4, <1>5, <2>1 DEF Records
<1>8. ASSUME GoodInputs(c, plaintext, recipients, indexes),
             ~ RepeatsRecipient(recipients), ~ RepeatsIndex(indexes)
      PROVE  Limits(r, p) = "ok"
  <2>0. p \in ValidationPolicies /\ p.max_ciphertext_bytes \in Nat /\ TagLen \in Nat /\ NoHash = 0
    BY RulesAssumption DEF ValidationPolicies
  <2>1. /\ ContextOnly(c, p, {})
        /\ Len(plaintext) + TagLen <= p.max_ciphertext_bytes
        /\ n \in 1..p.max_recipients /\ m <= p.max_indexes
        /\ \A i \in 1..n : GoodLabel(recipients[i].recipient_id, p) /\ recipients[i].key_epoch # 0
        /\ \A i \in 1..m :
             /\ GoodLabel(indexes[i].label, p) /\ GoodLabel(indexes[i].canonicalizer_id, p)
             /\ 0 \notin {indexes[i].schema_version, indexes[i].canonicalizer_version,
                          indexes[i].key_epoch}
    BY <1>8 DEF GoodInputs, n, m
  <2>2. HeaderOnly(r, p, {})
    <3>1. ~ ChainBroken(r)
      BY <1>1, <2>0 DEF ChainBroken
    <3>2. Len(r.ciphertext) \in TagLen..p.max_ciphertext_bytes
      BY <1>3, <2>0, <2>1
    <3> QED BY <1>2, <1>4, <2>1, <3>1, <3>2 DEF HeaderOnly
  <2>3. ASSUME NEW k \in 1..n PROVE EnvelopeOnly(r.recipients, k, p, {})
    <3>1. PICK i \in 1..n : /\ r.recipients[k].recipient_id = recipients[i].recipient_id
                            /\ r.recipients[k].key_epoch = recipients[i].key_epoch
      BY <1>4
    <3>2. GoodLabel(r.recipients[k].recipient_id, p) /\ r.recipients[k].key_epoch # 0
      BY <2>1, <3>1
    <3>3. k > 1 => k \in 2..n
      BY <1>6
    <3>4. k > 1 => KeyBefore(EnvelopeKey(r.recipients[k - 1]), EnvelopeKey(r.recipients[k]))
      BY <1>4, <1>8, <3>3
    <3> QED BY <1>4, <3>2, <3>4, Zenon DEF EnvelopeOnly
  <2>4. ASSUME NEW k \in 1..m PROVE IndexOnly(r.indexes, k, p, {})
    <3>1. PICK i \in 1..m : r.indexes[k] = indexes[i]
      BY <1>5
    <3>2. /\ GoodLabel(r.indexes[k].label, p) /\ GoodLabel(r.indexes[k].canonicalizer_id, p)
          /\ 0 \notin {r.indexes[k].key_epoch, r.indexes[k].schema_version, r.indexes[k].canonicalizer_version}
      BY <2>1, <3>1
    <3>3. k > 1 => k \in 2..m
      BY <1>6
    <3>4. k > 1 => KeyBefore(IndexLabel(r.indexes[k - 1]), IndexLabel(r.indexes[k]))
      BY <1>5, <1>8, <3>3
    <3> QED BY <3>2, <3>4 DEF IndexOnly
  <2>5. Len(r.signature) = SignatureLen
    BY <1>1
  <2>6. LimitsOnly(r, p, {})
    BY <1>1, <1>4, <1>5, <2>1, <2>2, <2>3, <2>4, <2>5, Zenon DEF LimitsOnly
  <2> QED BY <1>7, <2>0, <2>6, LimitsOk
<1> QED BY <1>7, <1>8, Zenon DEF r

(* seal's verdict, and the record it signs.                                *)
LEMMA SealVerdictIs ==
  ASSUME NEW c \in Contexts, NEW plaintext \in Bytes, NEW recipients \in Seq(Recipients),
         NEW indexes \in Seq(Indexes), NEW suite \in Suites, NEW signer \in Nat,
         NEW signature \in Bytes, Len(signature) = SignatureLen
  PROVE  LET r == Built(c, plaintext, recipients, indexes, suite, signer, signature)
             v == SealVerdict(c, plaintext, recipients, indexes, r)
         IN  /\ r \in Records /\ v \in SealRefusals
             /\ v = "ok" => Limits(r, DefaultPolicy) = "ok"
<1> DEFINE r == Built(c, plaintext, recipients, indexes, suite, signer, signature)
           v == SealVerdict(c, plaintext, recipients, indexes, r)
           a == Preflight(c, plaintext, recipients, indexes)
           b == IF RepeatsRecipient(recipients) THEN "DuplicateRecipient" ELSE "ok"
           d == IF RepeatsIndex(indexes) THEN "DuplicateIndex" ELSE "ok"
           o == ValidateOwn(r)
           l == Limits(r, DefaultPolicy)
<1>1. v = FirstOf(<<a, b, d, o>>)
  BY Zenon DEF SealVerdict
<1>2. a \in InputErrors \cup {"ok"} /\ (a = "ok" => GoodInputs(c, plaintext, recipients, indexes))
  BY PreflightIs, Zenon
<1>3. /\ b \in {"DuplicateRecipient", "ok"} /\ (b = "ok" => ~ RepeatsRecipient(recipients))
      /\ d \in {"DuplicateIndex", "ok"} /\ (d = "ok" => ~ RepeatsIndex(indexes))
  OBVIOUS
<1>4. r \in Records /\ (GoodInputs(c, plaintext, recipients, indexes)
                        /\ ~ RepeatsRecipient(recipients) /\ ~ RepeatsIndex(indexes) => l = "ok")
  BY BuiltIs, Zenon
<1>5. o = l
  BY <1>4, ValidateOwnIs
<1> HIDE DEF r, v, a, b, d, o, l
<1>6. v = IF a # "ok" THEN a ELSE IF b # "ok" THEN b ELSE IF d # "ok" THEN d ELSE o
  <2>1. FirstOf(<<a, b, d, o>>)
          = IF a # "ok" THEN a ELSE IF b # "ok" THEN b ELSE IF d # "ok" THEN d ELSE o
    BY FirstOfFour
  <2> QED BY <1>1, <2>1
<1>7. a = "ok" /\ b = "ok" /\ d = "ok" => l = "ok"
  BY <1>2, <1>3, <1>4
<1>8. v \in SealRefusals /\ (v = "ok" => l = "ok")
  BY <1>2, <1>3, <1>5, <1>6, <1>7 DEF SealRefusals, InputErrors
<1> QED BY <1>4, <1>8, Zenon DEF r, v, l

(* What a grant may exceed or add.                                         *)
GrantErrors == {"RecipientCount", "IdentifierLength", "InvalidKeyEpoch"}

(* The record that grant_recipient builds.                                 *)
GrantAs(g, r, q, hash) ==
  /\ g.format_version = r.format_version /\ g.suite = r.suite /\ g.context = r.context
  /\ g.manifest_revision = r.manifest_revision + 1 /\ g.previous_manifest_hash = hash
  /\ g.nonce = r.nonce /\ g.ciphertext = r.ciphertext
  /\ g.recipients = SortedRecipients(Append(r.recipients, Wrap(q)))
  /\ g.indexes = r.indexes /\ g.signer = r.signer /\ g.signature = r.signature

(* The fields of the record grant_recipient builds.                        *)
LEMMA GrantFields ==
  ASSUME NEW r \in Records, NEW q \in Recipients, NEW hash \in Nat,
         SortedRecipients(Append(r.recipients, Wrap(q))) \in Seq(Envelopes)
  PROVE  LET g == GrantedTo(r, q, hash, r.signature)
         IN  g \in Records /\ GrantAs(g, r, q, hash)
<1> DEFINE g == GrantedTo(r, q, hash, r.signature)
           es == SortedRecipients(Append(r.recipients, Wrap(q)))
<1>1. g = [r EXCEPT !.previous_manifest_hash = hash, !.manifest_revision = r.manifest_revision + 1,
                    !.recipients = es, !.signature = r.signature]
  BY DEF GrantedTo
<1> HIDE DEF g, es
<1>2. /\ g.format_version = r.format_version /\ g.suite = r.suite /\ g.context = r.context
      /\ g.manifest_revision = r.manifest_revision + 1 /\ g.previous_manifest_hash = hash
      /\ g.nonce = r.nonce /\ g.ciphertext = r.ciphertext
      /\ g.recipients = es
      /\ g.indexes = r.indexes /\ g.signer = r.signer /\ g.signature = r.signature
  BY <1>1 DEF Records
<1>3. g \in Records
  <2>1. es \in Seq(Envelopes)
    BY DEF es
  <2>2. g = [format_version |-> r.format_version, suite |-> r.suite, context |-> r.context,
             manifest_revision |-> r.manifest_revision + 1, previous_manifest_hash |-> hash,
             key_commitment |-> r.key_commitment, nonce |-> r.nonce, ciphertext |-> r.ciphertext,
             recipients |-> es, indexes |-> r.indexes, signer |-> r.signer, signature |-> r.signature]
    BY <1>1 DEF Records
  <2>3. /\ r.format_version \in Nat /\ r.suite \in Suites /\ r.context \in Contexts
        /\ r.manifest_revision + 1 \in Nat /\ r.key_commitment \in Nat /\ r.nonce \in Bytes
        /\ r.ciphertext \in Bytes /\ r.indexes \in Seq(Indexes) /\ r.signer \in Nat
        /\ r.signature \in Bytes
    BY RecordTypes
  <2> QED BY <2>1, <2>2, <2>3 DEF Records
<1> QED BY <1>2, <1>3, Zenon DEF GrantAs, g, es

(* It is a record, with one envelope more, still sorted.                   *)
LEMMA GrantIs ==
  ASSUME NEW r \in Records, Limits(r, DefaultPolicy) = "ok", NEW q \in Recipients
  PROVE  LET g == GrantedTo(r, q, r.manifest_revision, r.signature)
         IN  /\ g \in Records
             /\ (\A i \in 1..Len(r.recipients) : EnvelopeKey(r.recipients[i]) # EnvelopeKey(q))
                  => Limits(g, DefaultPolicy) \in GrantErrors \cup {"ok"}
<1> DEFINE p == DefaultPolicy
           w == Wrap(q)
           s == Append(r.recipients, w)
           t == SortedRecipients(s)
           l == Len(r.recipients)
           n == l + 1
           g == GrantedTo(r, q, r.manifest_revision, r.signature)
<1>0. p \in ValidationPolicies /\ NoHash = 0
  BY RulesAssumption
<1>1. LimitsOnly(r, p, {})
  BY <1>0, LimitsOk
<1>2. /\ r.recipients \in Seq(Envelopes) /\ r.manifest_revision \in Nat /\ l \in Nat
      /\ \A i \in 1..l : r.recipients[i] \in Envelopes
  BY RecordTypes
<1>3. /\ w \in Envelopes /\ EnvelopeKey(w) = EnvelopeKey(q)
      /\ Len(w.encapsulated_key) = KeyLen /\ Len(w.wrapped_dek) = WrappedLen
  BY WrapIs
<1> HIDE DEF w
<1>4. /\ s \in Seq(Envelopes) /\ Len(s) = n /\ n \in Nat /\ DOMAIN s = 1..n
      /\ \A i \in 1..l : s[i] = r.recipients[i]
      /\ s[n] = w
  BY <1>2, <1>3
<1> HIDE DEF s
<1>5. \A i \in 1..n : s[i] \in Envelopes /\ EnvelopeKey(s[i]) \in Keys
  BY <1>4, ElementOfSeq, KeysOf
<1>6. /\ t \in Seq(Envelopes) /\ Len(t) = n
      /\ \A m \in 1..n : \E i \in 1..n : t[m] = s[i]
      /\ ~ RepeatsRecipient(s) =>
           \A m \in 2..n : KeyBefore(EnvelopeKey(t[m - 1]), EnvelopeKey(t[m]))
  BY <1>4, <1>5, RecipientsSorted, SMTT(30)
<1> HIDE DEF t
<1>7. g \in Records /\ GrantAs(g, r, q, r.manifest_revision) /\ t = SortedRecipients(Append(r.recipients, Wrap(q)))
  BY <1>2, <1>6, GrantFields DEF t, s, w
<1> HIDE DEF g
<1>8. /\ g.format_version = r.format_version /\ g.suite = r.suite /\ g.context = r.context
      /\ g.manifest_revision = r.manifest_revision + 1 /\ g.previous_manifest_hash = r.manifest_revision
      /\ g.nonce = r.nonce /\ g.ciphertext = r.ciphertext
      /\ g.recipients = t
      /\ g.indexes = r.indexes /\ g.signer = r.signer /\ g.signature = r.signature
  BY <1>7, Zenon DEF GrantAs
<1>9. ASSUME \A i \in 1..l : EnvelopeKey(r.recipients[i]) # EnvelopeKey(q)
      PROVE  Limits(g, p) \in GrantErrors \cup {"ok"}
  <2>1. ~ RepeatsRecipient(s)
    <3>1. ASSUME NEW i \in 1..n, NEW j \in 1..n, i # j PROVE EnvelopeKey(s[i]) # EnvelopeKey(s[j])
      <4>1. CASE i \in 1..l /\ j \in 1..l
        <5>1. ~ RepeatsRecipient(r.recipients)
          BY <1>0, NothingRepeats
        <5>2. DOMAIN r.recipients = 1..l
          BY <1>2
        <5> QED BY <1>4, <3>1, <4>1, <5>1, <5>2 DEF RepeatsRecipient
      <4>2. CASE i \in 1..l /\ j = n
        BY <1>3, <1>4, <1>9, <4>2
      <4>3. CASE i = n /\ j \in 1..l
        BY <1>3, <1>4, <1>9, <4>3
      <4>4. (i \in 1..l \/ i = n) /\ (j \in 1..l \/ j = n)
        BY <1>2
      <4> QED BY <3>1, <4>1, <4>2, <4>3, <4>4
    <3> QED BY <1>4, <3>1 DEF RepeatsRecipient
  <2>2. /\ "RecipientCount" \in GrantErrors /\ "IdentifierLength" \in GrantErrors
        /\ "InvalidKeyEpoch" \in GrantErrors
    BY DEF GrantErrors
  <2>3. HeaderOnly(g, p, GrantErrors)
    <3>1. ~ ChainBroken(g)
      <4>1. r.manifest_revision # 0
        BY <1>1 DEF LimitsOnly, HeaderOnly, ChainBroken
      <4> QED BY <1>0, <1>2, <1>8, <4>1 DEF ChainBroken
    <3>2. /\ Len(r.nonce) = NonceLen[r.suite]
          /\ Len(r.ciphertext) \in TagLen..p.max_ciphertext_bytes
      BY <1>1 DEF LimitsOnly, HeaderOnly
    <3> QED BY <1>8, <2>2, <3>1, <3>2 DEF HeaderOnly
  <2>4. ASSUME NEW k \in 1..n PROVE EnvelopeOnly(t, k, p, GrantErrors)
    <3>1. PICK i \in 1..n : t[k] = s[i]
      BY <1>6
    <3>2. Len(t[k].encapsulated_key) = KeyLen /\ Len(t[k].wrapped_dek) = WrappedLen
      <4>1. CASE i \in 1..l
        <5>1. EnvelopeOnly(r.recipients, i, p, {})
          BY <1>1, <4>1, Zenon DEF LimitsOnly
        <5>2. t[k] = r.recipients[i]
          BY <1>4, <3>1, <4>1
        <5> QED BY <5>1, <5>2 DEF EnvelopeOnly
      <4>2. CASE i = n
        BY <1>3, <1>4, <3>1, <4>2
      <4>3. i \in 1..l \/ i = n
        BY <1>2
      <4> QED BY <4>1, <4>2, <4>3
    <3>3. k > 1 => k \in 2..n
      BY <1>4
    <3>4. k > 1 => KeyBefore(EnvelopeKey(t[k - 1]), EnvelopeKey(t[k]))
      BY <1>6, <2>1, <3>3
    <3> QED BY <2>2, <3>2, <3>4, Zenon DEF EnvelopeOnly
  <2>5. ContextOnly(r.context, p, {}) => ContextOnly(r.context, p, GrantErrors)
    BY DEF ContextOnly
  <2>6. \A i \in 1..Len(r.indexes) : IndexOnly(r.indexes, i, p, {}) => IndexOnly(r.indexes, i, p, GrantErrors)
    BY DEF IndexOnly
  <2>7. /\ r.format_version = FormatVersion /\ ContextOnly(r.context, p, {})
        /\ Len(r.indexes) <= p.max_indexes
        /\ \A i \in 1..Len(r.indexes) : IndexOnly(r.indexes, i, p, {})
        /\ Len(r.signature) = SignatureLen
    BY <1>1 DEF LimitsOnly
  <2>8. LimitsOnly(g, p, GrantErrors)
    BY <1>6, <1>8, <2>3, <2>4, <2>5, <2>6, <2>7 DEF LimitsOnly
  <2> QED BY <1>0, <1>7, <2>8, LimitsIn
<1> QED BY <1>7, <1>9, Zenon DEF g, l

(* grant_recipient's verdict, and the record it signs.                     *)
LEMMA GrantVerdictIs ==
  ASSUME NEW r \in Records, Limits(r, DefaultPolicy) = "ok", NEW by, NEW q \in Recipients
  PROVE  LET g == GrantedTo(r, q, r.manifest_revision, r.signature)
             v == GrantVerdict(r, by, q, g)
         IN  /\ g \in Records /\ v \in GrantRefusals
             /\ v = "ok" => Limits(g, DefaultPolicy) = "ok"
<1> DEFINE g == GrantedTo(r, q, r.manifest_revision, r.signature)
           v == GrantVerdict(r, by, q, g)
           a == Validate(r, PolicyFor(r.signer), TRUE)
           again == \E i \in DOMAIN r.recipients : EnvelopeKey(r.recipients[i]) = EnvelopeKey(q)
           b == IF again THEN "DuplicateRecipient" ELSE "ok"
           d == IF Holds(r, by) THEN "ok" ELSE "NoEnvelopeForRecipient"
           o == ValidateOwn(g)
           l == Limits(g, DefaultPolicy)
<1>1. v = FirstOf(<<a, b, d, o>>)
  BY Zenon DEF GrantVerdict
<1>2. a = "ok"
  BY ValidateOwnIs
<1>3. g \in Records
      /\ ((\A i \in 1..Len(r.recipients) : EnvelopeKey(r.recipients[i]) # EnvelopeKey(q))
            => l \in GrantErrors \cup {"ok"})
  BY GrantIs, Zenon
<1>4. ~ again => l \in GrantErrors \cup {"ok"}
  <2>1. DOMAIN r.recipients = 1..Len(r.recipients)
    BY RecordTypes
  <2> QED BY <1>3, <2>1, Zenon
<1>5. o = l
  BY <1>3, ValidateOwnIs
<1>6. (b = "ok" /\ ~ again) \/ b = "DuplicateRecipient"
  OBVIOUS
<1>7. d \in {"ok", "NoEnvelopeForRecipient"}
  OBVIOUS
<1> HIDE DEF g, v, a, b, d, o, l, again
<1>8. FirstOf(<<a, b, d, o>>)
          = IF a # "ok" THEN a ELSE IF b # "ok" THEN b ELSE IF d # "ok" THEN d ELSE o
  BY FirstOfFour
<1>9. v \in GrantRefusals /\ (v = "ok" => l = "ok")
  BY <1>1, <1>2, <1>4, <1>5, <1>6, <1>7, <1>8 DEF GrantRefusals, GrantErrors
<1> QED BY <1>3, <1>9, Zenon DEF g, v, l
-----------------------------------------------------------------------------
(* The invariant.                                                          *)

(* The inductive invariant: the bytes on the way are those of the record   *)
(* until they are damaged, what the receiver holds is decode's answer for  *)
(* them, and what the library built is within its own limits.              *)
NothingYet ==
  record = Nothing =>
    wire = Nothing /\ received = Nothing /\ ~ library /\ refusal \in SealRefusals

OnTheWay ==
  record \in Records => wire \in Bytes /\ (edits = 0 => wire = Encode(record))

Answered ==
  received # Nothing =>
    \E p \in Policies : received = [policy |-> p, answer |-> Decode(wire, p)]

OwnWithinLimits ==
  library => Limits(record, DefaultPolicy) = "ok" /\ refusal \in GrantRefusals

IInv ==
  /\ record \in Records \cup {Nothing} /\ library \in BOOLEAN /\ edits \in Nat
  /\ NothingYet
  /\ OnTheWay
  /\ Answered
  /\ OwnWithinLimits

(* The invariant holds at first.                                           *)
LEMMA IInvInit == Init => IInv
<1> SUFFICES ASSUME Init PROVE IInv
  OBVIOUS
<1>1. /\ record = Nothing /\ library = FALSE /\ refusal = "ok" /\ wire = Nothing /\ edits = 0
      /\ received = Nothing /\ record \notin Records
  BY WireAssumption DEF Init
<1>2. NothingYet
  BY <1>1 DEF NothingYet, SealRefusals
<1>3. OnTheWay /\ Answered /\ OwnWithinLimits
  BY <1>1 DEF OnTheWay, Answered, OwnWithinLimits
<1> QED BY <1>1, <1>2, <1>3 DEF IInv

(* A record is signed.                                                     *)
LEMMA SignKeeps ==
  ASSUME NEW r \in Records, NEW by \in BOOLEAN, Sign(r, by), refusal' = "ok",
         by = TRUE => Limits(r, DefaultPolicy) = "ok"
  PROVE  IInv'
<1>1. /\ record' = r /\ library' = by /\ wire' = Encode(r) /\ edits' = 0 /\ received' = Nothing
  BY DEF Sign
<1>2. r # Nothing /\ r \in Records
  BY WireAssumption
<1>3. Encode(r) \in Bytes
  BY EncodeIs
<1>4. NothingYet'
  BY <1>1, <1>2 DEF NothingYet
<1>5. OnTheWay'
  BY <1>1, <1>3 DEF OnTheWay
<1>6. Answered'
  BY <1>1 DEF Answered
<1>7. OwnWithinLimits'
  BY <1>1 DEF OwnWithinLimits, GrantRefusals
<1> QED BY <1>1, <1>4, <1>5, <1>6, <1>7 DEF IInv

(* Nothing changes but the last refusal.                                   *)
LEMMA RefusalKeeps ==
  ASSUME IInv, UNCHANGED <<record, library, wire, edits, received>>,
         record = Nothing => refusal' \in SealRefusals,
         library => refusal' \in GrantRefusals
  PROVE  IInv'
<1>1. /\ record' = record /\ library' = library /\ wire' = wire /\ edits' = edits
      /\ received' = received
  OBVIOUS
<1>2. NothingYet'
  BY <1>1 DEF IInv, NothingYet
<1>3. OnTheWay'
  BY <1>1 DEF IInv, OnTheWay
<1>4. Answered'
  <2>1. SUFFICES ASSUME received # Nothing
                 PROVE  \E p \in Policies : received = [policy |-> p, answer |-> Decode(wire, p)']
    BY <1>1 DEF Answered
  <2>2. PICK p \in Policies : received = [policy |-> p, answer |-> Decode(wire, p)]
    BY <2>1 DEF IInv, Answered
  <2>3. Decode(wire, p)' = Decode(wire, p)
    BY <1>1 DEF Decode, Judged, Genuine
  <2> QED BY <2>2, <2>3
<1>5. OwnWithinLimits'
  BY <1>1 DEF IInv, OwnWithinLimits
<1> QED BY <1>1, <1>2, <1>3, <1>4, <1>5 DEF IInv

(* The two, as one of the library's calls uses them.                       *)
LEMMA SignedKeeps ==
  \A r : r \in Records /\ Limits(r, DefaultPolicy) = "ok" /\ Sign(r, TRUE) /\ refusal' = "ok"
    => IInv'
<1> SUFFICES ASSUME NEW r, r \in Records, Limits(r, DefaultPolicy) = "ok", Sign(r, TRUE),
                    refusal' = "ok"
             PROVE  IInv'
  OBVIOUS
<1> QED BY SignKeeps

(* A refused call, which changes nothing else.                             *)
LEMMA RefusedKeeps ==
  /\ IInv /\ UNCHANGED <<record, library, wire, edits, received>>
  /\ \/ refusal' \in SealRefusals /\ ~ library
     \/ refusal' \in GrantRefusals /\ record # Nothing
  => IInv'
BY RefusalKeeps

(* Damaged bytes are bytes.                                                *)
LEMMA EditedIsBytes ==
  ASSUME NEW w \in Bytes, NEW i \in DOMAIN w, NEW a \in Nat, NEW e \in Edited(w, i, a)
  PROVE  e \in Bytes
<1>1. i \in 1..Len(w) /\ Len(w) \in Nat /\ w[i] \in Nat /\ \A j \in 1..Len(w) : w[j] \in Nat
      /\ w \in Seq(Nat)
  BY DEF Bytes
<1>2. SubSeq(w, 1, i - 1) \in Bytes
  BY <1>1, SubSeqProperties DEF Bytes
<1>3. \A b \in Nat : ReplaceAt(w, i, b) \in Bytes
  BY <1>1 DEF Bytes, ReplaceAt
<1>4. InsertAt(w, i, a) \in Bytes
  <2>1. SubSeq(w, i, Len(w)) \in Bytes
    BY <1>1, SubSeqProperties DEF Bytes
  <2>2. <<a>> \in Bytes
    BY DEF Bytes
  <2> DEFINE x == SubSeq(w, 1, i - 1)
             y == SubSeq(w, i, Len(w))
             z == <<a>>
  <2>3. InsertAt(w, i, a) = (x \o z) \o y
    BY Zenon DEF InsertAt
  <2> HIDE DEF x, y, z
  <2>4. (x \o z) \o y \in Bytes
    BY <1>2, <2>1, <2>2, BytesConcat DEF x, y, z
  <2> QED BY <2>3, <2>4
<1>5. Append(w, a) \in Bytes
  BY <1>1 DEF Bytes
<1>6. RemoveAt(w, i) \in Bytes
  <2> DEFINE x == SubSeq(w, 1, i - 1)
             y == SubSeq(w, i + 1, Len(w))
  <2>1. y \in Bytes
    BY <1>1, SubSeqProperties DEF Bytes
  <2>2. RemoveAt(w, i) = x \o y
    BY Zenon DEF RemoveAt
  <2> HIDE DEF x, y
  <2>3. x \o y \in Bytes
    BY <1>2, <2>1, BytesConcat DEF x
  <2> QED BY <2>2, <2>3
<1>7. w[i] + 1 \in Nat
  BY <1>1
<1> QED BY <1>2, <1>3, <1>4, <1>5, <1>6, <1>7 DEF Edited

(* Every step keeps the invariant.                                         *)
LEMMA IInvNext == IInv /\ [Next]_vars => IInv'
<1> SUFFICES ASSUME IInv, [Next]_vars PROVE IInv'
  OBVIOUS
<1>1. ASSUME NEW r \in Drafts, Craft(r) PROVE IInv'
  <2>1. r \in Records /\ Sign(r, FALSE) /\ refusal' = "ok"
    BY <1>1, WireAssumption DEF Craft
  <2> QED BY <2>1, SignKeeps
<1>2. ASSUME NEW a \in Inputs, Seal(a) PROVE IInv'
  <2> DEFINE r == Built(a.context, a.plaintext, a.recipients, a.indexes, a.suite, a.signer, a.signature)
             v == SealVerdict(a.context, a.plaintext, a.recipients, a.indexes, r)
  <2>1. /\ record = Nothing /\ refusal' = v
        /\ IF v = "ok" THEN Sign(r, TRUE) ELSE UNCHANGED <<record, library, wire, edits, received>>
    BY <1>2, Zenon DEF Seal
  <2>2. /\ a.context \in Contexts /\ a.plaintext \in Bytes /\ a.suite \in Suites
        /\ a.recipients \in Seq(Recipients) /\ a.indexes \in Seq(Indexes)
        /\ a.signer \in Nat /\ a.signature \in Bytes /\ Len(a.signature) = SignatureLen
    BY WireAssumption
  <2>3. /\ r \in Records /\ v \in SealRefusals /\ (v = "ok" => Limits(r, DefaultPolicy) = "ok")
    BY <2>2, SealVerdictIs, Zenon
  <2> HIDE DEF r, v
  <2>4. CASE v = "ok"
    <3>1. Sign(r, TRUE) /\ refusal' = "ok" /\ r \in Records /\ Limits(r, DefaultPolicy) = "ok"
      BY <2>1, <2>3, <2>4
    <3> QED BY <3>1, SignedKeeps, Zenon
  <2>5. CASE v # "ok"
    <3>1. UNCHANGED <<record, library, wire, edits, received>> /\ refusal' \in SealRefusals
      BY <2>1, <2>3, <2>5
    <3>2. ~ library
      BY <2>1 DEF IInv, NothingYet
    <3> QED BY <3>1, <3>2, RefusedKeeps, Zenon
  <2> QED BY <2>4, <2>5
<1>3. ASSUME NEW by \in Readers, NEW q \in Readers, GrantRecipient(by, q) PROVE IInv'
  <2> DEFINE r == GrantedTo(record, q, record.manifest_revision, record.signature)
             v == GrantVerdict(record, by, q, r)
  <2>1. /\ library /\ refusal' = v
        /\ IF v = "ok" THEN Sign(r, TRUE) ELSE UNCHANGED <<record, library, wire, edits, received>>
    BY <1>3, Zenon DEF GrantRecipient
  <2>2. record \in Records /\ Limits(record, DefaultPolicy) = "ok"
    BY <2>1 DEF IInv, NothingYet, OwnWithinLimits
  <2>3. q \in Recipients
    BY WireAssumption
  <2>4. /\ r \in Records /\ v \in GrantRefusals /\ (v = "ok" => Limits(r, DefaultPolicy) = "ok")
    BY <2>2, <2>3, GrantVerdictIs, Zenon
  <2> HIDE DEF r, v
  <2>5. CASE v = "ok"
    <3>1. Sign(r, TRUE) /\ refusal' = "ok" /\ r \in Records /\ Limits(r, DefaultPolicy) = "ok"
      BY <2>1, <2>4, <2>5
    <3> QED BY <3>1, SignedKeeps, Zenon
  <2>6. CASE v # "ok"
    <3>1. UNCHANGED <<record, library, wire, edits, received>> /\ refusal' \in GrantRefusals
      BY <2>1, <2>4, <2>6
    <3>2. record # Nothing
      BY <2>2, WireAssumption
    <3> QED BY <3>1, <3>2, RefusedKeeps, Zenon
  <2> QED BY <2>5, <2>6
<1>4. ASSUME wire # Nothing, NEW i \in DOMAIN wire, NEW a \in EditAtoms, Damage(i, a) PROVE IInv'
  <2>1. /\ wire' \in Edited(wire, i, a) /\ edits' = edits + 1 /\ received' = Nothing
        /\ refusal' = "ok" /\ record' = record /\ library' = library
    BY <1>4 DEF Damage
  <2>2. record \in Records /\ record # Nothing /\ wire \in Bytes
    BY <1>4, WireAssumption DEF IInv, NothingYet, OnTheWay
  <2>3. wire' \in Bytes
    BY <2>1, <2>2, WireAssumption, EditedIsBytes
  <2>4. edits' \in Nat /\ edits' # 0
    BY <2>1 DEF IInv
  <2>5. NothingYet' /\ OnTheWay'
    BY <2>1, <2>2, <2>3, <2>4 DEF NothingYet, OnTheWay
  <2>6. Answered'
    BY <2>1 DEF Answered
  <2>7. OwnWithinLimits'
    BY <2>1 DEF IInv, OwnWithinLimits, GrantRefusals
  <2> QED BY <2>1, <2>4, <2>5, <2>6, <2>7 DEF IInv
<1>5. ASSUME NEW p \in Policies, Receive(p) PROVE IInv'
  <2>1. /\ wire # Nothing /\ received' = [policy |-> p, answer |-> Decode(wire, p)]
        /\ record' = record /\ library' = library /\ refusal' = refusal /\ wire' = wire
        /\ edits' = edits
    BY <1>5, Zenon DEF Receive
  <2>2. Decode(wire, p)' = Decode(wire, p)
    BY <2>1 DEF Decode, Judged, Genuine
  <2>3. Answered'
    BY <2>1, <2>2 DEF Answered
  <2>4. NothingYet' /\ OnTheWay' /\ OwnWithinLimits'
    BY <2>1 DEF IInv, NothingYet, OnTheWay, OwnWithinLimits
  <2> QED BY <2>1, <2>3, <2>4 DEF IInv
<1>6. ASSUME UNCHANGED vars PROVE IInv'
  <2>1. UNCHANGED <<record, library, wire, edits, received>> /\ refusal' = refusal
    BY <1>6 DEF vars
  <2> QED BY <2>1, RefusalKeeps DEF IInv, NothingYet, OwnWithinLimits
<1> QED BY <1>1, <1>2, <1>3, <1>4, <1>5, <1>6 DEF Next
-----------------------------------------------------------------------------
(* The properties.                                                         *)

(* The invariant holds of every reachable state.                           *)
THEOREM IInvHolds == Spec => []IInv
BY IInvInit, IInvNext, PTL DEF Spec

(* What the invariant says once a receiver has its answer.                 *)
LEMMA WhenAnswered ==
  ASSUME IInv, received # Nothing
  PROVE  /\ record \in Records /\ record # Nothing /\ wire \in Bytes
         /\ edits = 0 => wire = Encode(record)
         /\ \E p \in Policies : received = [policy |-> p, answer |-> Decode(wire, p)]
<1>1. record \in Records /\ record # Nothing
  BY WireAssumption DEF IInv, NothingYet
<1>2. wire \in Bytes /\ (edits = 0 => wire = Encode(record))
  BY <1>1 DEF IInv, OnTheWay
<1>3. \E p \in Policies : received = [policy |-> p, answer |-> Decode(wire, p)]
  BY DEF IInv, Answered
<1> QED BY <1>1, <1>2, <1>3

(* What is accepted meets every check of decode.                           *)
LEMMA WhenAccepted ==
  ASSUME IInv, Accepted
  PROVE  \E p \in ValidationPolicies : AcceptedAs(wire, p, received.answer.record)
<1>1. received # Nothing /\ received.answer.verdict = "ok"
  BY DEF Accepted
<1>2. PICK p \in Policies : received = [policy |-> p, answer |-> Decode(wire, p)]
  BY <1>1, WhenAnswered
<1>3. received.answer = Decode(wire, p)
  BY <1>2
<1>4. p \in ValidationPolicies /\ wire \in Bytes
  BY <1>1, WhenAnswered, LengthAssumption
<1>5. AcceptedAs(wire, p, Decode(wire, p).record)
  BY <1>1, <1>3, <1>4, DecodeSound
<1> QED BY <1>3, <1>4, <1>5

(* The reader by itself takes exactly one encoding of each record.         *)
THEOREM ReencodingAgreesHolds == Spec => []ReencodingAgrees
<1>1. IInv => ReencodingAgrees
  <2>1. SUFFICES ASSUME IInv, received # Nothing
                 PROVE  received.answer.verdict # "NonCanonicalEncoding"
    BY DEF ReencodingAgrees
  <2>2. PICK p \in Policies : received = [policy |-> p, answer |-> Decode(wire, p)]
    BY <2>1, WhenAnswered
  <2>3. p \in ValidationPolicies /\ wire \in Bytes
    BY <2>1, WhenAnswered, LengthAssumption
  <2>4. Decode(wire, p).verdict # "NonCanonicalEncoding"
    BY <2>3, NeverNonCanonical
  <2>5. received.answer = Decode(wire, p)
    BY <2>2
  <2> QED BY <2>4, <2>5
<1> QED BY <1>1, IInvHolds, PTL

(* What decode accepts is the record its author signed.                    *)
THEOREM AcceptedIsSignedHolds == Spec => []AcceptedIsSigned
<1>1. IInv => AcceptedIsSigned
  <2>1. SUFFICES ASSUME IInv, Accepted PROVE received.answer.record = record
    BY DEF AcceptedIsSigned
  <2>2. record \in Records
    BY <2>1, WhenAnswered DEF Accepted
  <2>3. PICK p \in ValidationPolicies : AcceptedAs(wire, p, received.answer.record)
    BY <2>1, WhenAccepted
  <2>4. received.answer.record \in Records
    BY <2>3 DEF AcceptedAs
  <2> QED BY <2>2, <2>3, <2>4, AcceptedRecord
<1> QED BY <1>1, IInvHolds, PTL

(* Undamaged bytes of a record within the receiver's limits are decoded to *)
(* it.                                                                     *)
THEOREM ValidSurvivesHolds == Spec => []ValidSurvives
<1>1. IInv => ValidSurvives
  <2>1. SUFFICES ASSUME IInv, received # Nothing, edits = 0, Limits(record, received.policy) = "ok"
                 PROVE  received.answer = Answer("ok", record)
    BY DEF ValidSurvives
  <2>2. PICK p \in Policies : received = [policy |-> p, answer |-> Decode(wire, p)]
    BY <2>1, WhenAnswered
  <2>3. received.policy = p /\ received.answer = Decode(wire, p)
    BY <2>2
  <2>4. record \in Records /\ record # Nothing /\ wire = Encode(record)
    BY <2>1, WhenAnswered
  <2>5. Genuine(record)
    BY <2>4 DEF Genuine
  <2>6. Decode(Encode(record), p) = Answer("ok", record)
    BY <2>1, <2>3, <2>4, <2>5, ValidIsDecoded
  <2> QED BY <2>3, <2>4, <2>6
<1> QED BY <1>1, IInvHolds, PTL

(* An accepted record has one envelope per (recipient, epoch) and one      *)
(* index per (label, epoch): comparing neighbours was enough.              *)
THEOREM AcceptedIsUnambiguousHolds == Spec => []AcceptedIsUnambiguous
<1>1. IInv => AcceptedIsUnambiguous
  <2>1. SUFFICES ASSUME IInv, Accepted
                 PROVE  /\ ~ RepeatsRecipient(received.answer.record.recipients)
                        /\ ~ RepeatsIndex(received.answer.record.indexes)
    BY DEF AcceptedIsUnambiguous
  <2>2. PICK p \in ValidationPolicies : AcceptedAs(wire, p, received.answer.record)
    BY <2>1, WhenAccepted
  <2>3. /\ received.answer.record \in Records
        /\ Limits(received.answer.record, p) = "ok"
    BY <2>2 DEF AcceptedAs
  <2> QED BY <2>3, NothingRepeats
<1> QED BY <1>1, IInvHolds, PTL

(* seal and grant_recipient refuse for what the caller passed only.        *)
THEOREM RefusesOnlyInputsHolds == Spec => []RefusesOnlyInputs
<1>1. IInv => RefusesOnlyInputs
  BY DEF IInv, NothingYet, OwnWithinLimits, RefusesOnlyInputs
<1> QED BY <1>1, IInvHolds, PTL
=============================================================================

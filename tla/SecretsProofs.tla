---------------------------- MODULE SecretsProofs ----------------------------
(***************************************************************************)
(* What the primitives of MCSecrets keep, for every value of its           *)
(* constants: passwords that were stored and vault keys, HKDF, the         *)
(* keystream of both builds of ChaCha20, the three AEADs, and rand.  Each  *)
(* primitive has an invariant of its own that holds while it is at work.   *)
(***************************************************************************)
EXTENDS MCSecrets, FiniteSetTheorems, SequenceTheorems, TLAPS

-----------------------------------------------------------------------------
(* A set of naturals has a least element.                                  *)
LEMMA LeastOf ==
  ASSUME NEW S, S \subseteq Nat, S # {}
  PROVE  \E x \in S : \A y \in S : x <= y
<1> DEFINE D == { 0..x : x \in S }
<1>1. D \subseteq FiniteSubsetsOf(Nat) /\ D # {}
  <2>1. ASSUME NEW x \in S PROVE 0..x \in FiniteSubsetsOf(Nat)
    <3>1. IsFiniteSet(0..x) BY FS_Interval
    <3> QED BY <3>1 DEF FiniteSubsetsOf
  <2> QED BY <2>1
<1>2. PICK d \in D : \A e \in D : <<e, d>> \notin StrictSubsetOrdering(Nat)
  <2> HIDE DEF D
  <2> QED BY <1>1, FS_StrictSubsetOrderingWellFounded, WFMin
<1>3. PICK x \in S : d = 0..x
  OBVIOUS
<1>4. ASSUME NEW y \in S, y < x PROVE FALSE
  <2>1. 0..y \in D /\ 0..y \subseteq 0..x /\ x \in 0..x /\ x \notin 0..y
    BY <1>4
  <2>2. <<0..y, 0..x>> \in StrictSubsetOrdering(Nat)
    BY <2>1 DEF StrictSubsetOrdering
  <2> QED BY <1>2, <1>3, <2>1, <2>2
<1> QED BY <1>4

(* A function on 1..n is a sequence of length n.                           *)
IsList(f, n) == f = [i \in 1..n |-> f[i]]

(* Its length is n, and its elements are its values.                       *)
LEMMA ListIs ==
  ASSUME NEW n \in Nat, NEW f, IsList(f, n)
  PROVE  /\ Len(f) = n /\ DOMAIN f = 1..n
         /\ \E S : f \in Seq(S)
<1> DEFINE S == { f[i] : i \in 1..n }
<1>1. f \in [1..n -> S] BY DEF IsList
<1> HIDE DEF S
<1>2. f \in Seq(S) BY <1>1
<1>3. DOMAIN f = 1..n BY <1>1
<1>4. Len(f) = n BY <1>2, <1>3
<1> QED BY <1>2, <1>3, <1>4

(* One list behind another.                                                *)
Joins(f, m, g, n) ==
  /\ IsList(f \o g, m + n)
  /\ \A i \in 1..(m + n) : (f \o g)[i] = IF i <= m THEN f[i] ELSE g[i - m]

(* It is a list again.                                                     *)
LEMMA JoinIs ==
  ASSUME NEW m \in Nat, NEW n \in Nat, NEW f, NEW g, IsList(f, m), IsList(g, n)
  PROVE  Joins(f, m, g, n)
<1>1. Len(f) = m /\ Len(g) = n BY ListIs
<1>2. PICK S : f \in Seq(S) BY ListIs
<1>3. PICK T : g \in Seq(T) BY ListIs
<1>4. f \in Seq(S \cup T) /\ g \in Seq(S \cup T) BY <1>2, <1>3
<1>5. f \o g \in Seq(S \cup T) /\ Len(f \o g) = m + n
  BY <1>1, <1>4, ConcatProperties
<1>6. \A i \in 1..(m + n) : (f \o g)[i] = IF i <= m THEN f[i] ELSE g[i - m]
  BY <1>1, <1>4, ConcatProperties
<1>7. m + n \in Nat OBVIOUS
<1>8. IsList(f \o g, m + n)
  <2> DEFINE h == f \o g
             k == m + n
  <2>1. h \in Seq(S \cup T) /\ Len(h) = k BY <1>5
  <2> HIDE DEF h, k
  <2>2. h = [i \in 1..k |-> h[i]] BY <2>1
  <2> QED BY <2>2 DEF IsList, h, k
<1> QED BY <1>6, <1>8 DEF Joins

(* Quotient and remainder.                                                 *)
LEMMA DivisionIs ==
  ASSUME NEW a \in Nat, NEW d \in Nat, d > 0
  PROVE  a \div d \in Nat /\ a % d \in 0..(d - 1) /\ a = d * (a \div d) + (a % d)
OBVIOUS

(* Division by d is what the quotient and the remainder are.               *)
LEMMA QuotientIs ==
  ASSUME NEW a \in Int, NEW d \in Nat, d > 0, NEW q \in Int, NEW r \in 0..(d - 1), a = d * q + r
  PROVE  a \div d = q /\ a % d = r
<1>1. a \div d = q OBVIOUS
<1>2. a % d = r OBVIOUS
<1> QED BY <1>1, <1>2

(* Rounding up: q is the least number of d's that cover a.                 *)
LEMMA CeilingIs ==
  ASSUME NEW a \in Nat, NEW d \in Nat, d > 0, NEW q \in Nat, a <= d * q,
         q = 0 \/ d * (q - 1) < a
  PROVE  (a + d - 1) \div d = q
<1>1. CASE q = 0
  <2>1. a = 0 BY <1>1
  <2>2. (d - 1) \div d = 0 OBVIOUS
  <2> QED BY <1>1, <2>1, <2>2
<1>2. CASE q # 0
  <2>1. PICK p \in Nat : q = p + 1
    <3>1. q - 1 \in Nat /\ q = (q - 1) + 1 BY <1>2
    <3> QED BY <3>1
  <2>2. d * q = d * p + d /\ d * p \in Nat BY <2>1
  <2>3. d * p < a BY <1>2, <2>1
  <2> DEFINE r == a + d - 1 - d * q
  <2>4. r \in 0..(d - 1) BY <2>2, <2>3
  <2>5. a + d - 1 = d * q + r /\ a + d - 1 \in Int BY <2>2
  <2> HIDE DEF r
  <2> QED BY <2>4, <2>5, QuotientIs
<1> QED BY <1>1, <1>2

-----------------------------------------------------------------------------
(* Passwords.  What a row as it was stored consists of.                    *)
Salt(j) == [len |-> 16, of |-> <<"salt", j>>]
HashOf(password, j, cost) == Password!Argon2id(password, Salt(j), cost.memory, cost.passes)
RowOf(password, j, cost) ==
  [head |-> "argon2id", version |-> "v=19",
   settings |-> <<Password!Setting("m", cost.memory), Password!Setting("t", cost.passes),
                  Password!Setting("p", 1)>>,
   tail |-> <<Password!Hex(Salt(j)), Password!Hex(HashOf(password, j, cost))>>]

(* The parts there are to edit rows with: what was stored, noise and text. *)
Parts(rows) ==
  { Password!Hex(Salt(j)) : j \in DOMAIN rows }
    \cup { Password!Hex(HashOf(rows[j].password, j, rows[j].cost)) : j \in DOMAIN rows }
    \cup { Password!Hex([len |-> k, of |-> <<"noise">>]) : k \in Nat }
    \cup { [kind |-> "text"] }

IsCost(c) == c \in [memory : Nat, passes : Nat] /\ c.memory >= 8 /\ c.passes > 0

(* Row j with what it was made from: as stored, or edited part by part.    *)
KeptRow(r, j, parts) ==
  /\ r = [password |-> r.password, row |-> r.row, cost |-> r.cost, edited |-> r.edited]
  /\ IsCost(r.cost)
  /\ r.row = [head |-> r.row.head, version |-> r.row.version,
              settings |-> r.row.settings, tail |-> r.row.tail]
  /\ r.row.tail \in Seq(parts)
  /\ ~r.edited => r.row = RowOf(r.password, j, r.cost)

AllKept(rows) ==
  /\ \E S : rows \in Seq(S)
  /\ \A j \in DOMAIN rows : KeptRow(rows[j], j, Parts(rows))

KeptVault(v) ==
  /\ IsCost(v.cost)
  /\ v.key = Password!Argon2id(v.password, Password!VaultSalt, v.cost.memory, v.cost.passes)

AnswerTells ==
  s5 # NoResult =>
    /\ s5.op = "verify" => /\ s5.row \in DOMAIN s2
                           /\ s5.result = Password!Verified(s5.password, s2[s5.row].row)
    /\ s5.op = "open"   => /\ s5.vault \in s4
                           /\ s5.result = (Password!FromPassword(s5.password, Password!VaultSalt)
                                             = s5.vault.key)

PasswordInv ==
  unit = "password" =>
    /\ s1 \in DOMAIN Releases
    /\ AllKept(s2) /\ (\A v \in s4 : KeptVault(v)) /\ AnswerTells

(* The release's defaults are costs.                                       *)
LEMMA ReleaseIsCost == ASSUME NEW k \in DOMAIN Releases PROVE IsCost(Releases[k])
<1>1. DOMAIN Releases = 1..Len(Releases) BY ReleasesAssumption, LenProperties
<1>2. Releases[k] \in [memory : Nat, passes : Nat] BY <1>1, ReleasesAssumption, ElementOfSeq
<1> QED BY <1>2, ReleasesAssumption, Zenon DEF IsCost

(* What hash_password writes.                                              *)
LEMMA RowIs ==
  ASSUME NEW password, NEW k
  PROVE  Password!Row(password, k) = RowOf(password, k, Releases[s1])
BY Zenon DEF Password!Row, RowOf, HashOf, Salt, Password!SaltLen

(* The last setting of a name in what hash_password writes.                *)
LEMMA ValuesAre ==
  ASSUME NEW x, NEW y
  PROVE  LET s == <<Password!Setting("m", x), Password!Setting("t", y), Password!Setting("p", 1)>>
         IN  Password!Value(s, "m") = x /\ Password!Value(s, "t") = y
<1> DEFINE s == <<Password!Setting("m", x), Password!Setting("t", y), Password!Setting("p", 1)>>
<1>1. /\ DOMAIN s = 1..3 /\ s[1].name = "m" /\ s[2].name = "t" /\ s[3].name = "p"
      /\ s[1].value = x /\ s[2].value = y
  BY DEF Password!Setting
<1> HIDE DEF s
<1>2. {i \in DOMAIN s : s[i].name = "m"} = {1} /\ {i \in DOMAIN s : s[i].name = "t"} = {2}
  BY <1>1
<1>3. (CHOOSE i \in {1} : \A j \in {1} : j <= i) = 1 OBVIOUS
<1>4. (CHOOSE i \in {2} : \A j \in {2} : j <= i) = 2 OBVIOUS
<1>5. Password!Value(s, "m") = x
  BY <1>1, <1>2, <1>3, Zenon DEF Password!Value
<1>6. Password!Value(s, "t") = y
  BY <1>1, <1>2, <1>4, Zenon DEF Password!Value
<1> QED BY <1>5, <1>6 DEF s

(* A row as stored verifies the password it was made with, and no other.   *)
LEMMA StoredRowVerifies ==
  ASSUME NEW password, NEW p, NEW j, NEW cost, IsCost(cost)
  PROVE  Password!Verified(p, RowOf(password, j, cost)) <=> p = password
<1> DEFINE row == RowOf(password, j, cost)
           salt == Salt(j)
           hash == HashOf(password, j, cost)
<1>1. /\ row.head = "argon2id" /\ row.version = "v=19"
      /\ row.tail = <<Password!Hex(salt), Password!Hex(hash)>>
      /\ row.settings = <<Password!Setting("m", cost.memory), Password!Setting("t", cost.passes),
                          Password!Setting("p", 1)>>
  BY DEF RowOf
<1>2. /\ salt.len = 16 /\ hash.len = 32
      /\ hash = Password!Argon2id(password, salt, cost.memory, cost.passes)
  BY DEF Salt, HashOf, Password!Argon2id, Password!HashLen
<1> HIDE DEF row, salt, hash
<1>3. Password!Value(row.settings, "m") = cost.memory /\ Password!Value(row.settings, "t") = cost.passes
  BY <1>1, ValuesAre
<1>4. /\ Password!Unhex(row.tail[1]) = salt /\ Password!Unhex(row.tail[2]) = hash
      /\ row.tail[1].kind = "hex" /\ row.tail[2].kind = "hex" /\ Len(row.tail) = 2
  BY <1>1 DEF Password!Unhex, Password!Hex
<1>5. Password!Unhexes(row.tail[1]) /\ Password!Unhexes(row.tail[2])
  BY <1>2, <1>4 DEF Password!Unhexes, Password!Unhex
<1>6. /\ row.settings # <<>>
      /\ \A i \in DOMAIN row.settings :
           /\ row.settings[i].name \in {"m", "t", "p"}
           /\ row.settings[i].name = "p" => row.settings[i].value = 1
  BY <1>1 DEF Password!Setting
<1>7. Password!Parses(row)
  BY <1>1, <1>2, <1>4, <1>5, <1>6 DEF Password!Parses
<1>8. ~Password!Refuses(salt, cost.memory, cost.passes)
  BY <1>2 DEF IsCost, Password!Refuses, Password!MinMemory
<1>9. Password!Verified(p, row) <=> hash = Password!Argon2id(p, salt, cost.memory, cost.passes)
  BY <1>3, <1>4, <1>7, <1>8 DEF Password!Verified
<1>10. Password!Argon2id(password, salt, cost.memory, cost.passes)
         = Password!Argon2id(p, salt, cost.memory, cost.passes) <=> p = password
  BY DEF Password!Argon2id
<1> QED BY <1>2, <1>9, <1>10 DEF row

(* What verifies restates a row that was stored.                           *)
Restates(rows, row, p) ==
  \E j \in DOMAIN rows :
    /\ p = rows[j].password
    /\ Password!Unhex(row.tail[1]) = Salt(j)
    /\ Password!Value(row.settings, "m") = rows[j].cost.memory
    /\ Password!Value(row.settings, "t") = rows[j].cost.passes

(* Only a row that was stored, or one edited from its parts, verifies.     *)
LEMMA VerifiedRestates ==
  ASSUME NEW rows, NEW row, NEW p, row.tail \in Seq(Parts(rows)), Password!Verified(p, row)
  PROVE  Restates(rows, row, p)
<1> DEFINE part == row.tail[2]
           salt == Password!Unhex(row.tail[1])
           memory == Password!Value(row.settings, "m")
           passes == Password!Value(row.settings, "t")
<1>1. /\ Len(row.tail) = 2 /\ part.kind = "hex"
      /\ part.bytes = Password!Argon2id(p, salt, memory, passes)
  BY DEF Password!Verified, Password!Parses, Password!Unhexes, Password!Unhex
<1>2. part \in Parts(rows)
  BY <1>1
<1> HIDE DEF part, salt, memory, passes
<1>3. part.bytes.len = 32 /\ part.bytes.of = <<p, salt, memory, passes>>
  BY <1>1 DEF Password!Argon2id, Password!HashLen
<1>4. part # [kind |-> "text"]
  BY <1>1
<1>5. ASSUME NEW j \in DOMAIN rows PROVE part # Password!Hex(Salt(j))
  BY <1>3 DEF Password!Hex, Salt
<1>6. ASSUME NEW k \in Nat PROVE part # Password!Hex([len |-> k, of |-> <<"noise">>])
  BY <1>3 DEF Password!Hex
<1>7. PICK j \in DOMAIN rows : part = Password!Hex(HashOf(rows[j].password, j, rows[j].cost))
  BY <1>2, <1>4, <1>5, <1>6, Zenon DEF Parts
<1>8. part.bytes.of = <<rows[j].password, Salt(j), rows[j].cost.memory, rows[j].cost.passes>>
  BY <1>7 DEF Password!Hex, HashOf, Password!Argon2id
<1>9. /\ p = rows[j].password /\ salt = Salt(j)
      /\ memory = rows[j].cost.memory /\ passes = rows[j].cost.passes
  BY <1>3, <1>8
<1> QED BY <1>9 DEF salt, memory, passes, Restates

(* Rows that are added or edited leave the parts there were.               *)
LEMMA PartsGrow ==
  ASSUME NEW r, NEW t, DOMAIN r \subseteq DOMAIN t,
         \A j \in DOMAIN r : t[j].password = r[j].password /\ t[j].cost = r[j].cost
  PROVE  Parts(r) \subseteq Parts(t)
<1>1. ASSUME NEW j \in DOMAIN r
      PROVE  /\ Password!Hex(Salt(j)) \in Parts(t)
             /\ Password!Hex(HashOf(r[j].password, j, r[j].cost)) \in Parts(t)
  BY Zenon DEF Parts
<1>2. ASSUME NEW k \in Nat PROVE Password!Hex([len |-> k, of |-> <<"noise">>]) \in Parts(t)
  BY Zenon DEF Parts
<1>3. [kind |-> "text"] \in Parts(t)
  BY Zenon DEF Parts
<1>4. ASSUME NEW x \in Parts(r) PROVE x \in Parts(t)
  <2>1. \/ \E j \in DOMAIN r : x = Password!Hex(Salt(j))
        \/ \E j \in DOMAIN r : x = Password!Hex(HashOf(r[j].password, j, r[j].cost))
        \/ \E k \in Nat : x = Password!Hex([len |-> k, of |-> <<"noise">>])
        \/ x = [kind |-> "text"]
    BY Zenon DEF Parts
  <2> QED BY <2>1, <1>1, <1>2, <1>3
<1> QED BY <1>4

(* More parts to choose from.                                              *)
LEMMA KeptStill ==
  ASSUME NEW r, NEW j, NEW A, NEW B, A \subseteq B, KeptRow(r, j, A)
  PROVE  KeptRow(r, j, B)
<1>1. r.row.tail \in Seq(A) BY DEF KeptRow
<1>2. r.row.tail \in Seq(B)
  <2> DEFINE t == r.row.tail
  <2>1. t \in Seq(A) BY <1>1
  <2> HIDE DEF t
  <2>2. t \in Seq(B) BY <2>1, SMT
  <2> QED BY <2>2 DEF t
<1> QED BY <1>2, Zenon DEF KeptRow

(* hash_password's row is kept as such.                                    *)
LEMMA RowAdded ==
  ASSUME NEW rows, AllKept(rows), NEW password, NEW cost, IsCost(cost)
  PROVE  AllKept(Append(rows, [password |-> password, row |-> RowOf(password, Len(rows) + 1, cost),
                               cost |-> cost, edited |-> FALSE]))
<1> DEFINE k == Len(rows) + 1
           x == [password |-> password, row |-> RowOf(password, k, cost), cost |-> cost, edited |-> FALSE]
           t == Append(rows, x)
<1>1. PICK S : rows \in Seq(S) BY DEF AllKept
<1>2. /\ x.password = password /\ x.row = RowOf(password, k, cost) /\ x.cost = cost /\ x.edited = FALSE
      /\ x = [password |-> x.password, row |-> x.row, cost |-> x.cost, edited |-> x.edited]
  OBVIOUS
<1>3. /\ k \in Nat /\ k >= 1 /\ DOMAIN rows = 1..(k - 1)
  BY <1>1, LenProperties
<1> HIDE DEF x, k
<1>4. /\ t \in Seq(S \cup {x}) /\ DOMAIN t = 1..k /\ t[k] = x
      /\ \A j \in 1..(k - 1) : t[j] = rows[j]
  <2>1. rows \in Seq(S \cup {x}) /\ x \in S \cup {x} BY <1>1
  <2> DEFINE T == S \cup {x}
  <2>2. rows \in Seq(T) /\ x \in T BY <2>1
  <2> HIDE DEF T
  <2>3. t \in Seq(T) /\ Len(t) = Len(rows) + 1 /\ t[Len(rows) + 1] = x
        /\ \A j \in 1..Len(rows) : t[j] = rows[j]
    BY <2>2
  <2>4. DOMAIN t = 1..Len(t) BY <2>3
  <2>5. t \in Seq(S \cup {x}) BY <2>3 DEF T
  <2> QED BY <2>3, <2>4, <2>5, <1>3 DEF k
<1> HIDE DEF t
<1>5. /\ DOMAIN rows \subseteq DOMAIN t
      /\ \A j \in DOMAIN rows : t[j] = rows[j]
  BY <1>3, <1>4
<1>6. Parts(rows) \subseteq Parts(t)
  BY <1>5, PartsGrow
<1>7. ASSUME NEW j \in DOMAIN rows PROVE KeptRow(t[j], j, Parts(t))
  <2>1. KeptRow(rows[j], j, Parts(rows)) BY DEF AllKept
  <2> QED BY <2>1, <1>5, <1>6, KeptStill
<1>8. KeptRow(x, k, Parts(t))
  <2> DEFINE row == RowOf(password, k, cost)
             a == Password!Hex(Salt(k))
             b == Password!Hex(HashOf(password, k, cost))
  <2>1. /\ row = [head |-> row.head, version |-> row.version, settings |-> row.settings, tail |-> row.tail]
        /\ row.tail = <<a, b>>
    BY DEF RowOf
  <2>2. k \in DOMAIN t /\ t[k].password = password /\ t[k].cost = cost
    BY <1>2, <1>3, <1>4
  <2>3. a \in Parts(t) /\ b \in Parts(t)
    BY <2>2, Zenon DEF Parts
  <2> HIDE DEF a, b, row
  <2>4. row.tail \in Seq(Parts(t))
    BY <2>1, <2>3
  <2> QED BY <1>2, <2>1, <2>4 DEF KeptRow, row
<1>9. ASSUME NEW j \in DOMAIN t PROVE KeptRow(t[j], j, Parts(t))
  <2>1. j \in DOMAIN rows \/ j = k BY <1>3, <1>4
  <2> QED BY <2>1, <1>7, <1>8, <1>4
<1>10. AllKept(t)
  BY <1>4, <1>9 DEF AllKept
<1> QED BY <1>10 DEF t, x, k

(* Another row in the place of one, and that it is another.                *)
LEMMA RowReplaced ==
  ASSUME NEW r, NEW x,
         r = [password |-> r.password, row |-> r.row, cost |-> r.cost, edited |-> r.edited]
  PROVE  [[r EXCEPT !.row = x] EXCEPT !.edited = TRUE]
           = [password |-> r.password, row |-> x, cost |-> r.cost, edited |-> TRUE]
<1> DEFINE e == [r EXCEPT !.row = x]
           f == [e EXCEPT !.edited = TRUE]
           fields == {"password", "row", "cost", "edited"}
<1>1. DOMAIN r = fields OBVIOUS
<1>2. DOMAIN e = fields /\ e["row"] = x /\ \A i \in fields : i # "row" => e[i] = r[i]
  BY <1>1
<1> HIDE DEF e
<1>3. DOMAIN f = fields /\ f["edited"] = TRUE /\ \A i \in fields : i # "edited" => f[i] = e[i]
  BY <1>2
<1>4. f = [i \in fields |-> f[i]]
  <2>1. f = [i \in DOMAIN f |-> f[i]] BY <1>2
  <2> HIDE DEF f
  <2> QED BY <2>1, <1>3
<1> HIDE DEF f
<1>5. /\ f.password = r.password /\ f.row = x /\ f.cost = r.cost /\ f.edited = TRUE
  BY <1>2, <1>3
<1>6. f = [password |-> f.password, row |-> f.row, cost |-> f.cost, edited |-> f.edited]
  BY <1>3, <1>4
<1> QED BY <1>5, <1>6 DEF e, f

(* An edited row is made of the parts there are.                           *)
LEMMA RowEdited ==
  ASSUME NEW rows, AllKept(rows), NEW i \in DOMAIN rows, NEW row, row.tail \in Seq(Parts(rows)),
         row = [head |-> row.head, version |-> row.version,
                settings |-> row.settings, tail |-> row.tail]
  PROVE  /\ AllKept([rows EXCEPT ![i].row = row, ![i].edited = TRUE])
         /\ DOMAIN [rows EXCEPT ![i].row = row, ![i].edited = TRUE] = DOMAIN rows
<1> DEFINE t == [rows EXCEPT ![i].row = row, ![i].edited = TRUE]
           r == rows[i]
           x == [password |-> r.password, row |-> row, cost |-> r.cost, edited |-> TRUE]
<1>1. PICK S : rows \in Seq(S) BY DEF AllKept
<1>2. KeptRow(r, i, Parts(rows)) BY DEF AllKept
<1>3. r = [password |-> r.password, row |-> r.row, cost |-> r.cost, edited |-> r.edited]
  BY <1>2 DEF KeptRow
<1>4. [r EXCEPT !.row = row, !.edited = TRUE] = x
  <2> HIDE DEF r
  <2>1. [[r EXCEPT !.row = row] EXCEPT !.edited = TRUE]
           = [password |-> r.password, row |-> row, cost |-> r.cost, edited |-> TRUE]
    BY <1>3, RowReplaced, Zenon
  <2> QED BY <2>1, Zenon
<1>5. t = [rows EXCEPT ![i] = [r EXCEPT !.row = row, !.edited = TRUE]]
  OBVIOUS
<1>6. t = [rows EXCEPT ![i] = x]
  BY <1>4, <1>5
<1>7. /\ x.password = r.password /\ x.row = row /\ x.cost = r.cost /\ x.edited = TRUE
      /\ x = [password |-> x.password, row |-> x.row, cost |-> x.cost, edited |-> x.edited]
  OBVIOUS
<1> HIDE DEF t, x, r
<1>8. DOMAIN t = DOMAIN rows /\ t[i] = x /\ \A j \in DOMAIN rows : j # i => t[j] = rows[j]
  BY <1>6
<1>9. t \in Seq(S \cup {x})
  <2> DEFINE T == S \cup {x}
  <2>1. rows \in Seq(T) /\ x \in T BY <1>1
  <2> HIDE DEF T
  <2>2. t \in Seq(T) BY <2>1, <1>6
  <2> QED BY <2>2 DEF T
<1>10. \A j \in DOMAIN rows : t[j].password = rows[j].password /\ t[j].cost = rows[j].cost
  BY <1>7, <1>8 DEF r
<1>11. Parts(rows) \subseteq Parts(t)
  BY <1>8, <1>10, PartsGrow
<1>12. ASSUME NEW j \in DOMAIN rows, j # i PROVE KeptRow(t[j], j, Parts(t))
  <2>1. KeptRow(rows[j], j, Parts(rows)) BY DEF AllKept
  <2> QED BY <2>1, <1>8, <1>11, <1>12, KeptStill
<1>13. KeptRow(x, i, Parts(rows))
  BY <1>2, <1>7 DEF KeptRow
<1>14. KeptRow(t[i], i, Parts(t))
  BY <1>8, <1>11, <1>13, KeptStill
<1>15. AllKept(t)
  BY <1>8, <1>9, <1>12, <1>14 DEF AllKept
<1> QED BY <1>8, <1>15 DEF t

(* How the end of a row is edited.                                         *)
LEMMA EditedTailIs ==
  ASSUME NEW u, NEW others, NEW P, others \subseteq P, [kind |-> "text"] \in P,
         \A m \in Nat : Password!Hex([len |-> m, of |-> <<"noise">>]) \in P,
         NEW t, t \in Password!EditedTails(u, others)
  PROVE  \/ \E m \in DOMAIN u : t = Password!RemoveAt(u, m)
         \/ \E m \in DOMAIN u : t = Append(u, u[m])
         \/ \E m \in DOMAIN u, part \in P : t = Password!ReplaceAt(u, m, part)
<1> DEFINE new == Password!Noise \cup { [kind |-> "text"] } \cup others
<1>1. \A m \in {0, 4, Password!SaltLen, Password!HashLen} : m \in Nat
  BY DEF Password!SaltLen, Password!HashLen
<1>2. Password!Noise \subseteq P
  <2>1. ASSUME NEW m \in {0, 4, Password!SaltLen, Password!HashLen}
        PROVE  Password!Hex([len |-> m, of |-> <<"noise">>]) \in P
    <3>1. m \in Nat BY <1>1
    <3> QED BY <3>1, Zenon
  <2> QED BY <2>1, Zenon DEF Password!Noise
<1>3. new \subseteq P
  <2> QED BY <1>2
<1>4. \/ \E m \in DOMAIN u : t = Password!RemoveAt(u, m)
      \/ \E m \in DOMAIN u : t = Append(u, u[m])
      \/ \E m \in DOMAIN u, part \in new : t = Password!ReplaceAt(u, m, part)
  BY DEF Password!EditedTails
<1> HIDE DEF new
<1> QED BY <1>3, <1>4

(* The parts taken from the rows.                                          *)
LEMMA OthersAre ==
  ASSUME AllKept(s2), NEW i \in DOMAIN s2, NEW t, t \in Password!EditedTails(s2[i].row.tail,
           UNION { Password!ToSet(s2[j].row.tail) : j \in DOMAIN s2 \ {i} })
  PROVE  t \in Seq(Parts(s2))
<1> DEFINE P == Parts(s2)
           u == s2[i].row.tail
           others == UNION { Password!ToSet(s2[j].row.tail) : j \in DOMAIN s2 \ {i} }
<1>1. \A j \in DOMAIN s2 : s2[j].row.tail \in Seq(P)
  BY DEF AllKept, KeptRow
<1>2. others \subseteq P
  <2>1. ASSUME NEW j \in DOMAIN s2, NEW k \in DOMAIN s2[j].row.tail PROVE s2[j].row.tail[k] \in P
    <3> DEFINE v == s2[j].row.tail
    <3>1. v \in Seq(P) BY <1>1
    <3> HIDE DEF v, P
    <3>2. \A m \in DOMAIN v : v[m] \in P BY <3>1
    <3> QED BY <3>2 DEF v
  <2>2. ASSUME NEW x \in others PROVE x \in P
    <3>1. PICK j \in DOMAIN s2 \ {i} : x \in Password!ToSet(s2[j].row.tail) BY Zenon
    <3>2. PICK k \in DOMAIN s2[j].row.tail : x = s2[j].row.tail[k] BY <3>1, Zenon DEF Password!ToSet
    <3> QED BY <2>1, <3>2, Zenon
  <2> QED BY <2>2, Zenon
<1>3. [kind |-> "text"] \in P
  BY Zenon DEF Parts
<1>4. \A m \in Nat : Password!Hex([len |-> m, of |-> <<"noise">>]) \in P
  BY Zenon DEF Parts
<1>5. u \in Seq(P) BY <1>1
<1> HIDE DEF P, u, others
<1>6. \/ \E m \in DOMAIN u : t = Password!RemoveAt(u, m)
      \/ \E m \in DOMAIN u : t = Append(u, u[m])
      \/ \E m \in DOMAIN u, part \in P : t = Password!ReplaceAt(u, m, part)
  <2>1. t \in Password!EditedTails(u, others) BY DEF u, others
  <2> QED BY <2>1, <1>2, <1>3, <1>4, EditedTailIs
<1>7. ASSUME NEW m \in DOMAIN u PROVE Password!RemoveAt(u, m) \in Seq(P)
  <2>1. m \in 1..Len(u) /\ Len(u) \in Nat BY <1>5
  <2>2. SubSeq(u, 1, m - 1) \in Seq(P) /\ SubSeq(u, m + 1, Len(u)) \in Seq(P) BY <1>5, <2>1
  <2> QED BY <2>2 DEF Password!RemoveAt
<1>8. ASSUME NEW m \in DOMAIN u PROVE Append(u, u[m]) \in Seq(P) BY <1>5
<1>9. ASSUME NEW m \in DOMAIN u, NEW part \in P PROVE Password!ReplaceAt(u, m, part) \in Seq(P)
  BY <1>5 DEF Password!ReplaceAt
<1>10. t \in Seq(P) BY <1>6, <1>7, <1>8, <1>9
<1> QED BY <1>10 DEF P

(* An edit of row i leaves a row of those parts.                           *)
LEMMA EditsAre ==
  ASSUME AllKept(s2), NEW i \in DOMAIN s2, NEW row, row \in Password!Edits(i)
  PROVE  /\ row.tail \in Seq(Parts(s2))
         /\ row = [head |-> row.head, version |-> row.version,
                   settings |-> row.settings, tail |-> row.tail]
<1> DEFINE u == s2[i].row
           others == UNION { Password!ToSet(s2[j].row.tail) : j \in DOMAIN s2 \ {i} }
<1>1. /\ u = [head |-> u.head, version |-> u.version, settings |-> u.settings, tail |-> u.tail]
      /\ u.tail \in Seq(Parts(s2))
  BY DEF AllKept, KeptRow
<1>2. \/ row = [u EXCEPT !.head = "bcrypt"]
      \/ row = [u EXCEPT !.version = "v=16"]
      \/ \E s \in Password!EditedSettings(u.settings) : row = [u EXCEPT !.settings = s]
      \/ \E t \in Password!EditedTails(u.tail, others) : row = [u EXCEPT !.tail = t]
  BY DEF Password!Edits
<1>3. \A t \in Password!EditedTails(u.tail, others) : t \in Seq(Parts(s2))
  BY OthersAre
<1> HIDE DEF u, others
<1> DEFINE fields == {"head", "version", "settings", "tail"}
<1>4. DOMAIN u = fields BY <1>1
<1>5. DOMAIN row = fields /\ row = [x \in DOMAIN row |-> row[x]]
  BY <1>2, <1>4
<1>6. row.tail \in Seq(Parts(s2))
  <2>1. CASE row = [u EXCEPT !.head = "bcrypt"] BY <1>1, <1>4, <2>1
  <2>2. CASE row = [u EXCEPT !.version = "v=16"] BY <1>1, <1>4, <2>2
  <2>3. CASE \E s \in Password!EditedSettings(u.settings) : row = [u EXCEPT !.settings = s]
    BY <1>1, <1>4, <2>3
  <2>4. CASE \E t \in Password!EditedTails(u.tail, others) : row = [u EXCEPT !.tail = t]
    BY <1>3, <1>4, <2>4
  <2> QED BY <1>2, <2>1, <2>2, <2>3, <2>4
<1>7. row = [head |-> row.head, version |-> row.version, settings |-> row.settings, tail |-> row.tail]
  BY <1>5
<1> QED BY <1>6, <1>7

(* At the start there are no rows, no vaults and no answer.                *)
LEMMA PasswordInit == SecretsInit => PasswordInv
<1> SUFFICES ASSUME SecretsInit, unit = "password"
             PROVE  /\ s1 \in DOMAIN Releases
                    /\ AllKept(s2) /\ (\A v \in s4 : KeptVault(v)) /\ AnswerTells
  BY DEF PasswordInv
<1>1. Password!Init BY Zenon DEF SecretsInit
<1>2. s1 = 1 /\ s2 = <<>> /\ s4 = {} /\ s5 = NoResult BY <1>1 DEF Password!Init
<1>3. DOMAIN Releases = 1..Len(Releases) /\ Len(Releases) \in Nat /\ Len(Releases) # 0
  BY ReleasesAssumption, LenProperties
<1>4. s1 \in DOMAIN Releases BY <1>2, <1>3
<1>5. s2 \in Seq({}) /\ DOMAIN s2 = {} BY <1>2
<1> QED BY <1>2, <1>4, <1>5 DEF AllKept, AnswerTells

(* Every step keeps it.                                                    *)
LEMMA PasswordStep == PasswordInv /\ [SecretsNext]_bench => PasswordInv'
<1> DEFINE Good == /\ s1 \in DOMAIN Releases
                   /\ AllKept(s2) /\ (\A v \in s4 : KeptVault(v)) /\ AnswerTells
<1> SUFFICES ASSUME PasswordInv, [SecretsNext]_bench, unit' = "password" PROVE Good'
  BY DEF PasswordInv
<1>1. unit = "password"
  BY DEF SecretsNext, RestUntouched, bench
<1>2. Good BY <1>1 DEF PasswordInv
<1>3. Password!Next \/ UNCHANGED <<s1, s2, s3, s4, s5>>
  <2>1. ASSUME SecretsNext PROVE Password!Next
    BY <1>1, <2>1 DEF SecretsNext, RandStep
  <2>2. ASSUME UNCHANGED bench PROVE UNCHANGED <<s1, s2, s3, s4, s5>>
    BY <2>2 DEF bench, slots
  <2> QED BY <2>1, <2>2
<1>4. CASE UNCHANGED <<s1, s2, s3, s4, s5>>
  BY <1>2, <1>4 DEF AnswerTells, Password!FromPassword
<1>5. ASSUME NEW p \in Guesses, Password!HashPassword(p) PROVE Good'
  <2>1. /\ s5 = NoResult /\ s5' = s5 /\ s1' = s1 /\ s4' = s4
        /\ s2' = Append(s2, [password |-> p, row |-> RowOf(p, Len(s2) + 1, Releases[s1]),
                             cost |-> Releases[s1], edited |-> FALSE])
    BY <1>5, RowIs, Zenon DEF Password!HashPassword
  <2>2. IsCost(Releases[s1]) BY <1>2, ReleaseIsCost
  <2>3. AllKept(s2') BY <1>2, <2>1, <2>2, RowAdded
  <2> QED BY <1>2, <2>1, <2>3 DEF AnswerTells
<1>6. CASE Password!HashWithoutRandomness
  <2>1. UNCHANGED <<s1, s2, s4>> /\ s5'.op = "hash"
    BY <1>6 DEF Password!HashWithoutRandomness
  <2> QED BY <1>2, <2>1 DEF AnswerTells
<1>7. CASE Password!Upgrade
  <2>1. s5 = NoResult /\ s5' = s5 /\ s2' = s2 /\ s4' = s4 /\ s1' = s1 + 1 /\ s1 < Len(Releases)
    BY <1>7 DEF Password!Upgrade
  <2>2. DOMAIN Releases = 1..Len(Releases) /\ Len(Releases) \in Nat
    BY ReleasesAssumption, LenProperties
  <2>3. s1' \in DOMAIN Releases BY <1>2, <2>1, <2>2
  <2> QED BY <1>2, <2>1, <2>3 DEF AnswerTells
<1>8. ASSUME NEW p \in Guesses, Password!SealVault(p) PROVE Good'
  <2>1. /\ s5 = NoResult /\ s5' = s5 /\ s1' = s1 /\ s2' = s2
        /\ s4' = { [password |-> p, cost |-> Releases[s1],
                    key |-> Password!FromPassword(p, Password!VaultSalt)] }
    BY <1>8, Zenon DEF Password!SealVault
  <2>2. IsCost(Releases[s1]) BY <1>2, ReleaseIsCost
  <2>3. \A v \in s4' : KeptVault(v)
    BY <2>1, <2>2 DEF KeptVault, Password!FromPassword
  <2> QED BY <1>2, <2>1, <2>3 DEF AnswerTells
<1>9. ASSUME NEW p \in Guesses, NEW v \in s4, Password!OpenVault(p, v) PROVE Good'
  <2> DEFINE same == Password!FromPassword(p, Password!VaultSalt) = v.key
  <2>1. /\ UNCHANGED <<s1, s2, s4>>
        /\ s5' = [op |-> "open", password |-> p, vault |-> v, result |-> same]
    BY <1>9, Zenon DEF Password!OpenVault
  <2>2. s5'.op = "open" /\ s5'.password = p /\ s5'.vault = v /\ s5'.result = same
    <3> HIDE DEF same
    <3> QED BY <2>1
  <2>3. AnswerTells'
    BY <2>1, <2>2 DEF AnswerTells, Password!FromPassword
  <2> QED BY <1>2, <2>1, <2>3
<1>10. ASSUME NEW i \in DOMAIN s2, NEW row \in Password!Edits(i), Password!Edit(i, row) PROVE Good'
  <2>1. /\ s5 = NoResult /\ s5' = s5 /\ s1' = s1 /\ s4' = s4
        /\ s2' = [s2 EXCEPT ![i].row = row, ![i].edited = TRUE]
    BY <1>10 DEF Password!Edit
  <2>2. /\ row.tail \in Seq(Parts(s2))
        /\ row = [head |-> row.head, version |-> row.version,
                  settings |-> row.settings, tail |-> row.tail]
    BY <1>2, EditsAre
  <2>3. AllKept([s2 EXCEPT ![i].row = row, ![i].edited = TRUE])
    BY <1>2, <2>2, RowEdited, Zenon
  <2>4. AllKept(s2') BY <2>1, <2>3, Zenon
  <2> QED BY <1>2, <2>1, <2>4 DEF AnswerTells
<1>11. ASSUME NEW p \in Guesses, NEW i \in DOMAIN s2, Password!VerifyPassword(p, i) PROVE Good'
  <2> DEFINE verdict == Password!Verified(p, s2[i].row)
  <2>1. /\ UNCHANGED <<s1, s2, s4>>
        /\ s5' = [op |-> "verify", password |-> p, row |-> i, result |-> verdict]
    BY <1>11, Zenon DEF Password!VerifyPassword
  <2>2. s5'.op = "verify" /\ s5'.password = p /\ s5'.row = i /\ s5'.result = verdict
    <3> HIDE DEF verdict
    <3> QED BY <2>1
  <2>3. AnswerTells'
    BY <2>1, <2>2 DEF AnswerTells
  <2> QED BY <1>2, <2>1, <2>3
<1> HIDE DEF Good
<1> QED BY <1>3, <1>4, <1>5, <1>6, <1>7, <1>8, <1>9, <1>10, <1>11 DEF Password!Next

(* The password hash's three properties.                                   *)
LEMMA PasswordsStable ==
  ASSUME PasswordInv, unit = "password"
  PROVE  /\ Password!StoredRowsKeepVerifying
         /\ Password!EditsOnlyRestate /\ Password!VaultsFollowDefaults
<1>1. s1 \in DOMAIN Releases /\ AllKept(s2) /\ (\A v \in s4 : KeptVault(v)) /\ AnswerTells
  BY DEF PasswordInv
<1>2. ASSUME s5 # NoResult, s5.op = "verify", ~s2[s5.row].edited
      PROVE  s5.result <=> s5.password = s2[s5.row].password
  <2> DEFINE j == s5.row
             r == s2[j]
  <2>1. j \in DOMAIN s2 /\ s5.result = Password!Verified(s5.password, r.row)
    BY <1>1, <1>2 DEF AnswerTells
  <2>2. KeptRow(r, j, Parts(s2)) BY <1>1, <2>1 DEF AllKept
  <2>3. IsCost(r.cost) /\ r.row = RowOf(r.password, j, r.cost) BY <1>2, <2>2 DEF KeptRow
  <2> HIDE DEF j, r
  <2>4. Password!Verified(s5.password, r.row) <=> s5.password = r.password
    BY <2>3, StoredRowVerifies
  <2> QED BY <2>1, <2>4 DEF j, r
<1>3. ASSUME s5 # NoResult, s5.op = "verify", s5.result
      PROVE  \E j \in DOMAIN s2 :
               /\ s5.password = s2[j].password
               /\ Password!Unhex(s2[s5.row].row.tail[1]).of = <<"salt", j>>
               /\ Password!Value(s2[s5.row].row.settings, "m") = s2[j].cost.memory
               /\ Password!Value(s2[s5.row].row.settings, "t") = s2[j].cost.passes
  <2> DEFINE row == s2[s5.row].row
             rows == s2
             guess == s5.password
  <2>1. Password!Verified(guess, row)
    BY <1>1, <1>3 DEF AnswerTells
  <2>2. row.tail \in Seq(Parts(rows))
    BY <1>1, <1>3 DEF AnswerTells, AllKept, KeptRow
  <2> HIDE DEF row, rows, guess
  <2>3. Restates(rows, row, guess)
    BY <2>1, <2>2, VerifiedRestates
  <2>4. PICK j \in DOMAIN rows :
           /\ guess = rows[j].password
           /\ Password!Unhex(row.tail[1]) = Salt(j)
           /\ Password!Value(row.settings, "m") = rows[j].cost.memory
           /\ Password!Value(row.settings, "t") = rows[j].cost.passes
    BY <2>3, Zenon DEF Restates
  <2>5. Password!Unhex(row.tail[1]).of = <<"salt", j>> BY <2>4 DEF Salt
  <2> QED BY <2>4, <2>5 DEF row, rows, guess
<1>4. ASSUME s5 # NoResult, s5.op = "open"
      PROVE  s5.result <=> s5.password = s5.vault.password /\ s5.vault.cost = Releases[s1]
  <2> DEFINE v == s5.vault
             c == Releases[s1]
             d == v.cost
  <2>1. /\ s5.result = (Password!FromPassword(s5.password, Password!VaultSalt) = v.key)
        /\ IsCost(d)
        /\ v.key = Password!Argon2id(v.password, Password!VaultSalt, d.memory, d.passes)
    BY <1>1, <1>4 DEF AnswerTells, KeptVault
  <2>2. IsCost(c) BY <1>1, ReleaseIsCost
  <2>3. Password!FromPassword(s5.password, Password!VaultSalt)
          = Password!Argon2id(s5.password, Password!VaultSalt, c.memory, c.passes)
    BY DEF Password!FromPassword
  <2> HIDE DEF v, c, d
  <2>4. Password!Argon2id(s5.password, Password!VaultSalt, c.memory, c.passes)
          = Password!Argon2id(v.password, Password!VaultSalt, d.memory, d.passes)
        <=> s5.password = v.password /\ c.memory = d.memory /\ c.passes = d.passes
    BY DEF Password!Argon2id
  <2>5. c.memory = d.memory /\ c.passes = d.passes <=> d = c
    BY <2>1, <2>2 DEF IsCost
  <2> QED BY <2>1, <2>3, <2>4, <2>5 DEF v, c, d
<1>5. Password!StoredRowsKeepVerifying BY <1>2 DEF Password!StoredRowsKeepVerifying
<1>6. Password!EditsOnlyRestate BY <1>3 DEF Password!EditsOnlyRestate
<1>7. Password!VaultsFollowDefaults BY <1>4 DEF Password!VaultsFollowDefaults
<1> QED BY <1>5, <1>6, <1>7

-----------------------------------------------------------------------------
(* HKDF.  RFC 5869's blocks under an extracted key, for an info.           *)
KdfKey(salt)      == Kdf!Mac(salt, << <<"ikm">> >>)
KdfStep(k, x, prev, n) == Kdf!Mac(k, prev \o x \o << <<"counter", n>> >>)
IsChain(T, k, x) ==
  T = [n \in 0..(KdfSpan - 1) |-> IF n = 0 THEN <<>> ELSE KdfStep(k, x, T[n - 1], n)]

(* The first blocks of them.                                               *)
ChainTo(h, k, x, n) ==
  h = [m \in 0..n |-> IF m = 0 THEN <<>> ELSE KdfStep(k, x, h[m - 1], m)]

(* There is such a chain of every length.                                  *)
LEMMA ChainExists == ASSUME NEW k, NEW x, NEW n \in Nat PROVE \E h : ChainTo(h, k, x, n)
<1> DEFINE S == { m \in Nat : ~ \E h : ChainTo(h, k, x, m) }
<1>1. S = {}
  <2>1. SUFFICES ASSUME S # {} PROVE FALSE OBVIOUS
  <2>2. PICK m \in S : \A j \in S : m <= j
    <3>1. S \subseteq Nat OBVIOUS
    <3> HIDE DEF S
    <3> QED BY <2>1, <3>1, LeastOf
  <2>3. CASE m = 0
    <3> DEFINE h == [j \in 0..0 |-> <<>>]
    <3>1. h = [j \in 0..0 |-> IF j = 0 THEN <<>> ELSE KdfStep(k, x, h[j - 1], j)]
      OBVIOUS
    <3> HIDE DEF h
    <3>2. ChainTo(h, k, x, 0) BY <3>1 DEF ChainTo
    <3> QED BY <2>2, <2>3, <3>2
  <2>4. CASE m # 0
    <3> DEFINE l == m - 1
    <3>1. m \in Nat /\ l \in Nat /\ m = l + 1 /\ l \notin S BY <2>2, <2>4
    <3>2. PICK h : ChainTo(h, k, x, l) BY <3>1
    <3> HIDE DEF l
    <3> DEFINE g == [j \in 0..m |-> IF j <= l THEN h[j] ELSE KdfStep(k, x, h[l], m)]
    <3>3. g[0] = <<>>
      BY <3>1, <3>2 DEF ChainTo
    <3>4. ASSUME NEW j \in 1..m PROVE g[j] = KdfStep(k, x, g[j - 1], j)
      <4>1. CASE j <= l
        <5>1. j - 1 \in 0..l /\ j \in 0..l /\ j \in 0..m /\ j - 1 \in 0..m /\ j # 0
          BY <3>1, <4>1
        <5>2. g[j] = h[j] /\ g[j - 1] = h[j - 1] BY <4>1, <5>1
        <5> HIDE DEF g
        <5>3. h[j] = KdfStep(k, x, h[j - 1], j) BY <3>2, <5>1 DEF ChainTo
        <5> QED BY <5>2, <5>3
      <4>2. CASE ~(j <= l)
        <5>1. j = m /\ j - 1 = l /\ m \in 0..m /\ l \in 0..m /\ ~(m <= l) BY <3>1, <4>2
        <5>2. g[m] = KdfStep(k, x, h[l], m) BY <5>1
        <5>3. g[l] = h[l] BY <5>1, <3>1
        <5> HIDE DEF g
        <5> QED BY <5>1, <5>2, <5>3
      <4> QED BY <4>1, <4>2
    <3>5. g = [j \in 0..m |-> g[j]] OBVIOUS
    <3> HIDE DEF g
    <3>6. g = [j \in 0..m |-> IF j = 0 THEN <<>> ELSE KdfStep(k, x, g[j - 1], j)]
      <4>1. ASSUME NEW j \in 0..m
            PROVE  g[j] = IF j = 0 THEN <<>> ELSE KdfStep(k, x, g[j - 1], j)
        <5>1. j = 0 \/ j \in 1..m BY <3>1
        <5> QED BY <3>3, <3>4, <5>1
      <4> QED BY <3>5, <4>1
    <3> QED BY <2>2, <3>6 DEF ChainTo
  <2> QED BY <2>3, <2>4
<1> QED BY <1>1

(* A key of n bytes filled up to a block, or hashed when it is longer.     *)
LEMMA KeyIsFilled ==
  ASSUME NEW n \in Nat, NEW k, IsList(k, n), n <= KdfBlock
  PROVE  Kdf!KeyBlock(k) = k \o [i \in 1..(KdfBlock - Len(k)) |-> Kdf!Zero]
<1> DEFINE rest == [i \in 1..(KdfBlock - n) |-> Kdf!Zero]
           d == KdfBlock - n
<1>1. KdfBlock \in Nat /\ d \in Nat /\ n + d = KdfBlock BY KdfAssumption
<1>2. Len(k) = n BY ListIs
<1>3. IsList(rest, d) BY DEF IsList
<1>4. \A i \in 1..d : rest[i] = Kdf!Zero OBVIOUS
<1> HIDE DEF rest, d
<1>5. /\ k \o rest = [i \in 1..(n + d) |-> (k \o rest)[i]]
      /\ \A i \in 1..(n + d) : (k \o rest)[i] = IF i <= n THEN k[i] ELSE rest[i - n]
  <2>1. Joins(k, n, rest, d) BY <1>1, <1>3, JoinIs
  <2> QED BY <2>1, Zenon DEF Joins, IsList
<1>6. ASSUME NEW i \in 1..KdfBlock
      PROVE  (k \o rest)[i] = IF i <= n THEN k[i] ELSE Kdf!Zero
  <2>1. ~(i <= n) => i - n \in 1..d BY <1>1
  <2> QED BY <1>1, <1>4, <1>5, <2>1
<1>7. k \o rest = [i \in 1..KdfBlock |-> IF i <= n THEN k[i] ELSE Kdf!Zero]
  BY <1>1, <1>5, <1>6
<1>8. Kdf!KeyBlock(k) = [i \in 1..KdfBlock |-> IF i <= n THEN k[i] ELSE Kdf!Zero]
  BY <1>1, <1>2 DEF Kdf!KeyBlock
<1> QED BY <1>2, <1>7, <1>8 DEF rest, d

(* HMAC as it is defined and as the code pads it.                          *)
LEMMA MacIs ==
  ASSUME NEW k, NEW message
  PROVE  Kdf!RefMac(Kdf!KeyBlock(k), message) = Kdf!Mac(k, message)
<1> DEFINE b == Kdf!KeyBlock(k)
<1>1. DOMAIN b = 1..KdfBlock BY DEF Kdf!KeyBlock
<1> HIDE DEF b
<1>2. ASSUME NEW p PROVE [i \in DOMAIN b |-> <<p, b[i]>>] = [i \in 1..KdfBlock |-> <<p, b[i]>>]
  BY <1>1
<1>3. ASSUME NEW p PROVE [i \in DOMAIN b |-> <<p, b[i]>>] = Kdf!Padded(p, k)
  BY <1>2 DEF b, Kdf!Padded
<1>4. Kdf!RefMac(b, message) = Kdf!Mac(k, message)
  BY <1>3, Zenon DEF Kdf!RefMac, Kdf!Mac
<1> QED BY <1>4 DEF b

(* The bytes of a digest, and of what is made of digests.                  *)
LEMMA DigestIs ==
  ASSUME NEW message
  PROVE  /\ IsList(Kdf!Digest(message), KdfHash)
         /\ \A i \in 1..KdfHash : Kdf!Digest(message)[i] = <<"sha", message, i>>
BY DEF Kdf!Digest, IsList

(* And so there is one with as many blocks as the counter has numbers.     *)
LEMMA KdfChain == ASSUME NEW k, NEW x PROVE \E T : IsChain(T, k, x)
<1> DEFINE n == KdfSpan - 1
<1>1. n \in Nat BY KdfAssumption
<1> HIDE DEF n
<1>2. PICK h : ChainTo(h, k, x, n) BY <1>1, ChainExists
<1>3. IsChain(h, k, x) BY <1>2, Zenon DEF ChainTo, IsChain, n
<1> QED BY <1>3

(* What expand has made is the beginning of RFC 5869's output, b blocks of *)
(* it, the last one cut at the end of the buffer.                          *)
KdfAt(T, b) ==
  /\ s6 = (b + 1) % KdfSpan /\ s5 = T[b] /\ s8 # "false"
  /\ s7 <= KdfHash * b /\ (b = 0 \/ KdfHash * (b - 1) < s7)
  /\ Len(s3) <= KdfHash * (KdfSpan - 1)
  /\ s7 < Len(s3) => s7 = KdfHash * b
  /\ s8 = "true" => s7 = Len(s3)
  /\ \A i \in 1..s7 : s3[i] = T[((i - 1) \div KdfHash) + 1][((i - 1) % KdfHash) + 1]

(* Before expand has begun, or when it refused.                            *)
KdfIdle ==
  /\ s6 = 0 /\ s7 = 0 /\ s5 = <<>>
  /\ s8 = "" \/ (s8 = "false" /\ Len(s3) > KdfHash * (KdfSpan - 1))

(* The buffer up to what is written, and behind it.                        *)
KdfBuffer(n) ==
  /\ IsList(s3, n) /\ s7 \in 0..n
  /\ \A i \in (s7 + 1)..n : s3[i] = <<"before">>

KdfInv ==
  unit = "hkdf" =>
    /\ \E n \in Nat : IsList(s1, n)
    /\ \E n \in Nat : KdfBuffer(n)
    /\ s4 = <<>> \/ s4 = KdfKey(s1)
    /\ \/ KdfIdle
       \/ /\ s4 = KdfKey(s1)
          /\ \A T : IsChain(T, s4, s2) => \E b \in 0..(KdfSpan - 1) : KdfAt(T, b)

(* What the assumption says of the numbers.                                *)
LEMMA KdfNumbers ==
  /\ KdfHash \in Nat /\ KdfHash > 0 /\ KdfHash <= KdfBlock /\ KdfBlock \in Nat
  /\ KdfSpan \in Nat /\ KdfSpan > 1
BY KdfAssumption

(* The limit, in the order the invariant multiplies.                       *)
LEMMA LimitIs == Kdf!Limit = KdfHash * (KdfSpan - 1)
BY KdfNumbers DEF Kdf!Limit

(* An extracted key is not empty.                                          *)
LEMMA KeyNotEmpty == ASSUME NEW k PROVE KdfKey(k) # <<>>
<1>1. DOMAIN KdfKey(k) = 1..KdfHash
  BY DigestIs DEF KdfKey, Kdf!Mac, IsList
<1>2. 1 \in DOMAIN KdfKey(k) BY <1>1, KdfNumbers
<1> QED BY <1>2

(* At the start the buffer is the caller's.                                *)
LEMMA KdfInit == SecretsInit => KdfInv
<1> SUFFICES ASSUME SecretsInit, unit = "hkdf"
             PROVE  /\ \E n \in Nat : IsList(s1, n)
                    /\ \E n \in Nat : KdfBuffer(n)
                    /\ s4 = <<>> /\ KdfIdle
  BY DEF KdfInv
<1>1. Kdf!Init BY Zenon DEF SecretsInit
<1>2. PICK m \in KdfSaltLens : s1 = Kdf!Bytes("salt", m) BY <1>1, Zenon DEF Kdf!Init
<1>3. PICK n \in KdfOutputLens : s3 = Kdf!Before(n) BY <1>1, Zenon DEF Kdf!Init
<1>4. m \in Nat /\ n \in Nat BY KdfAssumption
<1>5. IsList(s1, m) BY <1>2 DEF Kdf!Bytes, IsList
<1>6. s7 = 0 BY <1>1, Zenon DEF Kdf!Init
<1>7. KdfBuffer(n) BY <1>3, <1>4, <1>6 DEF KdfBuffer, Kdf!Before, IsList
<1>8. s4 = <<>> /\ KdfIdle BY <1>1, Zenon DEF Kdf!Init, KdfIdle
<1> QED BY <1>4, <1>5, <1>7, <1>8

(* Where block b of the output is, and where its bytes are in the buffer.  *)
LEMMA BytesOfBlock ==
  ASSUME NEW b \in Nat, NEW i \in Nat, KdfHash * b < i, i <= KdfHash * b + KdfHash
  PROVE  (i - 1) \div KdfHash = b /\ (i - 1) % KdfHash = i - 1 - KdfHash * b
<1> DEFINE r == i - 1 - KdfHash * b
<1>1. KdfHash * b \in Nat BY KdfNumbers
<1>2. r \in 0..(KdfHash - 1) /\ i - 1 = KdfHash * b + r /\ i - 1 \in Int BY <1>1, KdfNumbers
<1> HIDE DEF r
<1>3. (i - 1) \div KdfHash = b /\ (i - 1) % KdfHash = r BY <1>2, KdfNumbers, QuotientIs
<1> QED BY <1>3 DEF r

(* A turn of expand's loop appends the next block, or its beginning.       *)
LEMMA BlockWritten ==
  ASSUME NEW n \in Nat, KdfBuffer(n), NEW T, IsChain(T, s4, s2), NEW b \in 0..(KdfSpan - 1),
         KdfAt(T, b), Kdf!ExpandBlock
  PROVE  KdfBuffer(n)' /\ \E c \in 0..(KdfSpan - 1) : KdfAt(T, c)'
<1> DEFINE H == KdfHash
           left == n - s7
           take == IF H < left THEN H ELSE left
           block == KdfStep(s4, s2, s5, s6)
<1>1. Len(s3) = n /\ DOMAIN s3 = 1..n BY ListIs DEF KdfBuffer
<1>2. /\ s7 \in 0..n /\ s7 < n
      /\ s3' = [i \in 1..n |-> IF i - s7 \in 1..take THEN block[i - s7] ELSE s3[i]]
      /\ s5' = block /\ s7' = s7 + take
      /\ s6' = (s6 + 1) % KdfSpan
      /\ s1' = s1 /\ s2' = s2 /\ s4' = s4
  BY <1>1, Zenon DEF Kdf!ExpandBlock, KdfBuffer, KdfStep, Kdf!input
<1>3. /\ s7 = H * b /\ s6 = (b + 1) % KdfSpan /\ s5 = T[b] /\ n <= H * (KdfSpan - 1)
      /\ \A i \in 1..s7 : s3[i] = T[((i - 1) \div H) + 1][((i - 1) % H) + 1]
  BY <1>1, <1>2 DEF KdfAt
<1>4. H \in Nat /\ H > 0 /\ KdfSpan \in Nat /\ KdfSpan > 1 /\ b \in Nat BY KdfNumbers
<1>5. b < KdfSpan - 1
  <2> DEFINE top == KdfSpan - 1
  <2>1. n \in Nat /\ s7 < n /\ n <= H * top /\ s7 = H * b /\ H \in Nat /\ top \in Int /\ b \in Nat
    BY <1>2, <1>3, <1>4
  <2> HIDE DEF H, top
  <2>2. H * b < H * top
    <3>1. H * b \in Int /\ H * top \in Int BY <2>1
    <3> QED BY <2>1, <3>1
  <2>3. b < top
    <3>1. CASE top <= b
      <4>1. H * top <= H * b BY <2>1, <3>1
      <4>2. H * b \in Int /\ H * top \in Int BY <2>1
      <4> QED BY <2>2, <4>1, <4>2
    <3> QED BY <2>1, <3>1
  <2> QED BY <2>3 DEF top
<1> DEFINE c == b + 1
<1>6. c \in 1..(KdfSpan - 1) /\ c \in Nat /\ c - 1 = b BY <1>4, <1>5
<1>7. s6 = c BY <1>3, <1>4, <1>6
<1>8. take \in 1..H /\ take <= left /\ (take = H \/ take = left) /\ left \in Nat
  BY <1>2, <1>4
<1>9. H * c = s7 + H BY <1>3, <1>4
<1>10. T[c] = block
  <2>1. c \in 0..(KdfSpan - 1) /\ c # 0 BY <1>6
  <2>2. T[c] = KdfStep(s4, s2, T[c - 1], c) BY <2>1, Zenon DEF IsChain
  <2> QED BY <1>3, <1>6, <1>7, <2>2
<1> HIDE DEF take, left, block, c, H
<1>11. s7' \in 0..n /\ s7' \in Nat /\ s7 \in Nat
  <2>1. s7 \in 0..n /\ s7' = s7 + take /\ take \in Nat /\ take <= n - s7
    BY <1>2, <1>4, <1>8 DEF left
  <2> QED BY <2>1
<1>12. ASSUME NEW i \in 1..s7'
       PROVE  s3'[i] = T[((i - 1) \div H) + 1][((i - 1) % H) + 1]
  <2>1. i \in 1..n /\ i \in Nat BY <1>11
  <2>2. CASE i <= s7
    <3>1. i - s7 \notin 1..take /\ i \in 1..s7 BY <1>8, <1>11, <2>1, <2>2
    <3>2. s3'[i] = s3[i] BY <1>2, <2>1, <3>1
    <3> QED BY <1>3, <3>1, <3>2
  <2>3. CASE ~(i <= s7)
    <3>1. i - s7 \in 1..take /\ H * b < i /\ i <= H * b + H
      BY <1>2, <1>3, <1>4, <1>8, <1>11, <2>1, <2>3
    <3>2. s3'[i] = block[i - s7] BY <1>2, <2>1, <3>1
    <3>3. (i - 1) \div H = b /\ (i - 1) % H = i - 1 - H * b
      BY <1>4, <2>1, <3>1, BytesOfBlock DEF H
    <3>4. ((i - 1) \div H) + 1 = c BY <3>3 DEF c
    <3>5. ((i - 1) % H) + 1 = i - s7 BY <1>3, <1>11, <2>1, <3>3
    <3> QED BY <1>10, <3>2, <3>4, <3>5
  <2> QED BY <2>2, <2>3
<1>13. KdfBuffer(n)'
  <2>1. IsList(s3', n) BY <1>2 DEF IsList
  <2>2. ASSUME NEW i \in (s7' + 1)..n PROVE s3'[i] = <<"before">>
    <3>1. i \in 1..n /\ i \in (s7 + 1)..n /\ i - s7 \notin 1..take
      BY <1>2, <1>8, <1>11
    <3>2. s3'[i] = s3[i] BY <1>2, <3>1
    <3> QED BY <3>1, <3>2 DEF KdfBuffer
  <2> QED BY <1>11, <2>1, <2>2 DEF KdfBuffer
<1>14. Len(s3') = n BY <1>13, ListIs DEF KdfBuffer
<1>15. s6' = (c + 1) % KdfSpan /\ s5' = T[c] BY <1>2, <1>7, <1>10
<1>16. s7' <= H * c /\ H * (c - 1) < s7'
  BY <1>2, <1>3, <1>4, <1>6, <1>8, <1>9, <1>11
<1>17. s7' < n => s7' = H * c
  BY <1>2, <1>8, <1>9, <1>11 DEF left
<1>18. s8' # "false" /\ (s8' = "true" => s7' = n)
  <2>1. s8' = IF s7' = n THEN "true" ELSE "" BY <1>1, Zenon DEF Kdf!ExpandBlock
  <2> QED BY <2>1, Zenon
<1>19. KdfAt(T, c)'
  BY <1>3, <1>12, <1>14, <1>15, <1>16, <1>17, <1>18 DEF KdfAt, H
<1>20. c \in 0..(KdfSpan - 1) BY <1>6
<1> QED BY <1>13, <1>19, <1>20

(* Every step keeps it.                                                    *)
LEMMA KdfStepKeeps == KdfInv /\ [SecretsNext]_bench => KdfInv'
<1> DEFINE Chained == \A T : IsChain(T, s4, s2) => \E b \in 0..(KdfSpan - 1) : KdfAt(T, b)
           Good == /\ \E n \in Nat : IsList(s1, n)
                   /\ \E n \in Nat : KdfBuffer(n)
                   /\ s4 = <<>> \/ s4 = KdfKey(s1)
                   /\ KdfIdle \/ (s4 = KdfKey(s1) /\ Chained)
<1> SUFFICES ASSUME KdfInv, [SecretsNext]_bench, unit' = "hkdf" PROVE Good'
  BY Zenon DEF KdfInv
<1>1. unit = "hkdf"
  BY Zenon DEF SecretsNext, RestUntouched, bench
<1>2. Good BY <1>1, Zenon DEF KdfInv
<1>3. Kdf!Next \/ UNCHANGED <<s1, s2, s3, s4, s5, s6, s7, s8>>
  <2>1. ASSUME SecretsNext PROVE Kdf!Next
    BY <1>1, <2>1 DEF SecretsNext, RandStep
  <2>2. ASSUME UNCHANGED bench PROVE UNCHANGED <<s1, s2, s3, s4, s5, s6, s7, s8>>
    BY <2>2 DEF bench, slots
  <2> QED BY <2>1, <2>2
<1>4. PICK n \in Nat : KdfBuffer(n) BY <1>2
<1>5. Len(s3) = n BY <1>4, ListIs DEF KdfBuffer
<1>6. CASE UNCHANGED <<s1, s2, s3, s4, s5, s6, s7, s8>>
  <2>1. s1' = s1 /\ s2' = s2 /\ s3' = s3 /\ s4' = s4 /\ s5' = s5 /\ s6' = s6 /\ s7' = s7 /\ s8' = s8
    BY <1>6
  <2>2. Chained => Chained'
    BY <2>1, Zenon DEF KdfAt
  <2>3. KdfIdle => KdfIdle' BY <2>1, Zenon DEF KdfIdle
  <2>4. KdfBuffer(n)' BY <1>4, <2>1, Zenon DEF KdfBuffer
  <2> HIDE DEF Chained
  <2> QED BY <1>2, <1>4, <2>1, <2>2, <2>3, <2>4, Zenon
<1>7. CASE Kdf!HkdfExtract
  <2>1. s4 = <<>> /\ s4' = KdfKey(s1)
    BY <1>7, Zenon DEF Kdf!HkdfExtract, KdfKey
  <2>2. s1' = s1 /\ s3' = s3 /\ s5' = s5 /\ s6' = s6 /\ s7' = s7 /\ s8' = s8
    BY <1>7, Zenon DEF Kdf!HkdfExtract, Kdf!input
  <2>3. KdfIdle BY <1>2, <2>1, KeyNotEmpty
  <2>4. KdfIdle' BY <2>2, <2>3, Zenon DEF KdfIdle
  <2>5. KdfBuffer(n)' BY <1>4, <2>2, Zenon DEF KdfBuffer
  <2> HIDE DEF Chained
  <2> QED BY <1>2, <1>4, <2>1, <2>2, <2>4, <2>5, Zenon
<1>8. CASE Kdf!ExpandRefuse
  <2>1. /\ s1' = s1 /\ s3' = s3 /\ s4' = s4 /\ s5' = s5 /\ s6' = s6 /\ s7' = s7
        /\ s6 = 0 /\ s7 = 0 /\ s8' = "false" /\ Len(s3) > Kdf!Limit
    BY <1>8, Zenon DEF Kdf!ExpandRefuse, Kdf!input
  <2>2. KdfIdle
    <3>1. CASE s4 = KdfKey(s1) /\ Chained
      <4>1. PICK T : IsChain(T, s4, s2) BY KdfChain
      <4>2. PICK b \in 0..(KdfSpan - 1) : KdfAt(T, b) BY <3>1, <4>1
      <4>3. Len(s3) <= KdfHash * (KdfSpan - 1) BY <4>2 DEF KdfAt
      <4>4. n > KdfHash * (KdfSpan - 1) /\ n <= KdfHash * (KdfSpan - 1)
        BY <1>5, <2>1, <4>3, LimitIs
      <4>5. KdfHash * (KdfSpan - 1) \in Int BY KdfNumbers
      <4> QED BY <4>4, <4>5
    <3> QED BY <1>2, <3>1
  <2>3. s5 = <<>> BY <2>2, Zenon DEF KdfIdle
  <2>4. KdfIdle' BY <2>1, <2>3, LimitIs, Zenon DEF KdfIdle
  <2>5. KdfBuffer(n)' BY <1>4, <2>1, Zenon DEF KdfBuffer
  <2> HIDE DEF Chained
  <2> QED BY <1>2, <1>4, <2>1, <2>4, <2>5, Zenon
<1>9. CASE Kdf!ExpandStart
  <2>1. /\ s1' = s1 /\ s2' = s2 /\ s3' = s3 /\ s4' = s4 /\ s5' = s5 /\ s7' = s7
        /\ s6 = 0 /\ s7 = 0 /\ s6' = 1 /\ s4 # <<>> /\ Len(s3) <= Kdf!Limit
    BY <1>9, Zenon DEF Kdf!ExpandStart, Kdf!input
  <2>2. /\ s8 = "" /\ (Len(s3) # 0 => s8' = s8) /\ (Len(s3) = 0 => s8' = "true")
    BY <1>9, Zenon DEF Kdf!ExpandStart
  <2>3. s4 = KdfKey(s1) BY <1>2, <2>1
  <2>4. s5 = <<>>
    <3>1. CASE s4 = KdfKey(s1) /\ Chained
      <4>1. PICK T : IsChain(T, s4, s2) BY KdfChain
      <4>2. PICK b \in 0..(KdfSpan - 1) : KdfAt(T, b) BY <3>1, <4>1
      <4>3. (b + 1) % KdfSpan = 0 BY <2>1, <4>2 DEF KdfAt
      <4>4. s7 = 0 /\ (b = 0 \/ KdfHash * (b - 1) < s7) BY <2>1, <4>2 DEF KdfAt
      <4>5. b = 0 \/ b = 1
        <5>1. CASE b >= 2
          <6>1. KdfHash * (b - 1) >= 0 BY <5>1, KdfNumbers
          <6>2. KdfHash * (b - 1) \in Int BY <5>1, KdfNumbers
          <6> QED BY <4>4, <5>1, <6>1, <6>2
        <5> QED BY <5>1, KdfNumbers
      <4>6. b # 0 BY <4>3, KdfNumbers
      <4>7. KdfHash * (b - 1) = 0 BY <4>5, <4>6, KdfNumbers
      <4>8. FALSE BY <4>4, <4>6, <4>7
      <4> QED BY <4>8
    <3>2. CASE KdfIdle BY <3>2, Zenon DEF KdfIdle
    <3> QED BY <1>2, <3>1, <3>2
  <2>5. ASSUME NEW T, IsChain(T, s4, s2)' PROVE KdfAt(T, 0)'
    <3>1. T[0] = <<>>
      <4>1. 0 \in 0..(KdfSpan - 1) BY KdfNumbers
      <4> QED BY <2>5, <4>1 DEF IsChain
    <3>2. s6' = (0 + 1) % KdfSpan
      BY <2>1, KdfNumbers
    <3>3. s7' <= KdfHash * 0 /\ s7' = KdfHash * 0 /\ s7' = 0
      BY <2>1, KdfNumbers
    <3>4. Len(s3') <= KdfHash * (KdfSpan - 1) BY <2>1, LimitIs
    <3>5. s8' # "false" /\ (s8' = "true" => s7' = Len(s3'))
      BY <2>1, <2>2, Zenon
    <3>6. \A i \in 1..s7' : FALSE BY <3>3
    <3> QED BY <2>1, <2>4, <3>1, <3>2, <3>3, <3>4, <3>5, <3>6, Zenon DEF KdfAt
  <2>6. 0 \in 0..(KdfSpan - 1) BY KdfNumbers
  <2>7. Chained' BY <2>5, <2>6, Zenon
  <2>8. KdfBuffer(n)' BY <1>4, <2>1, Zenon DEF KdfBuffer
  <2> HIDE DEF Chained
  <2> QED BY <1>2, <1>4, <2>1, <2>3, <2>7, <2>8, Zenon
<1>10. CASE Kdf!ExpandBlock
  <2>1. s1' = s1 /\ s2' = s2 /\ s4' = s4
    BY <1>10, Zenon DEF Kdf!ExpandBlock, Kdf!input
  <2>2. ~KdfIdle
    <3>1. s7 > 0 \/ s6 # 0 BY <1>10, Zenon DEF Kdf!ExpandBlock
    <3>2. KdfIdle => s6 = 0 /\ s7 = 0 BY Zenon DEF KdfIdle
    <3> QED BY <3>1, <3>2
  <2>3. s4 = KdfKey(s1) /\ Chained BY <1>2, <2>2
  <2>4. ASSUME NEW T, IsChain(T, s4, s2)'
        PROVE  KdfBuffer(n)' /\ \E c \in 0..(KdfSpan - 1) : KdfAt(T, c)'
    <3>1. IsChain(T, s4, s2) BY <2>1, <2>4, Zenon
    <3>2. PICK b \in 0..(KdfSpan - 1) : KdfAt(T, b) BY <2>3, <3>1
    <3> QED BY <1>4, <1>10, <3>1, <3>2, BlockWritten, Zenon
  <2>5. PICK T : IsChain(T, s4, s2) BY KdfChain
  <2>6. IsChain(T, s4, s2)' BY <2>1, <2>5, Zenon
  <2>7. KdfBuffer(n)' BY <2>4, <2>6, Zenon
  <2>8. Chained' BY <2>4, Zenon
  <2> HIDE DEF Chained
  <2> QED BY <1>2, <1>4, <2>1, <2>3, <2>7, <2>8, Zenon
<1> HIDE DEF Good
<1> QED BY <1>3, <1>6, <1>7, <1>8, <1>9, <1>10 DEF Kdf!Next

(* RFC 5869's own definition of the blocks is such a chain.                *)
LEMMA ReferenceIsChain ==
  ASSUME NEW n \in Nat, IsList(s1, n)
  PROVE  IsChain(Kdf!RefBlocks, KdfKey(s1), s2)
<1> DEFINE k == KdfKey(s1)
           key == Kdf!RefKey
<1>1. key = Kdf!KeyBlock(s1)
  <2>1. Len(s1) = n BY ListIs
  <2>2. CASE n <= KdfBlock
    <3>1. key = s1 \o [i \in 1..(KdfBlock - Len(s1)) |-> Kdf!Zero]
      BY <2>1, <2>2 DEF Kdf!RefKey
    <3> QED BY <2>2, <3>1, KeyIsFilled
  <2>3. CASE ~(n <= KdfBlock)
    <3> DEFINE d == Kdf!Digest(s1)
    <3>1. IsList(d, KdfHash) BY DigestIs
    <3>2. Len(d) = KdfHash /\ KdfHash \in Nat /\ KdfHash <= KdfBlock BY <3>1, KdfNumbers, ListIs
    <3>3. key = d \o [i \in 1..(KdfBlock - Len(d)) |-> Kdf!Zero]
      BY <2>1, <2>3 DEF Kdf!RefKey
    <3>4. Kdf!KeyBlock(d) = d \o [i \in 1..(KdfBlock - Len(d)) |-> Kdf!Zero]
      <4> HIDE DEF d
      <4> QED BY <3>1, <3>2, KeyIsFilled
    <3>5. n > KdfBlock /\ ~(Len(d) > KdfBlock) BY <2>3, <3>2, KdfNumbers
    <3>6. Kdf!KeyBlock(d) = Kdf!KeyBlock(s1)
      BY <2>1, <3>5, Zenon DEF Kdf!KeyBlock
    <3> QED BY <3>3, <3>4, <3>6
  <2> QED BY <2>2, <2>3
<1>2. Kdf!RefPrk = k
  BY <1>1, MacIs, Zenon DEF Kdf!RefPrk, KdfKey
<1>3. Kdf!Fill(k) = Kdf!KeyBlock(k)
  <2>1. IsList(k, KdfHash) BY DigestIs, Zenon DEF KdfKey, Kdf!Mac
  <2> HIDE DEF k
  <2>2. Kdf!KeyBlock(k) = k \o [i \in 1..(KdfBlock - Len(k)) |-> Kdf!Zero]
    BY <2>1, KdfNumbers, KeyIsFilled
  <2> QED BY <2>2, Zenon DEF Kdf!Fill
<1> HIDE DEF k, key
<1>4. \A message : Kdf!RefMac(Kdf!Fill(Kdf!RefPrk), message) = Kdf!Mac(k, message)
  BY <1>2, <1>3, MacIs, Zenon
<1> DEFINE IsRef(T) ==
             T = [n_1 \in 0..(KdfSpan - 1) |->
                    IF n_1 = 0 THEN <<>>
                    ELSE Kdf!RefMac(Kdf!Fill(Kdf!RefPrk), T[n_1 - 1] \o s2 \o << <<"counter", n_1>> >>)]
<1>5. \A T : IsRef(T) <=> IsChain(T, k, s2)
  BY <1>4, Zenon DEF IsChain, KdfStep
<1>6. PICK T : IsChain(T, k, s2) BY KdfChain
<1>7. Kdf!RefBlocks = CHOOSE U : IsRef(U)
  BY Zenon DEF Kdf!RefBlocks
<1>8. IsRef(T) BY <1>5, <1>6
<1> HIDE DEF IsRef
<1>9. IsRef(CHOOSE U : IsRef(U)) BY <1>8, Zenon
<1> QED BY <1>5, <1>7, <1>9 DEF k

(* The key derivation's two properties.                                    *)
LEMMA KdfStable ==
  ASSUME KdfInv, unit = "hkdf"
  PROVE  Kdf!ExpandsAsSpecified /\ Kdf!AllOrNothing
<1>1. /\ \E n \in Nat : IsList(s1, n)
      /\ \E n \in Nat : KdfBuffer(n)
      /\ \/ KdfIdle
         \/ /\ s4 = KdfKey(s1)
            /\ \A T : IsChain(T, s4, s2) => \E b \in 0..(KdfSpan - 1) : KdfAt(T, b)
  BY Zenon DEF KdfInv
<1> DEFINE T == Kdf!RefBlocks
           At(i) == T[((i - 1) \div KdfHash) + 1][((i - 1) % KdfHash) + 1]
           blocks == (s7 + KdfHash - 1) \div KdfHash
<1>2. IsChain(T, KdfKey(s1), s2) BY <1>1, ReferenceIsChain
<1>3. PICK n \in Nat : KdfBuffer(n) BY <1>1
<1>4. Len(s3) = n /\ DOMAIN s3 = 1..n /\ s7 \in 0..n /\ IsList(s3, n) BY <1>3, ListIs DEF KdfBuffer
<1> HIDE DEF T
<1>5. CASE KdfIdle
  <2>1. s7 = 0 /\ s8 # "true" BY <1>5, Zenon DEF KdfIdle
  <2>2. blocks = 0
    <3>1. s7 \in Nat /\ s7 <= KdfHash * 0 BY <2>1, KdfNumbers
    <3> QED BY <3>1, KdfNumbers, CeilingIs
  <2>3. blocks < KdfSpan /\ \A i \in 1..s7 : s3[i] = At(i)
    BY <2>1, <2>2, KdfNumbers
  <2>4. Kdf!ExpandsAsSpecified
    BY <2>3, Zenon DEF Kdf!ExpandsAsSpecified, T
  <2>5. s3 = Kdf!Before(Len(s3))
    BY <1>3, <1>4, <2>1 DEF KdfBuffer, IsList, Kdf!Before
  <2>6. s8 = "false" => Len(s3) > (KdfSpan - 1) * KdfHash
    <3>1. s8 = "false" => Len(s3) > KdfHash * (KdfSpan - 1) BY <1>5, Zenon DEF KdfIdle
    <3>2. KdfHash * (KdfSpan - 1) = (KdfSpan - 1) * KdfHash BY KdfNumbers
    <3> QED BY <3>1, <3>2
  <2>7. Kdf!AllOrNothing BY <2>1, <2>5, <2>6, Zenon DEF Kdf!AllOrNothing
  <2> QED BY <2>4, <2>7
<1>6. CASE ~KdfIdle
  <2>1. PICK b \in 0..(KdfSpan - 1) : KdfAt(T, b) BY <1>1, <1>2, <1>6
  <2>2. blocks = b
    <3>1. s7 \in Nat /\ b \in Nat /\ s7 <= KdfHash * b /\ (b = 0 \/ KdfHash * (b - 1) < s7)
      BY <1>4, <2>1 DEF KdfAt
    <3> QED BY <3>1, KdfNumbers, CeilingIs
  <2>3. blocks < KdfSpan
    <3> HIDE DEF blocks
    <3> QED BY <2>2, KdfNumbers
  <2>4. \A i \in 1..s7 : s3[i] = At(i) BY <2>1, Zenon DEF KdfAt
  <2>5. Kdf!ExpandsAsSpecified
    BY <2>3, <2>4, Zenon DEF Kdf!ExpandsAsSpecified, T
  <2>6. ASSUME NEW i \in 1..s7 PROVE s3[i] # <<"before">>
    <3> DEFINE j == (i - 1) \div KdfHash
               r == (i - 1) % KdfHash
    <3>1. i \in Nat /\ i >= 1 /\ j \in Int /\ r \in 0..(KdfHash - 1) /\ i - 1 = KdfHash * j + r /\ j >= 0
      BY <1>4, KdfNumbers
    <3>2. s7 <= KdfHash * b BY <2>1 DEF KdfAt
    <3> HIDE DEF j, r
    <3>3. j < b
      <4>1. CASE b <= j
        <5>1. KdfHash * b <= KdfHash * j BY <3>1, <4>1, KdfNumbers
        <5>2. KdfHash * b \in Int /\ KdfHash * j \in Int /\ s7 \in Int BY <1>4, <3>1, KdfNumbers
        <5>3. i <= s7 BY <1>4
        <5> QED BY <3>1, <3>2, <5>1, <5>2, <5>3
      <4> QED BY <3>1, <4>1
    <3> DEFINE c == j + 1
    <3>4. c \in 0..(KdfSpan - 1) /\ c # 0 BY <3>1, <3>3, KdfNumbers
    <3> HIDE DEF c
    <3>5. T[c] = KdfStep(KdfKey(s1), s2, T[c - 1], c) BY <1>2, <3>4, Zenon DEF IsChain
    <3>6. PICK message : T[c] = Kdf!Digest(message) BY <3>5, Zenon DEF KdfStep, Kdf!Mac
    <3>7. r + 1 \in 1..KdfHash BY <3>1, KdfNumbers
    <3>8. T[c][r + 1] = <<"sha", message, r + 1>> BY <3>6, <3>7, DigestIs
    <3>9. s3[i] = T[c][r + 1] BY <2>4 DEF c, j, r
    <3>10. <<"sha", message, r + 1>> # <<"before">> OBVIOUS
    <3> QED BY <3>8, <3>9, <3>10
  <2>7. s8 # "false" /\ (s8 = "true" => s7 = Len(s3)) BY <2>1, Zenon DEF KdfAt
  <2>8. Kdf!AllOrNothing
    BY <1>4, <2>6, <2>7, Zenon DEF Kdf!AllOrNothing
  <2> QED BY <2>5, <2>8
<1> QED BY <1>5, <1>6

-----------------------------------------------------------------------------
(* The keystream that begins at block c, in blocks of w words: what both   *)
(* builds of ChaCha20 and counter mode are to make.                        *)
Wrapped(c, k) == (c + k) % CounterSize
Span(w, c, n) == [i \in 1..n |-> <<Wrapped(c, (i - 1) \div w), (i - 1) % w>>]

(* Counters come round at CounterSize, in however many steps.              *)
WrapsTwice(c, a, b) ==
  /\ Wrapped(Wrapped(c, a), b) = Wrapped(c, a + b)
  /\ Wrapped(c, a) \in 0..(CounterSize - 1) /\ Wrapped(c, a) \in Nat

(* They do, and stay in range.                                             *)
LEMMA WrapTwice ==
  ASSUME NEW c \in Nat, NEW a \in Nat, NEW b \in Nat
  PROVE  WrapsTwice(c, a, b)
<1> DEFINE d == CounterSize
           x == c + a
           q == x \div d
           r == x % d
           s == (r + b) \div d
           t == (r + b) % d
<1>1. d \in Nat /\ d > 0 BY StreamAssumption
<1>2. x \in Nat /\ q \in Int /\ r \in 0..(d - 1) /\ x = d * q + r
  BY <1>1
<1>3. r + b \in Nat /\ s \in Int /\ t \in 0..(d - 1) /\ r + b = d * s + t
  BY <1>1, <1>2
<1>4. x + b = d * (q + s) + t /\ x + b \in Int /\ q + s \in Int
  <2>1. d * (q + s) = d * q + d * s BY <1>1, <1>2, <1>3
  <2>2. d * q \in Int /\ d * s \in Int BY <1>1, <1>2, <1>3
  <2> HIDE DEF q, r, s, t, x
  <2> QED BY <1>1, <1>2, <1>3, <2>1, <2>2
<1> HIDE DEF q, s, t
<1>5. (x + b) % d = t BY <1>1, <1>3, <1>4, QuotientIs
<1>6. x + b = c + (a + b) BY DEF x
<1>7. t = Wrapped(Wrapped(c, a), b) BY DEF t, Wrapped
<1>8. Wrapped(c, a + b) = (x + b) % d BY <1>6 DEF Wrapped
<1>9. Wrapped(c, a) = r BY DEF Wrapped
<1> QED BY <1>1, <1>2, <1>5, <1>7, <1>8, <1>9 DEF WrapsTwice

(* A counter wraps to itself.                                              *)
LEMMA WrapNone == ASSUME NEW c \in 0..(CounterSize - 1) PROVE Wrapped(c, 0) = c
<1>1. CounterSize \in Nat /\ CounterSize > 0 BY StreamAssumption
<1>2. c + 0 = CounterSize * 0 + c /\ c + 0 \in Int BY <1>1
<1>3. (c + 0) % CounterSize = c BY <1>1, <1>2, QuotientIs
<1> QED BY <1>3 DEF Wrapped

(* Word j behind q whole blocks is word j of the keystream from block q.   *)
Shifts(w, c, q, t, j) ==
  Span(w, Wrapped(c, q), t)[j] = <<Wrapped(c, (w * q + j - 1) \div w), (w * q + j - 1) % w>>

(* It is, for blocks of any length.                                        *)
LEMMA SpanShift ==
  ASSUME NEW w \in Nat, w > 0, NEW c \in Nat, NEW q \in Nat, NEW t \in Nat, NEW j \in 1..t
  PROVE  Shifts(w, c, q, t, j)
<1> DEFINE e == j - 1
           k == e \div w
           r == e % w
           x == w * q + j - 1
<1>1. e \in Nat /\ w * q \in Nat OBVIOUS
<1> HIDE DEF e
<1>2. k \in Nat /\ r \in 0..(w - 1) /\ e = w * k + r BY <1>1, DivisionIs
<1>3. x = w * (q + k) + r /\ x \in Int /\ q + k \in Int
  <2>1. w * (q + k) = w * q + w * k BY <1>2
  <2>2. w * k \in Int BY <1>2
  <2>3. x = w * q + e BY <1>1 DEF e
  <2> HIDE DEF k, r, x
  <2> QED BY <1>1, <1>2, <2>1, <2>2, <2>3
<1> HIDE DEF k, r, x
<1>4. x \div w = q + k /\ x % w = r BY <1>2, <1>3, QuotientIs
<1>5. Wrapped(Wrapped(c, q), k) = Wrapped(c, q + k)
  <2>1. WrapsTwice(c, q, k) BY <1>2, WrapTwice
  <2> QED BY <2>1, Zenon DEF WrapsTwice
<1>6. Span(w, Wrapped(c, q), t)[j] = <<Wrapped(Wrapped(c, q), k), r>>
  BY DEF Span, k, r, e
<1> QED BY <1>4, <1>5, <1>6 DEF x, Shifts

(* A keystream goes on behind whole blocks with the next counter.          *)
GoesOn(w, c, q, t) ==
  Span(w, c, w * q) \o Span(w, Wrapped(c, q), t) = Span(w, c, w * q + t)

(* It does, for blocks of any length.                                      *)
LEMMA SpanGoesOn ==
  ASSUME NEW w \in Nat, w > 0, NEW c \in Nat, NEW q \in Nat, NEW t \in Nat
  PROVE  GoesOn(w, c, q, t)
<1> DEFINE a == w * q
           f == Span(w, c, a)
           g == Span(w, Wrapped(c, q), t)
           h == Span(w, c, a + t)
<1>1. a \in Nat OBVIOUS
<1>2. IsList(f, a) /\ IsList(g, t) /\ IsList(h, a + t) BY DEF Span, IsList
<1>3. ASSUME NEW i \in 1..(a + t) PROVE (IF i <= a THEN f[i] ELSE g[i - a]) = h[i]
  <2>1. CASE i <= a
    <3>1. i \in 1..a BY <1>1, <2>1
    <3> HIDE DEF a
    <3>2. f[i] = h[i] BY <3>1 DEF Span
    <3> QED BY <2>1, <3>2
  <2>2. CASE ~(i <= a)
    <3> DEFINE j == i - a
    <3>1. j \in 1..t /\ a + j - 1 = i - 1 BY <1>1, <2>2
    <3> HIDE DEF j
    <3>2. g[j] = <<Wrapped(c, (a + j - 1) \div w), (a + j - 1) % w>>
      <4>1. Shifts(w, c, q, t, j) BY <3>1, SpanShift
      <4> QED BY <4>1, Zenon DEF Shifts
    <3> HIDE DEF a, g
    <3>3. h[i] = <<Wrapped(c, (i - 1) \div w), (i - 1) % w>> BY DEF Span
    <3> QED BY <2>2, <3>1, <3>2, <3>3 DEF j
  <2> QED BY <2>1, <2>2
<1> HIDE DEF a, f, g, h
<1>4. f \o g = [i \in 1..(a + t) |-> (f \o g)[i]]
      /\ \A i \in 1..(a + t) : (f \o g)[i] = IF i <= a THEN f[i] ELSE g[i - a]
  <2>1. Joins(f, a, g, t) BY <1>1, <1>2, JoinIs
  <2> QED BY <2>1, Zenon DEF Joins, IsList
<1>5. f \o g = h
  BY <1>2, <1>3, <1>4 DEF IsList
<1> QED BY <1>5 DEF a, f, g, h, GoesOn

-----------------------------------------------------------------------------
(* The two builds.  Four blocks in flight, stored lane by lane.            *)
Paths == INSTANCE KeystreamPaths

(* The first words of four portable blocks.                                *)
LEMMA FourBlocksAre ==
  ASSUME NEW c \in Nat, NEW t \in 0..64
  PROVE  Paths!Take(Paths!FourBlocks(c), t) = Span(16, c, t)
<1>1. ASSUME NEW i \in 1..t
      PROVE  Paths!FourBlocks(c)[i - 1] = <<Wrapped(c, (i - 1) \div 16), (i - 1) % 16>>
  <2> DEFINE j == i - 1
             a == j \div 16
             b == j % 16
  <2>1. j \in 0..63 /\ a \in 0..3 /\ b \in 0..15 OBVIOUS
  <2>2. Paths!FourBlocks(c)[j] = Paths!Lanes(c)[b][a]
    BY <2>1 DEF Paths!FourBlocks
  <2> HIDE DEF a, b
  <2>3. Paths!Lanes(c)[b][a] = <<Wrapped(c, a), b>>
    BY <2>1 DEF Paths!Lanes, Paths!WrappingAdd, Wrapped
  <2> QED BY <2>2, <2>3 DEF a, b
<1> QED BY <1>1 DEF Paths!Take, Span

(* The transpose turns lane l of group n into word l of each block.        *)
LEMMA TransposeIs ==
  ASSUME NEW a, NEW b, NEW c, NEW d, NEW r \in 0..3, NEW l \in 0..3
  PROVE  Paths!Transpose(a, b, c, d)[r + 1][l]
           = IF l = 0 THEN a[r] ELSE IF l = 1 THEN b[r] ELSE IF l = 2 THEN c[r] ELSE d[r]
<1>1. ASSUME NEW x, NEW y
      PROVE  /\ Paths!Trn1(x, y)[0] = x[0] /\ Paths!Trn1(x, y)[1] = y[0]
             /\ Paths!Trn1(x, y)[2] = x[2] /\ Paths!Trn1(x, y)[3] = y[2]
             /\ Paths!Trn2(x, y)[0] = x[1] /\ Paths!Trn2(x, y)[1] = y[1]
             /\ Paths!Trn2(x, y)[2] = x[3] /\ Paths!Trn2(x, y)[3] = y[3]
  BY DEF Paths!Trn1, Paths!Trn2
<1>2. ASSUME NEW x, NEW y
      PROVE  /\ Paths!Trn1D(x, y)[0] = x[0] /\ Paths!Trn1D(x, y)[1] = x[1]
             /\ Paths!Trn1D(x, y)[2] = y[0] /\ Paths!Trn1D(x, y)[3] = y[1]
             /\ Paths!Trn2D(x, y)[0] = x[2] /\ Paths!Trn2D(x, y)[1] = x[3]
             /\ Paths!Trn2D(x, y)[2] = y[2] /\ Paths!Trn2D(x, y)[3] = y[3]
  BY DEF Paths!Trn1D, Paths!Trn2D
<1> DEFINE g == Paths!Transpose(a, b, c, d)
           t0 == Paths!Trn1(a, b)
           t1 == Paths!Trn2(a, b)
           t2 == Paths!Trn1(c, d)
           t3 == Paths!Trn2(c, d)
<1>3. /\ g[1] = Paths!Trn1D(t0, t2) /\ g[2] = Paths!Trn1D(t1, t3)
      /\ g[3] = Paths!Trn2D(t0, t2) /\ g[4] = Paths!Trn2D(t1, t3)
  BY DEF Paths!Transpose
<1> HIDE DEF g
<1>4. /\ g[1][0] = a[0] /\ g[1][1] = b[0] /\ g[1][2] = c[0] /\ g[1][3] = d[0]
      /\ g[2][0] = a[1] /\ g[2][1] = b[1] /\ g[2][2] = c[1] /\ g[2][3] = d[1]
      /\ g[3][0] = a[2] /\ g[3][1] = b[2] /\ g[3][2] = c[2] /\ g[3][3] = d[2]
      /\ g[4][0] = a[3] /\ g[4][1] = b[3] /\ g[4][2] = c[3] /\ g[4][3] = d[3]
  BY <1>1, <1>2, <1>3
<1>5. (r = 0 \/ r = 1 \/ r = 2 \/ r = 3) /\ (l = 0 \/ l = 1 \/ l = 2 \/ l = 3) OBVIOUS
<1>6. g[r + 1][l] = IF l = 0 THEN a[r] ELSE IF l = 1 THEN b[r] ELSE IF l = 2 THEN c[r] ELSE d[r]
  <2>1. CASE r = 0 BY <1>4, <1>5, <2>1
  <2>2. CASE r = 1 BY <1>4, <1>5, <2>2
  <2>3. CASE r = 2 BY <1>4, <1>5, <2>3
  <2>4. CASE r = 3 BY <1>4, <1>5, <2>4
  <2> QED BY <1>5, <2>1, <2>2, <2>3, <2>4
<1> QED BY <1>6 DEF g

(* The first words of what the vector build stores.                        *)
LEMMA EmittedIs ==
  ASSUME NEW c \in Nat, NEW t \in 0..64
  PROVE  Paths!Take(Paths!Emitted(c), t) = Span(16, c, t)
<1>1. ASSUME NEW i \in 1..t
      PROVE  Paths!Emitted(c)[i - 1] = <<Wrapped(c, (i - 1) \div 16), (i - 1) % 16>>
  <2> DEFINE j == i - 1
             r == j \div 16
             u == (j % 16) \div 4
             l == j % 4
             v == Paths!Lanes(c)
  <2>1. /\ j \in 0..63 /\ r \in 0..3 /\ u \in 0..3 /\ l \in 0..3
        /\ 4 * u + l = j % 16
    <3>1. j \in 0..63 OBVIOUS
    <3> HIDE DEF j
    <3> QED BY <3>1
  <2>2. Paths!Emitted(c)[j]
          = Paths!Transpose(v[4 * u], v[4 * u + 1], v[4 * u + 2], v[4 * u + 3])[r + 1][l]
    <3> DEFINE g == [m \in 0..3 |-> Paths!Transpose(v[4 * m], v[4 * m + 1], v[4 * m + 2], v[4 * m + 3])]
    <3>1. Paths!Emitted(c) = [x \in 0..63 |-> g[(x % 16) \div 4][(x \div 16) + 1][x % 4]]
      BY Zenon DEF Paths!Emitted
    <3>2. g[u] = Paths!Transpose(v[4 * u], v[4 * u + 1], v[4 * u + 2], v[4 * u + 3])
      <4> HIDE DEF u, v
      <4> QED BY <2>1
    <3> HIDE DEF g, v
    <3>3. Paths!Emitted(c)[j] = g[(j % 16) \div 4][(j \div 16) + 1][j % 4]
      <4> HIDE DEF j
      <4> QED BY <2>1, <3>1
    <3> QED BY <3>2, <3>3
  <2> HIDE DEF j, r, u, l, v
  <2>3. Paths!Emitted(c)[j] = v[4 * u + l][r]
    <3>1. l = 0 \/ l = 1 \/ l = 2 \/ l = 3 BY <2>1
    <3>2. 4 * u + 0 = 4 * u BY <2>1
    <3> QED BY <2>1, <2>2, <3>1, <3>2, TransposeIs
  <2>4. v[4 * u + l][r] = <<Wrapped(c, r), 4 * u + l>>
    <3>1. 4 * u + l \in 0..15 BY <2>1
    <3> QED BY <2>1, <3>1 DEF v, Paths!Lanes, Paths!WrappingAdd, Wrapped
  <2>5. Paths!Emitted(c)[j] = <<Wrapped(c, r), j % 16>>
    BY <2>1, <2>3, <2>4
  <2> QED BY <2>5 DEF r, j
<1> QED BY <1>1 DEF Paths!Take, Span

(* The keystream of n words from block c, and the counter behind it.       *)
Applied(c, n) == [keys |-> Span(16, c, n), counter |-> Wrapped(c, Paths!DivCeil(n, 16))]

(* Blocks begun by 16 * q + t words are q and those begun by t.            *)
LEMMA BlocksBegun ==
  ASSUME NEW q \in Nat, NEW t \in Nat
  PROVE  /\ Paths!DivCeil(t, 16) \in Nat
         /\ Paths!DivCeil(16 * q + t, 16) = q + Paths!DivCeil(t, 16)
         /\ Paths!DivCeil(16 * q, 16) = q
<1> DEFINE a == t + 16 - 1
           e == a \div 16
           r == a % 16
<1>1. a \in Nat /\ e \in Nat /\ r \in 0..15 /\ a = 16 * e + r OBVIOUS
<1> HIDE DEF e, r
<1>2. 16 * q + t + 16 - 1 = 16 * (q + e) + r /\ 16 * q + t + 16 - 1 \in Int /\ q + e \in Int
  BY <1>1
<1>3. (16 * q + t + 16 - 1) \div 16 = q + e
  <2> DEFINE x == 16 * q + t + 16 - 1
             y == q + e
  <2>1. x = 16 * y + r /\ x \in Int /\ y \in Int BY <1>2
  <2> HIDE DEF x, y
  <2>2. x \div 16 = y BY <1>1, <2>1
  <2> QED BY <2>2 DEF x, y
<1>4. (16 * q + 16 - 1) \div 16 = q OBVIOUS
<1> QED BY <1>1, <1>3, <1>4 DEF Paths!DivCeil, e

(* One piece behind whole blocks.                                          *)
AppliedOn(c, q, t) ==
  /\ Applied(c, 16 * q).counter = Wrapped(c, q)
  /\ Wrapped(c, q) \in Nat
  /\ [keys |-> Applied(c, 16 * q).keys \o Span(16, Wrapped(c, q), t),
      counter |-> Wrapped(Wrapped(c, q), Paths!DivCeil(t, 16))] = Applied(c, 16 * q + t)

(* It is the keystream of both.                                            *)
LEMMA AppliedGoesOn ==
  ASSUME NEW c \in Nat, NEW q \in Nat, NEW t \in Nat
  PROVE  AppliedOn(c, q, t)
<1> DEFINE e == Paths!DivCeil(t, 16)
<1>1. e \in Nat /\ Paths!DivCeil(16 * q + t, 16) = q + e /\ Paths!DivCeil(16 * q, 16) = q
  BY BlocksBegun
<1>2. Span(16, c, 16 * q) \o Span(16, Wrapped(c, q), t) = Span(16, c, 16 * q + t)
  <2> DEFINE w == 16
  <2>1. w \in Nat /\ w > 0 OBVIOUS
  <2> HIDE DEF w
  <2>2. GoesOn(w, c, q, t) BY <2>1, SpanGoesOn
  <2> QED BY <2>2, Zenon DEF w, GoesOn
<1> HIDE DEF e
<1>3. Wrapped(Wrapped(c, q), e) = Wrapped(c, q + e) /\ Wrapped(c, q) \in Nat
  <2>1. WrapsTwice(c, q, e) BY <1>1, WrapTwice
  <2> QED BY <2>1, Zenon DEF WrapsTwice
<1> QED BY <1>1, <1>2, <1>3, Zenon DEF Applied, AppliedOn, e

(* Where a turn of the portable loop begins and ends.                      *)
LEMMA PortablePlaces ==
  ASSUME NEW n \in Nat, NEW k \in Nat, NEW l \in Nat, k = l + 1, k <= Paths!DivCeil(n, 64)
  PROVE  /\ 64 * l < n
         /\ (IF 64 * k < n THEN 64 * k ELSE n)
              = 16 * (4 * l) + (IF n - 64 * l < 64 THEN n - 64 * l ELSE 64)
         /\ (IF n - 64 * l < 64 THEN n - 64 * l ELSE 64) \in 0..64
<1> DEFINE a == n + 64 - 1
           e == a \div 64
           r == a % 64
<1>1. a \in Nat /\ e \in Nat /\ r \in 0..63 /\ a = 64 * e + r OBVIOUS
<1>2. k <= e BY DEF Paths!DivCeil
<1> HIDE DEF e, r
<1>3. 64 * l < n BY <1>1, <1>2
<1> QED BY <1>3

(* The portable build's keystream.                                         *)
LEMMA PortableIs ==
  ASSUME NEW c \in 0..(CounterSize - 1), NEW n \in Nat
  PROVE  Paths!Portable(c, n) = Applied(c, n)
<1> DEFINE turns == Paths!DivCeil(n, 64)
           pos(k) == IF 64 * k < n THEN 64 * k ELSE n
           take(l) == IF n - 64 * l < 64 THEN n - 64 * l ELSE 64
           Go(acc, l) == [keys    |-> acc.keys \o Paths!Take(Paths!FourBlocks(acc.counter), take(l)),
                          counter |-> Paths!WrappingAdd(acc.counter, Paths!DivCeil(take(l), Paths!Words))]
           Body(f, k) == IF k = 0 THEN [keys |-> <<>>, counter |-> c] ELSE Go(f[k - 1], k - 1)
           IsTurn(f) == f = [k \in 0..turns |-> Body(f, k)]
           g == [k \in 0..turns |-> Applied(c, pos(k))]
<1>0. c \in Nat /\ turns \in Nat /\ n <= 64 * turns
  <2>1. c \in Nat BY StreamAssumption
  <2>2. turns \in Nat /\ n <= 64 * turns BY DEF Paths!DivCeil
  <2> QED BY <2>1, <2>2
<1>1. Paths!Portable(c, n) = (CHOOSE f : IsTurn(f))[turns]
  BY Zenon DEF Paths!Portable
<1>2. Applied(c, 0) = [keys |-> <<>>, counter |-> c]
  <2>1. Span(16, c, 0) = <<>> BY DEF Span
  <2>2. Paths!DivCeil(0, 16) = 0 BY DEF Paths!DivCeil
  <2> QED BY <2>1, <2>2, WrapNone DEF Applied
<1>3. ASSUME NEW k \in Nat, NEW l \in Nat, k = l + 1, k <= turns
      PROVE  Go(Applied(c, pos(l)), l) = Applied(c, pos(k))
  <2> DEFINE q == 4 * l
             t == take(l)
  <2>1. 64 * l < n /\ pos(k) = 16 * q + t /\ t \in 0..64 BY <1>3, PortablePlaces
  <2>2. q \in Nat /\ t \in Nat /\ pos(l) = 16 * q BY <2>1
  <2> HIDE DEF q, t, pos
  <2>3. Applied(c, 16 * q).counter = Wrapped(c, q) /\ Wrapped(c, q) \in Nat
        /\ [keys |-> Applied(c, 16 * q).keys \o Span(16, Wrapped(c, q), t),
            counter |-> Wrapped(Wrapped(c, q), Paths!DivCeil(t, 16))] = Applied(c, 16 * q + t)
    <3>1. AppliedOn(c, q, t) BY <1>0, <2>2, AppliedGoesOn
    <3> QED BY <3>1, Zenon DEF AppliedOn
  <2>4. Paths!Take(Paths!FourBlocks(Wrapped(c, q)), t) = Span(16, Wrapped(c, q), t)
    BY <2>1, <2>3, FourBlocksAre
  <2>5. Go(Applied(c, 16 * q), l)
          = [keys |-> Applied(c, 16 * q).keys \o Paths!Take(Paths!FourBlocks(Wrapped(c, q)), t),
             counter |-> Wrapped(Wrapped(c, q), Paths!DivCeil(t, 16))]
    BY <2>3, Zenon DEF t, Paths!Words, Paths!WrappingAdd, Wrapped
  <2> HIDE DEF Go
  <2> QED BY <2>1, <2>2, <2>3, <2>4, <2>5
<1>4. ASSUME NEW k \in 0..turns PROVE g[k] = Body(g, k)
  <2>1. CASE k = 0
    <3>1. pos(0) = 0 /\ 0 \in 0..turns BY <1>0
    <3>2. g[0] = Applied(c, 0) BY <3>1
    <3>3. Body(g, k) = [keys |-> <<>>, counter |-> c] BY <2>1
    <3> HIDE DEF g, Body
    <3> QED BY <1>2, <2>1, <3>2, <3>3
  <2>2. CASE k # 0
    <3> DEFINE l == k - 1
    <3>1. k \in Nat /\ l \in Nat /\ k = l + 1 /\ k <= turns /\ l \in 0..turns BY <1>0, <2>2
    <3> HIDE DEF l, turns, pos, Go
    <3>2. g[l] = Applied(c, pos(l)) /\ g[k] = Applied(c, pos(k)) BY <3>1
    <3> HIDE DEF g
    <3>3. Body(g, k) = Go(g[l], l) BY <2>2 DEF l
    <3> HIDE DEF Body
    <3>4. Go(Applied(c, pos(l)), l) = Applied(c, pos(k)) BY <1>3, <3>1
    <3> QED BY <3>2, <3>3, <3>4
  <2> QED BY <2>1, <2>2
<1>5. IsTurn(g)
  <2>1. g = [k \in 0..turns |-> g[k]] OBVIOUS
  <2> HIDE DEF g, Body, turns
  <2> QED BY <1>4, <2>1
<1>6. ASSUME NEW f, IsTurn(f) PROVE f[turns] = g[turns]
  <2> DEFINE S == { k \in 0..turns : f[k] # g[k] }
  <2>1. ASSUME S # {} PROVE FALSE
    <3>1. PICK k \in S : \A j \in S : k <= j
      <4>1. S \subseteq Nat BY <1>0
      <4> HIDE DEF S
      <4> QED BY <2>1, <4>1, LeastOf
    <3>2. k \in 0..turns /\ f[k] # g[k] BY <3>1
    <3> HIDE DEF turns, Go
    <3>3. f[k] = Body(f, k) /\ g[k] = Body(g, k)
      <4>1. f[k] = Body(f, k)
        <5> HIDE DEF Body
        <5> QED BY <1>6, <3>2
      <4> QED BY <1>4, <3>2, <4>1
    <3> HIDE DEF g
    <3>4. k # 0 BY <3>2, <3>3
    <3>5. k - 1 \in 0..turns /\ k - 1 < k BY <1>0, <3>2, <3>4
    <3>6. f[k - 1] = g[k - 1] BY <3>1, <3>2, <3>5
    <3> QED BY <3>2, <3>3, <3>6, Zenon
  <2>2. turns \in 0..turns BY <1>0
  <2> HIDE DEF g, turns
  <2> QED BY <2>1, <2>2
<1>7. pos(turns) = n BY <1>0
<1>8. g[turns] = Applied(c, n) BY <1>0, <1>7
<1> HIDE DEF g, IsTurn, turns
<1>9. IsTurn(CHOOSE f : IsTurn(f)) BY <1>5, Zenon
<1>10. (CHOOSE f : IsTurn(f))[turns] = g[turns] BY <1>6, <1>9
<1> QED BY <1>1, <1>8, <1>10, Zenon

(* Where a turn of the vector loops begins and ends.                       *)
VectorPlace(n, k) ==
  LET eights == n \div 128
      at == 128 * eights + 64 * (k - eights)
  IN  IF k <= eights THEN 128 * k ELSE IF at < n THEN at ELSE n

(* A turn of eight blocks, of four, or the tail.                           *)
VectorTurn(n, k, l) ==
  \E q \in Nat :
    /\ VectorPlace(n, l) = 16 * q
    /\ k <= n \div 128 => VectorPlace(n, k) = 16 * (q + 4) + 64
    /\ ~(k <= n \div 128) =>
         /\ n - 16 * q >= 64 => VectorPlace(n, k) = 16 * q + 64
         /\ ~(n - 16 * q >= 64) => /\ VectorPlace(n, k) = 16 * q + (n - 16 * q)
                                   /\ n - 16 * q \in 0..64

(* Every turn is one of those, behind whole blocks.                        *)
LEMMA VectorPlaces ==
  ASSUME NEW n \in Nat, NEW k \in Nat, NEW l \in Nat, k = l + 1,
         k <= (n \div 128) + Paths!DivCeil(n % 128, 64)
  PROVE  VectorTurn(n, k, l)
<1> DEFINE s == n \div 128
           r == n % 128
           d == Paths!DivCeil(r, 64)
<1>1. s \in Nat /\ r \in 0..127 /\ n = 128 * s + r BY DivisionIs
<1>2. k <= s + d OBVIOUS
<1>3. \A x : VectorPlace(n, x) = IF x <= s THEN 128 * x
                                 ELSE IF 128 * s + 64 * (x - s) < n THEN 128 * s + 64 * (x - s) ELSE n
  BY DEF VectorPlace
<1> HIDE DEF s, r
<1>4. (d = 0 /\ r = 0) \/ (d = 1 /\ r \in 1..64) \/ (d = 2 /\ r \in 65..127)
  BY <1>1 DEF Paths!DivCeil
<1> HIDE DEF d
<1>5. CASE k <= s
  <2> DEFINE q == 8 * l
  <2>1. q \in Nat /\ l <= s /\ 128 * l = 16 * q /\ 128 * k = 16 * (q + 4) + 64 BY <1>1, <1>5
  <2>2. VectorPlace(n, l) = 128 * l /\ VectorPlace(n, k) = 128 * k BY <1>3, <1>5, <2>1
  <2> HIDE DEF q
  <2>3. VectorPlace(n, l) = 16 * q /\ VectorPlace(n, k) = 16 * (q + 4) + 64 BY <2>1, <2>2
  <2> QED BY <1>5, <2>1, <2>3 DEF s, VectorTurn
<1>6. CASE ~(k <= s)
  <2> DEFINE q == 8 * s + 4 * (l - s)
  <2>1. q \in Nat /\ 16 * q = 128 * s + 64 * (l - s) /\ l >= s BY <1>1, <1>6
  <2>2. (l = s \/ l = s + 1) /\ (l = s => r # 0) /\ (l = s + 1 => r \in 65..127)
    BY <1>1, <1>2, <1>4, <1>6
  <2>3. 16 * q < n /\ n - 16 * q \in Nat BY <1>1, <2>1, <2>2
  <2>4. VectorPlace(n, l) = 16 * q
    BY <1>1, <1>3, <2>1, <2>2, <2>3
  <2>5. VectorPlace(n, k) = IF 16 * q + 64 < n THEN 16 * q + 64 ELSE n
    <3>1. 128 * s + 64 * (k - s) = 16 * q + 64 BY <1>1, <2>1
    <3> HIDE DEF q
    <3> QED BY <1>3, <1>6, <3>1
  <2> HIDE DEF q
  <2>6. n - 16 * q >= 64 => VectorPlace(n, k) = 16 * q + 64 BY <2>1, <2>3, <2>5
  <2>7. ~(n - 16 * q >= 64) => VectorPlace(n, k) = 16 * q + (n - 16 * q) /\ n - 16 * q \in 0..64
    BY <2>1, <2>3, <2>5
  <2> QED BY <1>6, <2>1, <2>4, <2>6, <2>7 DEF s, VectorTurn
<1> QED BY <1>5, <1>6

(* The vector build's keystream.                                           *)
LEMMA VectorIs ==
  ASSUME NEW c \in 0..(CounterSize - 1), NEW n \in Nat
  PROVE  Paths!Vector(c, n) = Applied(c, n)
<1> DEFINE eights == n \div 128
           turns == eights + Paths!DivCeil(n % 128, 64)
           pos(k) == VectorPlace(n, k)
           Eight(acc) == [keys    |-> acc.keys \o Paths!Take(Paths!Emitted(acc.counter), 64)
                                       \o Paths!Take(Paths!Emitted(Paths!WrappingAdd(acc.counter, 4)), 64),
                          counter |-> Paths!WrappingAdd(acc.counter, 8)]
           Four(acc)  == [keys    |-> acc.keys \o Paths!Take(Paths!Emitted(acc.counter), 64),
                          counter |-> Paths!WrappingAdd(acc.counter, 4)]
           Rest(acc)  == [keys    |-> acc.keys \o Paths!Take(Paths!Emitted(acc.counter), n - Len(acc.keys)),
                          counter |-> Paths!WrappingAdd(acc.counter, Paths!DivCeil(n - Len(acc.keys), Paths!Words))]
           Go(acc, k) == IF k <= eights THEN Eight(acc)
                         ELSE IF n - Len(acc.keys) >= 64 THEN Four(acc) ELSE Rest(acc)
           Body(f, k) == IF k = 0 THEN [keys |-> <<>>, counter |-> c] ELSE Go(f[k - 1], k)
           IsTurn(f) == f = [k \in 0..turns |-> Body(f, k)]
           g == [k \in 0..turns |-> Applied(c, pos(k))]
<1>0. c \in Nat /\ turns \in Nat /\ eights \in Nat
  <2>1. c \in Nat BY StreamAssumption
  <2>2. eights \in Nat /\ n % 128 \in 0..127 BY DivisionIs
  <2>3. Paths!DivCeil(n % 128, 64) \in Nat BY <2>2 DEF Paths!DivCeil
  <2> HIDE DEF eights
  <2> QED BY <2>1, <2>2, <2>3
<1>1. Paths!Vector(c, n) = (CHOOSE f : IsTurn(f))[turns]
  BY Zenon DEF Paths!Vector
<1>2. Applied(c, 0) = [keys |-> <<>>, counter |-> c]
  <2>1. Span(16, c, 0) = <<>> BY DEF Span
  <2>2. Paths!DivCeil(0, 16) = 0 BY DEF Paths!DivCeil
  <2> QED BY <2>1, <2>2, WrapNone DEF Applied
<1>3. ASSUME NEW k \in Nat, NEW l \in Nat, k = l + 1, k <= turns
      PROVE  Go(Applied(c, pos(l)), k) = Applied(c, pos(k))
  <2>1. PICK q \in Nat :
           /\ VectorPlace(n, l) = 16 * q
           /\ k <= eights => VectorPlace(n, k) = 16 * (q + 4) + 64
           /\ ~(k <= eights) =>
                /\ n - 16 * q >= 64 => VectorPlace(n, k) = 16 * q + 64
                /\ ~(n - 16 * q >= 64) => /\ VectorPlace(n, k) = 16 * q + (n - 16 * q)
                                          /\ n - 16 * q \in 0..64
    <3>1. VectorTurn(n, k, l) BY <1>3, VectorPlaces
    <3> QED BY <3>1, Zenon DEF VectorTurn
  <2> DEFINE acc == Applied(c, 16 * q)
             at == Wrapped(c, q)
  <2>2. ASSUME NEW t \in Nat
        PROVE  /\ acc.counter = at /\ at \in Nat
               /\ [keys |-> acc.keys \o Span(16, at, t),
                   counter |-> Wrapped(at, Paths!DivCeil(t, 16))] = Applied(c, 16 * q + t)
    <3>1. AppliedOn(c, q, t) BY <1>0, <2>2, AppliedGoesOn
    <3> QED BY <3>1, Zenon DEF AppliedOn
  <2>3. acc.counter = at /\ at \in Nat
    <3>1. AppliedOn(c, q, q) BY <1>0, AppliedGoesOn
    <3> QED BY <3>1, Zenon DEF AppliedOn
  <2>4. IsList(acc.keys, 16 * q) /\ Len(acc.keys) = 16 * q
    <3>1. acc.keys = Span(16, c, 16 * q) BY DEF Applied
    <3>2. IsList(Span(16, c, 16 * q), 16 * q) BY DEF Span, IsList
    <3> HIDE DEF acc
    <3>3. 16 * q \in Nat OBVIOUS
    <3> QED BY <3>1, <3>2, <3>3, ListIs
  <2> HIDE DEF acc, at
  <2>5. \A t \in 0..64 : Paths!Take(Paths!Emitted(at), t) = Span(16, at, t)
    BY <2>3, EmittedIs
  <2>6. Paths!DivCeil(64, 16) = 4 BY DEF Paths!DivCeil
  <2>7. Go(acc, k) = Applied(c, pos(k))
    <3>1. CASE k <= eights
      <4> DEFINE next == Wrapped(at, 4)
      <4>1. Go(acc, k) = Eight(acc) BY <3>1
      <4>2. /\ next = Wrapped(c, q + 4) /\ next \in Nat
            /\ Wrapped(next, 4) = Wrapped(at, 8)
        <5> DEFINE four == 4
                   p == q + four
        <5>1. four \in Nat /\ p \in Nat BY DEF four
        <5>2. WrapsTwice(c, q, four) /\ WrapsTwice(at, four, four)
          <6> HIDE DEF four, p
          <6> QED BY <1>0, <2>3, <5>1, WrapTwice
        <5>3. four + four = 8 OBVIOUS
        <5> QED BY <5>2, <5>3, Zenon DEF WrapsTwice, at
      <4>3. Paths!Take(Paths!Emitted(next), 64) = Span(16, next, 64)
        <5> HIDE DEF next
        <5>1. 64 \in 0..64 OBVIOUS
        <5> QED BY <4>2, <5>1, EmittedIs
      <4>4. Paths!Take(Paths!Emitted(at), 64) = Span(16, at, 64)
        <5>1. 64 \in 0..64 OBVIOUS
        <5> QED BY <2>5, <5>1
      <4>5. Eight(acc) = [keys |-> (acc.keys \o Span(16, at, 64)) \o Span(16, next, 64),
                          counter |-> Wrapped(at, 8)]
        BY <2>3, <4>3, <4>4, Zenon DEF Paths!WrappingAdd, Wrapped
      <4> DEFINE acc2 == Applied(c, 16 * (q + 4))
      <4>6. acc2 = [keys |-> acc.keys \o Span(16, at, 64), counter |-> next]
        <5>1. [keys |-> acc.keys \o Span(16, at, 64), counter |-> Wrapped(at, Paths!DivCeil(64, 16))]
                = Applied(c, 16 * q + 64)
          <6> DEFINE t == 64
          <6>1. t \in Nat OBVIOUS
          <6> HIDE DEF t
          <6>2. [keys |-> acc.keys \o Span(16, at, t), counter |-> Wrapped(at, Paths!DivCeil(t, 16))]
                = Applied(c, 16 * q + t) BY <2>2, <6>1
          <6> QED BY <6>2 DEF t
        <5>2. 16 * q + 64 = 16 * (q + 4) OBVIOUS
        <5> QED BY <2>6, <5>1, <5>2
      <4>7. [keys |-> acc2.keys \o Span(16, next, 64), counter |-> Wrapped(next, 4)]
              = Applied(c, 16 * (q + 4) + 64)
        <5> DEFINE t == 64
                   p == q + 4
        <5>1. t \in Nat /\ p \in Nat OBVIOUS
        <5>2. AppliedOn(c, p, t)
          <6> HIDE DEF t, p
          <6> QED BY <1>0, <5>1, AppliedGoesOn
        <5>3. [keys |-> Applied(c, 16 * p).keys \o Span(16, Wrapped(c, p), t),
               counter |-> Wrapped(Wrapped(c, p), Paths!DivCeil(t, 16))] = Applied(c, 16 * p + t)
          <6> HIDE DEF t, p
          <6> QED BY <5>2, Zenon DEF AppliedOn
        <5> HIDE DEF next
        <5> QED BY <2>6, <4>2, <5>3, Zenon
      <4> HIDE DEF next, Go, Eight, acc2
      <4>8. acc2.keys = acc.keys \o Span(16, at, 64) BY <4>6
      <4>9. Wrapped(next, 4) = Wrapped(at, 8) BY <4>2
      <4>10. Eight(acc) = Applied(c, 16 * (q + 4) + 64) BY <4>5, <4>7, <4>8, <4>9, Zenon
      <4> QED BY <2>1, <3>1, <4>1, <4>10
    <3>2. CASE ~(k <= eights) /\ n - Len(acc.keys) >= 64
      <4> DEFINE t == 64
      <4>1. Go(acc, k) = Four(acc) BY <3>2
      <4>2. t \in Nat /\ t \in 0..64 OBVIOUS
      <4>3. Four(acc) = [keys |-> acc.keys \o Span(16, at, t),
                         counter |-> Wrapped(at, Paths!DivCeil(t, 16))]
        BY <2>3, <2>5, <2>6, <4>2, Zenon DEF Paths!WrappingAdd, Wrapped
      <4> HIDE DEF Go, Four, t
      <4>4. Four(acc) = Applied(c, 16 * q + t) BY <2>2, <4>2, <4>3
      <4>5. VectorPlace(n, k) = 16 * q + t
        BY <2>1, <2>4, <3>2 DEF t
      <4> QED BY <4>1, <4>4, <4>5
    <3>3. CASE ~(k <= eights) /\ ~(n - Len(acc.keys) >= 64)
      <4> DEFINE t == n - Len(acc.keys)
      <4>1. Go(acc, k) = Rest(acc) BY <3>3
      <4>2. t \in Nat /\ t \in 0..64 /\ VectorPlace(n, k) = 16 * q + t
        <5>1. ~(n - 16 * q >= 64) BY <2>4, <3>3
        <5>2. n - 16 * q \in 0..64 /\ VectorPlace(n, k) = 16 * q + (n - 16 * q)
          BY <2>1, <3>3, <5>1
        <5> QED BY <2>4, <5>2
      <4>3. Rest(acc) = [keys |-> acc.keys \o Span(16, at, t),
                         counter |-> Wrapped(at, Paths!DivCeil(t, 16))]
        BY <2>3, <2>5, <4>2, Zenon DEF Paths!WrappingAdd, Wrapped, Paths!Words
      <4> HIDE DEF Go, Rest, t
      <4>4. Rest(acc) = Applied(c, 16 * q + t) BY <2>2, <4>2, <4>3
      <4> QED BY <4>1, <4>2, <4>4
    <3> QED BY <3>1, <3>2, <3>3
  <2>8. Applied(c, pos(l)) = acc BY <2>1 DEF acc
  <2> HIDE DEF Go, pos
  <2> QED BY <2>7, <2>8
<1>4. ASSUME NEW k \in 0..turns PROVE g[k] = Body(g, k)
  <2>1. CASE k = 0
    <3>1. pos(0) = 0 /\ 0 \in 0..turns
      <4>1. 0 <= eights /\ 128 * 0 = 0 BY <1>0
      <4> QED BY <1>0, <4>1 DEF VectorPlace
    <3>2. g[0] = Applied(c, 0) BY <3>1
    <3>3. Body(g, k) = [keys |-> <<>>, counter |-> c] BY <2>1
    <3> HIDE DEF g, Body
    <3> QED BY <1>2, <2>1, <3>2, <3>3
  <2>2. CASE k # 0
    <3> DEFINE l == k - 1
    <3>1. k \in Nat /\ l \in Nat /\ k = l + 1 /\ k <= turns /\ l \in 0..turns BY <1>0, <2>2
    <3> HIDE DEF l, turns, pos, Go
    <3>2. g[l] = Applied(c, pos(l)) /\ g[k] = Applied(c, pos(k)) BY <3>1
    <3> HIDE DEF g
    <3>3. Body(g, k) = Go(g[l], k) BY <2>2 DEF l
    <3> HIDE DEF Body
    <3>4. Go(Applied(c, pos(l)), k) = Applied(c, pos(k)) BY <1>3, <3>1
    <3> QED BY <3>2, <3>3, <3>4
  <2> HIDE DEF g, Body, turns
  <2> QED BY <2>1, <2>2
<1>5. IsTurn(g)
  <2>1. g = [k \in 0..turns |-> g[k]] OBVIOUS
  <2> HIDE DEF g, Body, turns
  <2> QED BY <1>4, <2>1
<1>6. ASSUME NEW f, IsTurn(f) PROVE f[turns] = g[turns]
  <2> DEFINE S == { k \in 0..turns : f[k] # g[k] }
  <2>1. ASSUME S # {} PROVE FALSE
    <3>1. PICK k \in S : \A j \in S : k <= j
      <4>1. S \subseteq Nat BY <1>0
      <4> HIDE DEF S
      <4> QED BY <2>1, <4>1, LeastOf
    <3>2. k \in 0..turns /\ f[k] # g[k] BY <3>1
    <3> HIDE DEF turns, Go
    <3>3. f[k] = Body(f, k) /\ g[k] = Body(g, k)
      <4>1. f[k] = Body(f, k)
        <5> HIDE DEF Body
        <5> QED BY <1>6, <3>2
      <4> QED BY <1>4, <3>2, <4>1
    <3> HIDE DEF g
    <3>4. k # 0 BY <3>2, <3>3
    <3>5. k - 1 \in 0..turns /\ k - 1 < k BY <1>0, <3>2, <3>4
    <3>6. f[k - 1] = g[k - 1] BY <3>1, <3>2, <3>5
    <3> QED BY <3>2, <3>3, <3>6, Zenon
  <2>2. turns \in 0..turns BY <1>0
  <2> HIDE DEF g, turns
  <2> QED BY <2>1, <2>2
<1>7. pos(turns) = n
  <2> DEFINE r == n % 128
  <2>1. r \in 0..127 /\ n = 128 * eights + r BY DivisionIs
  <2>2. turns = eights + (r + 64 - 1) \div 64 BY DEF Paths!DivCeil
  <2>3. pos(turns) = IF turns <= eights THEN 128 * turns
                     ELSE IF 128 * eights + 64 * (turns - eights) < n
                          THEN 128 * eights + 64 * (turns - eights) ELSE n
    BY DEF VectorPlace
  <2> HIDE DEF r, eights, turns, pos
  <2>4. (r = 0 /\ turns = eights) \/ (r \in 1..64 /\ turns = eights + 1)
          \/ (r \in 65..127 /\ turns = eights + 2)
    BY <1>0, <2>1, <2>2
  <2> QED BY <1>0, <2>1, <2>3, <2>4
<1>8. g[turns] = Applied(c, n) BY <1>0, <1>7
<1> HIDE DEF g, IsTurn, turns
<1>9. IsTurn(CHOOSE f : IsTurn(f)) BY <1>5, Zenon
<1>10. (CHOOSE f : IsTurn(f))[turns] = g[turns] BY <1>6, <1>9
<1> QED BY <1>1, <1>8, <1>10, Zenon

(* The generator's builds and the AEADs' are these.                        *)
LEMMA SamePaths ==
  ASSUME NEW c, NEW n
  PROVE  /\ Stream!Portable(c, n) = Paths!Portable(c, n)
         /\ Stream!Vector(c, n) = Paths!Vector(c, n)
         /\ Suites!Portable(c, n) = Paths!Portable(c, n)
         /\ Suites!Vector(c, n) = Paths!Vector(c, n)
<1>1. Stream!Portable(c, n) = Paths!Portable(c, n)
  BY Zenon DEF Stream!Portable, Stream!DivCeil, Stream!Take, Stream!FourBlocks, Stream!Lanes,
               Stream!WrappingAdd, Stream!Words,
               Paths!Portable, Paths!DivCeil, Paths!Take, Paths!FourBlocks, Paths!Lanes,
               Paths!WrappingAdd, Paths!Words
<1>2. Suites!Portable(c, n) = Paths!Portable(c, n)
  BY Zenon DEF Suites!Portable, Suites!DivCeil, Suites!Take, Suites!FourBlocks, Suites!Lanes,
               Suites!WrappingAdd, Suites!Words,
               Paths!Portable, Paths!DivCeil, Paths!Take, Paths!FourBlocks, Paths!Lanes,
               Paths!WrappingAdd, Paths!Words
<1>3. Stream!Vector(c, n) = Paths!Vector(c, n)
  BY Zenon DEF Stream!Vector, Stream!DivCeil, Stream!Take, Stream!Emitted, Stream!Lanes,
               Stream!Transpose, Stream!Trn1, Stream!Trn2, Stream!Trn1D, Stream!Trn2D,
               Stream!WrappingAdd, Stream!Words,
               Paths!Vector, Paths!DivCeil, Paths!Take, Paths!Emitted, Paths!Lanes,
               Paths!Transpose, Paths!Trn1, Paths!Trn2, Paths!Trn1D, Paths!Trn2D,
               Paths!WrappingAdd, Paths!Words
<1>4. Suites!Vector(c, n) = Paths!Vector(c, n)
  BY Zenon DEF Suites!Vector, Suites!DivCeil, Suites!Take, Suites!Emitted, Suites!Lanes,
               Suites!Transpose, Suites!Trn1, Suites!Trn2, Suites!Trn1D, Suites!Trn2D,
               Suites!WrappingAdd, Suites!Words,
               Paths!Vector, Paths!DivCeil, Paths!Take, Paths!Emitted, Paths!Lanes,
               Paths!Transpose, Paths!Trn1, Paths!Trn2, Paths!Trn1D, Paths!Trn2D,
               Paths!WrappingAdd, Paths!Words
<1> QED BY <1>1, <1>2, <1>3, <1>4

(* The counters of a generator are counters.                               *)
Counters == 0..(CounterSize - 1)
StreamInv == unit = "keystream" => s2 \in Counters /\ s4 \in Counters

(* A call of a generator goes on at the next block, in both builds.        *)
LEMMA CallResumes ==
  ASSUME s2 \in Counters, s4 \in Counters, NEW n \in StreamCalls, Stream!ApplyKeystream(n)
  PROVE  s2' \in Counters /\ s4' \in Counters /\ Stream!BothResume
<1>1. n \in Nat /\ CounterSize \in Nat BY StreamAssumption
<1>2. /\ s3' = s3 \o Stream!Portable(s2, n).keys /\ s2' = Stream!Portable(s2, n).counter
      /\ s5' = s5 \o Stream!Vector(s4, n).keys /\ s4' = Stream!Vector(s4, n).counter
  BY Zenon DEF Stream!ApplyKeystream
<1>3. Stream!Portable(s2, n) = Applied(s2, n)
  <2> DEFINE c == s2
  <2>1. c \in 0..(CounterSize - 1) BY DEF Counters
  <2> HIDE DEF c
  <2>2. Stream!Portable(c, n) = Applied(c, n) BY <1>1, <2>1, SamePaths, PortableIs
  <2> QED BY <2>2 DEF c
<1>4. Stream!Vector(s4, n) = Applied(s4, n)
  <2> DEFINE c == s4
  <2>1. c \in 0..(CounterSize - 1) BY DEF Counters
  <2> HIDE DEF c
  <2>2. Stream!Vector(c, n) = Applied(c, n) BY <1>1, <2>1, SamePaths, VectorIs
  <2> QED BY <2>2 DEF c
<1>5. ASSUME NEW c \in Counters
      PROVE  Wrapped(c, Paths!DivCeil(n, 16)) \in Counters
  <2> DEFINE k == Paths!DivCeil(n, 16)
  <2>1. k \in Nat BY <1>1 DEF Paths!DivCeil
  <2>2. c \in Nat BY <1>1 DEF Counters
  <2> HIDE DEF k
  <2>3. WrapsTwice(c, k, k) BY <2>1, <2>2, WrapTwice
  <2> QED BY <2>3, Zenon DEF WrapsTwice, Counters, k
<1>6. ASSUME NEW c, NEW made, NEW d, NEW more,
             more = made \o Applied(c, n).keys, d = Applied(c, n).counter
      PROVE  Stream!Resumes(c, made, d, more) /\ d = Wrapped(c, Paths!DivCeil(n, 16))
  <2>1. Applied(c, n).keys = Span(16, c, n) /\ d = Wrapped(c, Paths!DivCeil(n, 16))
    BY <1>6 DEF Applied
  <2>2. /\ more = made \o [i \in 1..n |-> << Stream!WrappingAdd(c, (i - 1) \div 16), (i - 1) % 16 >>]
        /\ d = Stream!WrappingAdd(c, Stream!DivCeil(n, 16))
    BY <1>6, <2>1, Zenon DEF Span, Wrapped, Stream!WrappingAdd, Stream!DivCeil, Paths!DivCeil
  <2> QED BY <2>1, <2>2, Zenon DEF Stream!Resumes, Stream!Words
<1>7. Stream!Resumes(s2, s3, s2', s3') /\ s2' = Wrapped(s2, Paths!DivCeil(n, 16))
  BY <1>2, <1>3, <1>6
<1>8. Stream!Resumes(s4, s5, s4', s5') /\ s4' = Wrapped(s4, Paths!DivCeil(n, 16))
  BY <1>2, <1>4, <1>6
<1>9. s2' \in Counters /\ s4' \in Counters BY <1>5, <1>7, <1>8
<1> QED BY <1>7, <1>8, <1>9, Zenon DEF Stream!BothResume

(* A generator's counters stay counters.                                   *)
LEMMA StreamInit == SecretsInit => StreamInv
<1> SUFFICES ASSUME SecretsInit, unit = "keystream" PROVE s2 \in Counters /\ s4 \in Counters
  BY DEF StreamInv
<1>1. Stream!Init BY Zenon DEF SecretsInit
<1> QED BY <1>1, StreamAssumption DEF Stream!Init, Counters

(* Every step of a generator is a call, and resumes.                       *)
LEMMA StreamStepKeeps ==
  StreamInv /\ [SecretsNext]_bench =>
    /\ StreamInv'
    /\ unit = "keystream" => Stream!BothResume \/ UNCHANGED Stream!vars
<1> SUFFICES ASSUME StreamInv, [SecretsNext]_bench, unit = "keystream" \/ unit' = "keystream"
             PROVE  /\ s2' \in Counters /\ s4' \in Counters
                    /\ Stream!BothResume \/ UNCHANGED Stream!vars
  BY Zenon DEF StreamInv
<1>1. unit = "keystream"
  BY Zenon DEF SecretsNext, RestUntouched, bench
<1>2. s2 \in Counters /\ s4 \in Counters BY <1>1 DEF StreamInv
<1>3. CASE UNCHANGED bench
  <2>1. UNCHANGED <<s1, s2, s3, s4, s5, s6>> BY <1>3 DEF bench, slots
  <2> QED BY <1>2, <2>1 DEF Stream!vars
<1>4. CASE SecretsNext
  <2>1. Stream!Next BY <1>1, <1>4 DEF SecretsNext, RandStep
  <2>2. PICK n \in StreamCalls : Stream!ApplyKeystream(n) BY <2>1, Zenon DEF Stream!Next
  <2> QED BY <1>2, <2>2, CallResumes
<1> QED BY <1>3, <1>4

-----------------------------------------------------------------------------
(* The AEADs.  A suite's words in a block, the first counter of its text,  *)
(* and the word of the keystream that word i of a text takes.              *)
WordsOf(s) == IF s = "aes256gcm" THEN 4 ELSE 16
FirstOf(s) == IF s = "aes256gcm" THEN 2 ELSE 1
OwnNonce   == <<0, 0>>
OwnStream(s) == Suites!StreamOf(s, OwnNonce)
Used(s, i) == <<"key", OwnStream(s), <<Wrapped(FirstOf(s), (i - 1) \div WordsOf(s)), (i - 1) % WordsOf(s)>> >>

(* A text of n words of which the first are encrypted.                     *)
Begun(s, n, at) == [i \in 1..n |-> IF i <= at THEN {<<"text", i>>, Used(s, i)} ELSE {<<"text", i>>}]

(* What is authenticated.                                                  *)
Bound(x, b) == Suites!Closed(Suites!Padded(x, 4) \o b, Len(x), Len(b))
SealTag(s, n, a) == <<OwnStream(s), Bound(Suites!AssocData(a), Begun(s, n, n))>>

(* What the numbers are.                                                   *)
LEMMA SuiteNumbers ==
  ASSUME NEW s
  PROVE  /\ WordsOf(s) \in Nat /\ WordsOf(s) > 0
         /\ FirstOf(s) \in 0..(CounterSize - 1) /\ FirstOf(s) \in Nat
BY StreamAssumption DEF WordsOf, FirstOf

(* Words of a text, and texts begun, are lists.                            *)
LEMMA BegunIs ==
  ASSUME NEW s, NEW n \in Nat, NEW at
  PROVE  /\ IsList(Begun(s, n, at), n) /\ Len(Begun(s, n, at)) = n
         /\ DOMAIN Begun(s, n, at) = 1..n
<1>1. IsList(Begun(s, n, at), n) BY DEF Begun, IsList
<1> QED BY <1>1, ListIs

(* The associated data is a list.                                          *)
LEMMA AdIs ==
  ASSUME NEW a \in Nat
  PROVE  IsList(Suites!AssocData(a), a) /\ Len(Suites!AssocData(a)) = a
<1>1. IsList(Suites!AssocData(a), a) BY DEF Suites!AssocData, IsList
<1> QED BY <1>1, ListIs

(* Padded data begins with the data.                                       *)
LEMMA PaddedIs ==
  ASSUME NEW n \in Nat, NEW x, IsList(x, n)
  PROVE  \E m \in Nat : /\ IsList(Suites!Padded(x, 4), n + m)
                        /\ \A i \in 1..n : Suites!Padded(x, 4)[i] = x[i]
<1> DEFINE m == (4 - (n % 4)) % 4
           fill == [i \in 1..m |-> {}]
<1>1. m \in Nat OBVIOUS
<1>2. Len(x) = n BY ListIs
<1>3. IsList(fill, m) BY DEF IsList
<1>4. Suites!Padded(x, 4) = x \o fill BY <1>2 DEF Suites!Padded
<1> HIDE DEF m, fill
<1>5. /\ IsList(x \o fill, n + m)
      /\ \A i \in 1..(n + m) : (x \o fill)[i] = IF i <= n THEN x[i] ELSE fill[i - n]
  <2>1. Joins(x, n, fill, m) BY <1>1, <1>3, JoinIs
  <2> QED BY <2>1, Zenon DEF Joins
<1>6. ASSUME NEW i \in 1..n PROVE (x \o fill)[i] = x[i]
  <2>1. i \in 1..(n + m) /\ i <= n BY <1>1
  <2> QED BY <1>5, <2>1
<1> QED BY <1>1, <1>4, <1>5, <1>6

(* A word behind a list.                                                   *)
Behind(x, n, e) ==
  /\ IsList(x \o <<e>>, n + 1) /\ (x \o <<e>>)[n + 1] = e
  /\ \A i \in 1..n : (x \o <<e>>)[i] = x[i]

(* It is the last one.                                                     *)
LEMMA OneMore == ASSUME NEW n \in Nat, NEW x, IsList(x, n), NEW e PROVE Behind(x, n, e)
<1> DEFINE one == <<e>>
           u == 1
<1>1. IsList(one, u) /\ one[1] = e /\ u \in Nat BY DEF IsList
<1> HIDE DEF one, u
<1>2. /\ IsList(x \o one, n + u)
      /\ \A i \in 1..(n + u) : (x \o one)[i] = IF i <= n THEN x[i] ELSE one[i - n]
  <2>1. Joins(x, n, one, u) BY <1>1, JoinIs
  <2> QED BY <2>1, Zenon DEF Joins
<1>3. (x \o one)[n + 1] = e
  <2>1. n + 1 \in 1..(n + u) /\ ~(n + 1 <= n) /\ (n + 1) - n = 1 BY DEF u
  <2> QED BY <1>1, <1>2, <2>1
<1>4. ASSUME NEW i \in 1..n PROVE (x \o one)[i] = x[i]
  <2>1. i \in 1..(n + u) /\ i <= n BY DEF u
  <2> QED BY <1>2, <2>1
<1> QED BY <1>2, <1>3, <1>4 DEF one, u, Behind

(* What Bound is made of: the padded data and text, then the lengths.      *)
BoundParts(a, n, x, b, p) ==
  \E m \in Nat : /\ Len(Bound(x, b)) = m + 1
                 /\ Bound(x, b)[m + 1] = {<<"lengths", a, n>>}
                 /\ p + n <= m
                 /\ \A j \in 1..n : Bound(x, b)[p + j] = b[j]

(* The text begins where the padding of the associated data ends.          *)
LEMMA BoundIs ==
  ASSUME NEW a \in Nat, NEW n \in Nat, NEW x, NEW b, IsList(x, a), IsList(b, n),
         NEW p \in Nat, IsList(Suites!Padded(x, 4), p)
  PROVE  BoundParts(a, n, x, b, p)
<1> DEFINE P == Suites!Padded(x, 4)
           data == P \o b
           e == {<<"lengths", a, n>>}
           v == p + n
<1>1. Len(x) = a /\ Len(b) = n BY ListIs
<1>2. Bound(x, b) = Suites!Padded(data, 4) \o <<e>> BY <1>1, Zenon DEF Bound, Suites!Closed
<1>3. /\ IsList(data, v)
      /\ \A i \in 1..v : data[i] = IF i <= p THEN P[i] ELSE b[i - p]
  <2>1. IsList(P, p) OBVIOUS
  <2> HIDE DEF P
  <2>2. Joins(P, p, b, n) BY <2>1, JoinIs
  <2> QED BY <2>2, Zenon DEF Joins
<1>4. v \in Nat OBVIOUS
<1> HIDE DEF data, P, e, v
<1>5. PICK k \in Nat : /\ IsList(Suites!Padded(data, 4), v + k)
                       /\ \A i \in 1..v : Suites!Padded(data, 4)[i] = data[i]
  BY <1>3, <1>4, PaddedIs
<1> DEFINE m == v + k
           d == Suites!Padded(data, 4)
<1>6. m \in Nat BY <1>4
<1>7. IsList(d, m) BY <1>5
<1> HIDE DEF d, m
<1>8. /\ IsList(d \o <<e>>, m + 1) /\ (d \o <<e>>)[m + 1] = e
      /\ \A i \in 1..m : (d \o <<e>>)[i] = d[i]
  <2>1. Behind(d, m, e) BY <1>6, <1>7, OneMore
  <2> QED BY <2>1, Zenon DEF Behind
<1>9. Len(Bound(x, b)) = m + 1
  <2>1. m + 1 \in Nat BY <1>6
  <2>2. Len(d \o <<e>>) = m + 1
    <3> DEFINE f == d \o <<e>>
               l == m + 1
    <3>1. IsList(f, l) /\ l \in Nat BY <1>8, <2>1
    <3> HIDE DEF f, l
    <3>2. Len(f) = l BY <3>1, ListIs
    <3> QED BY <3>2 DEF f, l
  <2> QED BY <1>2, <2>2 DEF d
<1>10. Bound(x, b)[m + 1] = e BY <1>2, <1>8 DEF d
<1>11. ASSUME NEW j \in 1..n PROVE Bound(x, b)[p + j] = b[j]
  <2>1. p + j \in 1..v /\ p + j \in 1..m /\ ~(p + j <= p) /\ (p + j) - p = j
    BY <1>4 DEF v, m
  <2>2. (d \o <<e>>)[p + j] = d[p + j] BY <1>8, <2>1
  <2>3. d[p + j] = data[p + j] BY <1>5, <2>1 DEF d
  <2>4. data[p + j] = b[j] BY <1>3, <2>1
  <2> QED BY <1>2, <2>2, <2>3, <2>4 DEF d
<1>12. p + n <= m BY <1>4 DEF m, v
<1> QED BY <1>6, <1>9, <1>10, <1>11, <1>12 DEF e, BoundParts

(* The transcript determines both lengths and, for the same associated     *)
(* data, the text.                                                         *)
Binds(a, n, x, b, c, m, y, d) == a = c /\ n = m /\ (x = y => b = d)

(* Of two equal transcripts.                                               *)
LEMMA BoundBinds ==
  ASSUME NEW a \in Nat, NEW n \in Nat, NEW x, NEW b, IsList(x, a), IsList(b, n),
         NEW c \in Nat, NEW m \in Nat, NEW y, NEW d, IsList(y, c), IsList(d, m),
         Bound(x, b) = Bound(y, d)
  PROVE  Binds(a, n, x, b, c, m, y, d)
<1>1. PICK p \in Nat : IsList(Suites!Padded(x, 4), p)
  <2>1. PICK k \in Nat : IsList(Suites!Padded(x, 4), a + k) BY PaddedIs
  <2>2. a + k \in Nat OBVIOUS
  <2> QED BY <2>1, <2>2
<1>2. PICK q \in Nat : IsList(Suites!Padded(y, 4), q)
  <2>1. PICK k \in Nat : IsList(Suites!Padded(y, 4), c + k) BY PaddedIs
  <2>2. c + k \in Nat OBVIOUS
  <2> QED BY <2>1, <2>2
<1>3. PICK k \in Nat : /\ Len(Bound(x, b)) = k + 1
                       /\ Bound(x, b)[k + 1] = {<<"lengths", a, n>>}
                       /\ \A j \in 1..n : Bound(x, b)[p + j] = b[j]
  <2>1. BoundParts(a, n, x, b, p) BY <1>1, BoundIs
  <2> QED BY <2>1, Zenon DEF BoundParts
<1>4. PICK l \in Nat : /\ Len(Bound(y, d)) = l + 1
                       /\ Bound(y, d)[l + 1] = {<<"lengths", c, m>>}
                       /\ \A j \in 1..m : Bound(y, d)[q + j] = d[j]
  <2>1. BoundParts(c, m, y, d, q) BY <1>2, BoundIs
  <2> QED BY <2>1, Zenon DEF BoundParts
<1>5. k = l BY <1>3, <1>4
<1>6. {<<"lengths", a, n>>} = {<<"lengths", c, m>>} BY <1>3, <1>4, <1>5
<1>7. a = c /\ n = m
  <2>1. <<"lengths", a, n>> = <<"lengths", c, m>> BY <1>6, Zenon
  <2> QED BY <2>1
<1>8. ASSUME x = y PROVE b = d
  <2>1. p = q
    <3>1. Len(Suites!Padded(x, 4)) = p /\ Len(Suites!Padded(y, 4)) = q BY <1>1, <1>2, ListIs
    <3> QED BY <1>8, <3>1
  <2>2. \A j \in 1..n : b[j] = d[j] BY <1>3, <1>4, <1>7, <2>1
  <2> QED BY <1>7, <2>2 DEF IsList
<1> QED BY <1>7, <1>8 DEF Binds

-----------------------------------------------------------------------------
(* Sealing.  How far a text of n words has come, bound to a words of data. *)
Ready(n, a) ==
  /\ s5 = Suites!Text(n) /\ s4 = Suites!AssocData(a) /\ s6 = OwnNonce
  /\ s9 = 0 /\ s13 = "none"

Sealing(n, a) ==
  /\ s4 = Suites!AssocData(a) /\ s6 = OwnNonce /\ s13 = "none"
  /\ s9 \in 0..n /\ s5 = Begun(s1, n, s9)
  /\ s11 = Suites!Padded(s4, 4) \o SubSeq(s5, 1, s9)
  /\ s9 < n => \E q \in Nat : s9 = WordsOf(s1) * q /\ s10 = Wrapped(FirstOf(s1), q)

Sealed(n, a) ==
  /\ s4 = Suites!AssocData(a) /\ s6 = OwnNonce /\ s13 = "none"
  /\ s5 = Begun(s1, n, n) /\ s12 = SealTag(s1, n, a)

(* A word that takes a word of the keystream, and one that took it twice.  *)
LEMMA ToggledOnce ==
  ASSUME NEW s, NEW i
  PROVE  /\ Suites!Toggle({<<"text", i>>}, {Used(s, i)}) = {<<"text", i>>, Used(s, i)}
         /\ Suites!Toggle({<<"text", i>>, Used(s, i)}, {Used(s, i)}) = {<<"text", i>>}
         /\ <<"text", i>> # Used(s, i)
<1> DEFINE x == <<"text", i>>
           y == Used(s, i)
<1>1. x # y BY DEF Used
<1> HIDE DEF x, y
<1>2. ({x} \ {y}) \cup ({y} \ {x}) = {x, y} BY <1>1
<1>3. ({x, y} \ {y}) \cup ({y} \ {x, y}) = {x} BY <1>1
<1> QED BY <1>1, <1>2, <1>3, Zenon DEF Suites!Toggle, x, y

(* One more piece of a text is encrypted.                                  *)
LEMMA PieceToggled ==
  ASSUME NEW s, NEW n \in Nat, NEW q \in Nat, NEW t \in Nat, WordsOf(s) * q + t <= n
  PROVE  Suites!XorAt(Begun(s, n, WordsOf(s) * q), WordsOf(s) * q, OwnStream(s),
                      Span(WordsOf(s), Wrapped(FirstOf(s), q), t))
           = Begun(s, n, WordsOf(s) * q + t)
<1> DEFINE w == WordsOf(s)
           c == FirstOf(s)
           at == w * q
           keys == Span(w, Wrapped(c, q), t)
           b == Begun(s, n, at)
<1>1. w \in Nat /\ w > 0 /\ c \in Nat BY SuiteNumbers
<1>2. at \in Nat
  <2> HIDE DEF w
  <2> QED BY <1>1
<1>3. IsList(keys, t) BY DEF Span, IsList
<1>4. Len(keys) = t /\ Len(b) = n
  <2>1. Len(b) = n BY BegunIs
  <2> HIDE DEF keys
  <2> QED BY <1>3, <2>1, ListIs
<1>5. Suites!XorAt(b, at, OwnStream(s), keys)
        = [i \in 1..n |-> IF i - at \in 1..t
                          THEN Suites!Toggle(b[i], {<<"key", OwnStream(s), keys[i - at]>>}) ELSE b[i]]
  <2> HIDE DEF keys, b, at
  <2> QED BY <1>4, Zenon DEF Suites!XorAt
<1>6. ASSUME NEW i \in 1..n
      PROVE  (IF i - at \in 1..t
              THEN Suites!Toggle(b[i], {<<"key", OwnStream(s), keys[i - at]>>}) ELSE b[i])
             = IF i <= at + t THEN {<<"text", i>>, Used(s, i)} ELSE {<<"text", i>>}
  <2>1. b[i] = IF i <= at THEN {<<"text", i>>, Used(s, i)} ELSE {<<"text", i>>}
    <3> HIDE DEF at
    <3> QED BY DEF Begun
  <2>2. CASE i - at \in 1..t
    <3> DEFINE j == i - at
    <3>1. j \in 1..t /\ ~(i <= at) /\ i <= at + t /\ at + j - 1 = i - 1
      <4> HIDE DEF at
      <4> QED BY <1>2, <2>2
    <3>2. keys[j] = <<Wrapped(c, (at + j - 1) \div w), (at + j - 1) % w>>
      <4>1. Shifts(w, c, q, t, j)
        <5> HIDE DEF w, c, j
        <5> QED BY <1>1, <3>1, SpanShift
      <4> QED BY <4>1, Zenon DEF Shifts
    <3> HIDE DEF j, at, keys, b
    <3>3. <<"key", OwnStream(s), keys[j]>> = Used(s, i)
      BY <3>1, <3>2 DEF Used
    <3>4. Suites!Toggle({<<"text", i>>}, {Used(s, i)}) = {<<"text", i>>, Used(s, i)}
      BY ToggledOnce
    <3>5. b[i] = {<<"text", i>>} BY <2>1, <3>1
    <3> QED BY <2>2, <3>1, <3>3, <3>4, <3>5, Zenon DEF j
  <2>3. CASE ~(i - at \in 1..t)
    <3>1. i <= at <=> i <= at + t
      <4> HIDE DEF at
      <4> QED BY <1>2, <2>3
    <3> HIDE DEF at, keys, b
    <3> QED BY <2>1, <2>3, <3>1
  <2> QED BY <2>2, <2>3
<1> HIDE DEF at, keys, b
<1>7. Suites!XorAt(b, at, OwnStream(s), keys)
        = [i \in 1..n |-> IF i <= at + t THEN {<<"text", i>>, Used(s, i)} ELSE {<<"text", i>>}]
  BY <1>5, <1>6
<1>8. Suites!XorAt(b, at, OwnStream(s), keys) = Begun(s, n, at + t)
  BY <1>7, Zenon DEF Begun
<1> QED BY <1>8 DEF at, keys, b, w, c

(* The transcript goes on with what the piece became.                      *)
TranscriptOn(P, s, n, i, j) ==
  (P \o SubSeq(Begun(s, n, i), 1, i)) \o SubSeq(Begun(s, n, j), i + 1, j)
    = P \o SubSeq(Begun(s, n, j), 1, j)

(* It does, whatever it begins with.                                       *)
LEMMA TranscriptGoesOn ==
  ASSUME NEW s, NEW n \in Nat, NEW i \in Nat, NEW j \in i..n, NEW P, NEW k \in Nat, IsList(P, k)
  PROVE  TranscriptOn(P, s, n, i, j)
<1> DEFINE b == Begun(s, n, i)
           d == Begun(s, n, j)
<1>1. /\ IsList(b, n) /\ IsList(d, n) /\ Len(b) = n /\ Len(d) = n
      /\ DOMAIN b = 1..n /\ DOMAIN d = 1..n BY BegunIs
<1>2. \A m \in 1..i : b[m] = d[m] BY DEF Begun
<1> HIDE DEF b, d
<1>3. PICK A : P \in Seq(A) BY ListIs
<1>4. PICK B : b \in Seq(B) BY <1>1, ListIs
<1>5. PICK D : d \in Seq(D) BY <1>1, ListIs
<1> DEFINE S == A \cup B \cup D
<1>6. P \in Seq(S) /\ b \in Seq(S) /\ d \in Seq(S) BY <1>3, <1>4, <1>5
<1> HIDE DEF S
<1>7. SubSeq(b, 1, i) = SubSeq(d, 1, i)
  <2>1. i \in 0..n /\ i <= n /\ i \in Int BY SMT
  <2>2. SubSeq(b, 1, i) = [m \in 1..i |-> b[m]] BY <1>1, <1>6, <2>1
  <2>3. SubSeq(d, 1, i) = [m \in 1..i |-> d[m]] BY <1>1, <1>6, <2>1
  <2> QED BY <1>2, <2>2, <2>3
<1>8. SubSeq(d, 1, i) \o SubSeq(d, i + 1, j) = SubSeq(d, 1, j)
  <2> DEFINE u == 1
  <2>1. u \in 1..(Len(d) + 1) /\ i \in (u - 1)..Len(d) /\ j \in i..Len(d) BY <1>1
  <2> HIDE DEF u
  <2>2. SubSeq(d, u, i) \o SubSeq(d, i + 1, j) = SubSeq(d, u, j)
    BY <1>6, <2>1, ConcatAdjacentSubSeq
  <2> QED BY <2>2 DEF u
<1>9. SubSeq(d, 1, i) \in Seq(S) /\ SubSeq(d, i + 1, j) \in Seq(S)
  <2>1. SubSeq(d, 1, i) \in Seq(S) BY <1>1, <1>6
  <2>2. SubSeq(d, i + 1, j) \in Seq(S) BY <1>1, <1>6
  <2> QED BY <2>1, <2>2
<1> DEFINE x == SubSeq(d, 1, i)
           y == SubSeq(d, i + 1, j)
<1>10. (P \o x) \o y = P \o (x \o y)
  <2>1. x \in Seq(S) /\ y \in Seq(S) BY <1>9
  <2> HIDE DEF x, y
  <2> QED BY <1>6, <2>1, ConcatAssociative
<1> QED BY <1>7, <1>8, <1>10 DEF b, d, TranscriptOn

(* A pass of a suite over the next t words.                                *)
LEMMA Fused ==
  ASSUME NEW n \in Nat, NEW a \in Nat, Sealing(n, a), NEW q \in Nat, s9 = WordsOf(s1) * q,
         s10 = Wrapped(FirstOf(s1), q), NEW t \in Nat, s9 + t <= n, NEW next,
         s9 + t < n => \E p \in Nat : s9 + t = WordsOf(s1) * p /\ next = Wrapped(FirstOf(s1), p),
         Suites!Fuse(Span(WordsOf(s1), s10, t), next)
  PROVE  Sealing(n, a)' /\ s8' = s8
<1> DEFINE keys == Span(WordsOf(s1), s10, t)
<1>1. IsList(keys, t) BY DEF Span, IsList
<1>2. Len(keys) = t
  <2> HIDE DEF keys
  <2> QED BY <1>1, ListIs
<1>3. /\ s5' = Suites!XorAt(s5, s9, Suites!StreamOf(s1, s6), keys)
      /\ s11' = s11 \o SubSeq(s5', s9 + 1, s9 + t)
      /\ s9' = s9 + t /\ s10' = next
      /\ s1' = s1 /\ s4' = s4 /\ s6' = s6 /\ s8' = s8 /\ s13' = s13
  BY <1>2, Zenon DEF Suites!Fuse, Suites!setting
<1>4. /\ s4 = Suites!AssocData(a) /\ s6 = OwnNonce /\ s13 = "none"
      /\ s9 \in 0..n /\ s5 = Begun(s1, n, s9)
      /\ s11 = Suites!Padded(s4, 4) \o SubSeq(s5, 1, s9)
  BY Zenon DEF Sealing
<1> DEFINE j == s9 + t
<1>5. s9 \in Nat /\ j \in s9..n /\ j \in 0..n
  <2>1. s9 \in 0..n BY <1>4, Zenon
  <2> QED BY <2>1
<1>6. s5' = Begun(s1, n, j)
  <2> DEFINE s == s1
             w == WordsOf(s)
  <2>1. w * q + t <= n BY <1>5
  <2> HIDE DEF s
  <2>2. Suites!XorAt(Begun(s, n, WordsOf(s) * q), WordsOf(s) * q, OwnStream(s),
                      Span(WordsOf(s), Wrapped(FirstOf(s), q), t))
           = Begun(s, n, WordsOf(s) * q + t)
    BY <2>1, PieceToggled
  <2> QED BY <1>3, <1>4, <2>2, Zenon DEF OwnStream, s
<1>7. s11' = Suites!Padded(s4, 4) \o SubSeq(s5', 1, j)
  <2> DEFINE s == s1
             P == Suites!Padded(s4, 4)
             i == s9
  <2>1. PICK k \in Nat : IsList(P, k)
    <3>1. IsList(s4, a) BY <1>4, AdIs
    <3>2. PICK m \in Nat : IsList(P, a + m) BY <3>1, PaddedIs
    <3>3. a + m \in Nat OBVIOUS
    <3> QED BY <3>2, <3>3
  <2> HIDE DEF s, P, j, i
  <2>2. i \in Nat /\ j \in i..n BY <1>5 DEF i
  <2>3. (P \o SubSeq(Begun(s, n, i), 1, i)) \o SubSeq(Begun(s, n, j), i + 1, j)
           = P \o SubSeq(Begun(s, n, j), 1, j)
    <3>1. TranscriptOn(P, s, n, i, j) BY <2>1, <2>2, TranscriptGoesOn
    <3> QED BY <3>1, Zenon DEF TranscriptOn
  <2> QED BY <1>3, <1>4, <1>6, <2>3, Zenon DEF s, P, i, j
<1> HIDE DEF j
<1>8. s9' = j BY <1>3 DEF j
<1>9. s9' < n => \E p \in Nat : s9' = WordsOf(s1') * p /\ s10' = Wrapped(FirstOf(s1'), p)
  BY <1>3, Zenon
<1> QED BY <1>3, <1>4, <1>5, <1>6, <1>7, <1>8, <1>9, Zenon DEF Sealing

(* Passes of counter mode.                                                 *)
LEMMA GcmFused ==
  ASSUME NEW n \in Nat, NEW a \in Nat, Sealing(n, a),
         \/ \E blocks \in {1, 4, 8} : Suites!GcmGroup(blocks)
         \/ Suites!GcmTail
  PROVE  Sealing(n, a)' /\ s8' = s8
<1>1. s1 = "aes256gcm" BY Zenon DEF Suites!GcmGroup, Suites!GcmTail, Suites!Gcm
<1>2. WordsOf(s1) = 4 /\ FirstOf(s1) = 2 /\ s9 \in 0..n /\ Len(s5) = n
  <2>1. s9 \in 0..n /\ s5 = Begun(s1, n, s9) BY Zenon DEF Sealing
  <2>2. Len(s5) = n BY <2>1, BegunIs
  <2> QED BY <1>1, <2>1, <2>2 DEF WordsOf, FirstOf
<1>3. ASSUME NEW t \in Nat PROVE Suites!CounterKeys(s10, t) = Span(WordsOf(s1), s10, t)
  BY <1>2 DEF Suites!CounterKeys, Suites!WrappingAdd, Span, Wrapped
<1>4. ASSUME NEW blocks \in {1, 4, 8}, Suites!GcmGroup(blocks) PROVE Sealing(n, a)' /\ s8' = s8
  <2> DEFINE t == 4 * blocks
             next == Wrapped(s10, blocks)
  <2>1. t \in Nat /\ blocks \in Nat /\ blocks > 0 OBVIOUS
  <2>2. Suites!Remaining >= t /\ Suites!Fuse(Suites!CounterKeys(s10, t), next)
    BY <1>4, Zenon DEF Suites!GcmGroup, Suites!WrappingAdd, Wrapped
  <2>3. s9 + t <= n /\ s9 < n
    <3> HIDE DEF t
    <3>1. n - s9 >= t BY <1>2, <2>2 DEF Suites!Remaining
    <3>2. t > 0 BY DEF t
    <3> QED BY <1>2, <2>1, <3>1, <3>2
  <2>4. PICK q \in Nat : s9 = WordsOf(s1) * q /\ s10 = Wrapped(FirstOf(s1), q)
    BY <2>3, Zenon DEF Sealing
  <2>5. Suites!Fuse(Span(WordsOf(s1), s10, t), next)
    <3> HIDE DEF t, next
    <3> QED BY <1>3, <2>1, <2>2
  <2> DEFINE p == q + blocks
  <2>6. p \in Nat /\ s9 + t = WordsOf(s1) * p BY <1>2, <2>1, <2>4
  <2>7. next = Wrapped(FirstOf(s1), p)
    <3> DEFINE c == FirstOf(s1)
    <3>1. c \in Nat BY SuiteNumbers
    <3> HIDE DEF c
    <3>2. WrapsTwice(c, q, blocks) BY <2>1, <3>1, WrapTwice
    <3> QED BY <2>4, <3>2, Zenon DEF WrapsTwice, c
  <2> HIDE DEF t, next, p
  <2>8. s9 + t < n => \E m \in Nat : s9 + t = WordsOf(s1) * m /\ next = Wrapped(FirstOf(s1), m)
    BY <2>6, <2>7
  <2> QED BY <2>1, <2>3, <2>4, <2>5, <2>8, Fused
<1>5. ASSUME Suites!GcmTail PROVE Sealing(n, a)' /\ s8' = s8
  <2> DEFINE t == n - s9
             next == s10
  <2>1. Suites!Remaining = t BY <1>2 DEF Suites!Remaining
  <2>2. t \in 1..3 /\ Suites!Fuse(Suites!CounterKeys(s10, t), next)
    <3> HIDE DEF t
    <3> QED BY <1>5, <2>1, Zenon DEF Suites!GcmTail
  <2>3. s9 < n /\ t \in Nat /\ s9 + t = n BY <1>2, <2>2
  <2>4. PICK q \in Nat : s9 = WordsOf(s1) * q /\ s10 = Wrapped(FirstOf(s1), q)
    BY <2>3, Zenon DEF Sealing
  <2> HIDE DEF t, next
  <2>5. Suites!Fuse(Span(WordsOf(s1), s10, t), next)
    BY <1>3, <2>2, <2>3
  <2>6. s9 + t <= n /\ ~(s9 + t < n) BY <2>3
  <2>7. s9 + t < n => \E m \in Nat : s9 + t = WordsOf(s1) * m /\ next = Wrapped(FirstOf(s1), m)
    BY <2>6
  <2> QED BY <2>3, <2>4, <2>5, <2>6, <2>7, Fused
<1> QED BY <1>4, <1>5

(* What either build applies from a counter.                               *)
LEMMA AppliedIs ==
  ASSUME NEW build, NEW c \in 0..(CounterSize - 1), NEW t \in Nat
  PROVE  /\ Suites!Applied(build, c, t).keys = Span(16, c, t)
         /\ Suites!Applied(build, c, t).counter = Wrapped(c, Paths!DivCeil(t, 16))
<1>1. Suites!Portable(c, t) = Applied(c, t) BY SamePaths, PortableIs
<1>2. Suites!Vector(c, t) = Applied(c, t) BY SamePaths, VectorIs
<1>3. Suites!Applied(build, c, t) = Applied(c, t) BY <1>1, <1>2, Zenon DEF Suites!Applied
<1> QED BY <1>3 DEF Applied

(* A chunk of ChaCha20.                                                    *)
LEMMA ChaChaFused ==
  ASSUME NEW n \in Nat, NEW a \in Nat, Sealing(n, a), Suites!ChaChaChunk
  PROVE  Sealing(n, a)' /\ s8' = s8
<1> DEFINE t == IF Suites!Remaining < 128 THEN Suites!Remaining ELSE 128
           k == Suites!Applied(s2.build, s10, t)
<1>1. /\ s1 # "aes256gcm" /\ Suites!Remaining > 0 /\ Suites!Fuse(k.keys, k.counter)
  BY Zenon DEF Suites!ChaChaChunk, Suites!Gcm
<1>2. WordsOf(s1) = 16 /\ FirstOf(s1) = 1 /\ s9 \in 0..n /\ Len(s5) = n
  <2>1. s9 \in 0..n /\ s5 = Begun(s1, n, s9) BY Zenon DEF Sealing
  <2>2. Len(s5) = n BY <2>1, BegunIs
  <2> QED BY <1>1, <2>1, <2>2 DEF WordsOf, FirstOf
<1>3. Suites!Remaining = n - s9 BY <1>2 DEF Suites!Remaining
<1>4. t \in Nat /\ s9 < n /\ s9 + t <= n /\ (s9 + t < n => t = 128)
  BY <1>1, <1>2, <1>3
<1>5. PICK q \in Nat : s9 = WordsOf(s1) * q /\ s10 = Wrapped(FirstOf(s1), q)
  BY <1>4, Zenon DEF Sealing
<1> DEFINE c == FirstOf(s1)
<1>6. c \in Nat BY SuiteNumbers
<1>7. s10 \in 0..(CounterSize - 1)
  <2> HIDE DEF c
  <2>1. WrapsTwice(c, q, q) BY <1>6, WrapTwice
  <2> QED BY <1>5, <2>1, Zenon DEF WrapsTwice, c
<1>8. k.keys = Span(16, s10, t) /\ k.counter = Wrapped(s10, Paths!DivCeil(t, 16))
  <2> DEFINE build == s2.build
             at == s10
  <2>1. at \in 0..(CounterSize - 1) BY <1>7
  <2> HIDE DEF build, at, t
  <2>2. /\ Suites!Applied(build, at, t).keys = Span(16, at, t)
        /\ Suites!Applied(build, at, t).counter = Wrapped(at, Paths!DivCeil(t, 16))
    BY <1>4, <2>1, AppliedIs
  <2> QED BY <2>2, Zenon DEF build, at
<1> DEFINE next == k.counter
<1>9. Suites!Fuse(Span(WordsOf(s1), s10, t), next)
  <2> HIDE DEF t
  <2> QED BY <1>1, <1>2, <1>8, Zenon
<1>10. ASSUME s9 + t < n
       PROVE  \E m \in Nat : s9 + t = WordsOf(s1) * m /\ next = Wrapped(FirstOf(s1), m)
  <2> DEFINE e == 8
             m == q + e
  <2>1. t = 128 BY <1>4, <1>10
  <2>2. Paths!DivCeil(t, 16) = e
    <3> HIDE DEF t
    <3> QED BY <2>1 DEF Paths!DivCeil
  <2>3. m \in Nat /\ s9 + t = WordsOf(s1) * m
    <3> HIDE DEF t
    <3> QED BY <1>2, <1>5, <2>1
  <2>4. e \in Nat OBVIOUS
  <2> HIDE DEF e, m, k, t, c
  <2>5. WrapsTwice(c, q, e) BY <1>6, <2>4, WrapTwice
  <2>6. next = Wrapped(FirstOf(s1), m) BY <1>5, <1>8, <2>2, <2>5, Zenon DEF WrapsTwice, m, c
  <2> HIDE DEF next
  <2> QED BY <2>3, <2>6
<1> HIDE DEF t, k, next
<1> QED BY <1>4, <1>5, <1>9, <1>10, Fused

-----------------------------------------------------------------------------
(* Carrying.  A buffer no word of which is a word of a text alone.         *)
Unreadable(b) == \A i \in DOMAIN b : \A k : b[i] # {<<"text", k>>}

(* Associated data and a buffer that are not what was sealed.              *)
Differs(s, n, a, y, d) ==
  Unreadable(d) /\ Bound(y, d) # Bound(Suites!AssocData(a), Begun(s, n, n))

(* A sealed text is unreadable.                                            *)
LEMMA SealedUnreadable == ASSUME NEW s, NEW n \in Nat PROVE Unreadable(Begun(s, n, n))
<1>0. DOMAIN Begun(s, n, n) = 1..n BY BegunIs
<1> SUFFICES ASSUME NEW i \in 1..n, NEW k PROVE Begun(s, n, n)[i] # {<<"text", k>>}
  BY <1>0, Zenon DEF Unreadable
<1> DEFINE x == <<"text", i>>
           y == Used(s, i)
           z == <<"text", k>>
<1>1. Begun(s, n, n)[i] = {x, y} BY DEF Begun
<1>2. x # y BY ToggledOnce
<1> HIDE DEF x, y, z
<1>3. {x, y} # {z} BY <1>2
<1> QED BY <1>1, <1>3 DEF z

(* A first word that is altered is noticed.                                *)
LEMMA AlteredDiffers ==
  ASSUME NEW s, NEW n \in Nat, NEW a \in Nat, n > 0
  PROVE  Differs(s, n, a, Suites!AssocData(a),
                 [Begun(s, n, n) EXCEPT ![1] = Suites!Toggle(@, {<<"noise">>})])
<1> DEFINE b == Begun(s, n, n)
           x == Suites!AssocData(a)
           d == [b EXCEPT ![1] = Suites!Toggle(@, {<<"noise">>})]
<1>1. IsList(b, n) /\ DOMAIN b = 1..n /\ IsList(x, a) BY BegunIs, AdIs
<1>2. b[1] = {<<"text", 1>>, Used(s, 1)} BY DEF Begun
<1>3. Unreadable(b) BY SealedUnreadable
<1>4. <<"noise">> \notin b[1]
  <2>1. <<"noise">> # <<"text", 1>> /\ <<"noise">> # Used(s, 1) BY DEF Used
  <2> QED BY <1>2, <2>1
<1> HIDE DEF b
<1>5. 1 \in 1..n OBVIOUS
<1>6. IsList(d, n) /\ DOMAIN d = 1..n /\ d[1] = Suites!Toggle(b[1], {<<"noise">>})
      /\ \A i \in 1..n : i # 1 => d[i] = b[i]
  BY <1>1, <1>5 DEF IsList
<1>7. <<"noise">> \in d[1] BY <1>4, <1>6 DEF Suites!Toggle
<1> HIDE DEF d, x
<1>8. Unreadable(d)
  <2> SUFFICES ASSUME NEW i \in 1..n, NEW k PROVE d[i] # {<<"text", k>>}
    BY <1>6 DEF Unreadable
  <2>1. <<"noise">> # <<"text", k>> OBVIOUS
  <2>2. CASE i = 1 BY <1>7, <2>1, <2>2
  <2>3. CASE i # 1 BY <1>1, <1>3, <1>6, <2>3 DEF Unreadable
  <2> QED BY <2>2, <2>3
<1>9. Bound(x, d) # Bound(x, b)
  <2>1. ASSUME Bound(x, d) = Bound(x, b) PROVE FALSE
    <3>1. Binds(a, n, x, d, a, n, x, b) BY <1>1, <1>6, <2>1, BoundBinds
    <3>2. d = b BY <3>1, Zenon DEF Binds
    <3> QED BY <1>4, <1>7, <3>2
  <2> QED BY <2>1
<1> QED BY <1>8, <1>9, Zenon DEF Differs, d, x, b

(* Another length of either is noticed.                                    *)
LEMMA LengthDiffers ==
  ASSUME NEW s, NEW n \in Nat, NEW a \in Nat, NEW c \in Nat, NEW m \in Nat,
         NEW y, NEW d, IsList(y, c), IsList(d, m), Unreadable(d), c # a \/ m # n
  PROVE  Differs(s, n, a, y, d)
<1> DEFINE b == Begun(s, n, n)
           x == Suites!AssocData(a)
<1>1. IsList(b, n) /\ IsList(x, a) BY BegunIs, AdIs
<1> HIDE DEF b, x
<1>2. ASSUME Bound(y, d) = Bound(x, b) PROVE FALSE
  <2>1. Binds(c, m, y, d, a, n, x, b) BY <1>1, <1>2, BoundBinds
  <2> QED BY <2>1, Zenon DEF Binds
<1> QED BY <1>2, Zenon DEF Differs, b, x

(* A list without its last element.                                        *)
LEMMA Shortened ==
  ASSUME NEW n \in Nat, n > 0, NEW b, IsList(b, n)
  PROVE  /\ IsList(SubSeq(b, 1, Len(b) - 1), n - 1)
         /\ \A i \in 1..(n - 1) : SubSeq(b, 1, Len(b) - 1)[i] = b[i]
<1>1. Len(b) = n BY ListIs
<1>2. PICK S : b \in Seq(S) BY ListIs
<1> DEFINE m == n - 1
<1>3. m \in Nat /\ m <= n OBVIOUS
<1>4. SubSeq(b, 1, m) = [i \in 1..m |-> b[i]]
  BY <1>1, <1>2, <1>3
<1> HIDE DEF m
<1>5. IsList(SubSeq(b, 1, m), m) /\ \A i \in 1..m : SubSeq(b, 1, m)[i] = b[i]
  BY <1>4 DEF IsList
<1> QED BY <1>1, <1>5 DEF m

(* A list with one more element behind.                                    *)
LEMMA Lengthened ==
  ASSUME NEW n \in Nat, NEW b, IsList(b, n), NEW e
  PROVE  /\ IsList(Append(b, e), n + 1) /\ Append(b, e)[n + 1] = e
         /\ \A i \in 1..n : Append(b, e)[i] = b[i]
<1>1. Len(b) = n /\ DOMAIN b = 1..n BY ListIs
<1>2. PICK S : b \in Seq(S) BY ListIs
<1>3. b \in Seq(S \cup {e}) /\ e \in S \cup {e} BY <1>2
<1> DEFINE f == Append(b, e)
<1>4. f \in Seq(S \cup {e}) /\ Len(f) = n + 1 /\ f[n + 1] = e
      /\ \A i \in 1..n : f[i] = b[i]
  BY <1>1, <1>3, AppendProperties
<1> HIDE DEF f
<1>5. f = [i \in 1..(n + 1) |-> f[i]] BY <1>4
<1> QED BY <1>4, <1>5 DEF f, IsList

(* A word less, a word more, and a word moved over the boundary.           *)
LEMMA CutsDiffer ==
  ASSUME NEW s, NEW n \in Nat, NEW a \in Nat
  PROVE  LET b == Begun(s, n, n)
             x == Suites!AssocData(a)
         IN  /\ n > 0 => Differs(s, n, a, x, SubSeq(b, 1, Len(b) - 1))
             /\ Differs(s, n, a, x, Append(b, {}))
             /\ Differs(s, n, a, Append(x, {}), b)
             /\ a > 0 => Differs(s, n, a, SubSeq(x, 1, Len(x) - 1), <<x[Len(x)]>> \o b)
<1> DEFINE b == Begun(s, n, n)
           x == Suites!AssocData(a)
<1>1. IsList(b, n) /\ DOMAIN b = 1..n /\ Len(b) = n /\ IsList(x, a) /\ Len(x) = a
  BY BegunIs, AdIs
<1>2. Unreadable(b) BY SealedUnreadable
<1>3. \A i \in 1..a : x[i] = {<<"ad", i>>} BY DEF Suites!AssocData
<1> HIDE DEF b, x
<1>4. \A i \in 1..n : \A k : b[i] # {<<"text", k>>} BY <1>1, <1>2 DEF Unreadable
<1>5. ASSUME n > 0 PROVE Differs(s, n, a, x, SubSeq(b, 1, Len(b) - 1))
  <2> DEFINE d == SubSeq(b, 1, Len(b) - 1)
             m == n - 1
  <2>1. IsList(d, m) /\ (\A i \in 1..m : d[i] = b[i]) /\ m \in Nat /\ m # n
    BY <1>1, <1>5, Shortened
  <2> HIDE DEF d, m
  <2>2. DOMAIN d = 1..m BY <2>1, ListIs
  <2>3. \A i \in 1..m : i \in 1..n BY <2>1 DEF m
  <2>4. Unreadable(d) BY <1>4, <2>1, <2>2, <2>3 DEF Unreadable
  <2>5. Differs(s, n, a, x, d) BY <1>1, <2>1, <2>4, LengthDiffers
  <2> QED BY <2>5 DEF d
<1>6. Differs(s, n, a, x, Append(b, {}))
  <2> DEFINE d == Append(b, {})
             m == n + 1
  <2>1. IsList(d, m) /\ d[m] = {} /\ (\A i \in 1..n : d[i] = b[i])
    <3> DEFINE e == {}
    <3> HIDE DEF e
    <3>1. /\ IsList(Append(b, e), n + 1) /\ Append(b, e)[n + 1] = e
          /\ \A i \in 1..n : Append(b, e)[i] = b[i] BY <1>1, Lengthened
    <3> QED BY <3>1 DEF e
  <2>2. m \in Nat /\ m # n /\ \A i \in 1..m : i = m \/ i \in 1..n OBVIOUS
  <2> HIDE DEF d, m
  <2>3. DOMAIN d = 1..m BY <2>1, <2>2, ListIs
  <2>4. \A k : {} # {<<"text", k>>} OBVIOUS
  <2>5. Unreadable(d) BY <1>4, <2>1, <2>2, <2>3, <2>4, Zenon DEF Unreadable
  <2>6. Differs(s, n, a, x, d) BY <1>1, <2>1, <2>2, <2>5, LengthDiffers
  <2> QED BY <2>6 DEF d
<1>7. Differs(s, n, a, Append(x, {}), b)
  <2> DEFINE y == Append(x, {})
             c == a + 1
  <2>1. IsList(y, c)
    <3> DEFINE e == {}
    <3> HIDE DEF e
    <3>1. IsList(Append(x, e), a + 1) BY <1>1, Lengthened
    <3> QED BY <3>1 DEF e
  <2>2. c \in Nat /\ c # a OBVIOUS
  <2> HIDE DEF y, c
  <2>3. Differs(s, n, a, y, b) BY <1>1, <1>2, <2>1, <2>2, LengthDiffers
  <2> QED BY <2>3 DEF y
<1>8. ASSUME a > 0 PROVE Differs(s, n, a, SubSeq(x, 1, Len(x) - 1), <<x[Len(x)]>> \o b)
  <2> DEFINE y == SubSeq(x, 1, Len(x) - 1)
             c == a - 1
             e == x[Len(x)]
             one == <<e>>
             u == 1
             m == u + n
             d == one \o b
  <2>1. IsList(y, c) /\ c \in Nat /\ c # a BY <1>1, <1>8, Shortened
  <2>2. e = {<<"ad", a>>}
    <3>1. a \in 1..a BY <1>8
    <3> QED BY <1>1, <1>3, <3>1
  <2>3. IsList(one, u) /\ u \in Nat /\ one[1] = e BY DEF IsList
  <2>4. m \in Nat /\ \A i \in 1..m : i = 1 \/ (~(i <= u) /\ i - u \in 1..n) OBVIOUS
  <2>5. 1 <= u OBVIOUS
  <2> HIDE DEF one, u, e
  <2>6. Joins(one, u, b, n) BY <1>1, <2>3, JoinIs
  <2>7. IsList(d, m) /\ \A i \in 1..m : d[i] = IF i <= u THEN one[i] ELSE b[i - u]
    BY <2>6, Zenon DEF Joins
  <2> HIDE DEF y, c, d, m
  <2>8. DOMAIN d = 1..m BY <2>4, <2>7, ListIs
  <2>9. Unreadable(d)
    <3> SUFFICES ASSUME NEW i \in 1..m, NEW k PROVE d[i] # {<<"text", k>>}
      BY <2>8 DEF Unreadable
    <3>1. CASE i = 1
      <4>1. d[i] = {<<"ad", a>>} BY <2>2, <2>3, <2>5, <2>7, <3>1
      <4>2. <<"ad", a>> # <<"text", k>> OBVIOUS
      <4> QED BY <4>1, <4>2, Zenon
    <3>2. CASE i # 1
      <4>1. ~(i <= u) /\ i - u \in 1..n BY <2>4, <3>2
      <4>2. d[i] = b[i - u] BY <2>7, <4>1, Zenon
      <4> QED BY <1>4, <4>1, <4>2
    <3> QED BY <3>1, <3>2
  <2>10. Differs(s, n, a, y, d) BY <2>1, <2>4, <2>7, <2>9, LengthDiffers
  <2> QED BY <2>10 DEF y, d, one, e
<1> QED BY <1>5, <1>6, <1>7, <1>8, Zenon DEF b, x

-----------------------------------------------------------------------------
(* Words of a sealed text.  Counters d apart show the same value exactly   *)
(* if d is whole turns.                                                    *)
LEMMA SameCounter ==
  ASSUME NEW c \in Nat, NEW k \in Nat, NEW l \in Nat, Wrapped(c, k) = Wrapped(c, l)
  PROVE  \E m \in Int : l - k = CounterSize * m
<1> DEFINE N == CounterSize
           a == c + k
           b == c + l
           p == a \div N
           q == b \div N
           u == a % N
<1>1. N \in Nat /\ N > 0 /\ a \in Nat /\ b \in Nat BY StreamAssumption
<1>2. b - a = l - k OBVIOUS
<1>3. u = b % N BY DEF Wrapped
<1> HIDE DEF N, a, b
<1>4. p \in Nat /\ u \in 0..(N - 1) /\ a = N * p + u BY <1>1, DivisionIs
<1>5. q \in Nat /\ b = N * q + u BY <1>1, <1>3, DivisionIs
<1> HIDE DEF p, q, u
<1>6. N * q - N * p = N * (q - p) BY <1>1, <1>4, <1>5
<1>7. N * p \in Int /\ N * q \in Int BY <1>1, <1>4, <1>5
<1>8. b - a = N * (q - p) BY <1>4, <1>5, <1>6, <1>7
<1> QED BY <1>2, <1>4, <1>5, <1>8 DEF N

(* The other way.                                                          *)
LEMMA TurnsAgree ==
  ASSUME NEW c \in Nat, NEW k \in Nat, NEW m \in Nat
  PROVE  Wrapped(c, k + CounterSize * m) = Wrapped(c, k)
<1> DEFINE N == CounterSize
           a == c + k
           p == a \div N
           u == a % N
           b == c + (k + N * m)
<1>1. N \in Nat /\ N > 0 /\ a \in Nat BY StreamAssumption
<1>2. N * m \in Nat BY <1>1
<1>3. b = a + N * m /\ b \in Nat BY <1>2
<1>4. Wrapped(c, k + N * m) = b % N /\ Wrapped(c, k) = u BY DEF Wrapped
<1> HIDE DEF N, a, b
<1>5. p \in Nat /\ u \in 0..(N - 1) /\ a = N * p + u BY <1>1, DivisionIs
<1> HIDE DEF p, u
<1>6. N * (p + m) = N * p + N * m /\ p + m \in Int /\ N * p \in Int BY <1>1, <1>5
<1>7. b = N * (p + m) + u BY <1>2, <1>3, <1>5, <1>6
<1>8. b % N = u BY <1>1, <1>3, <1>5, <1>6, <1>7, QuotientIs
<1> QED BY <1>4, <1>8 DEF N

(* Two words take the same word of the keystream exactly when whole turns  *)
(* of the counter lie between them.                                        *)
LEMMA UsedByTurns ==
  ASSUME NEW s, NEW i \in Nat, NEW j \in Nat, i >= 1, i < j
  PROVE  Used(s, i) = Used(s, j) <=> (j - i) % (WordsOf(s) * CounterSize) = 0
<1> DEFINE w == WordsOf(s)
           c == FirstOf(s)
           N == CounterSize
           x == i - 1
           y == j - 1
           k == x \div w
           l == y \div w
           r == x % w
           d == w * N
<1>1. w \in Nat /\ w > 0 /\ c \in Nat /\ N \in Nat /\ N > 0 BY SuiteNumbers, StreamAssumption
<1>2. x \in Nat /\ y \in Nat /\ y > x /\ y - x = j - i OBVIOUS
<1>3. Used(s, i) = Used(s, j) <=> Wrapped(c, k) = Wrapped(c, l) /\ r = y % w BY DEF Used
<1> HIDE DEF x, y, w, c, N
<1>4. /\ k \in Nat /\ r \in 0..(w - 1) /\ x = w * k + r
      /\ l \in Nat /\ y % w \in 0..(w - 1) /\ y = w * l + (y % w)
  BY <1>1, <1>2, DivisionIs
<1>5. d \in Nat /\ d > 0 BY <1>1
<1>6. ASSUME Wrapped(c, k) = Wrapped(c, l), r = y % w PROVE (y - x) % d = 0
  <2> HIDE DEF k, l, r
  <2>1. PICK m \in Int : l - k = N * m BY <1>1, <1>4, <1>6, SameCounter DEF N
  <2>2. w * l - w * k = w * (l - k) /\ w * l \in Int /\ w * k \in Int BY <1>1, <1>4
  <2>3. y - x = w * (N * m) BY <1>4, <1>6, <2>1, <2>2
  <2>4. w * (N * m) = d * m BY <1>1
  <2> DEFINE z == y - x
             o == 0
  <2>5. z \in Int /\ o \in 0..(d - 1) /\ z = d * m + o BY <1>2, <1>5, <2>3, <2>4
  <2> HIDE DEF z, o, d
  <2>6. z % d = o BY <1>5, <2>5, QuotientIs
  <2> QED BY <2>6 DEF z, o
<1>7. ASSUME (y - x) % d = 0 PROVE Wrapped(c, k) = Wrapped(c, l) /\ r = y % w
  <2> DEFINE z == y - x
             m == z \div d
             n == k + N * m
  <2>1. z \in Nat BY <1>2
  <2>2. m \in Nat /\ z = d * m
    <3> HIDE DEF d, z
    <3>1. m \in Nat /\ z = d * m + (z % d) BY <1>5, <2>1, DivisionIs
    <3>2. z % d = 0 BY <1>7 DEF z
    <3>3. d * m \in Int BY <1>5, <3>1
    <3> QED BY <3>1, <3>2, <3>3
  <2> HIDE DEF k, l, r, m
  <2>3. N * m \in Nat /\ n \in Nat /\ w * n = w * k + w * (N * m) BY <1>1, <1>4, <2>2
  <2>4. d * m = w * (N * m) BY <1>1, <2>2
  <2>5. w * k \in Int /\ w * (N * m) \in Int BY <1>1, <1>4, <2>3
  <2>6. y = w * n + r BY <1>2, <1>4, <2>2, <2>3, <2>4, <2>5
  <2> HIDE DEF n
  <2>7. y \div w = n /\ y % w = r BY <1>1, <1>2, <1>4, <2>3, <2>6, QuotientIs
  <2>8. l = k + CounterSize * m BY <2>7 DEF n, l, N
  <2>9. Wrapped(c, l) = Wrapped(c, k) BY <1>1, <1>4, <2>2, <2>8, TurnsAgree
  <2> QED BY <2>7, <2>9
<1>8. Used(s, i) = Used(s, j) <=> (y - x) % d = 0 BY <1>3, <1>6, <1>7
<1> QED BY <1>2, <1>8 DEF d, w, N

(* A block's counter is that of the block that makes the key of the tag    *)
(* exactly in the last block of a turn.                                    *)
LEMMA ReservedByTurns ==
  ASSUME NEW s, NEW k \in Nat
  PROVE  Wrapped(FirstOf(s), k) = (IF s = "aes256gcm" THEN 1 ELSE 0) <=> (k + 1) % CounterSize = 0
<1> DEFINE c == FirstOf(s)
           e == c - 1
           N == CounterSize
           f == k + 1
           a == c + k
           p == f \div N
           t == f % N
<1>1. e = IF s = "aes256gcm" THEN 1 ELSE 0 BY DEF FirstOf
<1>2. e \in {0, 1} /\ N \in Nat /\ N > 2 /\ f \in Nat
  <2>1. c \in {1, 2} BY DEF FirstOf
  <2> HIDE DEF c
  <2>2. e \in {0, 1} BY <2>1
  <2> QED BY <2>2, StreamAssumption
<1>3. a = f + e BY <1>2
<1>4. Wrapped(c, k) = a % N BY DEF Wrapped
<1> HIDE DEF f, N, e, a
<1>5. p \in Nat /\ t \in 0..(N - 1) /\ f = N * p + t BY <1>2, DivisionIs
<1> HIDE DEF p, t
<1>6. N * p \in Int /\ N * (p + 1) = N * p + N /\ p + 1 \in Int BY <1>2, <1>5
<1>7. a \in Int BY <1>2, <1>3
<1>8. CASE t + e < N
  <2> DEFINE v == t + e
  <2>1. v \in 0..(N - 1) /\ a = N * p + v BY <1>2, <1>3, <1>5, <1>6, <1>8
  <2> HIDE DEF v
  <2>2. a % N = v BY <1>2, <1>5, <1>7, <2>1, QuotientIs
  <2>3. a % N = e <=> t = 0 BY <1>2, <1>5, <2>2 DEF v
  <2> QED BY <1>1, <1>4, <2>3 DEF t, f, N
<1>9. CASE ~(t + e < N)
  <2> DEFINE v == 0
             g == p + 1
  <2>1. e = 1 /\ t = N - 1 BY <1>2, <1>5, <1>9
  <2>2. v \in 0..(N - 1) /\ g \in Int /\ a = N * g + v BY <1>2, <1>3, <1>5, <1>6, <2>1
  <2> HIDE DEF v, g
  <2>3. a % N = v BY <1>2, <1>7, <2>2, QuotientIs
  <2>4. a % N # e /\ t # 0 BY <1>2, <2>1, <2>3 DEF v
  <2> QED BY <1>1, <1>4, <2>4 DEF t, f, N
<1> QED BY <1>8, <1>9

(* A sealed text of any length comes back to its keystream by turns.       *)
LEMMA OwnKeystream ==
  ASSUME NEW n \in Nat, NEW a, Sealed(n, a)
  PROVE  Suites!KeystreamPeriod
<1> DEFINE s == s1
           b == s5
           w == IF s = "aes256gcm" THEN 4 ELSE Suites!Words
           reserved == IF s = "aes256gcm" THEN 1 ELSE 0
           taken == [i \in DOMAIN b |-> b[i] \ {<<"text", i>>}]
<1>1. b = Begun(s, n, n) BY DEF Sealed
<1>2. DOMAIN b = 1..n
  <2> HIDE DEF s, b
  <2> QED BY <1>1, BegunIs
<1>3. ASSUME NEW i \in 1..n PROVE b[i] = {<<"text", i>>, Used(s, i)}
  <2> HIDE DEF s, b
  <2> QED BY <1>1, <1>3 DEF Begun
<1>4. ASSUME NEW i \in 1..n PROVE taken[i] = {Used(s, i)}
  <2> DEFINE x == <<"text", i>>
             y == Used(s, i)
  <2>1. b[i] = {x, y} BY <1>3
  <2>2. x # y BY ToggledOnce
  <2>3. taken[i] = b[i] \ {x} BY <1>2
  <2> HIDE DEF x, y, taken, b
  <2>4. taken[i] = {y} BY <2>1, <2>2, <2>3
  <2> QED BY <2>4 DEF y
<1>5. ASSUME NEW i \in DOMAIN b, NEW j \in DOMAIN b, i < j
      PROVE  taken[i] = taken[j] <=> (j - i) % (WordsOf(s) * CounterSize) = 0
  <2> HIDE DEF taken, b, s
  <2>1. i \in 1..n /\ j \in 1..n BY <1>2
  <2>2. taken[i] = {Used(s, i)} /\ taken[j] = {Used(s, j)} BY <1>4, <2>1
  <2>3. taken[i] = taken[j] <=> Used(s, i) = Used(s, j) BY <2>2, Zenon
  <2>4. i \in Nat /\ j \in Nat /\ i >= 1 BY <2>1
  <2> QED BY <1>5, <2>3, <2>4, UsedByTurns
<1>6. ASSUME NEW i \in DOMAIN b, NEW k \in b[i], k[1] = "key"
      PROVE  k[3][1] = (IF s = "aes256gcm" THEN 1 ELSE 0)
               <=> ((i - 1) \div WordsOf(s) + 1) % CounterSize = 0
  <2> HIDE DEF s, b
  <2>1. i \in 1..n BY <1>2
  <2>2. b[i] = {<<"text", i>>, Used(s, i)} BY <1>3, <2>1
  <2>3. k = Used(s, i)
    <3>1. k # <<"text", i>> BY <1>6
    <3> QED BY <2>2, <3>1
  <2> DEFINE x == i - 1
             q == x \div WordsOf(s)
  <2>4. k[3][1] = Wrapped(FirstOf(s), q) BY <2>3 DEF Used
  <2>5. x \in Nat BY <2>1
  <2> HIDE DEF x
  <2>6. q \in Nat BY <2>5, SuiteNumbers, DivisionIs
  <2> HIDE DEF q
  <2>7. Wrapped(FirstOf(s), q) = (IF s = "aes256gcm" THEN 1 ELSE 0) <=> (q + 1) % CounterSize = 0
    BY <2>6, ReservedByTurns
  <2>8. k[3][1] = (IF s = "aes256gcm" THEN 1 ELSE 0) <=> (q + 1) % CounterSize = 0
    BY <2>4, <2>7, Zenon
  <2> QED BY <2>8, Zenon DEF q, x
<1>7. WordsOf(s) = w BY DEF WordsOf, Suites!Words
<1>8. ASSUME NEW i \in DOMAIN b, NEW j \in DOMAIN b, i < j
      PROVE  taken[i] = taken[j] <=> (j - i) % (w * CounterSize) = 0
  <2> HIDE DEF taken, b, s, w
  <2> QED BY <1>5, <1>7, <1>8
<1>9. ASSUME NEW i \in DOMAIN b, NEW k \in b[i], k[1] = "key"
      PROVE  k[3][1] = reserved <=> ((i - 1) \div w + 1) % CounterSize = 0
  <2>1. k[3][1] = reserved <=> ((i - 1) \div WordsOf(s) + 1) % CounterSize = 0 BY <1>6, <1>9, Zenon
  <2> HIDE DEF b, s, w, reserved
  <2> QED BY <1>7, <2>1, Zenon
<1> QED BY <1>8, <1>9, Zenon DEF Suites!KeystreamPeriod, Suites!Gcm

-----------------------------------------------------------------------------
(* Opening.  What was carried: the sealed message, or one whose tag is not *)
(* the expected one; no word of it is a word of the text alone.            *)
Open(n, a) ==
  /\ s13 # "none" /\ Unreadable(s5)
  /\ s13 = "carried" => /\ s5 = Begun(s1, n, n) /\ s4 = Suites!AssocData(a)
                        /\ s6 = OwnNonce /\ s12 = SealTag(s1, n, a)
  /\ s13 # "carried" /\ s7 => <<Suites!StreamOf(s1, s6), Bound(s4, s5)>> # s12

(* Opened: what the module promises.                                       *)
Opened == s8 = "done" /\ (s13 # "none" => Suites!OpensWhatWasSealed /\ Suites!NoUnverifiedText)

(* Where a message is.                                                     *)
Stage(n, a) ==
  \/ s8 = "seal" /\ Ready(n, a)
  \/ s8 = "sealing" /\ Sealing(n, a)
  \/ s8 = "sealed" /\ Sealed(n, a)
  \/ s8 = "open" /\ Open(n, a)

AeadInv ==
  unit = "aead" => \/ \E n \in AeadTextLens : \E a \in AeadAdLens : Stage(n, a)
                   \/ Opened

(* Sealing begins.                                                         *)
LEMMA StartSeals ==
  ASSUME NEW n \in Nat, NEW a \in Nat, Ready(n, a), Suites!SealStart
  PROVE  s8' = "sealing" /\ Sealing(n, a)'
<1>1. /\ s10' = FirstOf(s1) /\ s11' = Suites!Padded(s4, 4) /\ s8' = "sealing"
      /\ s1' = s1 /\ s4' = s4 /\ s5' = s5 /\ s6' = s6 /\ s9' = s9 /\ s13' = s13
  BY Zenon DEF Suites!SealStart, Suites!setting, Suites!Gcm, FirstOf
<1>2. /\ s5 = Suites!Text(n) /\ s4 = Suites!AssocData(a) /\ s6 = OwnNonce
      /\ s9 = 0 /\ s13 = "none"
  BY Zenon DEF Ready
<1> DEFINE s == s1
<1>3. Begun(s, n, 0) = Suites!Text(n)
  <2>1. \A i \in 1..n : (IF i <= 0 THEN {<<"text", i>>, Used(s, i)} ELSE {<<"text", i>>}) = {<<"text", i>>}
    OBVIOUS
  <2> HIDE DEF s
  <2> QED BY <2>1 DEF Begun, Suites!Text
<1>4. Suites!Padded(s4, 4) \o SubSeq(s5, 1, 0) = Suites!Padded(s4, 4)
  <2> DEFINE P == Suites!Padded(s4, 4)
             b == s5
  <2>1. PICK k \in Nat : IsList(P, k)
    <3>1. IsList(s4, a) BY <1>2, AdIs
    <3>2. PICK m \in Nat : IsList(P, a + m) BY <3>1, PaddedIs
    <3>3. a + m \in Nat OBVIOUS
    <3> QED BY <3>2, <3>3
  <2>2. IsList(b, n) BY <1>2 DEF IsList, Suites!Text
  <2> HIDE DEF P, b
  <2>3. PICK S : P \in Seq(S) BY <2>1, ListIs
  <2>4. PICK T : b \in Seq(T) BY <2>2, ListIs
  <2>5. SubSeq(b, 1, 0) = <<>> BY <2>4
  <2>6. P \o <<>> = P BY <2>3
  <2> QED BY <2>5, <2>6 DEF P, b
<1>5. s9 < n => \E q \in Nat : s9 = WordsOf(s) * q /\ FirstOf(s) = Wrapped(FirstOf(s), q)
  <2> DEFINE u == 0
             c == FirstOf(s)
  <2>1. c \in 0..(CounterSize - 1) /\ WordsOf(s) \in Nat BY SuiteNumbers
  <2> HIDE DEF c, s
  <2>2. Wrapped(c, u) = c BY <2>1, WrapNone
  <2>3. WordsOf(s) * u = 0 /\ u \in Nat BY <2>1
  <2> HIDE DEF u
  <2> QED BY <1>2, <2>2, <2>3 DEF c
<1>6. s9' \in 0..n BY <1>1, <1>2
<1>7. s5' = Begun(s1', n, s9') BY <1>1, <1>2, <1>3
<1>8. s11' = Suites!Padded(s4', 4) \o SubSeq(s5', 1, s9') BY <1>1, <1>2, <1>4, Zenon
<1>9. s9' < n => \E q \in Nat : s9' = WordsOf(s1') * q /\ s10' = Wrapped(FirstOf(s1'), q)
  BY <1>1, <1>5, Zenon
<1> QED BY <1>1, <1>2, <1>6, <1>7, <1>8, <1>9, Zenon DEF Sealing

(* Sealing ends when all of the text is encrypted.                         *)
LEMMA FinishSeals ==
  ASSUME NEW n \in Nat, NEW a \in Nat, Sealing(n, a), Suites!SealFinish
  PROVE  s8' = "sealed" /\ Sealed(n, a)'
<1>1. /\ Suites!Remaining = 0 /\ s8' = "sealed"
      /\ s12' = <<Suites!StreamOf(s1, s6), Suites!Closed(s11, Len(s4), Len(s5))>>
      /\ s1' = s1 /\ s4' = s4 /\ s5' = s5 /\ s6' = s6 /\ s13' = s13
  BY Zenon DEF Suites!SealFinish, Suites!setting, Suites!TagOf
<1>2. /\ s4 = Suites!AssocData(a) /\ s6 = OwnNonce /\ s13 = "none"
      /\ s9 \in 0..n /\ s5 = Begun(s1, n, s9)
      /\ s11 = Suites!Padded(s4, 4) \o SubSeq(s5, 1, s9)
  BY Zenon DEF Sealing
<1>3. Len(s5) = n /\ IsList(s5, n) BY <1>2, BegunIs
<1>4. s9 = n BY <1>1, <1>2, <1>3 DEF Suites!Remaining
<1>5. SubSeq(s5, 1, n) = s5
  <2> DEFINE b == s5
  <2> HIDE DEF b
  <2>1. IsList(b, n) /\ Len(b) = n BY <1>3 DEF b
  <2>2. PICK S : b \in Seq(S) BY <2>1, ListIs
  <2>3. SubSeq(b, 1, n) = b BY <2>1, <2>2
  <2> QED BY <2>3 DEF b
<1>6. s12' = <<Suites!StreamOf(s1, s6), Bound(s4, s5)>>
  BY <1>1, <1>2, <1>4, <1>5, Zenon DEF Bound
<1>7. s12' = SealTag(s1', n, a)
  BY <1>1, <1>2, <1>4, <1>6, Zenon DEF SealTag, OwnStream
<1> QED BY <1>1, <1>2, <1>4, <1>7, Zenon DEF Sealed

(* Whatever is carried is fit to be opened, or told from what was sealed.  *)
LEMMA CarriedOpens ==
  ASSUME NEW n \in Nat, NEW a \in Nat, Sealed(n, a), NEW c \in AeadChanges, Suites!Carried(c)
  PROVE  s8' = "open" /\ Open(n, a)'
<1> DEFINE s == s1
           b == Begun(s, n, n)
           x == Suites!AssocData(a)
           stream == OwnStream(s)
<1>1. s4 = x /\ s6 = OwnNonce /\ s5 = b /\ s12 = <<stream, Bound(x, b)>>
  BY Zenon DEF Sealed, SealTag
<1>2. /\ s13' = c /\ s8' = "open" /\ s1' = s1
      /\ c = "boundary" => s4 # <<>>
      /\ c \in {"truncated", "altered"} => s5 # <<>>
      /\ s7' = (c # "short_nonce")
      /\ s12' = IF c = "other_tag" THEN <<"noise">> ELSE s12
  BY DEF Suites!Carried, Suites!setting
<1>3. c # "none" BY DEF AeadChanges
<1>4. ASSUME c \notin {"altered", "truncated", "extended", "boundary"} PROVE s5' = s5
  BY <1>4 DEF Suites!Carried
<1>5. ASSUME c \notin {"extended_ad", "boundary"} PROVE s4' = s4
  BY <1>5, Zenon DEF Suites!Carried
<1>6. ASSUME c \notin {"other_prefix", "other_suffix"} PROVE s6' = s6
  BY <1>6, Zenon DEF Suites!Carried
<1>7. Unreadable(b) BY SealedUnreadable
<1>8. IsList(b, n) /\ Len(b) = n /\ IsList(x, a) /\ Len(x) = a BY BegunIs, AdIs
<1> DEFINE Told == Unreadable(s5') /\ (s7' => <<Suites!StreamOf(s1', s6'), Bound(s4', s5')>> # s12')
<1>9. ASSUME c # "carried" PROVE Told
  <2>1. ASSUME Differs(s, n, a, s4', s5'), c # "other_tag" PROVE Told
    <3>1. Unreadable(s5') /\ Bound(s4', s5') # Bound(x, b) BY <2>1, Zenon DEF Differs
    <3>2. s12' = <<stream, Bound(x, b)>> BY <1>1, <1>2, <2>1
    <3> DEFINE d == Bound(s4', s5')
               e == Bound(x, b)
               t == Suites!StreamOf(s1', s6')
    <3> HIDE DEF d, e, t, stream
    <3>3. <<t, d>> # <<stream, e>> BY <3>1 DEF d, e
    <3> QED BY <3>1, <3>2, <3>3 DEF d, e, t
  <2>2. CASE c = "altered"
    <3>1. n > 0
      <4>1. b # <<>> BY <1>1, <1>2, <2>2
      <4> HIDE DEF b
      <4>2. PICK S : b \in Seq(S) BY <1>8, ListIs
      <4> QED BY <1>8, <4>1, <4>2
    <3>2. s5' = [s5 EXCEPT ![1] = Suites!Toggle(@, {<<"noise">>})]
      BY <2>2 DEF Suites!Carried
    <3>3. Differs(s, n, a, s4', s5')
      <4>1. s4' = x BY <1>1, <1>5, <2>2
      <4>2. s5' = [b EXCEPT ![1] = Suites!Toggle(@, {<<"noise">>})] BY <1>1, <3>2
      <4>3. Differs(s, n, a, x, [b EXCEPT ![1] = Suites!Toggle(@, {<<"noise">>})])
        <5> HIDE DEF s
        <5> QED BY <3>1, AlteredDiffers
      <4> QED BY <4>1, <4>2, <4>3
    <3> QED BY <2>1, <2>2, <3>3
  <2>3. CASE c = "truncated"
    <3>1. n > 0
      <4>1. b # <<>> BY <1>1, <1>2, <2>3
      <4> HIDE DEF b
      <4>2. PICK S : b \in Seq(S) BY <1>8, ListIs
      <4> QED BY <1>8, <4>1, <4>2
    <3>2. s5' = SubSeq(b, 1, Len(b) - 1) BY <1>1, <2>3 DEF Suites!Carried
    <3>3. s4' = x BY <1>1, <1>5, <2>3
    <3>4. Differs(s, n, a, x, SubSeq(b, 1, Len(b) - 1))
      <4> HIDE DEF s
      <4> QED BY <3>1, CutsDiffer
    <3> QED BY <2>1, <2>3, <3>2, <3>3, <3>4
  <2>4. CASE c = "extended"
    <3>1. s5' = Append(b, {}) BY <1>1, <2>4 DEF Suites!Carried
    <3>2. s4' = x BY <1>1, <1>5, <2>4
    <3>3. Differs(s, n, a, x, Append(b, {}))
      <4> HIDE DEF s
      <4> QED BY CutsDiffer
    <3> QED BY <2>1, <2>4, <3>1, <3>2, <3>3
  <2>5. CASE c = "extended_ad"
    <3>1. s4' = Append(x, {}) BY <1>1, <2>5 DEF Suites!Carried
    <3>2. s5' = b BY <1>1, <1>4, <2>5
    <3>3. Differs(s, n, a, Append(x, {}), b)
      <4> HIDE DEF s
      <4> QED BY CutsDiffer
    <3> QED BY <2>1, <2>5, <3>1, <3>2, <3>3
  <2>6. CASE c = "boundary"
    <3>1. a > 0
      <4>1. x # <<>> BY <1>1, <1>2, <2>6
      <4> HIDE DEF x
      <4>2. PICK S : x \in Seq(S) BY <1>8, ListIs
      <4> QED BY <1>8, <4>1, <4>2
    <3>2. s4' = SubSeq(x, 1, Len(x) - 1) /\ s5' = <<x[Len(x)]>> \o b
      BY <1>1, <2>6 DEF Suites!Carried
    <3>3. Differs(s, n, a, SubSeq(x, 1, Len(x) - 1), <<x[Len(x)]>> \o b)
      <4> HIDE DEF s
      <4> QED BY <3>1, CutsDiffer
    <3> QED BY <2>1, <2>6, <3>2, <3>3
  <2>7. CASE c = "other_tag"
    <3>1. s12' = <<"noise">> BY <1>2, <2>7
    <3>2. Unreadable(s5') BY <1>1, <1>4, <1>7, <2>7
    <3> DEFINE d == Bound(s4', s5')
               t == Suites!StreamOf(s1', s6')
    <3> HIDE DEF d, t
    <3>3. <<t, d>> # <<"noise">> OBVIOUS
    <3> QED BY <3>1, <3>2, <3>3 DEF d, t
  <2>8. CASE c \in {"other_prefix", "other_suffix"}
    <3>1. Unreadable(s5') BY <1>1, <1>4, <1>7, <2>8
    <3>2. s12' = <<stream, Bound(x, b)>> BY <1>1, <1>2, <2>8
    <3>3. s6' = <<1, 0>> \/ s6' = <<0, 1>>
      <4>1. CASE c = "other_prefix"
        <5>1. s6' = <<1, s6[2]>> BY <4>1 DEF Suites!Carried
        <5> QED BY <1>1, <5>1 DEF OwnNonce
      <4>2. CASE c = "other_suffix"
        <5>1. s6' = <<s6[1], 1>> BY <4>2 DEF Suites!Carried
        <5> QED BY <1>1, <5>1 DEF OwnNonce
      <4> QED BY <2>8, <4>1, <4>2
    <3>4. Suites!StreamOf(s1', s6') # stream
      <4>1. \A z : z = <<1, 0>> \/ z = <<0, 1>> => Suites!StreamOf(s, z) # Suites!StreamOf(s, <<0, 0>>)
        <5> HIDE DEF s
        <5> QED BY DEF Suites!StreamOf
      <4> QED BY <1>2, <3>3, <4>1 DEF OwnStream, OwnNonce
    <3> DEFINE d == Bound(s4', s5')
               e == Bound(x, b)
               t == Suites!StreamOf(s1', s6')
    <3> HIDE DEF d, e, t, stream
    <3>5. <<t, d>> # <<stream, e>> BY <3>4 DEF t
    <3> QED BY <3>1, <3>2, <3>5 DEF d, e, t
  <2>9. CASE c = "short_nonce"
    <3>1. ~s7' BY <1>2, <2>9
    <3>2. Unreadable(s5') BY <1>1, <1>4, <1>7, <2>9
    <3> QED BY <3>1, <3>2
  <2> QED BY <1>9, <2>2, <2>3, <2>4, <2>5, <2>6, <2>7, <2>8, <2>9 DEF AeadChanges
<1>10. ASSUME c = "carried"
       PROVE  /\ Unreadable(s5') /\ s5' = Begun(s1', n, n) /\ s4' = x
              /\ s6' = OwnNonce /\ s12' = SealTag(s1', n, a)
  <2>1. s5' = b /\ s4' = x /\ s6' = OwnNonce /\ s12' = s12
    BY <1>1, <1>2, <1>4, <1>5, <1>6, <1>10
  <2>2. s12 = SealTag(s1', n, a) BY <1>1, <1>2, Zenon DEF SealTag
  <2> QED BY <1>2, <1>7, <2>1, <2>2
<1>11. s13' # "none" /\ s8' = "open" BY <1>2, <1>3
<1>12. s13' = "carried" <=> c = "carried" BY <1>2
<1> HIDE DEF x, b
<1> QED BY <1>9, <1>10, <1>11, <1>12, Zenon DEF Open, x

(* Toggling the keystream of a sealed text leaves the text.                *)
LEMMA TextReturns ==
  ASSUME NEW s, NEW n \in Nat
  PROVE  Suites!XorAt(Begun(s, n, n), 0, OwnStream(s), Span(WordsOf(s), FirstOf(s), n))
           = Suites!Text(n)
<1> DEFINE w == WordsOf(s)
           c == FirstOf(s)
           b == Begun(s, n, n)
           keys == Span(w, c, n)
           stream == OwnStream(s)
           u == 0
<1>1. IsList(keys, n) BY DEF Span, IsList
<1>2. Len(keys) = n /\ Len(b) = n
  <2>1. Len(b) = n BY BegunIs
  <2> HIDE DEF keys
  <2> QED BY <1>1, <2>1, ListIs
<1>3. ASSUME NEW i \in 1..n
      PROVE  (IF i - u \in 1..n THEN Suites!Toggle(b[i], {<<"key", stream, keys[i - u]>>}) ELSE b[i])
             = {<<"text", i>>}
  <2>1. i - u = i /\ i - u \in 1..n OBVIOUS
  <2>2. b[i] = {<<"text", i>>, Used(s, i)} BY DEF Begun
  <2>3. <<"key", stream, keys[i]>> = Used(s, i) BY DEF Used, Span
  <2>4. Suites!Toggle({<<"text", i>>, Used(s, i)}, {Used(s, i)}) = {<<"text", i>>} BY ToggledOnce
  <2> HIDE DEF b, keys, stream, u
  <2> QED BY <2>1, <2>2, <2>3, <2>4
<1> HIDE DEF b, keys, stream, u
<1>4. Suites!XorAt(b, u, stream, keys)
        = [i \in 1..n |-> IF i - u \in 1..n
                          THEN Suites!Toggle(b[i], {<<"key", stream, keys[i - u]>>}) ELSE b[i]]
  BY <1>2, Zenon DEF Suites!XorAt
<1>5. Suites!XorAt(b, u, stream, keys) = [i \in 1..n |-> {<<"text", i>>}] BY <1>3, <1>4
<1> QED BY <1>5, Zenon DEF b, keys, stream, u, Suites!Text, w, c

(* What either machine decrypts with, whichever way it makes it.           *)
LEMMA KeysAre ==
  ASSUME NEW s, NEW build, NEW n \in Nat
  PROVE  (IF s = Suites!Gcm THEN Suites!CounterKeys(2, n) ELSE Suites!Applied(build, 1, n).keys)
           = Span(WordsOf(s), FirstOf(s), n)
<1>1. CASE s = "aes256gcm"
  <2>1. Suites!CounterKeys(2, n) = Span(4, 2, n)
    BY DEF Suites!CounterKeys, Suites!WrappingAdd, Span, Wrapped
  <2> QED BY <1>1, <2>1 DEF Suites!Gcm, WordsOf, FirstOf
<1>2. CASE s # "aes256gcm"
  <2> DEFINE c == 1
  <2>1. c \in 0..(CounterSize - 1) BY StreamAssumption
  <2> HIDE DEF c
  <2>2. Suites!Applied(build, c, n).keys = Span(16, c, n) BY <2>1, AppliedIs
  <2>3. Suites!Applied(build, 1, n).keys = Span(16, 1, n) BY <2>2 DEF c
  <2> HIDE DEF Suites!Applied
  <2> QED BY <1>2, <2>3 DEF Suites!Gcm, WordsOf, FirstOf
<1> QED BY <1>1, <1>2

(* A call of open that decrypted nothing leaves no text.                   *)
LEMMA FailureReadsNothing ==
  ASSUME s8' = "done", s14' # "Ok", Unreadable(s5'),
         s7' /\ Suites!Available(s3)' => s13' # "carried" /\ s14' = "Unauthenticated"
  PROVE  Opened'
<1>1. Suites!OpensWhatWasSealed' BY Zenon DEF Suites!OpensWhatWasSealed
<1>2. Suites!NoUnverifiedText' BY Zenon DEF Suites!NoUnverifiedText, Unreadable
<1> QED BY <1>1, <1>2, Zenon DEF Opened

(* Opening opens what was sealed, and nothing else.                        *)
LEMMA OpenEnds ==
  ASSUME NEW n \in Nat, NEW a \in Nat, Open(n, a),
         Suites!OpenWrongNonce \/ Suites!OpenUnsupported \/ Suites!OpenVerified
  PROVE  Opened'
<1>1. s1' = s1 /\ s3' = s3 /\ s7' = s7 /\ s8' = "done" /\ s13' = s13
  BY Zenon DEF Suites!OpenWrongNonce, Suites!OpenUnsupported, Suites!OpenVerified,
               Suites!OpenReturn, Suites!setting
<1>2. Suites!Available(s3)' <=> Suites!Available(s3) BY <1>1, Zenon DEF Suites!Available
<1>3. Unreadable(s5) /\ s13 # "none" BY Zenon DEF Open
<1>4. CASE Suites!OpenWrongNonce
  <2>1. ~s7' /\ s14' = "Unauthenticated" /\ s5' = s5
    <3>1. ~s7 /\ s14' = "Unauthenticated" /\ s5' = s5
      BY <1>4, Zenon DEF Suites!OpenWrongNonce, Suites!OpenReturn
    <3> QED BY <1>1, <3>1, Zenon
  <2>2. s14' # "Ok" BY <2>1
  <2>3. Unreadable(s5') BY <1>3, <2>1, Zenon
  <2> QED BY <1>1, <2>1, <2>2, <2>3, FailureReadsNothing, Zenon
<1>5. CASE Suites!OpenUnsupported
  <2>1. ~Suites!Available(s3) /\ s14' = "Unsupported" /\ s5' = s5
    BY <1>5, Zenon DEF Suites!OpenUnsupported, Suites!OpenReturn
  <2>2. s14' # "Ok" BY <2>1
  <2>3. Unreadable(s5') BY <1>3, <2>1, Zenon
  <2> QED BY <1>1, <1>2, <2>1, <2>2, <2>3, FailureReadsNothing, Zenon
<1>6. CASE Suites!OpenVerified
  <2>1. s7 BY <1>6, Zenon DEF Suites!OpenVerified
  <2>2. Suites!Expected = <<Suites!StreamOf(s1, s6), Bound(s4, s5)>>
    BY Zenon DEF Suites!Expected, Suites!TagOf, Bound
  <2>3. CASE Suites!Expected = s12
    <3>1. s13 = "carried" BY <2>1, <2>2, <2>3, Zenon DEF Open
    <3>2. s5 = Begun(s1, n, n) /\ s6 = OwnNonce BY <3>1, Zenon DEF Open
    <3>3. s14' = "Ok" /\ s5' = Suites!Decrypted
      BY <1>6, <2>3, Zenon DEF Suites!OpenVerified, Suites!OpenReturn
    <3>4. s5' = Suites!Text(n)
      <4> DEFINE s == s1
                 build == s3.build
                 keys == IF s = Suites!Gcm THEN Suites!CounterKeys(2, n)
                         ELSE Suites!Applied(build, 1, n).keys
      <4>1. Len(Begun(s, n, n)) = n
        <5> HIDE DEF s
        <5> QED BY BegunIs
      <4>2. Suites!Decrypted = Suites!XorAt(Begun(s, n, n), 0, OwnStream(s), keys)
        BY <3>2, <4>1, Zenon DEF Suites!Decrypted, OwnStream
      <4>3. keys = Span(WordsOf(s), FirstOf(s), n)
        <5> HIDE DEF s, build
        <5> QED BY KeysAre, Zenon DEF keys
      <4> HIDE DEF s, build, keys
      <4>4. Suites!XorAt(Begun(s, n, n), 0, OwnStream(s), Span(WordsOf(s), FirstOf(s), n))
              = Suites!Text(n)
        BY TextReturns
      <4> QED BY <3>3, <4>2, <4>3, <4>4
    <3>5. Len(s5') = n
      <4> DEFINE b == s5'
      <4>1. IsList(b, n) BY <3>4 DEF IsList, Suites!Text
      <4> HIDE DEF b
      <4>2. Len(b) = n BY <4>1, ListIs
      <4> QED BY <4>2 DEF b
    <3>6. s5' = Suites!Text(Len(s5')) BY <3>4, <3>5, Zenon
    <3>7. Suites!OpensWhatWasSealed'
      BY <1>1, <3>1, <3>3, <3>6, Zenon DEF Suites!OpensWhatWasSealed
    <3>8. Suites!NoUnverifiedText' BY <3>3, Zenon DEF Suites!NoUnverifiedText
    <3> QED BY <1>1, <3>7, <3>8, Zenon DEF Opened
  <2>4. CASE Suites!Expected # s12
    <3>1. s14' = "Unauthenticated" /\ s5' = Suites!Erased(s5)
      BY <1>6, <2>4, Zenon DEF Suites!OpenVerified, Suites!OpenReturn
    <3>2. s13 # "carried"
      <4>1. ASSUME s13 = "carried" PROVE FALSE
        <5>1. s5 = Begun(s1, n, n) /\ s4 = Suites!AssocData(a) /\ s6 = OwnNonce /\ s12 = SealTag(s1, n, a)
          BY <4>1, Zenon DEF Open
        <5> QED BY <2>2, <2>4, <5>1, Zenon DEF SealTag, OwnStream
      <4> QED BY <4>1
    <3>3. Unreadable(s5')
      <4>1. \A i \in DOMAIN s5' : s5'[i] = {} BY <3>1 DEF Suites!Erased
      <4>2. \A k : {} # {<<"text", k>>} OBVIOUS
      <4> QED BY <4>1, <4>2, Zenon DEF Unreadable
    <3>4. s14' # "Ok" BY <3>1
    <3> QED BY <1>1, <3>1, <3>2, <3>3, <3>4, FailureReadsNothing, Zenon
  <2> QED BY <2>3, <2>4
<1> QED BY <1>4, <1>5, <1>6
-----------------------------------------------------------------------------
(* The invariant.  A message is ready to be sealed.                        *)
LEMMA AeadInit == SecretsInit => AeadInv
<1> SUFFICES ASSUME SecretsInit, unit = "aead"
             PROVE  \E n \in AeadTextLens : \E a \in AeadAdLens : Stage(n, a)
  BY DEF AeadInv
<1>1. Suites!Init BY Zenon DEF SecretsInit
<1>2. PICK n \in AeadTextLens : s5 = Suites!Text(n) BY <1>1, Zenon DEF Suites!Init
<1>3. PICK a \in AeadAdLens : s4 = Suites!AssocData(a) BY <1>1, Zenon DEF Suites!Init
<1>4. Ready(n, a) /\ s8 = "seal"
  BY <1>1, <1>2, <1>3, Zenon DEF Suites!Init, Ready, OwnNonce
<1> QED BY <1>4, Zenon DEF Stage

(* A step of a suite takes a message to its next stage.                    *)
LEMMA StageMoves ==
  ASSUME NEW n \in AeadTextLens, NEW a \in AeadAdLens, Stage(n, a), Suites!Next
  PROVE  Stage(n, a)' \/ Opened'
<1>1. n \in Nat /\ a \in Nat BY TextsAssumption, StreamAssumption
<1>2. CASE Suites!SealRefuse
  <2>1. s8 = "seal" /\ s8' = "done" /\ s13' = s13 BY <1>2, Zenon DEF Suites!SealRefuse
  <2>2. s13 = "none" BY <2>1 DEF Stage, Ready
  <2> QED BY <2>1, <2>2, Zenon DEF Opened
<1>3. CASE Suites!SealStart
  <2>1. s8 = "seal" BY <1>3, Zenon DEF Suites!SealStart
  <2>2. Ready(n, a) BY <2>1 DEF Stage
  <2> QED BY <1>1, <1>3, <2>2, StartSeals, Zenon DEF Stage
<1>4. CASE Suites!GcmTail \/ Suites!ChaChaChunk \/ \E blocks \in {1, 4, 8} : Suites!GcmGroup(blocks)
  <2>1. s8 = "sealing"
    BY <1>4, Zenon DEF Suites!GcmTail, Suites!ChaChaChunk, Suites!GcmGroup
  <2>2. Sealing(n, a) BY <2>1 DEF Stage
  <2>3. Sealing(n, a)' /\ s8' = s8 BY <1>1, <1>4, <2>2, GcmFused, ChaChaFused, Zenon
  <2> QED BY <2>1, <2>3, Zenon DEF Stage
<1>5. CASE Suites!SealFinish
  <2>1. s8 = "sealing" BY <1>5, Zenon DEF Suites!SealFinish
  <2>2. Sealing(n, a) BY <2>1 DEF Stage
  <2> QED BY <1>1, <1>5, <2>2, FinishSeals, Zenon DEF Stage
<1>6. ASSUME NEW c \in AeadChanges, Suites!Carried(c) PROVE Stage(n, a)'
  <2>1. s8 = "sealed" BY <1>6, Zenon DEF Suites!Carried
  <2>2. Sealed(n, a) BY <2>1 DEF Stage
  <2> QED BY <1>1, <1>6, <2>2, CarriedOpens, Zenon DEF Stage
<1>7. CASE Suites!OpenWrongNonce \/ Suites!OpenUnsupported \/ Suites!OpenVerified
  <2>1. s8 = "open"
    BY <1>7, Zenon DEF Suites!OpenWrongNonce, Suites!OpenUnsupported, Suites!OpenVerified
  <2>2. Open(n, a) BY <2>1 DEF Stage
  <2> QED BY <1>1, <1>7, <2>2, OpenEnds, Zenon
<1> QED BY <1>2, <1>3, <1>4, <1>5, <1>6, <1>7, Zenon DEF Suites!Next

(* The invariant is kept.                                                  *)
LEMMA AeadStep == AeadInv /\ [SecretsNext]_bench => AeadInv'
<1> SUFFICES ASSUME AeadInv, [SecretsNext]_bench, unit' = "aead"
             PROVE  \/ (\E n \in AeadTextLens : \E a \in AeadAdLens : Stage(n, a))'
                    \/ Opened'
  BY Zenon DEF AeadInv
<1>1. unit = "aead" BY Zenon DEF SecretsNext, RestUntouched, bench
<1>2. \/ \E n \in AeadTextLens : \E a \in AeadAdLens : Stage(n, a)
      \/ Opened
  BY <1>1, Zenon DEF AeadInv
<1>3. CASE UNCHANGED bench
  <2>1. /\ s1' = s1 /\ s3' = s3 /\ s4' = s4 /\ s5' = s5 /\ s6' = s6 /\ s7' = s7 /\ s8' = s8
        /\ s9' = s9 /\ s10' = s10 /\ s11' = s11 /\ s12' = s12 /\ s13' = s13 /\ s14' = s14
    BY <1>3, Zenon DEF bench, slots
  <2>2. ASSUME NEW n \in AeadTextLens, NEW a \in AeadAdLens, Stage(n, a) PROVE Stage(n, a)'
    BY <2>1, <2>2, Zenon DEF Stage, Ready, Sealing, Sealed, Open
  <2>3. ASSUME Opened PROVE Opened'
    BY <2>1, <2>3, Zenon DEF Opened, Suites!OpensWhatWasSealed, Suites!NoUnverifiedText,
                             Suites!Available
  <2> QED BY <1>2, <2>2, <2>3, Zenon
<1>4. CASE SecretsNext
  <2>1. Suites!Next BY <1>1, <1>4 DEF SecretsNext, RandStep
  <2>2. CASE Opened
    <3>1. s8 = "done" BY <2>2 DEF Opened
    <3>2. "done" \notin {"seal", "sealing", "sealed", "open"} OBVIOUS
    <3>3. FALSE
      BY <2>1, <3>1, <3>2
         DEF Suites!Next, Suites!SealRefuse, Suites!SealStart, Suites!GcmTail, Suites!ChaChaChunk,
             Suites!SealFinish, Suites!GcmGroup, Suites!Carried, Suites!OpenWrongNonce,
             Suites!OpenUnsupported, Suites!OpenVerified
    <3> QED BY <3>3
  <2>3. ASSUME NEW n \in AeadTextLens, NEW a \in AeadAdLens, Stage(n, a)
        PROVE  Stage(n, a)' \/ Opened'
    BY <2>1, <2>3, StageMoves
  <2> QED BY <1>2, <2>2, <2>3, Zenon
<1> QED BY <1>3, <1>4

(* What it says of messages.                                               *)
LEMMA AeadHolds ==
  AeadInv => /\ OpensWhatWasSealed
             /\ unit = "aead" => Suites!KeystreamPeriod
<1> SUFFICES ASSUME AeadInv, unit = "aead"
             PROVE  Suites!OpensWhatWasSealed /\ Suites!NoUnverifiedText /\ Suites!KeystreamPeriod
  BY Zenon DEF OpensWhatWasSealed
<1>1. CASE Opened
  <2>1. s8 = "done" BY <1>1 DEF Opened
  <2>2. Suites!OpensWhatWasSealed /\ Suites!NoUnverifiedText
    BY <1>1, Zenon DEF Opened, Suites!OpensWhatWasSealed, Suites!NoUnverifiedText
  <2>3. s8 # "sealed" BY <2>1
  <2> QED BY <2>2, <2>3, Zenon DEF Suites!KeystreamPeriod
<1>2. ASSUME NEW n \in AeadTextLens, NEW a \in AeadAdLens, Stage(n, a)
      PROVE  Suites!OpensWhatWasSealed /\ Suites!NoUnverifiedText /\ Suites!KeystreamPeriod
  <2>1. s8 # "done" BY <1>2 DEF Stage
  <2>2. Suites!OpensWhatWasSealed /\ Suites!NoUnverifiedText
    BY <2>1, Zenon DEF Suites!OpensWhatWasSealed, Suites!NoUnverifiedText
  <2>3. CASE s8 = "sealed"
    <3>1. Sealed(n, a) BY <1>2, <2>3 DEF Stage
    <3>2. n \in Nat BY TextsAssumption
    <3>3. Suites!KeystreamPeriod BY <3>1, <3>2, OwnKeystream
    <3> QED BY <2>2, <3>3
  <2>4. CASE s8 # "sealed"
    <3>1. Suites!KeystreamPeriod BY <2>4, Zenon DEF Suites!KeystreamPeriod
    <3> QED BY <2>2, <3>1
  <2> QED BY <2>3, <2>4
<1> QED BY <1>1, <1>2, Zenon DEF AeadInv

-----------------------------------------------------------------------------
(* Randomness.  For buffers of any length, chunks of any length and a      *)
(* failure at any chunk.                                                   *)

(* One source filled the whole buffer.                                     *)
OneSource == \/ \A i \in DOMAIN buffer : buffer[i] = "getentropy"
             \/ \A i \in DOMAIN buffer : buffer[i] = "urandom"

(* What fill has worked through came from the kernel, as long as no call   *)
(* failed; what it returns successfully, or secret_32 gives, is whole.     *)
RandInv ==
  /\ \E n \in Nat : DOMAIN buffer = 1..n /\ filled \in 0..n
  /\ phase = "chunks" => \A i \in 1..filled : buffer[i] = "getentropy"
  /\ phase = "ok" => OneSource
  /\ secret = "given" => phase = "ok"

(* The end of the next chunk is in the buffer, at or behind what is        *)
(* filled, and the chunk counts the places up to it.                       *)
LEMMA ChunkEnds ==
  ASSUME RandAssumption, NEW n \in Nat, DOMAIN buffer = 1..n, filled \in 0..n, filled < Length
  PROVE  /\ Length = n
         /\ \E e \in filled..n : /\ Chunk = (filled + 1)..e
                                 /\ filled + Cardinality(Chunk) = e
<1>1. Length = n
  BY FS_Interval, SMT DEF Length
<1> DEFINE e == IF filled + ChunkLen < Length THEN filled + ChunkLen ELSE Length
<1>2. e \in filled..n BY <1>1, SMT DEF RandAssumption
<1>3. Chunk = (filled + 1)..e BY DEF Chunk
<1> HIDE DEF e
<1>4. filled + Cardinality(Chunk) = e
  <2>1. filled + 1 \in Int /\ e \in Int BY <1>2, SMT
  <2>2. Cardinality((filled + 1)..e) = IF (filled + 1) > e THEN 0 ELSE e - (filled + 1) + 1
    BY <2>1, FS_Interval
  <2> QED BY <1>2, <1>3, <2>2, SMT
<1> QED BY <1>1, <1>2, <1>3, <1>4

(* A buffer that nothing of was filled.                                    *)
LEMMA RandInit == Init => RandInv
<1> USE RandAssumption
<1> SUFFICES ASSUME Init PROVE RandInv OBVIOUS
<1>1. PICK n \in Lengths : buffer = [i \in 1..n |-> "stale"] BY DEF Init
<1>2. n \in Nat /\ DOMAIN buffer = 1..n /\ filled \in 0..n
  BY <1>1, SMT DEF Init, RandAssumption
<1>3. \A i \in 1..filled : buffer[i] = "getentropy" BY SMT DEF Init
<1>4. phase # "ok" /\ secret # "given" BY DEF Init
<1> QED BY <1>2, <1>3, <1>4 DEF RandInv

(* Every step of fill and secret_32 keeps it.                              *)
LEMMA RandStepKeeps == RandInv /\ [Next]_vars => RandInv'
<1> USE RandAssumption
<1> SUFFICES ASSUME RandInv, [Next]_vars PROVE RandInv' OBVIOUS
<1>0. PICK n \in Nat : DOMAIN buffer = 1..n /\ filled \in 0..n BY DEF RandInv
<1>1. CASE GetEntropy
  <2>1. PICK e \in filled..n : Chunk = (filled + 1)..e /\ filled + Cardinality(Chunk) = e
    BY <1>0, <1>1, ChunkEnds DEF GetEntropy
  <2>2. /\ filled' = e /\ phase' = phase /\ phase = "chunks" /\ secret' = secret
        /\ buffer' = Put((filled + 1)..e, "getentropy")
    BY <1>1, <2>1 DEF GetEntropy
  <2>3. DOMAIN buffer' = 1..n /\ filled' \in 0..n
    BY <1>0, <2>1, <2>2, SMT DEF Put
  <2>4. ASSUME NEW i \in 1..filled' PROVE buffer'[i] = "getentropy"
    <3>1. i \in DOMAIN buffer /\ (i \in 1..filled \/ i \in (filled + 1)..e)
      BY <1>0, <2>1, <2>2, SMT
    <3> QED BY <3>1, <2>2 DEF Put, RandInv
  <2> QED BY <2>2, <2>3, <2>4 DEF RandInv
<1>2. CASE GetEntropyFails
  BY <1>0, <1>2 DEF GetEntropyFails, Put, RandInv
<1>3. CASE FillReturns
  <2>1. filled = n /\ Length = n
    BY <1>0, <1>3, FS_Interval, SMT DEF FillReturns, Length
  <2>2. OneSource' BY <1>0, <1>3, <2>1 DEF FillReturns, RandInv, OneSource
  <2> QED BY <1>0, <1>3, <2>2 DEF FillReturns, RandInv
<1>4. CASE OpenDevice
  BY <1>0, <1>4 DEF OpenDevice, RandInv
<1>5. CASE ReadExact
  <2>1. OneSource' BY <1>5 DEF ReadExact, Put, OneSource
  <2> QED BY <1>0, <1>5, <2>1 DEF ReadExact, Put, RandInv
<1>6. CASE ReadFails
  BY <1>0, <1>6 DEF ReadFails, Put, RandInv
<1>7. CASE Secret32
  BY <1>0, <1>7 DEF Secret32, Put, RandInv, OneSource
<1>8. CASE UNCHANGED vars
  BY <1>0, <1>8 DEF vars, RandInv, OneSource
<1> QED BY <1>1, <1>2, <1>3, <1>4, <1>5, <1>6, <1>7, <1>8 DEF Next

(* The invariant of fill and secret_32.                                    *)
THEOREM RandInvariance == Spec => []RandInv
BY RandInit, RandStepKeeps, PTL DEF Spec

(* secret_32 gives no byte that was there before, and none of a system     *)
(* call that failed midway.                                                *)
THEOREM FreshOnly == Spec => []OnlyFreshBytes
<1>1. RandInv => OnlyFreshBytes BY DEF RandInv, OneSource, OnlyFreshBytes
<1> QED BY <1>1, RandInvariance, PTL

(* So too where the other primitives are at work: it is idle, then.        *)
LEMMA RandAmongThem ==
  /\ SecretsInit => RandInv
  /\ RandInv /\ [SecretsNext]_bench => RandInv'
<1>1. ASSUME SecretsInit PROVE RandInv
  <2>1. Init \/ RandIdle BY <1>1, Zenon DEF SecretsInit
  <2>2. ASSUME RandIdle PROVE RandInv
    <3>1. buffer = <<>> /\ filled = 0 /\ phase # "ok" /\ secret # "given" BY <2>2 DEF RandIdle
    <3>2. DOMAIN buffer = 1..0 /\ filled \in 0..0 /\ 0 \in Nat BY <3>1
    <3>3. \A i \in 1..filled : buffer[i] = "getentropy" BY <3>1
    <3> QED BY <3>1, <3>2, <3>3 DEF RandInv
  <2> QED BY <2>1, <2>2, RandInit
<1>2. ASSUME RandInv, [SecretsNext]_bench PROVE RandInv'
  <2>1. [Next]_vars
    <3>1. CASE UNCHANGED bench BY <3>1 DEF bench
    <3>2. CASE SecretsNext
      <4>1. CASE unit = "rand"
        <5>1. Next BY <3>2, <4>1 DEF SecretsNext, RandStep
        <5> QED BY <5>1
      <4>2. CASE unit # "rand" BY <3>2, <4>2, Zenon DEF SecretsNext, RestUntouched
      <4> QED BY <4>1, <4>2
    <3> QED BY <1>2, <3>1, <3>2
  <2> QED BY <1>2, <2>1, RandStepKeeps
<1> QED BY <1>1, <1>2

-----------------------------------------------------------------------------
(* The invariants together.  What each primitive at work keeps.            *)
SecretsInv == PasswordInv /\ KdfInv /\ StreamInv /\ AeadInv /\ RandInv

(* Whatever primitive is at work, for every buffer, message, keystream,    *)
(* password, key and length the constants allow.                           *)
THEOREM SecretsHold == SecretsSpec => []SecretsInv
<1>1. SecretsInit => SecretsInv
  BY PasswordInit, KdfInit, StreamInit, AeadInit, RandAmongThem, Zenon DEF SecretsInv
<1>2. SecretsInv /\ [SecretsNext]_bench => SecretsInv'
  BY PasswordStep, KdfStepKeeps, StreamStepKeeps, AeadStep, RandAmongThem, Zenon DEF SecretsInv
<1> QED BY <1>1, <1>2, PTL DEF SecretsSpec

(* A stored row verifies its password whatever the release's defaults are  *)
(* by then, an edited row restates one that was stored or verifies         *)
(* nothing, a vault key follows the defaults; HKDF fills all of the buffer *)
(* with RFC 5869's output or leaves it alone.                              *)
THEOREM DerivationsStable == SecretsSpec => []DerivationsAreStable
<1>1. SecretsInv => DerivationsAreStable
  BY PasswordsStable, KdfStable, Zenon DEF SecretsInv, DerivationsAreStable
<1> QED BY <1>1, SecretsHold, PTL

(* A message is opened if and only if it was sealed like that, and then to *)
(* its text, whatever the two machines' keystream paths are and however    *)
(* the text falls into passes; no word of a buffer that failed to          *)
(* authenticate holds text.                                                *)
THEOREM SealedOpens == SecretsSpec => []OpensWhatWasSealed
<1>1. SecretsInv => OpensWhatWasSealed BY AeadHolds, Zenon DEF SecretsInv
<1> QED BY <1>1, SecretsHold, PTL

(* In a text of any length two words take the same word of the keystream   *)
(* exactly when whole turns of the counter lie between them, and a word    *)
(* takes one of the block that makes the authentication key exactly in the *)
(* last block of a turn; both builds of ChaCha20 resume at the next block, *)
(* in calls of any length.                                                 *)
THEOREM RepeatsByTurns == SecretsSpec => KeystreamRepeatsByTurns
<1>1. SecretsInv => (unit = "aead" => Suites!KeystreamPeriod) BY AeadHolds, Zenon DEF SecretsInv
<1>2. SecretsInv /\ [SecretsNext]_bench
        => [unit = "keystream" => Stream!BothResume \/ UNCHANGED Stream!vars]_bench
  BY StreamStepKeeps, Zenon DEF SecretsInv
<1> QED BY <1>1, <1>2, SecretsHold, PTL DEF SecretsSpec, KeystreamRepeatsByTurns

(* secret_32's promise, whichever primitive is at work.                    *)
THEOREM SecretsFresh == SecretsSpec => []OnlyFreshBytes
<1>1. SecretsInv => OnlyFreshBytes BY DEF SecretsInv, RandInv, OneSource, OnlyFreshBytes
<1> QED BY <1>1, SecretsHold, PTL
=============================================================================

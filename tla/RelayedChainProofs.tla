------------------------- MODULE RelayedChainProofs -------------------------
(***************************************************************************)
(* For any clients, devices, readers, objects and numbers of requests.     *)
(* First the chain under an untrusted relay: revisions count links, forks  *)
(* never join, the revoked stay out, opening goes forward.  Then the chain *)
(* around an honest relay: it is a behaviour of the first, a write is      *)
(* taken once, and of racing grants one wins.                              *)
(***************************************************************************)
EXTENDS RelayedChain, FiniteSetTheorems, TLAPS

-----------------------------------------------------------------------------
(* The fields of a record have their types.                                *)
LEMMA RecordFields ==
  ASSUME NEW r \in RecordType
  PROVE  /\ r.id \in Ids /\ r.id \in Nat /\ r.id # 0
         /\ r.context \in Contexts
         /\ r.context.version \in Nat /\ r.context.epoch \in Nat
         /\ r.manifest_revision \in 1..MaxU64 /\ r.manifest_revision \in Nat
         /\ r.previous \in Nat
         /\ r.secret \in Ids
         /\ r.recipients \in SUBSET Clients
         /\ r.signer \in Signers
BY FreshnessAssumption DEF RecordType, Ids

(* The head made from a record is a head, and names one record only.       *)
LEMMA HeadOfRecord ==
  ASSUME NEW r \in RecordType
  PROVE  /\ FromValidated(r) \in HeadType
         /\ FromValidated(r) # NoHead
         /\ FromValidated(r).manifest_hash = r.id
BY RecordFields, FreshnessAssumption DEF FromValidated, HeadType

(* A fresh record is well typed and new, whether a genesis or a link.      *)
IsNew(r) ==
  /\ r \in RecordType
  /\ r.id = NextId

LEMMA NewSealed ==
  ASSUME IInv, NEW d \in Devices, NEW x \in Contexts, NEW rs \in RecipientSets,
         NextId \in Ids
  PROVE  IsNew(Sealed(d, x, rs)) /\ Genesis(Sealed(d, x, rs))
BY FreshnessAssumption DEF IsNew, Sealed, Genesis, RecordType, Ids

LEMMA NewGrant ==
  ASSUME IInv, NEW r \in made, NEW c \in Clients, NextId \in Ids,
         r.manifest_revision < MaxU64
  PROVE  IsNew(Granted(r, c)) /\ Extends(Granted(r, c), r) /\ Granted(r, c).secret = r.secret
  <1>1. r \in RecordType
    BY DEF IInv, TypeOK
  <1>2. r.manifest_revision + 1 \in 1..MaxU64 /\ r.id \in 0..MaxRecords
    BY <1>1, RecordFields, FreshnessAssumption DEF Ids
  <1>3. Granted(r, c) \in RecordType
    BY <1>1, <1>2, RecordFields DEF RecordType, Granted
  <1> QED
    BY <1>1, <1>3, RecordFields DEF IsNew, Extends, Granted

LEMMA NewRekey ==
  ASSUME IInv, NEW d \in Devices, NEW r \in made, NEW x \in Contexts, NEW rs \in RecipientSets,
         Rekey(d, r, x, rs)
  PROVE  /\ IsNew(Rekeyed(d, r, x, rs))
         /\ Extends(Rekeyed(d, r, x, rs), r)
         /\ Rekeyed(d, r, x, rs).secret = NextId
  <1>1. r \in RecordType
    BY DEF IInv, TypeOK
  <1>2. r.manifest_revision + 1 \in 1..MaxU64 /\ r.id \in 0..MaxRecords
    BY <1>1, RecordFields, FreshnessAssumption DEF Ids, Rekey
  <1>3. Rekeyed(d, r, x, rs) \in RecordType
    BY <1>2, FreshnessAssumption DEF RecordType, Rekey, Rekeyed, Publish
  <1>4. /\ x.version \in Nat /\ r.context.version \in Nat
        /\ x.epoch \in Nat /\ r.context.epoch \in Nat
    BY <1>1, RecordFields, FreshnessAssumption
  <1> QED
    BY <1>3, <1>4 DEF IsNew, Extends, Rekey, Rekeyed, Validates

-----------------------------------------------------------------------------
(* Ancestors are numbered below their descendants, and finitely many.      *)
LEMMA PastBelow ==
  ASSUME IInv, NEW r \in made
  PROVE  /\ r.id \notin past[r.id]
         /\ \A i \in past[r.id] : i \in Ids /\ i < r.id
         /\ IsFiniteSet(past[r.id])
         /\ Cardinality(PastOf(r)) = Cardinality(past[r.id]) + 1
  <1>1. r \in RecordType /\ past[r.id] \in SUBSET Ids
    BY RecordFields DEF IInv, TypeOK
  <1>2. \A i \in past[r.id] : i < r.id
    BY DEF IInv, Descent
  <1>3. r.id \notin past[r.id]
    BY <1>1, <1>2, RecordFields
  <1>4. IsFiniteSet(Ids)
    BY FS_Interval, FreshnessAssumption DEF Ids
  <1>5. IsFiniteSet(past[r.id])
    BY <1>1, <1>4, FS_Subset
  <1> QED
    BY <1>1, <1>2, <1>3, <1>5, FS_AddElement DEF PastOf

(* What signing a record leaves as it was: every earlier record's past.    *)
LEMMA PublishFrame ==
  ASSUME IInv, NEW n, IsNew(n), NEW A, Publish(n, A)
  PROVE  /\ n \notin made
         /\ made' = made \cup {n}
         /\ IsFiniteSet(made') /\ Cardinality(made') = NextId
         /\ NextId \in Ids /\ NextId = Cardinality(made) + 1 /\ Cardinality(made) \in Nat
         /\ past'[n.id] = A
         /\ \A i \in Ids : i # n.id => past'[i] = past[i]
         /\ \A r \in made : /\ r.id # n.id /\ r.id < n.id
                            /\ past'[r.id] = past[r.id]
                            /\ PastOf(r)' = PastOf(r)
  <1>1. IsFiniteSet(made) /\ Cardinality(made) \in Nat
    BY FS_CardinalityType DEF IInv, Numbered
  <1>2. \A r \in made : r.id \in Ids /\ r.id <= Cardinality(made)
    BY RecordFields DEF IInv, Numbered, TypeOK
  <1>3. n.id = Cardinality(made) + 1 /\ NextId = Cardinality(made) + 1
    BY DEF IsNew, NextId
  <1>4. \A r \in made : r.id # n.id /\ r.id < n.id
    BY <1>1, <1>2, <1>3, FreshnessAssumption DEF Ids
  <1>5. n \notin made /\ made' = made \cup {n} /\ NextId \in Ids
    BY <1>4 DEF Publish
  <1>6. past'[n.id] = A /\ \A i \in Ids : i # n.id => past'[i] = past[i]
    BY <1>3, <1>5 DEF Publish, IInv, TypeOK
  <1>7. IsFiniteSet(made') /\ Cardinality(made') = Cardinality(made) + 1
    BY <1>1, <1>5, FS_AddElement
  <1> QED
    BY <1>1, <1>2, <1>3, <1>4, <1>5, <1>6, <1>7 DEF PastOf

(* A record that is a genesis, or that extends a signed one with its       *)
(* secret or a fresh one, keeps the invariant.                             *)
LinksTo(n, A, s) ==
  Extends(n, s) /\ A = PastOf(s) /\ n.secret \in {n.id, s.secret}

LEMMA PublishStep ==
  ASSUME IInv, NEW n, IsNew(n), NEW A, Publish(n, A),
         (Genesis(n) /\ A = {}) \/ (\E s \in made : LinksTo(n, A, s))
  PROVE  IInv'
  <1>f. /\ n \notin made
        /\ made' = made \cup {n}
        /\ IsFiniteSet(made') /\ Cardinality(made') = NextId
        /\ NextId \in Ids /\ NextId = Cardinality(made) + 1 /\ Cardinality(made) \in Nat
        /\ past'[n.id] = A
        /\ \A i \in Ids : i # n.id => past'[i] = past[i]
        /\ \A r \in made : /\ r.id # n.id /\ r.id < n.id
                           /\ past'[r.id] = past[r.id]
                           /\ PastOf(r)' = PastOf(r)
    BY PublishFrame
  <1>n. n \in RecordType /\ n.id = NextId
    BY DEF IsNew
  <1>u. UNCHANGED <<head, trail, opened>>
    BY DEF Publish
  <1>a. A \in SUBSET Ids
    <2>1. \A s \in made : PastOf(s) \in SUBSET Ids
      BY RecordFields DEF IInv, TypeOK, PastOf
    <2> QED
      BY <2>1 DEF LinksTo
  <1>1. TypeOK'
    <2>1. past' \in [Ids -> SUBSET Ids]
      BY <1>a DEF IInv, TypeOK, Publish
    <2> QED
      BY <1>f, <1>n, <1>u, <2>1 DEF IInv, TypeOK
  <1>2. Numbered'
    BY <1>f, <1>n, RecordFields DEF IInv, Numbered, TypeOK, Ids
  <1>3. Linked'
    <2>1. ASSUME NEW r \in made
          PROVE  \/ Genesis(r) /\ past'[r.id] = {}
                 \/ \E s \in made' : Extends(r, s) /\ past'[r.id] = PastOf(s)'
      BY <1>f DEF IInv, Linked
    <2>2. \/ Genesis(n) /\ past'[n.id] = {}
          \/ \E s \in made' : Extends(n, s) /\ past'[n.id] = PastOf(s)'
      BY <1>f DEF LinksTo
    <2> QED
      BY <1>f, <2>1, <2>2 DEF Linked
  <1>4. Descent'
    <2>1. ASSUME NEW r \in made
          PROVE  /\ \A i \in past'[r.id] :
                      /\ i < r.id
                      /\ past'[i] \subseteq past'[r.id]
                      /\ \A j \in past'[r.id] : Comparable(i, j)'
                 /\ r.secret \in PastOf(r)'
      <3>1. \A i \in past[r.id] : i \in Ids /\ i < r.id /\ i # n.id
        BY <1>f, <1>n, PastBelow, RecordFields DEF IInv, TypeOK, Ids
      <3>2. /\ \A i \in past[r.id] :
                 /\ past[i] \subseteq past[r.id]
                 /\ \A j \in past[r.id] : Comparable(i, j)
            /\ r.secret \in PastOf(r)
        BY DEF IInv, Descent
      <3> QED
        BY <1>f, <3>1, <3>2 DEF Comparable
    <2>2. CASE Genesis(n) /\ A = {}
      BY <1>f, <2>1, <2>2 DEF Descent, Genesis, PastOf
    <2>3. CASE \E s \in made : LinksTo(n, A, s)
      <3>1. PICK s \in made : LinksTo(n, A, s)
        BY <2>3
      <3>2. /\ A = past[s.id] \cup {s.id}
            /\ n.secret \in {n.id, s.secret}
        BY <3>1 DEF LinksTo, PastOf
      <3>3. /\ \A i \in past'[s.id] :
                 /\ i < s.id
                 /\ past'[i] \subseteq past'[s.id]
                 /\ \A j \in past'[s.id] : Comparable(i, j)'
            /\ s.secret \in PastOf(s)'
        BY <2>1
      <3>4. past'[s.id] = past[s.id] /\ s.id < n.id /\ s.id \in Nat /\ n.id \in Nat
        BY <1>f, <1>n, RecordFields DEF IInv, TypeOK
      <3>5. \A i \in A : i \in Nat /\ i < n.id /\ past'[i] \subseteq A
        BY <3>2, <3>3, <3>4, PastBelow DEF Ids
      <3>6. \A i, j \in A : Comparable(i, j)'
        BY <3>2, <3>3, <3>4 DEF Comparable
      <3>7. n.secret \in PastOf(n)'
        BY <1>f, <3>2, <3>3, <3>4 DEF PastOf
      <3> QED
        BY <1>f, <2>1, <3>5, <3>6, <3>7 DEF Descent
    <2> QED
      BY <2>2, <2>3
  <1>5. RevisionCountsLinks'
    <2>1. \A r \in made : r.manifest_revision = Cardinality(past'[r.id]) + 1
      BY <1>f DEF IInv, RevisionCountsLinks
    <2>2. n.manifest_revision = Cardinality(A) + 1
      <3>1. CASE Genesis(n) /\ A = {}
        BY <3>1, FS_EmptySet DEF Genesis
      <3>2. CASE \E s \in made : LinksTo(n, A, s)
        BY <3>2, PastBelow DEF LinksTo, Extends, IInv, RevisionCountsLinks
      <3> QED
        BY <3>1, <3>2
    <2> QED
      BY <1>f, <2>1, <2>2 DEF RevisionCountsLinks
  <1>6. HeadsStand'
    BY <1>f, <1>u DEF IInv, HeadsStand, StandsAt
  <1> QED
    BY <1>1, <1>2, <1>3, <1>4, <1>5, <1>6 DEF IInv

-----------------------------------------------------------------------------
(* The three operations of an author.                                      *)
LEMMA AuthorStep ==
  ASSUME IInv, NEW d \in Devices, Author(d)
  PROVE  IInv'
  <1>1. ASSUME NEW x \in Contexts, NEW rs \in RecipientSets, Seal(d, x, rs)
        PROVE  IInv'
    <2>1. IsNew(Sealed(d, x, rs)) /\ Genesis(Sealed(d, x, rs))
      BY <1>1, NewSealed DEF Seal, Publish
    <2> QED
      BY <1>1, <2>1, PublishStep DEF Seal
  <1>2. ASSUME NEW r \in made, NEW c \in Clients, GrantRecipient(d, r, c)
        PROVE  IInv'
    <2>1. IsNew(Granted(r, c)) /\ LinksTo(Granted(r, c), PastOf(r), r)
      BY <1>2, NewGrant DEF GrantRecipient, Publish, LinksTo
    <2> QED
      BY <1>2, <2>1, PublishStep DEF GrantRecipient
  <1>3. ASSUME NEW r \in made, NEW x \in Contexts, NEW rs \in RecipientSets, Rekey(d, r, x, rs)
        PROVE  IInv'
    <2>1. IsNew(Rekeyed(d, r, x, rs)) /\ LinksTo(Rekeyed(d, r, x, rs), PastOf(r), r)
      BY <1>3, NewRekey DEF LinksTo, IsNew
    <2> QED
      BY <1>3, <2>1, PublishStep DEF Rekey
  <1> QED
    BY <1>1, <1>2, <1>3 DEF Author

(* What a reader does moves its own checkpoint and nothing else.           *)
LEMMA ReaderStep ==
  ASSUME IInv, NEW c \in Clients, Reader(c)
  PROVE  IInv'
  <1>t. TypeOK /\ HeadsStand
    BY DEF IInv
  <1>m. made' = made /\ past' = past
    BY DEF Reader, Start, Advance, OpenAtHead, LoseHead
  <1>r. \A r \in made : /\ r \in RecordType
                        /\ FromValidated(r) \in HeadType
                        /\ FromValidated(r) # NoHead
                        /\ FromValidated(r).manifest_hash = r.id
                        /\ r.id \in Ids /\ r.id # 0 /\ r.id \in 0..MaxRecords
    BY <1>t, HeadOfRecord, RecordFields, FreshnessAssumption DEF TypeOK, Ids
  <1>1. (Numbered /\ Linked /\ Descent /\ RevisionCountsLinks)'
    BY <1>m DEF IInv, Numbered, Linked, Descent, RevisionCountsLinks, PastOf, Comparable
  <1>2. SUFFICES TypeOK' /\ HeadsStand'
    BY <1>1 DEF IInv
  <1>o. ASSUME NEW b \in Clients, head'[b] = head[b], trail'[b] = trail[b],
               opened'[b] = opened[b]
        PROVE  \/ head'[b] = NoHead /\ trail'[b] = {} /\ opened'[b] = 0
               \/ \E r \in made' : StandsAt(b, r)'
    BY <1>o, <1>t, <1>m DEF HeadsStand, StandsAt, PastOf
  <1>3. ASSUME NEW r \in made, Start(c, r)
        PROVE  TypeOK' /\ HeadsStand'
    <2>1. TypeOK'
      BY <1>3, <1>t, <1>r DEF TypeOK, Start
    <2>2. \A b \in Clients : b # c =>
            head'[b] = head[b] /\ trail'[b] = trail[b] /\ opened'[b] = opened[b]
      BY <1>3, <1>t DEF Start, TypeOK
    <2>3. opened[c] = 0
      BY <1>3, <1>t, <1>r DEF HeadsStand, StandsAt, Start
    <2>4. StandsAt(c, r)'
      BY <1>3, <1>t, <2>3 DEF Start, StandsAt, TypeOK, PastOf
    <2> QED
      BY <1>m, <1>o, <2>1, <2>2, <2>4 DEF HeadsStand
  <1>4. ASSUME NEW r \in made, Advance(c, r)
        PROVE  TypeOK' /\ HeadsStand'
    <2>1. TypeOK'
      BY <1>4, <1>t, <1>r DEF TypeOK, Advance
    <2>2. \A b \in Clients : b # c =>
            head'[b] = head[b] /\ trail'[b] = trail[b] /\ opened'[b] = opened[b]
      BY <1>4, <1>t DEF Advance, TypeOK
    <2>3. PICK s \in made : StandsAt(c, s)
      BY <1>4, <1>t DEF HeadsStand, Advance
    <2>4. r.previous = s.id /\ s.id # 0
      BY <1>4, <1>r, <2>3 DEF Advance, AdvancesHead, StandsAt
    <2>5. past[r.id] = PastOf(s)
      BY <2>4, <1>r DEF IInv, Linked, Genesis, Extends, Numbered
    <2>6. StandsAt(c, r)'
      BY <1>4, <1>t, <2>3, <2>5 DEF Advance, StandsAt, TypeOK, PastOf
    <2> QED
      BY <1>m, <1>o, <2>1, <2>2, <2>6 DEF HeadsStand
  <1>5. ASSUME NEW r \in made, OpenAtHead(c, r)
        PROVE  TypeOK' /\ HeadsStand'
    <2>1. TypeOK'
      BY <1>5, <1>t, <1>r DEF TypeOK, OpenAtHead
    <2>2. \A b \in Clients : b # c =>
            head'[b] = head[b] /\ trail'[b] = trail[b] /\ opened'[b] = opened[b]
      BY <1>5, <1>t DEF OpenAtHead, TypeOK
    <2>3. PICK s \in made : StandsAt(c, s)
      BY <1>5, <1>t DEF HeadsStand, OpenAtHead
    <2>4. r.id = s.id
      BY <1>5, <1>r, <2>3 DEF OpenAtHead, ExactHead, StandsAt
    <2>5. StandsAt(c, s)'
      BY <1>5, <1>t, <2>3, <2>4 DEF OpenAtHead, StandsAt, TypeOK, PastOf
    <2> QED
      BY <1>m, <1>o, <2>1, <2>2, <2>5 DEF HeadsStand
  <1>6. ASSUME LoseHead(c)
        PROVE  TypeOK' /\ HeadsStand'
    <2>1. TypeOK'
      BY <1>6, <1>t, FreshnessAssumption DEF TypeOK, LoseHead
    <2>2. \A b \in Clients : b # c =>
            head'[b] = head[b] /\ trail'[b] = trail[b] /\ opened'[b] = opened[b]
      BY <1>6, <1>t DEF LoseHead, TypeOK
    <2>3. head'[c] = NoHead /\ trail'[c] = {} /\ opened'[c] = 0
      BY <1>6, <1>t DEF LoseHead, TypeOK
    <2> QED
      BY <1>m, <1>o, <2>1, <2>2, <2>3 DEF HeadsStand
  <1> QED
    BY <1>3, <1>4, <1>5, <1>6 DEF Reader

-----------------------------------------------------------------------------
(* Before any record is signed.                                            *)
LEMMA InitInv == Init => IInv
  <1> SUFFICES ASSUME Init PROVE IInv
    OBVIOUS
  <1>1. TypeOK
    BY FreshnessAssumption DEF Init, TypeOK
  <1>2. Numbered
    BY FS_EmptySet DEF Init, Numbered
  <1> QED
    BY <1>1, <1>2 DEF Init, IInv, Linked, Descent, RevisionCountsLinks, HeadsStand

(* Every step of an author or a reader keeps the invariant.                *)
LEMMA StepInv == IInv /\ [Next]_vars => IInv'
  <1>1. ASSUME IInv, UNCHANGED vars
        PROVE  IInv'
    <2>1. made' = made /\ past' = past /\ head' = head /\ trail' = trail /\ opened' = opened
      BY <1>1 DEF vars
    <2>2. TypeOK' /\ Numbered'
      BY <1>1, <2>1 DEF IInv, TypeOK, Numbered
    <2>3. Linked'
      BY <1>1, <2>1 DEF IInv, Linked, PastOf
    <2>4. Descent'
      BY <1>1, <2>1 DEF IInv, Descent, PastOf, Comparable
    <2>5. RevisionCountsLinks' /\ HeadsStand'
      BY <1>1, <2>1 DEF IInv, RevisionCountsLinks, HeadsStand, StandsAt, PastOf
    <2> QED
      BY <2>2, <2>3, <2>4, <2>5 DEF IInv
  <1> QED
    BY <1>1, AuthorStep, ReaderStep DEF Next

(* The inductive invariant holds in every reachable state.                 *)
THEOREM Invariance == Spec => []IInv
  BY StepInv, InitInv, PTL DEF Spec

(* Every variable keeps its type; in particular no revision leaves u64.    *)
THEOREM TypeCorrect == Spec => []TypeOK
  <1>1. IInv => TypeOK
    BY DEF IInv
  <1> QED
    BY <1>1, Invariance, PTL

(* The manifest revision counts the links, whatever the width of u64       *)
(* (checked_add in grant_recipient and rekey).                             *)
THEOREM RevisionExact == Spec => []RevisionCountsLinks
  <1>1. IInv => RevisionCountsLinks
    BY DEF IInv
  <1> QED
    BY <1>1, Invariance, PTL

(* Two links name one predecessor.                                         *)
LEMMA OnePredecessor ==
  ASSUME IInv, NEW r \in made, NEW s \in made, s.previous = r.id
  PROVE  Extends(s, r) /\ past[s.id] = PastOf(r)
  <1>1. r \in RecordType
    BY DEF IInv, TypeOK
  <1>2. r.id # 0
    BY <1>1, RecordFields
  <1> QED
    BY <1>2 DEF IInv, Linked, Genesis, Extends, Numbered

(* FreshnessHead::advance accepts every genuine successor of the head.     *)
THEOREM ChainFollowable == Spec => []SuccessorsFollow
  <1>1. ASSUME IInv PROVE SuccessorsFollow
    <2> SUFFICES ASSUME NEW r \in made, NEW s \in made, s.previous = r.id
                 PROVE  AdvancesHead(FromValidated(r), s)
      BY DEF SuccessorsFollow
    <2>1. Extends(s, r)
      BY <1>1, OnePredecessor
    <2>2. r \in RecordType /\ s \in RecordType
      BY <1>1 DEF IInv, TypeOK
    <2>3. s.manifest_revision = SaturatingAdd(r.manifest_revision, 1)
      BY <2>1, <2>2, RecordFields, FreshnessAssumption DEF Extends, SaturatingAdd
    <2> QED
      BY <2>1, <2>3 DEF AdvancesHead, FromValidated, Extends
  <1> QED
    BY <1>1, Invariance, PTL

(* Two checkpoints on different branches never meet again                  *)
(* (previous_manifest_hash in FreshnessHead::advance).                     *)
THEOREM ForkConsistency == Spec => []ForksNeverJoin
  <1>1. ASSUME IInv PROVE ForksNeverJoin
    <2> SUFFICES ASSUME NEW c \in Clients, NEW d \in Clients,
                        head[c] # NoHead, head[c] = head[d],
                        NEW i \in trail[c], NEW j \in trail[d]
                 PROVE  Comparable(i, j)
      BY DEF ForksNeverJoin
    <2>1. PICK r \in made : StandsAt(c, r)
      BY <1>1 DEF IInv, HeadsStand
    <2>2. PICK s \in made : StandsAt(d, s)
      BY <1>1 DEF IInv, HeadsStand
    <2>3. r.id = s.id
      BY <1>1, <2>1, <2>2, HeadOfRecord DEF StandsAt, IInv, TypeOK
    <2>4. i \in past[r.id] \cup {r.id} /\ j \in past[r.id] \cup {r.id}
      BY <2>1, <2>2, <2>3 DEF StandsAt, PastOf
    <2> QED
      BY <1>1, <2>4 DEF IInv, Descent, Comparable
  <1> QED
    BY <1>1, Invariance, PTL

(* Revocation by rekey reaches every later record that shares the secret.  *)
THEOREM Revocation == Spec => []RevokedStayOut
  <1>1. ASSUME IInv PROVE RevokedStayOut
    <2> SUFFICES ASSUME NEW r \in made, NEW s \in made,
                        r.previous = s.id, r.context.epoch > s.context.epoch,
                        NEW c \in s.recipients \ r.recipients,
                        \A g \in made : c \in g.recipients => r.id \notin past[g.id],
                        NEW g \in made, c \in g.recipients, g.secret = r.secret
                 PROVE  FALSE
      BY DEF RevokedStayOut
    <2>1. r.secret = r.id
      BY <1>1, OnePredecessor DEF Extends
    <2>2. g.secret \in past[g.id] \cup {g.id}
      BY <1>1 DEF IInv, Descent, PastOf
    <2>3. CASE g.id = r.id
      BY <1>1, <2>3 DEF IInv, Numbered
    <2> QED
      BY <2>1, <2>2, <2>3
  <1> QED
    BY <1>1, Invariance, PTL

(* With its checkpoint kept, a client opens records in chain order only    *)
(* (require_exact_head in open_at_head).                                   *)
THEOREM NoRollback == Spec => OpensForward
  <1> DEFINE Forward(c) ==
        opened[c] # 0 /\ opened'[c] # 0 /\ opened'[c] # opened[c] =>
          opened[c] \in past'[opened'[c]]
  <1>1. ASSUME IInv, Next, NEW c \in Clients
        PROVE  Forward(c)
    <2>1. CASE \E r \in made : OpenAtHead(c, r)
      <3>1. PICK r \in made : OpenAtHead(c, r)
        BY <2>1
      <3>2. PICK s \in made : StandsAt(c, s)
        BY <1>1, <3>1 DEF IInv, HeadsStand, OpenAtHead
      <3>3. r.id = s.id
        BY <1>1, <3>1, <3>2, HeadOfRecord DEF OpenAtHead, ExactHead, StandsAt, IInv, TypeOK
      <3>4. opened'[c] = r.id /\ past' = past
        BY <1>1, <3>1 DEF OpenAtHead, IInv, TypeOK
      <3> QED
        BY <3>2, <3>3, <3>4 DEF StandsAt, PastOf
    <2>2. CASE opened'[c] \in {opened[c], 0}
      BY <2>2
    <2>3. opened'[c] \in {opened[c], 0} \/ \E r \in made : OpenAtHead(c, r)
      BY <1>1 DEF IInv, TypeOK, Next, Author, Reader, Seal, GrantRecipient, Rekey, Publish,
                  Start, Advance, OpenAtHead, LoseHead
    <2> QED
      BY <2>1, <2>2, <2>3
  <1>2. IInv /\ [Next]_vars => [\A c \in Clients : Forward(c)]_vars
    BY <1>1
  <1> QED
    BY <1>2, Invariance, PTL DEF Spec, OpensForward

-----------------------------------------------------------------------------
(* The relay's order: a later version, or a longer chain at the same one.  *)
Newer(r, s) ==
  \/ r.context.version > s.context.version
  \/ /\ r.context.version = s.context.version
     /\ r.manifest_revision > s.manifest_revision

(* Where records are: a slot holds a record of its key, a device has       *)
(* fetched what a slot held, and only signed records are sent.             *)
Places ==
  /\ held \subseteq made
  /\ stored \in [Objects -> held \cup {NoRecord}]
  /\ \A k \in Objects : stored[k] # NoRecord => stored[k].context.key = k
  /\ basis \in [Devices -> held \cup {NoRecord}]
  /\ pending \in [Devices -> made \cup {NoRecord}]
  /\ requests \subseteq made

(* A slot holds the newest record it ever held, and no two it held are of  *)
(* the same age.                                                           *)
SlotsAscend ==
  /\ \A r \in held : LET s == stored[r.context.key]
                     IN  s # NoRecord /\ (s = r \/ Newer(s, r))
  /\ \A r, s \in held : r.context.key = s.context.key => r = s \/ Newer(r, s) \/ Newer(s, r)

(* Every record but a genesis extends one that a slot has held.            *)
BuiltOnHeld == \A r \in made : r.previous # 0 => \E p \in held : Extends(r, p)

(* A checkpoint stands at a record that a slot has held.                   *)
HeadsHeld == \A c \in Clients : head[c] # NoHead => \E r \in held : head[c] = FromValidated(r)

RelayedInv == IInv /\ Places /\ SlotsAscend /\ BuiltOnHeld /\ HeadsHeld

-----------------------------------------------------------------------------
(* Signed records have their types and are named by their numbers.         *)
LEMMA Made ==
  ASSUME RelayedInv
  PROVE  /\ \A r \in made : /\ r \in RecordType /\ r # NoRecord
                            /\ r.context \in Contexts /\ r.context.key \in Objects
                            /\ r.context.version \in Nat /\ r.manifest_revision \in Nat
                            /\ r.id # 0
         /\ \A r, s \in made : r.id = s.id => r = s
         /\ \A c \in Clients : head[c] \in HeadType \cup {NoHead}
<1>1. made \in SUBSET RecordType /\ \A c \in Clients : head[c] \in HeadType \cup {NoHead}
  BY DEF RelayedInv, IInv, TypeOK
<1>2. NoRecord \notin RecordType
  BY RelayedAssumption
<1>3. \A r \in made : /\ r.context \in Contexts
                      /\ r.context.version \in Nat /\ r.manifest_revision \in Nat
                      /\ r.id # 0
  BY <1>1, RecordFields
<1>4. \A r, s \in made : r.id = s.id => r = s
  BY DEF RelayedInv, IInv, Numbered
<1> QED BY <1>1, <1>2, <1>3, <1>4 DEF Objects

(* put: the record takes the slot when it is signed by the pinned key and  *)
(* newer than what is there.                                               *)
LEMMA FillsWhenNewer ==
  ASSUME RelayedInv, NEW r \in made
  PROVE  Fills(r) => \/ stored[r.context.key] = NoRecord
                     \/ stored[r.context.key] \in held /\ Newer(r, stored[r.context.key])
<1> DEFINE s == stored[r.context.key]
<1>1. s \in held \cup {NoRecord} BY Made DEF RelayedInv, Places
<1>2. CASE s # NoRecord
  <2>1. s \in made /\ s \in RecordType BY <1>1, <1>2, Made DEF RelayedInv, Places
  <2>2. View(s) \in Relay!RecordType
    <3>1. /\ s.context.key \in Objects /\ s.context \in Contexts
          /\ s.manifest_revision \in Nat \ {0} /\ s.signer \in Signers
      BY <2>1, Made DEF RecordType
    <3>2. s.context.version \in Nat \ {0}
      BY <3>1, FreshnessAssumption
    <3> QED BY <3>1, <3>2 DEF View, Relay!RecordType
  <2>3. View(s) # NoRecord BY <2>2, RelayedAssumption
  <2>4. Fills(r) => Relay!Advances(View(r), View(s))
    BY <1>2, <2>3 DEF Fills, SlotView, Relay!MayFill
  <2> QED BY <1>1, <1>2, <2>4 DEF Relay!Advances, View, Newer
<1> QED BY <1>2

(* Newer is a strict order.                                                *)
LEMMA NewerOrders ==
  ASSUME RelayedInv, NEW r \in made, NEW s \in made, NEW q \in made
  PROVE  /\ ~ Newer(r, r)
         /\ Newer(r, s) /\ Newer(s, q) => Newer(r, q)
<1>1. /\ r.context.version \in Nat /\ s.context.version \in Nat /\ q.context.version \in Nat
      /\ r.manifest_revision \in Nat /\ s.manifest_revision \in Nat
      /\ q.manifest_revision \in Nat
  BY Made
<1> QED BY <1>1 DEF Newer

(* What takes a slot is newer than everything that slot ever held.         *)
LEMMA FillsAbove ==
  ASSUME RelayedInv, NEW r \in made, Fills(r), NEW s \in held, s.context.key = r.context.key
  PROVE  Newer(r, s) /\ r # s
<1>1. s \in made /\ held \subseteq made BY DEF RelayedInv, Places
<1>2. /\ stored[r.context.key] # NoRecord
      /\ stored[r.context.key] = s \/ Newer(stored[r.context.key], s)
  BY DEF RelayedInv, SlotsAscend
<1>3. stored[r.context.key] \in held /\ Newer(r, stored[r.context.key])
  BY <1>2, FillsWhenNewer
<1>4. Newer(r, s) BY <1>1, <1>2, <1>3, NewerOrders
<1> QED BY <1>1, <1>4, NewerOrders

-----------------------------------------------------------------------------
(* A device signs one new record, a genesis or a link to what it fetched.  *)
LEMMA AuthorSigns ==
  ASSUME RelayedInv, NEW d \in Devices, Write(d)
  PROVE  \E n : /\ n \notin made /\ made' = made \cup {n}
                /\ n.previous = 0 \/ \E p \in held : Extends(n, p)
                /\ pending' = [pending EXCEPT ![d] = n]
                /\ UNCHANGED <<head, stored, held, basis, requests>>
<1>0. IInv /\ held \subseteq made /\ basis[d] \in held \cup {NoRecord} BY DEF RelayedInv, Places
<1>s. ASSUME NEW n, NEW A, IsNew(n), Publish(n, A)
      PROVE  /\ n \notin made /\ made' = made \cup {n}
             /\ pending' = [pending EXCEPT ![d] = n]
             /\ UNCHANGED <<head, stored, held, basis, requests>>
  <2>1. n \notin made /\ made' = made \cup {n} BY <1>0, <1>s, PublishFrame
  <2>2. (CHOOSE r \in made' : r \notin made) = n BY <2>1
  <2> QED BY <2>1, <2>2, <1>s DEF Write, Publish
<1>1. CASE \E x \in Contexts, rs \in RecipientSets : Seal(d, x, rs)
  <2>1. PICK x \in Contexts, rs \in RecipientSets : Seal(d, x, rs) BY <1>1
  <2>2. IsNew(Sealed(d, x, rs)) /\ Genesis(Sealed(d, x, rs))
    BY <2>1, <1>0, NewSealed DEF Seal, Publish
  <2> QED BY <2>1, <2>2, <1>s DEF Seal, Genesis
<1>2. CASE basis[d] # NoRecord /\ \E c \in Clients : GrantRecipient(d, basis[d], c)
  <2>1. PICK c \in Clients : GrantRecipient(d, basis[d], c) BY <1>2
  <2>2. basis[d] \in held /\ basis[d] \in made BY <1>0, <1>2
  <2>3. NextId \in Ids /\ basis[d].manifest_revision < MaxU64
    BY <2>1 DEF GrantRecipient, Publish
  <2>4. /\ IsNew(Granted(basis[d], c))
        /\ Extends(Granted(basis[d], c), basis[d])
    BY <2>2, <2>3, <1>0, NewGrant
  <2> QED BY <2>1, <2>2, <2>4, <1>s DEF GrantRecipient
<1>3. CASE /\ basis[d] # NoRecord
           /\ \E x \in Contexts, rs \in RecipientSets : Rekey(d, basis[d], x, rs)
  <2>1. PICK x \in Contexts, rs \in RecipientSets : Rekey(d, basis[d], x, rs)
    BY <1>3
  <2>2. basis[d] \in held /\ basis[d] \in made BY <1>0, <1>3
  <2>4. /\ IsNew(Rekeyed(d, basis[d], x, rs))
        /\ Extends(Rekeyed(d, basis[d], x, rs), basis[d])
    BY <2>1, <2>2, <1>0, NewRekey
  <2> QED BY <2>1, <2>2, <2>4, <1>s DEF Rekey
<1> QED BY <1>1, <1>2, <1>3 DEF Write

(* Every step of the system is a step of the chain, or none.               *)
LEMMA ChainStep == RelayedInv /\ [RelayedNext]_relayed => [Next]_vars
<1> SUFFICES ASSUME RelayedInv, [RelayedNext]_relayed PROVE [Next]_vars OBVIOUS
<1>0. /\ held \subseteq made
      /\ \A k \in Objects : stored[k] # NoRecord => stored[k] \in made
      /\ \A d \in Devices : basis[d] # NoRecord => basis[d] \in made
  BY DEF RelayedInv, Places
<1>1. ASSUME NEW d \in Devices, NEW k \in Objects, Fetch(d, k) PROVE UNCHANGED vars
  BY <1>1 DEF Fetch
<1>2. ASSUME NEW d \in Devices, Write(d) PROVE Next
  <2>1. Author(d) BY <1>0, <1>2 DEF Write, Author
  <2> QED BY <2>1 DEF Next
<1>3. ASSUME NEW d \in Devices, Send(d) PROVE UNCHANGED vars BY <1>3 DEF Send
<1>4. ASSUME NEW r \in requests, Handle(r) PROVE UNCHANGED vars BY <1>4 DEF Handle
<1>5. ASSUME NEW c \in Readers, NEW k \in Objects, stored[k] # NoRecord,
             Follow(c, k) \/ Read(c, k)
      PROVE  Next
  <2>1. stored[k] \in made /\ c \in Clients BY <1>0, <1>5, RelayedAssumption
  <2>2. Reader(c) BY <1>5, <2>1 DEF Follow, Read, Reader
  <2> QED BY <2>1, <2>2 DEF Next
<1>6. ASSUME NEW c \in Readers, ForgetHead(c) PROVE Next
  BY <1>6, RelayedAssumption DEF ForgetHead, Reader, Next
<1>7. CASE UNCHANGED relayed BY <1>7 DEF relayed, vars
<1> QED BY <1>1, <1>2, <1>3, <1>4, <1>5, <1>6, <1>7 DEF RelayedNext

-----------------------------------------------------------------------------
(* The chain's own invariant is kept by every step of the system.          *)
LEMMA ChainKeeps == RelayedInv /\ [RelayedNext]_relayed => IInv'
BY ChainStep, StepInv DEF RelayedInv

(* Before any record is signed.                                            *)
LEMMA Initial == RelayedInit => RelayedInv
<1> SUFFICES ASSUME RelayedInit PROVE RelayedInv OBVIOUS
<1>1. IInv BY InitInv DEF RelayedInit
<1>2. made = {} /\ head = [c \in Clients |-> NoHead] BY DEF RelayedInit, Init
<1>3. Places BY <1>2 DEF RelayedInit, Places
<1>4. SlotsAscend BY DEF RelayedInit, SlotsAscend
<1>5. BuiltOnHeld BY <1>2 DEF BuiltOnHeld
<1>6. HeadsHeld BY <1>2 DEF HeadsHeld
<1> QED BY <1>1, <1>3, <1>4, <1>5, <1>6 DEF RelayedInv

(* A fetch, a send and a signature leave the slots alone.                  *)
LEMMA DeviceKeeps ==
  ASSUME RelayedInv, NEW d \in Devices, (\E k \in Objects : Fetch(d, k)) \/ Write(d) \/ Send(d)
  PROVE  Places' /\ SlotsAscend' /\ BuiltOnHeld' /\ HeadsHeld'
<1>0. Places /\ SlotsAscend /\ BuiltOnHeld /\ HeadsHeld BY DEF RelayedInv
<1>1. ASSUME NEW k \in Objects, Fetch(d, k)
      PROVE  Places' /\ SlotsAscend' /\ BuiltOnHeld' /\ HeadsHeld'
  <2>1. Places' BY <1>0, <1>1 DEF Fetch, Places, vars
  <2> QED BY <1>0, <1>1, <2>1 DEF Fetch, vars, SlotsAscend, BuiltOnHeld, HeadsHeld
<1>2. CASE Write(d)
  <2>1. PICK n : /\ n \notin made /\ made' = made \cup {n}
                 /\ n.previous = 0 \/ \E p \in held : Extends(n, p)
                 /\ pending' = [pending EXCEPT ![d] = n]
                 /\ UNCHANGED <<head, stored, held, basis, requests>>
    BY <1>2, AuthorSigns
  <2>2. Places' BY <1>0, <2>1 DEF Places
  <2>3. SlotsAscend' BY <1>0, <2>1 DEF SlotsAscend
  <2>4. BuiltOnHeld' BY <1>0, <2>1 DEF BuiltOnHeld
  <2>5. HeadsHeld' BY <1>0, <2>1 DEF HeadsHeld
  <2> QED BY <2>2, <2>3, <2>4, <2>5
<1>3. CASE Send(d)
  <2>1. Places' BY <1>0, <1>3, Made DEF Send, Places, vars
  <2> QED BY <1>0, <1>3, <2>1 DEF Send, vars, SlotsAscend, BuiltOnHeld, HeadsHeld
<1> QED BY <1>1, <1>2, <1>3

(* A put that takes the slot puts a newer record there.                    *)
LEMMA HandleKeeps ==
  ASSUME RelayedInv, NEW r \in requests, Handle(r)
  PROVE  Places' /\ SlotsAscend' /\ BuiltOnHeld' /\ HeadsHeld'
<1>0. Places /\ SlotsAscend /\ BuiltOnHeld /\ HeadsHeld BY DEF RelayedInv
<1>1. r \in made /\ r # NoRecord /\ r.context.key \in Objects BY <1>0, Made DEF Places
<1>2. UNCHANGED <<made, head, basis, requests>> BY DEF Handle, vars
<1>3. pending' \in [Devices -> made \cup {NoRecord}] BY <1>0 DEF Handle, Places
<1>4. CASE ~ Fills(r)
  <2>1. UNCHANGED <<stored, held>> BY <1>4 DEF Handle, Put
  <2>2. Places' BY <1>0, <1>2, <1>3, <2>1 DEF Places
  <2> QED BY <1>0, <1>2, <2>1, <2>2 DEF SlotsAscend, BuiltOnHeld, HeadsHeld
<1>5. CASE Fills(r)
  <2>1. stored' = [stored EXCEPT ![r.context.key] = r] /\ held' = held \cup {r}
    BY <1>5 DEF Handle, Put
  <2>2. Places' BY <1>0, <1>1, <1>2, <1>3, <2>1 DEF Places
  <2>3. SlotsAscend'
    <3>1. ASSUME NEW s \in held'
          PROVE  /\ stored'[s.context.key] # NoRecord
                 /\ stored'[s.context.key] = s \/ Newer(stored'[s.context.key], s)
      <4>1. CASE s.context.key = r.context.key
        <5>1. stored'[s.context.key] = r BY <4>1, <2>1, <1>0, <1>1 DEF Places
        <5> QED BY <5>1, <4>1, <2>1, <1>1, <1>5, FillsAbove
      <4>2. CASE s.context.key # r.context.key
        <5>1. s \in held /\ s.context.key \in Objects BY <4>2, <2>1, <1>0, Made DEF Places
        <5>2. stored'[s.context.key] = stored[s.context.key] BY <4>2, <5>1, <2>1, <1>0 DEF Places
        <5> QED BY <5>1, <5>2, <1>0 DEF SlotsAscend
      <4> QED BY <4>1, <4>2
    <3>2. ASSUME NEW a \in held', NEW b \in held', a.context.key = b.context.key
          PROVE  a = b \/ Newer(a, b) \/ Newer(b, a)
      <4>1. CASE a \in held /\ b \in held BY <4>1, <1>0, <3>2 DEF SlotsAscend
      <4>2. CASE a = r /\ b \in held BY <4>2, <3>2, <1>1, <1>5, FillsAbove
      <4>3. CASE b = r /\ a \in held BY <4>3, <3>2, <1>1, <1>5, FillsAbove
      <4> QED BY <4>1, <4>2, <4>3, <2>1
    <3> QED BY <3>1, <3>2 DEF SlotsAscend
  <2>4. BuiltOnHeld' BY <1>0, <1>2, <2>1 DEF BuiltOnHeld
  <2>5. HeadsHeld' BY <1>0, <1>2, <2>1 DEF HeadsHeld
  <2> QED BY <2>2, <2>3, <2>4, <2>5
<1> QED BY <1>4, <1>5

(* A reader's checkpoint moves to a record that a slot holds.              *)
LEMMA ReaderKeeps ==
  ASSUME RelayedInv, NEW c \in Readers,
         \/ \E k \in Objects : stored[k] # NoRecord /\ (Follow(c, k) \/ Read(c, k))
         \/ ForgetHead(c)
  PROVE  Places' /\ SlotsAscend' /\ BuiltOnHeld' /\ HeadsHeld'
<1>0. /\ Places /\ SlotsAscend /\ BuiltOnHeld /\ HeadsHeld
      /\ c \in Clients /\ head \in [Clients -> HeadType \cup {NoHead}]
  BY RelayedAssumption DEF RelayedInv, IInv, TypeOK
<1>1. UNCHANGED <<made, stored, held, basis, pending, requests>>
  BY DEF Follow, Read, ForgetHead, Start, Advance, OpenAtHead, LoseHead
<1>2. \/ head' = head
      \/ head' = [head EXCEPT ![c] = NoHead]
      \/ \E r \in held : head' = [head EXCEPT ![c] = FromValidated(r)]
  <2>1. ASSUME NEW k \in Objects, stored[k] # NoRecord, Follow(c, k)
        PROVE  \E r \in held : head' = [head EXCEPT ![c] = FromValidated(r)]
    <3>1. stored[k] \in held BY <1>0, <2>1 DEF Places
    <3>2. head' = [head EXCEPT ![c] = FromValidated(stored[k])]
      BY <2>1 DEF Follow, Start, Advance
    <3> QED BY <3>1, <3>2
  <2>2. ASSUME NEW k \in Objects, Read(c, k) PROVE head' = head
    BY <2>2 DEF Read, OpenAtHead
  <2>3. ASSUME ForgetHead(c) PROVE head' = [head EXCEPT ![c] = NoHead]
    BY <2>3 DEF ForgetHead, LoseHead
  <2> QED BY <2>1, <2>2, <2>3
<1>3. HeadsHeld' BY <1>0, <1>1, <1>2 DEF HeadsHeld
<1>4. Places' BY <1>0, <1>1 DEF Places
<1> QED BY <1>0, <1>1, <1>3, <1>4 DEF SlotsAscend, BuiltOnHeld

(* Every step of the system keeps the invariant.                           *)
LEMMA RelayedStep == RelayedInv /\ [RelayedNext]_relayed => RelayedInv'
<1> SUFFICES ASSUME RelayedInv, [RelayedNext]_relayed PROVE Places' /\ SlotsAscend' /\ BuiltOnHeld' /\ HeadsHeld'
  BY ChainKeeps DEF RelayedInv
<1>1. CASE UNCHANGED relayed
  <2>1. UNCHANGED <<made, head, stored, held, basis, pending, requests>>
    BY <1>1 DEF relayed, vars
  <2>2. Places' BY <2>1 DEF RelayedInv, Places
  <2> QED BY <2>1, <2>2 DEF RelayedInv, SlotsAscend, BuiltOnHeld, HeadsHeld
<1> QED BY <1>1, DeviceKeeps, HandleKeeps, ReaderKeeps DEF RelayedNext

(* The invariant of the chain around the relay's slots.                    *)
THEOREM RelayedInvariance == RelayedSpec => []RelayedInv
BY Initial, RelayedStep, PTL DEF RelayedSpec

-----------------------------------------------------------------------------
(* Every variable keeps its type.                                          *)
THEOREM RelayedTypeCorrect == RelayedSpec => []RelayedTypeOK
<1>1. RelayedInv => RelayedTypeOK
  <2> SUFFICES ASSUME RelayedInv PROVE RelayedTypeOK OBVIOUS
  <2>1. TypeOK BY DEF RelayedInv, IInv
  <2>2. stored \in [Objects -> made \cup {NoRecord}] BY DEF RelayedInv, Places
  <2> QED BY <2>1, <2>2 DEF RelayedTypeOK, RelayedInv, Places
<1> QED BY <1>1, RelayedInvariance, PTL

(* The chain around an honest relay implements the chain under a relay     *)
(* that may answer with anything signed, so its guarantees carry over.     *)
THEOREM Refinement == RelayedSpec => ImplementsChain
<1>1. RelayedInit => Init BY DEF RelayedInit
<1>2. RelayedInv /\ [RelayedNext]_relayed => [Next]_vars BY ChainStep
<1> QED BY <1>1, <1>2, RelayedInvariance, PTL DEF RelayedSpec, ImplementsChain, Spec

(* Slots change only in put, when a record fills one.                      *)
LEMMA SlotChanges ==
  ASSUME RelayedInv, [RelayedNext]_relayed, NEW k \in Objects, stored'[k] # stored[k]
  PROVE  \E r \in requests : /\ Handle(r) /\ Fills(r) /\ r \in made
                             /\ k = r.context.key /\ stored'[k] = r
                             /\ made' = made /\ head' = head
<1>1. PICK r \in requests : Handle(r)
  <2>1. ASSUME NEW d \in Devices, (\E j \in Objects : Fetch(d, j)) \/ Write(d) \/ Send(d)
        PROVE  stored' = stored
    BY <2>1 DEF Fetch, Write, Send
  <2>2. ASSUME NEW c \in Readers,
               (\E j \in Objects : Follow(c, j) \/ Read(c, j)) \/ ForgetHead(c)
        PROVE  stored' = stored
    BY <2>2 DEF Follow, Read, ForgetHead
  <2>3. ASSUME UNCHANGED relayed PROVE stored' = stored BY <2>3 DEF relayed
  <2> QED BY <2>1, <2>2, <2>3 DEF RelayedNext
<1>2. Fills(r) /\ stored' = [stored EXCEPT ![r.context.key] = r]
  BY <1>1 DEF Handle, Put
<1>3. k = r.context.key /\ stored'[k] = r BY <1>2 DEF RelayedInv, Places
<1>4. r \in made BY DEF RelayedInv, Places
<1>5. made' = made /\ head' = head BY <1>1 DEF Handle, vars
<1> QED BY <1>1, <1>2, <1>3, <1>4, <1>5

(* A record takes its slot once: a write may be repeated without harm.     *)
THEOREM RetriesHarmless == RelayedSpec => RetriesAreHarmless
<1>1. ASSUME RelayedInv, [RelayedNext]_relayed, NEW k \in Objects, stored'[k] # stored[k]
      PROVE  stored'[k] \notin held
  <2>1. PICK r \in made : Fills(r) /\ stored'[k] = r BY <1>1, SlotChanges
  <2> QED BY <2>1, <1>1, FillsAbove
<1>2. RelayedInv /\ [RelayedNext]_relayed =>
        [\A k \in Objects : stored'[k] # stored[k] => stored'[k] \notin held]_relayed
  BY <1>1
<1> QED BY <1>2, RelayedInvariance, PTL DEF RelayedSpec, RetriesAreHarmless

(* Two records that extend one another at the same version are neighbours: *)
(* what a slot held at or after the first and before the second is the     *)
(* first.                                                                  *)
LEMMA NothingBetween ==
  ASSUME RelayedInv, NEW r \in made, NEW p \in held, NEW s \in held,
         r.manifest_revision = p.manifest_revision + 1,
         r.context.version = p.context.version,
         s.context.key = p.context.key, s = p \/ Newer(s, p), Newer(r, s)
  PROVE  s = p
<1>1. p \in made /\ s \in made BY DEF RelayedInv, Places
<1>2. /\ r.context.version \in Nat /\ s.context.version \in Nat /\ p.context.version \in Nat
      /\ r.manifest_revision \in Nat /\ s.manifest_revision \in Nat
      /\ p.manifest_revision \in Nat
  BY <1>1, Made
<1>3. \/ s.context.version = p.context.version /\ s.manifest_revision = p.manifest_revision
      \/ s = p
  BY <1>2 DEF Newer
<1>4. ~ Newer(s, p) \/ s = p BY <1>2, <1>3 DEF Newer
<1> QED BY <1>4

(* The record that fills a slot as a link to p, under p's context, finds p *)
(* there.                                                                  *)
LEMMA LinkFindsItsBase ==
  ASSUME RelayedInv, NEW r \in made, Fills(r), NEW p \in made,
         r.previous = p.id, r.context.version = p.context.version
  PROVE  p = stored[r.context.key]
<1>1. PICK b \in held : Extends(r, b)
  BY Made DEF RelayedInv, BuiltOnHeld
<1>2. b = p BY <1>1, Made DEF Extends, RelayedInv, Places
<1>3. /\ p \in held /\ r.context.key = p.context.key
      /\ r.manifest_revision = p.manifest_revision + 1
  BY <1>1, <1>2 DEF Extends
<1> DEFINE s == stored[r.context.key]
<1>4. s # NoRecord /\ (s = p \/ Newer(s, p)) BY <1>3 DEF RelayedInv, SlotsAscend
<1>5. s \in held /\ Newer(r, s) BY <1>4, FillsWhenNewer
<1>6. s.context.key = p.context.key BY <1>3, <1>4, Made DEF RelayedInv, Places
<1> HIDE DEF s
<1>7. s = p BY <1>3, <1>4, <1>5, <1>6, NothingBetween
<1> QED BY <1>7 DEF s

(* A grant that takes the slot extends exactly the record that was there.  *)
THEOREM GrantsExtend == RelayedSpec => GrantsExtendTheSlot
<1>1. ASSUME RelayedInv, [RelayedNext]_relayed, NEW k \in Objects, NEW p \in made,
             stored'[k] # stored[k], GrantOf(stored'[k], p)
      PROVE  p = stored[k]
  <2>1. PICK r \in made : Fills(r) /\ k = r.context.key /\ stored'[k] = r BY <1>1, SlotChanges
  <2> QED BY <2>1, <1>1, LinkFindsItsBase DEF GrantOf
<1>2. RelayedInv /\ [RelayedNext]_relayed =>
        [\A k \in Objects, p \in made :
           stored'[k] # stored[k] /\ GrantOf(stored'[k], p) => p = stored[k]]_relayed
  BY <1>1
<1> QED BY <1>2, RelayedInvariance, PTL DEF RelayedSpec, GrantsExtendTheSlot

(* A checkpoint leaves the slot it is stranded at only with the slot:      *)
(* following the slot's record is what it cannot do.                       *)
LEMMA StrandedStays ==
  ASSUME RelayedInv, [RelayedNext]_relayed, NEW c \in Clients, NEW k \in Objects,
         Stranded(c, k), stored'[k] = stored[k], head'[c] # NoHead
  PROVE  head'[c] = head[c]
<1>1. ASSUME NEW d \in Devices, (\E j \in Objects : Fetch(d, j)) \/ Write(d) \/ Send(d)
      PROVE  head' = head
  BY <1>1, AuthorSigns DEF Fetch, Send, vars
<1>2. ASSUME NEW r \in requests, Handle(r) PROVE head' = head BY <1>2 DEF Handle, vars
<1>3. ASSUME NEW b \in Readers, NEW j \in Objects, stored[j] # NoRecord, Follow(b, j)
      PROVE  head'[c] = head[c]
  <2>1. CASE b # c
    <3>1. head' = [head EXCEPT ![b] = FromValidated(stored[j])]
      BY <1>3 DEF Follow, Start, Advance
    <3>2. head \in [Clients -> HeadType \cup {NoHead}] BY DEF RelayedInv, IInv, TypeOK
    <3> QED BY <2>1, <3>1, <3>2
  <2>2. CASE b = c
    <3>1. AdvancesHead(head[c], stored[j])
      BY <1>3, <2>2 DEF Follow, Start, Advance, Stranded
    <3>2. k = j BY <3>1, <1>3 DEF AdvancesHead, Stranded, RelayedInv, Places
    <3> QED BY <3>1, <3>2 DEF Stranded
  <2> QED BY <2>1, <2>2
<1>4. ASSUME NEW b \in Readers, NEW j \in Objects, Read(b, j) PROVE head' = head
  BY <1>4 DEF Read, OpenAtHead
<1>5. ASSUME NEW b \in Readers, ForgetHead(b) PROVE head'[c] = head[c]
  <2>1. head' = [head EXCEPT ![b] = NoHead] BY <1>5 DEF ForgetHead, LoseHead
  <2>2. head \in [Clients -> HeadType \cup {NoHead}] BY DEF RelayedInv, IInv, TypeOK
  <2> QED BY <2>1, <2>2
<1>6. ASSUME UNCHANGED relayed PROVE head' = head BY <1>6 DEF relayed, vars
<1> QED BY <1>1, <1>2, <1>3, <1>4, <1>5, <1>6 DEF RelayedNext

(* A stranded reader keeps its checkpoint until a device that fetched the  *)
(* reader's own record rekeys it.                                          *)
THEOREM OnlyRekeyUnstrands == RelayedSpec => StrandedUntilRekeyed
<1>1. ASSUME RelayedInv, [RelayedNext]_relayed, NEW c \in Clients, NEW k \in Objects,
             Stranded(c, k), ~ Stranded(c, k)', head'[c] # NoHead
      PROVE  /\ stored'[k].previous = head[c].manifest_hash
             /\ stored'[k].context.version > head[c].context.version
  <2>1. stored'[k] # stored[k]
    <3>1. SUFFICES ASSUME stored'[k] = stored[k] PROVE FALSE OBVIOUS
    <3>2. head'[c] = head[c] BY <1>1, <3>1, StrandedStays
    <3> QED BY <1>1, <3>1, <3>2 DEF Stranded, ExactHead, AdvancesHead
  <2>2. PICK r \in made : Fills(r) /\ k = r.context.key /\ stored'[k] = r /\ head' = head
    BY <1>1, <2>1, SlotChanges
  <2>3. r # NoRecord BY <1>1, Made
  <2>4. ExactHead(head[c], r) \/ AdvancesHead(head[c], r)
    BY <1>1, <2>2, <2>3 DEF Stranded, ExactHead, AdvancesHead
  <2>5. PICK x \in held : head[c] = FromValidated(x)
    BY <1>1 DEF RelayedInv, HeadsHeld, Stranded
  <2>6. /\ x \in made /\ head[c].context = x.context /\ head[c].manifest_hash = x.id
        /\ head[c].manifest_revision = x.manifest_revision /\ head[c].signer = x.signer
    BY <1>1, <2>5 DEF FromValidated, RelayedInv, Places
  <2>7. r # x
    <3>1. x.context.key = k BY <1>1, <2>6 DEF Stranded
    <3> QED BY <1>1, <2>2, <3>1, FillsAbove
  <2>8. AdvancesHead(head[c], r)
    BY <1>1, <2>4, <2>6, <2>7, Made DEF ExactHead
  <2>9. /\ r.previous = x.id
        /\ r.context.version >= x.context.version
    BY <2>6, <2>8 DEF AdvancesHead
  <2>10. r.context.version # x.context.version
    <3>1. SUFFICES ASSUME r.context.version = x.context.version PROVE FALSE OBVIOUS
    <3>2. x = stored[k] BY <1>1, <2>2, <2>6, <2>9, <3>1, LinkFindsItsBase
    <3>3. ExactHead(head[c], stored[k]) BY <2>6, <3>2 DEF ExactHead
    <3> QED BY <1>1, <3>3 DEF Stranded
  <2>11. r.context.version \in Nat /\ x.context.version \in Nat BY <1>1, <2>6, Made
  <2> QED BY <2>2, <2>6, <2>9, <2>10, <2>11
<1>2. RelayedInv /\ [RelayedNext]_relayed =>
        [\A c \in Clients, k \in Objects :
           Stranded(c, k) /\ ~ Stranded(c, k)' =>
             \/ head'[c] = NoHead
             \/ /\ stored'[k].previous = head[c].manifest_hash
                /\ stored'[k].context.version > head[c].context.version]_relayed
  BY <1>1
<1> QED BY <1>2, RelayedInvariance, PTL DEF RelayedSpec, StrandedUntilRekeyed
=============================================================================

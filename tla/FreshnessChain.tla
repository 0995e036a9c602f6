--------------------------- MODULE FreshnessChain ---------------------------
(***************************************************************************)
(* blindplane-core's seal, grant_recipient and rekey, run by the devices   *)
(* that hold author keys, and blindplane-wire's FreshnessHead, kept by the *)
(* clients that read.  The relay between them is untrusted: it may answer  *)
(* any call with any record that was ever signed, old ones included, so a  *)
(* fetched record is any member of `made', and two devices may both extend *)
(* the same record.                                                        *)
(*                                                                         *)
(* A record is named by a number that stands for its manifest hash (fresh  *)
(* HPKE keys and nonces make every record's hash its own); 0 is the        *)
(* all-zero hash.  `secret' is the number of the record whose sealing drew *)
(* the object secret and the nonce.                                        *)
(***************************************************************************)
EXTENDS Integers, FiniteSets

CONSTANTS
  Clients,        (* holders of a recipient key pair                       *)
  Devices,        (* the clients that also hold an author key              *)
  SignerOf,       (* the author key of each device                         *)
  Signers,        (* author keys                                           *)
  Pinned,         (* the signer the readers pin                            *)
  Contexts,       (* the RecordContexts in play: key, version, epoch       *)
  RecipientSets,  (* the recipients that seal and rekey are called with    *)
  MaxRecipients,  (* ValidationPolicy::max_recipients                      *)
  MaxU64,         (* bound: the largest u64                                *)
  MaxRecords,     (* bound: how many records are ever signed               *)
  MaxSeals,       (* bound: how many of them are genesis records           *)
  NoHead          (* a client that keeps no checkpoint                     *)

Ids == 1..MaxRecords

RecordType ==
  [id: Ids, context: Contexts, manifest_revision: 1..MaxU64, previous: 0..MaxRecords,
   secret: Ids, recipients: SUBSET Clients, signer: Signers]

HeadType ==
  [context: Contexts, manifest_revision: 1..MaxU64, manifest_hash: Ids, signer: Signers]

ASSUME FreshnessAssumption ==
  /\ IsFiniteSet(Clients)
  /\ Devices \subseteq Clients
  /\ SignerOf \in [Devices -> Signers]
  /\ Pinned \in Signers
  /\ \A x \in Contexts : x.version \in Nat \ {0} /\ x.epoch \in Nat \ {0}
  /\ MaxRecipients \in Nat
  /\ MaxU64 \in Nat \ {0}
  /\ MaxRecords \in Nat
  /\ RecipientSets \subseteq SUBSET Clients
  /\ NoHead \notin HeadType

VARIABLES
  made,    (* every record signed so far                                   *)
  past,    (* auxiliary: the records each record descends from             *)
  head,    (* each client's FreshnessHead                                  *)
  trail,   (* auxiliary: the records the head has stood at                 *)
  opened   (* auxiliary: the last record opened at the head, or 0          *)

vars == <<made, past, head, trail, opened>>

TypeOK ==
  /\ made \in SUBSET RecordType
  /\ past \in [Ids -> SUBSET Ids]
  /\ head \in [Clients -> HeadType \cup {NoHead}]
  /\ trail \in [Clients -> SUBSET Ids]
  /\ opened \in [Clients -> 0..MaxRecords]

Init ==
  /\ made = {}
  /\ past = [i \in Ids |-> {}]
  /\ head = [c \in Clients |-> NoHead]
  /\ trail = [c \in Clients |-> {}]
  /\ opened = [c \in Clients |-> 0]

NextId == Cardinality(made) + 1

-----------------------------------------------------------------------------
(* validate: the shape of the chain fields and the signer pin.             *)
ValidChain(r)       == r.manifest_revision = 1 <=> r.previous = 0
Validates(r, pin)   == ValidChain(r) /\ r.signer = pin
ValidRecipients(rs) == rs # {} /\ Cardinality(rs) <= MaxRecipients

(* open_validated: an envelope for this key pair, whose secret opens the   *)
(* payload.                                                                *)
HasEnvelope(c, r) == c \in r.recipients

(* The record reaches the relay; nothing else changes.                     *)
Publish(r, ancestors) ==
  /\ NextId \in Ids
  /\ made' = made \cup {r}
  /\ past' = [past EXCEPT ![NextId] = ancestors]
  /\ UNCHANGED <<head, trail, opened>>

PastOf(r) == past[r.id] \cup {r.id}

(* seal: a genesis record under a fresh object secret.                     *)
Sealed(d, x, rs) ==
  [id |-> NextId, context |-> x, manifest_revision |-> 1, previous |-> 0,
   secret |-> NextId, recipients |-> rs, signer |-> SignerOf[d]]

Seal(d, x, rs) ==
  /\ ValidRecipients(rs)
  /\ Cardinality({r \in made : r.previous = 0}) < MaxSeals
  /\ Publish(Sealed(d, x, rs), {})

(* What grant_recipient and rekey sign: the next link of r's chain.  A     *)
(* grant keeps context and secret; rekey seals afresh.                     *)
Granted(r, c) ==
  [id |-> NextId, context |-> r.context,
   manifest_revision |-> r.manifest_revision + 1, previous |-> r.id,
   secret |-> r.secret, recipients |-> r.recipients \cup {c}, signer |-> r.signer]

Rekeyed(d, r, x, rs) ==
  [id |-> NextId, context |-> x,
   manifest_revision |-> r.manifest_revision + 1, previous |-> r.id,
   secret |-> NextId, recipients |-> rs, signer |-> SignerOf[d]]

(* Mutant: the revision saturates instead of being refused.               *)
GrantSaturating(d, r, c) ==
  /\ Validates(r, SignerOf[d])
  /\ c \notin r.recipients
  /\ HasEnvelope(d, r)
  /\ ValidRecipients(r.recipients \cup {c})
  /\ Publish([Granted(r, c) EXCEPT !.manifest_revision = IF @ > MaxU64 THEN MaxU64 ELSE @],
             PastOf(r))

(* grant_recipient: one more envelope for the same secret, one link on.    *)
GrantRecipient(d, r, c) ==
  /\ Validates(r, SignerOf[d])
  /\ c \notin r.recipients
  /\ HasEnvelope(d, r)
  /\ r.manifest_revision < MaxU64
  /\ ValidRecipients(r.recipients \cup {c})
  /\ Publish(Granted(r, c), PastOf(r))

(* Mutants: the old secret is wrapped again; epoch and version unchecked.  *)
RekeyKeepingSecret(d, r, x, rs) ==
  /\ x.key = r.context.key
  /\ x.epoch > r.context.epoch
  /\ x.version > r.context.version
  /\ Validates(r, SignerOf[d])
  /\ HasEnvelope(d, r)
  /\ r.manifest_revision < MaxU64
  /\ ValidRecipients(rs)
  /\ Publish([Rekeyed(d, r, x, rs) EXCEPT !.secret = r.secret], PastOf(r))

RekeyAnyContext(d, r, x, rs) ==
  /\ x.key = r.context.key
  /\ Validates(r, SignerOf[d])
  /\ HasEnvelope(d, r)
  /\ r.manifest_revision < MaxU64
  /\ ValidRecipients(rs)
  /\ Publish(Rekeyed(d, r, x, rs), PastOf(r))

(* rekey: the payload is opened and sealed again for the remaining         *)
(* recipients, under a fresh secret and a later context, one link on.      *)
Rekey(d, r, x, rs) ==
  /\ x.key = r.context.key
  /\ x.epoch > r.context.epoch
  /\ x.version > r.context.version
  /\ Validates(r, SignerOf[d])
  /\ HasEnvelope(d, r)
  /\ r.manifest_revision < MaxU64
  /\ ValidRecipients(rs)
  /\ Publish(Rekeyed(d, r, x, rs), PastOf(r))

-----------------------------------------------------------------------------
(* FreshnessHead.  The context holds tenant, object, field (the key), the  *)
(* content version and the epoch.                                          *)
FromValidated(r) ==
  [context |-> r.context, manifest_revision |-> r.manifest_revision,
   manifest_hash |-> r.id, signer |-> r.signer]

SaturatingAdd(n, k) == IF n + k > MaxU64 THEN MaxU64 ELSE n + k

(* Mutant: the link to the head's own hash is not checked.                 *)
AdvancesUnlinked(h, r) ==
  /\ h.context.key = r.context.key
  /\ h.signer = r.signer
  /\ r.manifest_revision = SaturatingAdd(h.manifest_revision, 1)
  /\ r.context.version >= h.context.version
  /\ r.context.epoch >= h.context.epoch

AdvancesHead(h, r) ==
  /\ h.context.key = r.context.key
  /\ h.signer = r.signer
  /\ r.manifest_revision = SaturatingAdd(h.manifest_revision, 1)
  /\ r.previous = h.manifest_hash
  /\ r.context.version >= h.context.version
  /\ r.context.epoch >= h.context.epoch

(* Mutant: require_exact_head without the manifest hash.                   *)
SameNumbers(h, r) ==
  /\ h.context.key = r.context.key
  /\ h.manifest_revision = r.manifest_revision
  /\ h.context.version = r.context.version
  /\ h.context.epoch = r.context.epoch
  /\ h.signer = r.signer

ExactHead(h, r) ==
  /\ h.context.key = r.context.key
  /\ h.manifest_revision = r.manifest_revision
  /\ h.context.version = r.context.version
  /\ h.context.epoch = r.context.epoch
  /\ h.manifest_hash = r.id
  /\ h.signer = r.signer

(* FreshnessHead::start, on a client without a checkpoint.                 *)
Start(c, r) ==
  /\ head[c] = NoHead
  /\ Validates(r, Pinned)
  /\ head' = [head EXCEPT ![c] = FromValidated(r)]
  /\ trail' = [trail EXCEPT ![c] = {r.id}]
  /\ UNCHANGED <<made, past, opened>>

Advance(c, r) ==
  /\ head[c] # NoHead
  /\ Validates(r, Pinned)
  /\ AdvancesHead(head[c], r)
  /\ head' = [head EXCEPT ![c] = FromValidated(r)]
  /\ trail' = [trail EXCEPT ![c] = @ \cup {r.id}]
  /\ UNCHANGED <<made, past, opened>>

OpenAtHead(c, r) ==
  /\ head[c] # NoHead
  /\ Validates(r, Pinned)
  /\ ExactHead(head[c], r)
  /\ HasEnvelope(c, r)
  /\ opened' = [opened EXCEPT ![c] = r.id]
  /\ UNCHANGED <<made, past, head, trail>>

(* The client moves to a new device and its checkpoint is gone.            *)
LoseHead(c) ==
  /\ head[c] # NoHead
  /\ head' = [head EXCEPT ![c] = NoHead]
  /\ trail' = [trail EXCEPT ![c] = {}]
  /\ opened' = [opened EXCEPT ![c] = 0]
  /\ UNCHANGED <<made, past>>

Author(d) ==
  \/ \E x \in Contexts, rs \in RecipientSets : Seal(d, x, rs)
  \/ \E r \in made, c \in Clients : GrantRecipient(d, r, c)
  \/ \E r \in made, x \in Contexts, rs \in RecipientSets : Rekey(d, r, x, rs)

Reader(c) ==
  \/ \E r \in made : Start(c, r)
  \/ \E r \in made : Advance(c, r)
  \/ \E r \in made : OpenAtHead(c, r)
  \/ LoseHead(c)

Next == (\E d \in Devices : Author(d)) \/ (\E c \in Clients : Reader(c))

Spec == Init /\ [][Next]_vars

-----------------------------------------------------------------------------
(* One of two records descends from the other.                             *)
Comparable(i, j) == i = j \/ i \in past[j] \/ j \in past[i]

(* The manifest revision is the true length of the signed chain: the       *)
(* overflow check of grant_recipient and rekey keeps it exact even at the  *)
(* largest u64, which FreshnessHead::advance relies on (saturating_add).   *)
RevisionCountsLinks ==
  \A r \in made : r.manifest_revision = Cardinality(past[r.id]) + 1

(* Whatever grant_recipient and rekey sign, in any order and from stale    *)
(* records too, a client standing at the predecessor can advance to it:    *)
(* the author's context checks and the head's agree.                       *)
SuccessorsFollow ==
  \A r \in made, s \in made : s.previous = r.id =>
    AdvancesHead(FromValidated(r), s)

(* Fork consistency of the checkpoints: once the relay has led two clients *)
(* down different branches, it can never show both the same record again   *)
(* without one of them reporting RollbackDetected.                         *)
ForksNeverJoin ==
  \A c, d \in Clients :
    head[c] # NoHead /\ head[c] = head[d] =>
      \A i \in trail[c], j \in trail[d] : Comparable(i, j)

(* A client that keeps its checkpoint never opens a record that does not   *)
(* descend from the last one it opened, whatever the relay replays.        *)
OpensForward ==
  [][\A c \in Clients :
       opened[c] # 0 /\ opened'[c] # 0 /\ opened'[c] # opened[c] =>
         opened[c] \in past'[opened'[c]]]_vars

(* Revocation: a client left out of a rekey finds no envelope that holds   *)
(* the new object secret, in any record, unless a later grant on that      *)
(* branch named it.                                                        *)
RevokedStayOut ==
  \A r \in made, s \in made :
    r.previous = s.id /\ r.context.epoch > s.context.epoch =>
      \A c \in s.recipients \ r.recipients :
        (\A g \in made : c \in g.recipients => r.id \notin past[g.id]) =>
          \A g \in made : c \in g.recipients => g.secret # r.secret

(* "Neither touches the payload ciphertext": what README.md says of        *)
(* grant_recipient and rekey.  The ciphertext is determined by the object  *)
(* secret and nonce drawn for it and by the context it is bound to.        *)
PayloadUntouched ==
  \A r \in made, s \in made : s.previous = r.id =>
    s.secret = r.secret /\ s.context = r.context

-----------------------------------------------------------------------------
(* The inductive invariant behind the safety properties above.             *)

(* Numbers name records as manifest hashes do.                             *)
Numbered ==
  /\ IsFiniteSet(made)
  /\ \A r \in made : r.id <= Cardinality(made)
  /\ \A r, s \in made : r.id = s.id => r = s

(* What one link of the chain preserves, and what it may change.           *)
Extends(r, s) ==
  /\ r.previous = s.id
  /\ r.manifest_revision = s.manifest_revision + 1
  /\ r.context.key = s.context.key
  /\ r.context.version >= s.context.version
  /\ r.context.epoch >= s.context.epoch
  /\ r.context.epoch > s.context.epoch => r.secret = r.id
  /\ r.signer = s.signer

Genesis(r) == r.previous = 0 /\ r.manifest_revision = 1 /\ r.secret = r.id

Linked ==
  \A r \in made :
    \/ Genesis(r) /\ past[r.id] = {}
    \/ \E s \in made : Extends(r, s) /\ past[r.id] = PastOf(s)

(* The ancestors of a record form one line, and the record that drew its   *)
(* secret is on it.                                                        *)
Descent ==
  \A r \in made :
    /\ \A i \in past[r.id] :
         /\ i < r.id
         /\ past[i] \subseteq past[r.id]
         /\ \A j \in past[r.id] : Comparable(i, j)
    /\ r.secret \in PastOf(r)

(* A checkpoint is a signed record's, and stands at the end of its trail.  *)
StandsAt(c, r) ==
  /\ head[c] = FromValidated(r)
  /\ r.id \in trail[c]
  /\ trail[c] \subseteq PastOf(r)
  /\ opened[c] \in trail[c] \cup {0}

HeadsStand ==
  \A c \in Clients :
    \/ head[c] = NoHead /\ trail[c] = {} /\ opened[c] = 0
    \/ \E r \in made : StandsAt(c, r)

IInv ==
  /\ TypeOK
  /\ Numbered
  /\ Linked
  /\ Descent
  /\ RevisionCountsLinks
  /\ HeadsStand
=============================================================================

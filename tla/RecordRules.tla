---------------------------- MODULE RecordRules ----------------------------
(***************************************************************************)
(* What blindplane-wire demands of a record (validate_limits and the       *)
(* signature and signer checks around it) and what blindplane-core builds  *)
(* (preflight and the sorting in seal, the sorted insertion in             *)
(* grant_recipient).  Identifiers and byte strings are sequences over a    *)
(* small alphabet, so that they have lengths and an order; the fixed       *)
(* lengths of the source (tag, keys, wrapped secrets, signatures) and its  *)
(* default limits are scaled down by the constants.                        *)
(***************************************************************************)
EXTENDS Integers, Sequences, FiniteSets, SequencesExt

CONSTANTS
  FormatVersion, NonceLen, TagLen, KeyLen, WrappedLen, SignatureLen,
  Suites,         (* suite codes                                           *)
  NotUtf8,        (* atoms that occur in no UTF-8 string                   *)
  DefaultPolicy,  (* ValidationPolicy::default                             *)
  NoHash          (* the all-zero manifest hash                            *)

(* The types of the source: a number, a hash and a key are one atom each.  *)
Texts == Seq(Nat \ NotUtf8)
Bytes == Seq(Nat)

Contexts ==
  [tenant : Texts, object_id : Texts, field : Texts,
   epoch : Nat, version : Nat, schema_version : Nat]

Envelopes ==
  [recipient_id : Texts, key_epoch : Nat, recipient_key_id : Nat,
   encapsulated_key : Bytes, wrapped_dek : Bytes]

Indexes ==
  [label : Texts, schema_version : Nat, canonicalizer_id : Texts,
   canonicalizer_version : Nat, key_epoch : Nat, token : Nat]

Records ==
  [format_version : Nat, suite : Suites, context : Contexts, manifest_revision : Nat,
   previous_manifest_hash : Nat, key_commitment : Nat, nonce : Bytes, ciphertext : Bytes,
   recipients : Seq(Envelopes), indexes : Seq(Indexes), signer : Nat, signature : Bytes]

Recipients == [recipient_id : Texts, key_epoch : Nat, recipient_key_id : Nat]

ValidationPolicies ==
  [max_ciphertext_bytes : Nat, max_recipients : Nat, max_indexes : Nat,
   max_identifier_bytes : Nat, allowed_signers : SUBSET Nat]

ASSUME RulesAssumption ==
  /\ Suites \subseteq Nat /\ NonceLen \in [Suites -> Nat]
  /\ FormatVersion \in Nat /\ NoHash = 0
  /\ TagLen \in Nat /\ KeyLen \in Nat /\ WrappedLen \in Nat /\ SignatureLen \in Nat
  /\ DefaultPolicy \in ValidationPolicies

(* A check fails with an error when its condition is bad; validation       *)
(* reports the first one that fails.                                       *)
Check(bad, error) == [bad |-> bad, error |-> error]

FirstError(checks) ==
  LET failing == { i \in DOMAIN checks : checks[i].bad }
  IN  IF failing = {} THEN "ok" ELSE checks[Min(failing)].error

(* The order of str: bytewise, a prefix before what it is a prefix of.     *)
Before(s, t) ==
  \E n \in 0..Len(t) :
    /\ n <= Len(s) /\ SubSeq(s, 1, n) = SubSeq(t, 1, n)
    /\ n < Len(t)
    /\ n = Len(s) \/ s[n + 1] < t[n + 1]

(* Envelopes are ordered by (recipient_id, key_epoch), indexes by (label,  *)
(* key_epoch).                                                             *)
KeyBefore(k, l) == Before(k[1], l[1]) \/ (k[1] = l[1] /\ k[2] < l[2])

EnvelopeKey(e) == <<e.recipient_id, e.key_epoch>>
IndexLabel(x)  == <<x.label, x.key_epoch>>

LabelCheck(s, p) == Check(s = <<>> \/ Len(s) > p.max_identifier_bytes, "IdentifierLength")

-----------------------------------------------------------------------------
(* validate_limits, check by check and envelope by envelope.               *)
ContextChecks(c, p) ==
  << LabelCheck(c.tenant, p), LabelCheck(c.object_id, p), LabelCheck(c.field, p),
     Check(0 \in {c.epoch, c.version, c.schema_version}, "InvalidVersion") >>

EnvelopeChecks(es, i, p) ==
  << LabelCheck(es[i].recipient_id, p),
     Check(es[i].key_epoch = 0, "InvalidKeyEpoch"),
     Check(i > 1 /\ ~ KeyBefore(EnvelopeKey(es[i - 1]), EnvelopeKey(es[i])), "NonCanonicalRecipients"),
     Check(Len(es[i].encapsulated_key) # KeyLen, "InvalidEncapsulatedKeyLength"),
     Check(Len(es[i].wrapped_dek) # WrappedLen, "InvalidWrappedDekLength") >>

(* Mutant: two indexes may share a label and epoch.                        *)
IndexChecksNonStrict(xs, i, p) ==
  << LabelCheck(xs[i].label, p), LabelCheck(xs[i].canonicalizer_id, p),
     Check(0 \in {xs[i].key_epoch, xs[i].schema_version, xs[i].canonicalizer_version},
           "InvalidIndexDefinition"),
     Check(i > 1 /\ KeyBefore(IndexLabel(xs[i]), IndexLabel(xs[i - 1])), "NonCanonicalIndexes") >>

IndexChecks(xs, i, p) ==
  << LabelCheck(xs[i].label, p), LabelCheck(xs[i].canonicalizer_id, p),
     Check(0 \in {xs[i].key_epoch, xs[i].schema_version, xs[i].canonicalizer_version},
           "InvalidIndexDefinition"),
     Check(i > 1 /\ ~ KeyBefore(IndexLabel(xs[i - 1]), IndexLabel(xs[i])), "NonCanonicalIndexes") >>

ChainBroken(r) ==
  \/ r.manifest_revision = 0
  \/ r.manifest_revision = 1 /\ r.previous_manifest_hash # NoHash
  \/ r.manifest_revision > 1 /\ r.previous_manifest_hash = NoHash

Limits(r, p) ==
  FirstError(
    << Check(r.format_version # FormatVersion, "UnsupportedFormat") >>
    \o ContextChecks(r.context, p)
    \o << Check(ChainBroken(r), "InvalidManifestChain"),
          Check(Len(r.nonce) # NonceLen[r.suite], "InvalidNonceLength"),
          Check(Len(r.ciphertext) \notin TagLen..p.max_ciphertext_bytes, "CiphertextSize"),
          Check(Len(r.recipients) \notin 1..p.max_recipients, "RecipientCount") >>
    \o FlattenSeq([i \in DOMAIN r.recipients |-> EnvelopeChecks(r.recipients, i, p)])
    \o << Check(Len(r.indexes) > p.max_indexes, "IndexCount") >>
    \o FlattenSeq([i \in DOMAIN r.indexes |-> IndexChecks(r.indexes, i, p)])
    \o << Check(Len(r.signature) # SignatureLen, "InvalidSignatureLength") >>)

(* validate_structure, validate and validate_pinned; `genuine' says        *)
(* whether the signature is the declared signer's over the signed bytes.   *)
FirstOf(verdicts) == FirstError([i \in DOMAIN verdicts |-> Check(verdicts[i] # "ok", verdicts[i])])

Structure(r, p, genuine) ==
  FirstOf(<< Limits(r, p), IF genuine THEN "ok" ELSE "InvalidSignature" >>)

Validate(r, p, genuine) ==
  FirstOf(<< Structure(r, p, genuine),
             IF p.allowed_signers = {} THEN "NoTrustedSigners" ELSE "ok",
             IF r.signer \in p.allowed_signers THEN "ok" ELSE "UntrustedSigner" >>)

(* Mutant: a record of another signer is turned away unverified.           *)
ValidatePinnedEagerly(r, pin, p, genuine) ==
  FirstOf(<< Limits(r, p),
             IF r.signer # pin THEN "UntrustedSigner"
             ELSE IF genuine THEN "ok" ELSE "InvalidSignature" >>)

(* The pin's prepared verifier, or else the signature under the key the    *)
(* record declares, before it is turned away.                              *)
ValidatePinned(r, pin, p, genuine) ==
  LET verified == IF genuine THEN "ok" ELSE "InvalidSignature"
  IN  FirstOf(<< Limits(r, p),
                 IF r.signer = pin THEN verified
                 ELSE FirstOf(<< verified, "UntrustedSigner" >>) >>)

PolicyFor(signer) == [DefaultPolicy EXCEPT !.allowed_signers = {signer}]

-----------------------------------------------------------------------------
(* preflight, on the inputs of seal.  A recipient was built from a key     *)
(* whose fingerprint matched, so only its fields are checked again.        *)
Preflight(c, plaintext, recipients, indexes) ==
  LET p == DefaultPolicy
  IN  FirstError(
        << Check(FirstError(ContextChecks(c, p)) # "ok", "InvalidRecordInput"),
           Check(Len(plaintext) + TagLen > p.max_ciphertext_bytes, "PayloadTooLarge"),
           Check(recipients = <<>>, "NoRecipients"),
           Check(Len(recipients) > p.max_recipients \/ Len(indexes) > p.max_indexes,
                 "InvalidRecordInput"),
           Check(\E i \in DOMAIN recipients :
                   LabelCheck(recipients[i].recipient_id, p).bad \/ recipients[i].key_epoch = 0,
                 "InvalidKeyIdentity"),
           Check(\E i \in DOMAIN indexes :
                   \/ LabelCheck(indexes[i].label, p).bad
                   \/ LabelCheck(indexes[i].canonicalizer_id, p).bad
                   \/ 0 \in {indexes[i].schema_version, indexes[i].canonicalizer_version,
                             indexes[i].key_epoch},
                 "InvalidIndexScope") >>)

(* sort_by, which is stable: s[i] ends at the place that counts what its   *)
(* key and its position put before it.                                     *)
Precedes(keys, i, j) ==
  KeyBefore(keys[i], keys[j]) \/ (keys[i] = keys[j] /\ i < j)

Place(keys, i) == Cardinality({ j \in DOMAIN keys : Precedes(keys, j, i) }) + 1

SortedBy(s, keys) == [n \in DOMAIN s |-> s[CHOOSE i \in DOMAIN s : Place(keys, i) = n]]

SortedRecipients(s) == SortedBy(s, [i \in DOMAIN s |-> EnvelopeKey(s[i])])
SortedIndexes(s)    == SortedBy(s, [i \in DOMAIN s |-> IndexLabel(s[i])])

RepeatsRecipient(s) == \E i, j \in DOMAIN s : i # j /\ EnvelopeKey(s[i]) = EnvelopeKey(s[j])
RepeatsIndex(s)     == \E i, j \in DOMAIN s : i # j /\ IndexLabel(s[i]) = IndexLabel(s[j])

(* wrap_dek: an envelope of the right lengths under the recipient's name.  *)
Wrap(q) ==
  [recipient_id |-> q.recipient_id, key_epoch |-> q.key_epoch,
   recipient_key_id |-> q.recipient_key_id,
   encapsulated_key |-> [i \in 1..KeyLen |-> 0], wrapped_dek |-> [i \in 1..WrappedLen |-> 0]]

(* Mutant: recipients are left in the order the caller gave.               *)
BuiltUnsorted(c, plaintext, recipients, indexes, suite, signer, signature) ==
  [format_version |-> FormatVersion, suite |-> suite, context |-> c,
   manifest_revision |-> 1, previous_manifest_hash |-> NoHash, key_commitment |-> 0,
   nonce |-> [i \in 1..NonceLen[suite] |-> 0],
   ciphertext |-> plaintext \o [i \in 1..TagLen |-> 0],
   recipients |-> [i \in DOMAIN recipients |-> Wrap(recipients[i])],
   indexes |-> SortedIndexes(indexes), signer |-> signer, signature |-> signature]

Built(c, plaintext, recipients, indexes, suite, signer, signature) ==
  LET sorted == SortedRecipients(recipients)
  IN  [format_version |-> FormatVersion, suite |-> suite, context |-> c,
       manifest_revision |-> 1, previous_manifest_hash |-> NoHash, key_commitment |-> 0,
       nonce |-> [i \in 1..NonceLen[suite] |-> 0],
       ciphertext |-> plaintext \o [i \in 1..TagLen |-> 0],
       recipients |-> [i \in DOMAIN sorted |-> Wrap(sorted[i])],
       indexes |-> SortedIndexes(indexes), signer |-> signer, signature |-> signature]

(* validate_own without the fault-resistant feature.                       *)
ValidateOwn(r) == Validate(r, PolicyFor(r.signer), TRUE)

(* seal's verdict on its inputs: preflight, then duplicates, then its own  *)
(* record.  Randomness, derivation, AEAD and HPKE, which may fail in       *)
(* between whatever the inputs are, succeed.                               *)
SealVerdict(c, plaintext, recipients, indexes, built) ==
  FirstOf(<< Preflight(c, plaintext, recipients, indexes),
             IF RepeatsRecipient(recipients) THEN "DuplicateRecipient" ELSE "ok",
             IF RepeatsIndex(indexes) THEN "DuplicateIndex" ELSE "ok",
             ValidateOwn(built) >>)

(* grant_recipient's record, and the verdict when `by' grants to q; `hash' *)
(* is the manifest hash of r, a genuine record of its author.  HPKE        *)
(* succeeds, and the revision is below the largest, as FreshnessChain's    *)
(* Grant has it.                                                           *)
GrantedTo(r, q, hash, signature) ==
  [r EXCEPT !.previous_manifest_hash = hash, !.manifest_revision = @ + 1,
            !.recipients = SortedRecipients(Append(@, Wrap(q))), !.signature = signature]

Holds(r, q) ==
  \E i \in DOMAIN r.recipients :
    /\ EnvelopeKey(r.recipients[i]) = EnvelopeKey(q)
    /\ r.recipients[i].recipient_key_id = q.recipient_key_id

GrantVerdict(r, by, q, granted) ==
  FirstOf(<< Validate(r, PolicyFor(r.signer), TRUE),
             IF \E i \in DOMAIN r.recipients : EnvelopeKey(r.recipients[i]) = EnvelopeKey(q)
             THEN "DuplicateRecipient" ELSE "ok",
             IF Holds(r, by) THEN "ok" ELSE "NoEnvelopeForRecipient",
             ValidateOwn(granted) >>)
=============================================================================

----------------------------- MODULE WireCodec -----------------------------
(***************************************************************************)
(* blindplane-wire's encoding: a record travels as the bytes its author    *)
(* signed, followed by the signature.  Everything of variable length is    *)
(* preceded by its length, and the context is nested as one such string.   *)
(* Here a number, a hash or a key is one atom, whatever its width, and a   *)
(* byte string is a sequence of atoms.                                     *)
(*                                                                         *)
(* Authors sign records, their own library's or any others; the bytes may  *)
(* change on the way; a receiver decodes them under its policy.            *)
(***************************************************************************)
EXTENDS RecordRules

CONSTANTS
  RecordDomain, ContextDomain,  (* the two domain strings                  *)
  LengthFloor,  (* the 4096 of take_bytes                                  *)
  Signers,      (* author keys                                             *)
  Drafts,       (* records signed without the library, valid or not        *)
  Inputs,       (* arguments seal is called with                           *)
  Readers,      (* recipients who grant and are granted                    *)
  Policies,     (* the receivers' policies                                 *)
  EditAtoms,    (* atoms that damage may put into the bytes                *)
  Damaged,      (* bound: the records whose bytes are damaged              *)
  MaxEdits,     (* bound: how often they are                               *)
  MaxGrants,    (* bound: how often a sealed record is granted on          *)
  Nothing       (* no record, bytes or answer yet                          *)

(* What take_bytes reads at most under a policy.                           *)
TakeLimit(p) == Max({p.max_ciphertext_bytes, LengthFloor})

(* The longest context and the fixed-length strings fit what take_bytes    *)
(* reads, which the default limits leave much room for (under 900 of 4096  *)
(* bytes), but which a policy with long identifiers could break.           *)
ASSUME LengthAssumption ==
  /\ LengthFloor \in Nat /\ RecordDomain \in Bytes /\ ContextDomain \in Bytes
  /\ \A n \in {KeyLen, WrappedLen, SignatureLen, Len(RecordDomain)} : n <= LengthFloor
  /\ \A suite \in Suites : NonceLen[suite] <= LengthFloor
  /\ Policies \subseteq ValidationPolicies /\ DefaultPolicy \in Policies
  /\ \A p \in Policies : 3 * p.max_identifier_bytes + Len(ContextDomain) + 7 <= TakeLimit(p)

(* What is signed, sealed, granted and damaged has the types of the        *)
(* source; sign writes SignatureLen bytes.                                 *)
ASSUME WireAssumption ==
  /\ Signers \subseteq Nat /\ Drafts \subseteq Records /\ Readers \subseteq Recipients
  /\ \A a \in Inputs :
       /\ a.context \in Contexts /\ a.plaintext \in Bytes /\ a.suite \in Suites
       /\ a.recipients \in Seq(Recipients) /\ a.indexes \in Seq(Indexes)
       /\ a.signer \in Nat /\ a.signature \in Bytes /\ Len(a.signature) = SignatureLen
  /\ EditAtoms \subseteq Nat /\ MaxEdits \in Nat /\ MaxGrants \in Nat
  /\ Nothing \notin Records

VARIABLES
  record,    (* the record last signed                                     *)
  library,   (* whether it was built by seal and grant_recipient           *)
  refusal,   (* what seal or grant_recipient last answered, until the      *)
             (* bytes change                                               *)
  wire,      (* its bytes on the way                                       *)
  edits,     (* how often they were damaged                                *)
  received   (* the last receiver's policy, decode's verdict and record    *)

vars == <<record, library, refusal, wire, edits, received>>

-----------------------------------------------------------------------------
Prefixed(s) == <<Len(s)>> \o s
Counted(parts) == <<Len(parts)>> \o FlattenSeq(parts)

ContextBytes(c) ==
  Prefixed(ContextDomain) \o Prefixed(c.tenant) \o Prefixed(c.object_id) \o Prefixed(c.field)
  \o <<c.epoch, c.version, c.schema_version>>

EnvelopeBytes(e) ==
  Prefixed(e.recipient_id) \o <<e.key_epoch, e.recipient_key_id>>
  \o Prefixed(e.encapsulated_key) \o Prefixed(e.wrapped_dek)

IndexBytes(x) ==
  Prefixed(x.label) \o <<x.schema_version>> \o Prefixed(x.canonicalizer_id)
  \o <<x.canonicalizer_version, x.key_epoch, x.token>>

SigningBytes(r) ==
  Prefixed(RecordDomain) \o <<r.format_version, r.suite>> \o Prefixed(ContextBytes(r.context))
  \o <<r.manifest_revision, r.previous_manifest_hash, r.key_commitment>>
  \o Prefixed(r.nonce) \o Prefixed(r.ciphertext)
  \o Counted([i \in DOMAIN r.recipients |-> EnvelopeBytes(r.recipients[i])])
  \o Counted([i \in DOMAIN r.indexes |-> IndexBytes(r.indexes[i])])
  \o <<r.signer>>

Encode(r) == SigningBytes(r) \o Prefixed(r.signature)

-----------------------------------------------------------------------------
(* A cursor: what is left to read, the values read, and the first error,   *)
(* after which nothing more is read.                                       *)
Cursor(bytes) == [rest |-> bytes, got |-> <<>>, error |-> "ok"]

Fail(c, error) == [c EXCEPT !.error = error]
LastRead(c) == c.got[Len(c.got)]

TakeExact(c, n) ==
  IF n > Len(c.rest) THEN Fail(c, "Truncated")
  ELSE [c EXCEPT !.rest = SubSeq(@, n + 1, Len(@)), !.got = Append(@, SubSeq(c.rest, 1, n))]

TakeNumber(c) ==
  IF c.rest = <<>> THEN Fail(c, "Truncated")
  ELSE [c EXCEPT !.rest = Tail(@), !.got = Append(@, Head(c.rest))]

(* A length no greater than the limit, as the next thing to act on.        *)
TakeLength(c, limit) ==
  IF c.rest = <<>> THEN Fail(c, "Truncated")
  ELSE IF Head(c.rest) > limit THEN Fail(c, "LengthLimit")
  ELSE [c EXCEPT !.rest = Tail(@)]

(* Mutant: the ciphertext limit alone bounds every string.                 *)
TakeBytesNoFloor(c, p) ==
  LET d == TakeLength(c, p.max_ciphertext_bytes)
  IN  IF d.error # "ok" THEN d ELSE TakeExact(d, Head(c.rest))

TakeBytes(c, p) ==
  LET d == TakeLength(c, TakeLimit(p))
  IN  IF d.error # "ok" THEN d ELSE TakeExact(d, Head(c.rest))

TakeString(c, p) ==
  LET d == TakeBytes(c, p)
  IN  IF d.error # "ok" THEN d
      ELSE IF Len(LastRead(d)) > p.max_identifier_bytes THEN Fail(d, "IdentifierLength")
      ELSE IF ToSet(LastRead(d)) \cap NotUtf8 # {} THEN Fail(d, "InvalidUtf8")
      ELSE d

(* One field of the given kind; a value outside `known' is refused.        *)
Known(c, known) ==
  IF c.error = "ok" /\ LastRead(c) \notin known THEN Fail(c, "UnsupportedFormat") ELSE c

ReadField(c, kind, p) ==
  IF c.error # "ok" THEN c ELSE
  CASE kind = "number"          -> TakeNumber(c)
    [] kind = "bytes"           -> TakeBytes(c, p)
    [] kind = "string"          -> TakeString(c, p)
    [] kind = "format"          -> Known(TakeNumber(c), {FormatVersion})
    [] kind = "suite"           -> Known(TakeNumber(c), Suites)
    [] kind = "record domain"   -> Known(TakeBytes(c, p), {RecordDomain})
    [] kind = "context domain"  -> Known(TakeBytes(c, p), {ContextDomain})

ReadFields(c, kinds, p) ==
  LET read[n \in 0..Len(kinds)] ==
        IF n = 0 THEN c ELSE ReadField(read[n - 1], kinds[n], p)
  IN  read[Len(kinds)]

ContextFields  == <<"context domain", "string", "string", "string", "number", "number", "number">>
EnvelopeFields == <<"string", "number", "number", "bytes", "bytes">>
IndexFields    == <<"string", "number", "string", "number", "number", "number">>
RecordFields   == <<"record domain", "format", "suite", "context", "number", "number", "number",
                    "bytes", "bytes", "recipients", "indexes", "number", "bytes">>

AsContext(g) ==
  [tenant |-> g[2], object_id |-> g[3], field |-> g[4],
   epoch |-> g[5], version |-> g[6], schema_version |-> g[7]]

AsEnvelope(g) ==
  [recipient_id |-> g[1], key_epoch |-> g[2], recipient_key_id |-> g[3],
   encapsulated_key |-> g[4], wrapped_dek |-> g[5]]

AsIndex(g) ==
  [label |-> g[1], schema_version |-> g[2], canonicalizer_id |-> g[3],
   canonicalizer_version |-> g[4], key_epoch |-> g[5], token |-> g[6]]

AsRecord(g) ==
  [format_version |-> g[2], suite |-> g[3], context |-> g[4], manifest_revision |-> g[5],
   previous_manifest_hash |-> g[6], key_commitment |-> g[7], nonce |-> g[8],
   ciphertext |-> g[9], recipients |-> [i \in DOMAIN g[10] |-> AsEnvelope(g[10][i])],
   indexes |-> [i \in DOMAIN g[11] |-> AsIndex(g[11][i])], signer |-> g[12],
   signature |-> g[13]]

(* Mutant: what follows the context inside its own string is ignored.      *)
TakeContextPrefix(c, p) ==
  LET d == TakeBytes(c, p)
      n == ReadFields(Cursor(LastRead(d)), ContextFields, p)
  IN  IF d.error # "ok" THEN d
      ELSE IF n.error # "ok" THEN Fail(d, n.error)
      ELSE [d EXCEPT !.got = Append(c.got, AsContext(n.got))]

(* decode_context, on the bytes of one string.                             *)
TakeContext(c, p) ==
  LET d == TakeBytes(c, p)
      n == ReadFields(Cursor(LastRead(d)), ContextFields, p)
  IN  IF d.error # "ok" THEN d
      ELSE IF n.error # "ok" THEN Fail(d, n.error)
      ELSE IF n.rest # <<>> THEN Fail(d, "TrailingBytes")
      ELSE [d EXCEPT !.got = Append(c.got, AsContext(n.got))]

(* A count within the limit, then as many elements.                        *)
ReadElement(c, kinds, p) ==
  LET e == ReadFields([c EXCEPT !.got = <<>>], kinds, p)
  IN  [e EXCEPT !.got = Append(c.got, e.got)]

ReadElements(c, n, kinds, p) ==
  LET read[i \in 0..n] == IF i = 0 THEN c ELSE ReadElement(read[i - 1], kinds, p)
  IN  read[n]

TakeList(c, limit, kinds, p) ==
  LET d == TakeLength(c, limit)
      e == ReadElements([d EXCEPT !.got = <<>>], Head(c.rest), kinds, p)
  IN  IF d.error # "ok" THEN d
      ELSE IF e.error # "ok" THEN Fail(d, e.error)
      ELSE [e EXCEPT !.got = Append(c.got, e.got)]

ReadRecordField(c, kind, p) ==
  IF c.error # "ok" THEN c ELSE
  CASE kind = "context"     -> TakeContext(c, p)
    [] kind = "recipients"  -> TakeList(c, p.max_recipients, EnvelopeFields, p)
    [] kind = "indexes"     -> TakeList(c, p.max_indexes, IndexFields, p)
    [] OTHER                -> ReadField(c, kind, p)

Parse(bytes, p) ==
  LET read[n \in 0..Len(RecordFields)] ==
        IF n = 0 THEN Cursor(bytes) ELSE ReadRecordField(read[n - 1], RecordFields[n], p)
  IN  read[Len(RecordFields)]

(* Signatures are perfect: only the record last signed has one.            *)
Genuine(r) ==
  /\ record # Nothing
  /\ SigningBytes(r) = SigningBytes(record)
  /\ r.signature = record.signature

Answer(verdict, r) == [verdict |-> verdict, record |-> r]

(* Mutant: only the shape of a decoded record is checked.                  *)
JudgedByShape(c, bytes, r, p) ==
  IF c.error # "ok" THEN Answer(c.error, Nothing)
  ELSE IF c.rest # <<>> THEN Answer("TrailingBytes", Nothing)
  ELSE IF Encode(r) # bytes THEN Answer("NonCanonicalEncoding", Nothing)
  ELSE IF Limits(r, p) # "ok" THEN Answer(Limits(r, p), Nothing)
  ELSE Answer("ok", r)

(* What decode answers when it has read r and its cursor is c.             *)
Judged(c, bytes, r, p) ==
  IF c.error # "ok" THEN Answer(c.error, Nothing)
  ELSE IF c.rest # <<>> THEN Answer("TrailingBytes", Nothing)
  ELSE IF Encode(r) # bytes THEN Answer("NonCanonicalEncoding", Nothing)
  ELSE IF Structure(r, p, Genuine(r)) # "ok" THEN Answer(Structure(r, p, Genuine(r)), Nothing)
  ELSE Answer("ok", r)

Decode(bytes, p) ==
  LET c == Parse(bytes, p) IN Judged(c, bytes, AsRecord(c.got), p)

-----------------------------------------------------------------------------
Init ==
  /\ record = Nothing
  /\ library = FALSE
  /\ refusal = "ok"
  /\ wire = Nothing
  /\ edits = 0
  /\ received = Nothing

Sign(r, bylibrary) ==
  /\ record' = r
  /\ library' = bylibrary
  /\ wire' = Encode(r)
  /\ edits' = 0
  /\ received' = Nothing

(* An author signs a record of its own making.                             *)
Craft(r) ==
  /\ record = Nothing
  /\ Sign(r, FALSE)
  /\ refusal' = "ok"

Seal(a) ==
  LET r == Built(a.context, a.plaintext, a.recipients, a.indexes, a.suite, a.signer, a.signature)
      v == SealVerdict(a.context, a.plaintext, a.recipients, a.indexes, r)
  IN  /\ record = Nothing
      /\ refusal' = v
      /\ IF v = "ok" THEN Sign(r, TRUE)
         ELSE UNCHANGED <<record, library, wire, edits, received>>

(* A reader of a record the library built grants on.  The hash of         *)
(* revision n is the number n.                                             *)
GrantRecipient(by, q) ==
  LET r == GrantedTo(record, q, record.manifest_revision, record.signature)
      v == GrantVerdict(record, by, q, r)
  IN  /\ library
      /\ edits = 0
      /\ record.manifest_revision <= MaxGrants
      /\ refusal' = v
      /\ IF v = "ok" THEN Sign(r, TRUE)
         ELSE UNCHANGED <<record, library, wire, edits, received>>

(* Some bytes are cut off, changed, inserted or removed.                   *)
Edited(w, i, a) ==
  { SubSeq(w, 1, i - 1), ReplaceAt(w, i, a), ReplaceAt(w, i, w[i] + 1),
    InsertAt(w, i, a), Append(w, a), RemoveAt(w, i) }

Damage(i, a) ==
  /\ record \in Damaged /\ edits < MaxEdits
  /\ wire' \in Edited(wire, i, a)
  /\ edits' = edits + 1
  /\ received' = Nothing
  /\ refusal' = "ok"
  /\ UNCHANGED <<record, library>>

Receive(p) ==
  /\ wire # Nothing
  /\ received' = [policy |-> p, answer |-> Decode(wire, p)]
  /\ UNCHANGED <<record, library, refusal, wire, edits>>

Next ==
  \/ \E r \in Drafts : Craft(r)
  \/ \E a \in Inputs : Seal(a)
  \/ \E by, q \in Readers : GrantRecipient(by, q)
  \/ wire # Nothing /\ \E i \in DOMAIN wire, a \in EditAtoms : Damage(i, a)
  \/ \E p \in Policies : Receive(p)

Spec == Init /\ [][Next]_vars

-----------------------------------------------------------------------------
Accepted == received # Nothing /\ received.answer.verdict = "ok"

(* No bytes at all reach the comparison with the re-encoding and fail it   *)
(* (encode.rs: "two encodings of one record would otherwise let a relay    *)
(* and a client disagree"): the reader by itself takes exactly one         *)
(* encoding of each record.                                                *)
ReencodingAgrees ==
  received # Nothing => received.answer.verdict # "NonCanonicalEncoding"

(* What decode accepts is the record its author signed, field by field,    *)
(* however the bytes were damaged on the way: length prefixes make the     *)
(* signed bytes unambiguous (push_len's comment).                          *)
AcceptedIsSigned == Accepted => received.answer.record = record

(* Undamaged bytes of a record within a policy's limits are decoded under  *)
(* that policy, to the record: the reader's own limits (take_bytes,        *)
(* take_string, take_len) never refuse what validate_limits allows.        *)
ValidSurvives ==
  received # Nothing /\ edits = 0 /\ Limits(record, received.policy) = "ok"
    => received.answer = Answer("ok", record)

(* An accepted record has one envelope per (recipient_id, key_epoch) and   *)
(* one index per (label, key_epoch), which recipient() and the relay's     *)
(* index both rely on: comparing neighbours is enough.                     *)
AcceptedIsUnambiguous ==
  Accepted => /\ ~ RepeatsRecipient(received.answer.record.recipients)
              /\ ~ RepeatsIndex(received.answer.record.indexes)

(* seal and grant_recipient refuse for what the caller passed and never    *)
(* for the form of the record they themselves built: what preflight lets   *)
(* through, sorted, passes validate_own, and a grant only ever exceeds the *)
(* number of recipients or adds an ill-formed one.                         *)
SealRefusals ==
  {"ok", "InvalidRecordInput", "PayloadTooLarge", "NoRecipients", "InvalidKeyIdentity",
   "InvalidIndexScope", "DuplicateRecipient", "DuplicateIndex"}
GrantRefusals ==
  {"ok", "DuplicateRecipient", "NoEnvelopeForRecipient", "RecipientCount",
   "IdentifierLength", "InvalidKeyEpoch"}

RefusesOnlyInputs ==
  /\ record = Nothing => refusal \in SealRefusals
  /\ library => refusal \in GrantRefusals

(* validate_pinned answers exactly as validate does under a policy that    *)
(* pins the same signer: same verdict, same error (validate_pinned's       *)
(* comment), whichever of its checks fail together.                        *)
PathsAgree ==
  record # Nothing =>
    \A p \in Policies, pin \in Signers, genuine \in BOOLEAN :
      ValidatePinned(record, pin, p, genuine)
        = Validate(record, [p EXCEPT !.allowed_signers = {pin}], genuine)
=============================================================================

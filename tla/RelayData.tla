----------------------------- MODULE RelayData -----------------------------
(***************************************************************************)
(* The values the relay handles: record keys, sealed records as the relay  *)
(* sees them, client requests and replies.  A sealed record is opaque to   *)
(* the relay except for the fields below; `indexes' holds its blind-index  *)
(* entries, each token standing for one (label, key_epoch, token) triple.  *)
(* Because manifest_hash covers every signed byte and the signature, a     *)
(* record stands for its own hash.                                         *)
(***************************************************************************)
EXTENDS Integers, FiniteSets

CONSTANTS
  Keys,            (* RecordKey values: (tenant, object_id, field)         *)
  Tenants,         (* tenants                                              *)
  TenantOf,        (* the tenant named by each key                         *)
  Tokens,          (* (label, key_epoch, token) triples                    *)
  Signers,         (* Ed25519 author keys that sign correctly              *)
  AllowedSigners,  (* ValidationPolicy::allowed_signers                    *)
  Records,         (* the well-formed, correctly signed records in play    *)
  Requests,        (* the requests clients send                            *)
  Garbage,         (* an encoding SealedRecord::decode refuses             *)
  NoRecord,        (* BTreeMap::get returning None                         *)
  NoRequest,       (* a thread that serves no request                      *)
  NoReply          (* a request that has no reply yet                      *)

RecordType ==
  [key: Keys, version: Nat \ {0}, manifest_revision: Nat \ {0},
   indexes: SUBSET Tokens, signer: Signers]

IndexKey == Tenants \X Tokens

PutRequest    == [op: {"put"}, route: Keys, bytes: Records \cup {Garbage}]
GetRequest    == [op: {"get"}, route: Keys]
SearchRequest == [op: {"search"}, entry: IndexKey]
LenRequest    == [op: {"len"}]

Receipt == [kind: {"receipt"}, record: Records, created: BOOLEAN]
Refusal == [kind: {"invalid", "mismatch", "notfound"}]
Stale   == [kind: {"stale"}, stored_version: Nat, offered_version: Nat]
Found   == [kind: {"record"}, record: Records]
Matches == [kind: {"records"}, records: SUBSET Records]
Count   == [kind: {"count"}, count: Nat]
Reply   == Receipt \cup Refusal \cup Stale \cup Found \cup Matches \cup Count

ASSUME RelayDataAssumption ==
  /\ IsFiniteSet(Keys)
  /\ TenantOf \in [Keys -> Tenants]
  /\ AllowedSigners \subseteq Signers
  /\ Records \subseteq RecordType
  /\ Garbage \notin Records
  /\ NoRecord \notin Records
  /\ Requests \subseteq PutRequest \cup GetRequest \cup SearchRequest \cup LenRequest
  /\ NoRequest \notin Requests
  /\ NoReply \notin Reply

-----------------------------------------------------------------------------
(* The secondary-index keys a record is posted under.                      *)
EntriesOf(r) == { <<TenantOf[r.key], x>> : x \in r.indexes }

(* The same for a slot of the records map, which may hold no record.       *)
EntriesAt(slot) == IF slot = NoRecord THEN {} ELSE EntriesOf(slot)

(* Mutant: an equal version counts as an advance, whatever its revision.   *)
AdvancesOrRepeats(new, stored) == new.version >= stored.version

(* The payload advanced, or the access manifest did at the same version.   *)
Advances(new, stored) ==
  \/ new.version > stored.version
  \/ /\ new.version = stored.version
     /\ new.manifest_revision > stored.manifest_revision

(* Whether a write may fill the slot: created, or an advance.              *)
MayFill(new, slot) == slot # NoRecord => Advances(new, slot)

(* Mutant: validate_structure in place of validate; any signer passes.     *)
ValidatesStructure(r) == r.signer \in Signers

(* SealedRecord::validate against the relay's policy.  Members of Records  *)
(* already pass validate_structure; only the signer pin is left.           *)
Validates(r) == r.signer \in AllowedSigners

(* put_encoded's route check compares all three parts of the key.          *)
RouteAgrees(q) == q.bytes.key = q.route

ReceiptFor(r, created) == [kind |-> "receipt", record |-> r, created |-> created]
Refuse(why)            == [kind |-> why]
StaleWrite(stored, new) ==
  [kind |-> "stale", stored_version |-> stored.version, offered_version |-> new.version]
=============================================================================

------------------------------ MODULE Envelopes ------------------------------
(***************************************************************************)
(* Who can read a record: blindplane-core's key pairs and recipients, the  *)
(* HPKE envelope of the object secret for each recipient, the keys derived *)
(* from that secret, and the opening of a record by a device.  The server  *)
(* hands out public keys and keeps the records; signatures are left out,   *)
(* so a record may be put together from parts of several.                  *)
(***************************************************************************)
EXTENDS HpkeTerms, FiniteSets

CONSTANTS
  Ids, Epochs,  (* recipient ids, "" among them, and key epochs, 0 included *)
  Secrets,      (* X25519 secrets of devices                                *)
  ServerSecret, (* a secret the server may offer the public key of          *)
  Contexts, Suites,
  MaxKeypairs, MaxRecords

VARIABLES
  keypairs,   (* the key pairs that were generated or restored              *)
  pinned,     (* fingerprints taken out of band, per id and epoch           *)
  recipients, (* descriptors that passed from_verified_key                  *)
  records,    (* the records sealed, with whom they were sealed for         *)
  answer

vars == <<keypairs, pinned, recipients, records, answer>>

NoAnswer == <<>>
Statics  == { <<"static", s>> : s \in Secrets }
Server   == <<"static", ServerSecret>>

Init == keypairs = {} /\ pinned = {} /\ recipients = {} /\ records = <<>> /\ answer = NoAnswer

-----------------------------------------------------------------------------
RecipientKeyId(public) == << <<"sha256">>, <<"recipient-key-id/v1">>, public >>

Descriptor(id, epoch, public) ==
  [id |-> id, epoch |-> epoch, key_id |-> RecipientKeyId(public), public |-> public]

Nameable(id, epoch) == id # "" /\ epoch # 0

Assemble(id, epoch, secret) ==
  [recipient |-> Descriptor(id, epoch, PublicKey(secret)), secret |-> secret]

(* RecipientKeypair::generate draws a secret of its own; its fingerprint   *)
(* travels out of band.  No one keeps two pairs from having one id and     *)
(* epoch.                                                                  *)
Generate(id, epoch, secret) ==
  /\ Nameable(id, epoch)
  /\ Cardinality(keypairs) < MaxKeypairs
  /\ \A k \in keypairs : k.secret # secret
  /\ keypairs' = keypairs \cup { Assemble(id, epoch, secret) }
  /\ pinned' = pinned \cup { <<id, epoch, RecipientKeyId(PublicKey(secret))>> }
  /\ UNCHANGED <<recipients, records, answer>>

(* from_secret_bytes, from a vault: the caller names id and epoch again.   *)
Restore(id, epoch, secret) ==
  /\ Nameable(id, epoch)
  /\ Cardinality(keypairs) < MaxKeypairs
  /\ \E k \in keypairs : k.secret = secret
  /\ keypairs' = keypairs \cup { Assemble(id, epoch, secret) }
  /\ UNCHANGED <<pinned, recipients, records, answer>>

(* recipient(): the owner of a key pair, generated or restored, hands out  *)
(* its descriptor, which needs no check and carries its fingerprint.       *)
HandOut(k) ==
  /\ recipients' = recipients \cup { k.recipient }
  /\ pinned' = pinned \cup { <<k.recipient.id, k.recipient.epoch, k.recipient.key_id>> }
  /\ UNCHANGED <<keypairs, records, answer>>

(* from_verified_key, on whatever key the server offers.                   *)
FromVerifiedKey(id, epoch, public, expected) ==
  /\ Nameable(id, epoch)
  /\ RecipientKeyId(public) = expected
  /\ recipients' = recipients \cup { Descriptor(id, epoch, public) }
  /\ UNCHANGED <<keypairs, pinned, records, answer>>

-----------------------------------------------------------------------------
(* What the info and the associated data of an envelope both bind.         *)
Binding(context, r)  == << <<context>>, <<r.id>>, <<"epoch", r.epoch>>, <<"id", r.key_id>> >>
HpkeInfo(context, r) == << <<"hpke-dek/v1">> >> \o Binding(context, r)
HpkeAad(context, r)  == << <<"hpke-envelope-aad/v1">> >> \o Binding(context, r)

WrapDek(r, ephemeral, object_secret, context) ==
  SealWith("chacha20poly1305", ephemeral, r.public, <<>>,
           HpkeInfo(context, r), HpkeAad(context, r), object_secret)

(* An object secret is a term of 32 bytes, so what opens has that length.  *)
UnwrapDek(context, envelope, k) ==
  OpenWith("chacha20poly1305", k.secret, envelope.sealed.enc, <<>>,
           HpkeInfo(context, k.recipient), HpkeAad(context, k.recipient), envelope.sealed.ciphertext)

DeriveObjectKeys(object_secret, context) ==
  LET prk == Extract(<< <<context>> >>, << <<object_secret>> >>)
  IN  [data |-> Expand(prk, << <<"data-key/v1">> >>, 32),
       commitment |-> Expand(prk, << <<"commitment-key/v1">> >>, 32)]

CommitKey(key, suite, context) ==
  << <<"hmac">>, key, <<"key-commitment/v1">>, <<suite>>, <<context>> >>

Payload(key, nonce, suite, context, plaintext) == <<"payload", key, nonce, suite, context, plaintext>>

-----------------------------------------------------------------------------
(* seal, for the part that decides who can read; RecordRules has its       *)
(* refusals.  Object secret, nonce and ephemerals are drawn fresh.         *)
Seal(context, suite, for) ==
  LET n    == Len(records) + 1
      keys == DeriveObjectKeys(<<"object", n>>, context)
      wrapped(r) == WrapDek(r, <<"ephemeral", n, r.id, r.epoch>>, <<"object", n>>, context)
  IN  /\ n <= MaxRecords /\ for # {}
      /\ \A r, s \in for : <<r.id, r.epoch>> = <<s.id, s.epoch>> => r = s
      /\ \A r \in for : wrapped(r).kind = "ok"
      /\ records' = Append(records,
           [context |-> context, suite |-> suite,
            commitment |-> CommitKey(keys.commitment, suite, context),
            payload |-> Payload(keys.data, <<"nonce", n>>, suite, context, <<"text", n>>),
            envelopes |-> { [id |-> r.id, epoch |-> r.epoch, key_id |-> r.key_id,
                             sealed |-> wrapped(r).value] : r \in for }])
      /\ UNCHANGED <<keypairs, pinned, recipients, answer>>

(* Mutant: an envelope is found by its recipient's id alone.               *)
MatchesId(e, r) == e.id = r.id

Matches(e, r) == e.id = r.id /\ e.epoch = r.epoch /\ e.key_id = r.key_id

OpenPayload(record, object_secret) ==
  LET keys == DeriveObjectKeys(object_secret, record.context)
  IN  IF record.commitment # CommitKey(keys.commitment, record.suite, record.context)
      THEN Err("PayloadOpen")
      ELSE IF record.payload # Payload(keys.data, record.payload[3], record.suite,
                                       record.context, record.payload[6])
      THEN Err("PayloadOpen")
      ELSE Ok(record.payload[6])

(* open_validated: the envelope, its object secret, the commitment, then   *)
(* the payload.  Validation left one envelope per id and epoch.             *)
OpenValidated(k, record) ==
  LET mine == { e \in record.envelopes : Matches(e, k.recipient) }
      dek  == UnwrapDek(record.context, CHOOSE e \in mine : TRUE, k)
  IN  IF mine = {} THEN Err("NoEnvelopeForRecipient")
      ELSE IF dek.kind = "err" THEN Err("HpkeOpen")
      ELSE OpenPayload(record, dek.value)

(* A record as the server may return it: the context, the suite with its   *)
(* payload, the commitment and the envelopes of records it has.            *)
Open(k, c, p, m, e) ==
  /\ answer' = [key |-> k, from |-> {c, p, m, e}, record |-> e,
                result |-> OpenValidated(k, [context |-> records[c].context,
                   suite |-> records[p].suite, payload |-> records[p].payload,
                   commitment |-> records[m].commitment, envelopes |-> records[e].envelopes])]
  /\ UNCHANGED <<keypairs, pinned, recipients, records>>

Publics == { PublicKey(s) : s \in Statics \cup {Server} } \cup {SmallOrder}

Next ==
  /\ answer = NoAnswer
  /\ \/ \E id \in Ids, epoch \in Epochs, s \in Statics :
          Generate(id, epoch, s) \/ Restore(id, epoch, s)
     \/ \E k \in keypairs : HandOut(k)
     \/ \E p \in pinned, public \in Publics : FromVerifiedKey(p[1], p[2], public, p[3])
     \/ \E c \in Contexts, suite \in Suites, for \in SUBSET recipients : Seal(c, suite, for)
     \/ \E k \in keypairs : \E c, p, m, e \in DOMAIN records : Open(k, c, p, m, e)

Spec == Init /\ [][Next]_vars

-----------------------------------------------------------------------------
Whole == \A i \in answer.from : i = answer.record

WasFor(k, i) ==
  \E e \in records[i].envelopes :
    <<e.id, e.epoch, e.key_id>> = <<k.recipient.id, k.recipient.epoch, k.recipient.key_id>>

(* What a device opens comes whole from one record, sealed to exactly its  *)
(* id, epoch and key; and every device named in a record's envelopes, be   *)
(* it restored from a vault, opens it.  A payload, commitment or envelope  *)
(* of another record under it fails, its signature aside.                  *)
ReadsOnlyItsRecords ==
  answer # NoAnswer =>
    LET right == WasFor(answer.key, answer.record)
    IN  /\ Whole /\ right => answer.result = Ok(<<"text", answer.record>>)
        /\ answer.result.kind = "ok" =>
             /\ right
             /\ answer.result.value = <<"text", answer.record>>

(* The key of every envelope is one an owner of that identity handed out   *)
(* or had pinned: the server's own key, offered in its place, gets none.   *)
OnlyPinnedKeysGetEnvelopes ==
  \A i \in DOMAIN records : \A e \in records[i].envelopes :
    /\ <<e.id, e.epoch, e.key_id>> \in pinned
    /\ e.key_id # RecipientKeyId(PublicKey(Server))

(* A context an envelope was not wrapped for never yields its secret.      *)
EnvelopeStaysInContext ==
  \A i, j \in DOMAIN records : \A k \in keypairs : \A e \in records[i].envelopes :
    UnwrapDek(records[j].context, e, k).kind = "ok" =>
      /\ records[i].context = records[j].context
      /\ <<e.id, e.epoch>> = <<k.recipient.id, k.recipient.epoch>>
=============================================================================

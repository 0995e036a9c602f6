------------------------------ MODULE HpkeTerms ------------------------------
(***************************************************************************)
(* HPKE as blindplane-crypto derives it: X25519, the labeled KDF, the      *)
(* DHKEM and the key schedule, over terms.  A byte string is a sequence of *)
(* terms, a term a tuple that starts with its kind; two derivations give   *)
(* the same bytes exactly when they give the same term.  A public key has  *)
(* one spelling, and every machine here has the instructions its suite     *)
(* needs: Aead has the refusal of AES-256-GCM where they are missing.      *)
(***************************************************************************)
EXTENDS Integers, Sequences

Err(e)  == [kind |-> "err", error |-> e]
Ok(v)   == [kind |-> "ok", value |-> v]

(* Keys.  <<"low">> stands for the public keys of small order.             *)
PublicKey(secret) == <<"public", secret>>
SmallOrder        == <<"low">>

(* x25519(a, B) = x25519(b, A), and all zeroes for a small-order peer,     *)
(* which diffie_hellman turns into None.                                   *)
Agrees(public)              == public # SmallOrder
DiffieHellman(secret, peer) == <<"dh", {secret, peer[2]}>>

-----------------------------------------------------------------------------
Extract(salt, ikm)     == << <<"extract", salt, ikm>> >>
Expand(prk, info, len) == << <<"expand", prk, info, len>> >>

AeadId(suite) == IF suite = "aes256gcm" THEN 2 ELSE 3

KemSuiteId         == <<"KEM", 32>>
HpkeSuiteId(suite) == <<"HPKE", 32, 1, AeadId(suite)>>

LabeledExtract(salt, id, label, ikm) == Extract(salt, << <<"HPKE-v1">>, id, <<label>> >> \o ikm)
LabeledExpand(prk, id, label, info, len) ==
  Expand(prk, << <<"length", len>>, <<"HPKE-v1">>, id, <<label>> >> \o info, len)

ExtractAndExpand(dh, kem_context) ==
  LabeledExpand(LabeledExtract(<<>>, KemSuiteId, "eae_prk", dh),
                KemSuiteId, "shared_secret", kem_context, 32)

KeySchedule(suite, mode, shared, info) ==
  LET id      == HpkeSuiteId(suite)
      context == << <<mode>> >> \o LabeledExtract(<<>>, id, "psk_id_hash", <<>>)
                                \o LabeledExtract(<<>>, id, "info_hash", info)
      secret  == LabeledExtract(shared, id, "secret", <<>>)
  IN  [key |-> LabeledExpand(secret, id, "key", context, 32),
       base_nonce |-> LabeledExpand(secret, id, "base_nonce", context, 12)]

-----------------------------------------------------------------------------
(* The AEAD under HPKE: a nonce of its own length, and what was sealed so. *)
TakesBaseNonce(suite) == suite # "xchacha20poly1305"

Ciphertext(suite, schedule, aad, plaintext) ==
  <<"sealed", suite, schedule.key, schedule.base_nonce, aad, plaintext>>

(* The DHKEM's shared secret.  The sender agrees ephemeral with recipient  *)
(* and then itself with recipient; the recipient agrees itself with        *)
(* enc and then itself with the sender.                                    *)
Agreed(ours, theirs, sender, enc, recipient) ==
  ExtractAndExpand([i \in DOMAIN ours |-> DiffieHellman(ours[i], theirs[i])],
                   <<enc, recipient>> \o sender)

Mode(sender) == IF sender = <<>> THEN "base" ELSE "auth"

(* seal_with_ephemeral.  sender is the sealer's own secret, or nothing.    *)
SealWith(suite, ephemeral, recipient, sender, info, aad, plaintext) ==
  LET enc    == PublicKey(ephemeral)
      shared == Agreed(<<ephemeral>> \o sender, <<recipient, recipient>>,
                       [i \in DOMAIN sender |-> PublicKey(sender[i])], enc, recipient)
      schedule == KeySchedule(suite, Mode(sender), shared, info)
  IN  IF ~Agrees(recipient) THEN Err("InvalidPeerKey")
      ELSE IF ~TakesBaseNonce(suite) THEN Err("Unsupported")
      ELSE Ok([enc |-> <<enc>>, ciphertext |-> Ciphertext(suite, schedule, aad, plaintext)])

(* open_inner.  sender is the public key the caller requires, or nothing.  *)
(* An encapsulated key of another length is a sequence of none or several. *)
OpenWith(suite, secret, enc, sender, info, aad, ciphertext) ==
  LET me     == PublicKey(secret)
      peers  == enc \o sender
      shared == Agreed([i \in DOMAIN peers |-> secret], peers, sender, enc[1], me)
      schedule == KeySchedule(suite, Mode(sender), shared, info)
  IN  IF Len(enc) # 1 THEN Err("InvalidPeerKey")
      ELSE IF \E i \in DOMAIN peers : ~Agrees(peers[i]) THEN Err("InvalidPeerKey")
      ELSE IF ~TakesBaseNonce(suite) THEN Err("Unauthenticated")
      ELSE IF ciphertext # Ciphertext(suite, schedule, aad, ciphertext[6])
           THEN Err("Unauthenticated")
      ELSE Ok(ciphertext[6])
=============================================================================

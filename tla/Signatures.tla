------------------------------ MODULE Signatures ------------------------------
(***************************************************************************)
(* Ed25519 as the records use it: signing, strict verification with a key  *)
(* given as bytes, and with a prepared key.  The curve is its group, of    *)
(* order 8 Q: a point is a number modulo 8 Q, the base point is 8, and a   *)
(* point's encoding is the point, beside bytes that name none.             *)
(***************************************************************************)
EXTENDS Integers

CONSTANTS
  Q,         (* the prime order of the base point                           *)
  Messages,
  Ss,        (* the numbers a signature's second half can spell             *)
  Nonce,     (* SHA-512 reduced modulo Q, of a seed and a message,          *)
  Challenge  (* and of R, a public key and a message: any functions         *)

None     == 8 * Q                (* bytes that name no point                *)
Points   == 0..(8 * Q - 1)
Encoding == Points \cup {None}
Base     == 8

VARIABLES
  key, message, sig,  (* what is verified; sig = [r, s]                     *)
  genuine,            (* whether it came from sign                          *)
  free,               (* what verify_strict returned, "" before             *)
  prepared,           (* the prepared key: the negated point, or its error  *)
  viaPrepared         (* what the prepared key returned, "" before          *)

vars == <<key, message, sig, genuine, free, prepared, viaPrepared>>

-----------------------------------------------------------------------------
PublicKey(seed) == (seed * Base) % (8 * Q)

Sign(seed, m) ==
  LET r == (Nonce[seed][m] * Base) % (8 * Q)
  IN  [r |-> r, s |-> (Challenge[r][PublicKey(seed)][m] * seed + Nonce[seed][m]) % Q]

(* Decompression and the strict refusal of a key of small order.           *)
KeyError(pk) ==
  IF pk = None THEN "InvalidPublicKey"
  ELSE IF (8 * pk) % (8 * Q) = 0 THEN "SmallOrderPublicKey" ELSE "none"

(* verify_tail: S first, then R against [s]B + [k](-A) in encoded form.    *)
VerifyTail(pk, negated, m, sg) ==
  LET k == Challenge[sg.r][pk][m]
  IN  IF sg.s >= Q THEN "NonCanonicalSignatureS"
      ELSE IF (sg.s * Base + k * negated) % (8 * Q) = sg.r THEN "Ok"
      ELSE IF sg.r = None THEN "InvalidSignatureR" ELSE "VerificationFailed"

Negated(pk) == (8 * Q - pk) % (8 * Q)

-----------------------------------------------------------------------------
Init ==
  /\ message \in Messages
  /\ \/ /\ genuine = TRUE
        /\ \E seed \in 1..(Q - 1) : key = PublicKey(seed) /\ sig = Sign(seed, message)
     \/ /\ genuine = FALSE
        /\ key \in Encoding
        /\ sig \in [r : Encoding, s : Ss]
  /\ free = "" /\ prepared = "unprepared" /\ viaPrepared = ""

(* verify_strict of the key's bytes.                                       *)
VerifyFree ==
  /\ free = ""
  /\ free' = IF KeyError(key) # "none" THEN KeyError(key)
             ELSE VerifyTail(key, Negated(key), message, sig)
  /\ UNCHANGED <<key, message, sig, genuine, prepared, viaPrepared>>

(* Mutant: only undecodable keys are refused.                              *)
PrepareUnchecked ==
  /\ prepared = "unprepared"
  /\ prepared' = IF key = None THEN KeyError(key) ELSE "table"
  /\ UNCHANGED <<key, message, sig, genuine, free, viaPrepared>>

(* PreparedVerifier::new: the key's own failures come here.                *)
Prepare ==
  /\ prepared = "unprepared"
  /\ prepared' = IF KeyError(key) # "none" THEN KeyError(key) ELSE "table"
  /\ UNCHANGED <<key, message, sig, genuine, free, viaPrepared>>

(* PreparedVerifier::verify_strict, from the table of the negated point.   *)
VerifyPrepared ==
  /\ prepared = "table" /\ viaPrepared = ""
  /\ viaPrepared' = VerifyTail(key, Negated(key), message, sig)
  /\ UNCHANGED <<key, message, sig, genuine, free, prepared>>

Next == VerifyFree \/ Prepare \/ VerifyPrepared

Spec == Init /\ [][Next]_vars

-----------------------------------------------------------------------------
(* What sign made verifies, either way.                                    *)
GenuineVerifies ==
  genuine => /\ free \in {"", "Ok"} /\ viaPrepared \in {"", "Ok"}
             /\ prepared \in {"unprepared", "table"}

(* edwards/keys.rs:175: the prepared key "accepts and rejects exactly what *)
(* the free verify_strict accepts and rejects, error for error; the        *)
(* key-shaped failures simply surface at construction".                    *)
WaysAgree ==
  /\ free # "" /\ viaPrepared # "" => free = viaPrepared
  /\ free # "" /\ prepared \notin {"unprepared", "table"} => free = prepared
  /\ free # "" /\ prepared = "table" => free \notin {"InvalidPublicKey", "SmallOrderPublicKey"}

(* edwards/keys.rs:141: a canonical S stops anyone "from producing a       *)
(* second valid signature for a message that was already signed": with its *)
(* R, an accepted signature is the only one.                               *)
OneSForR ==
  free = "Ok" =>
    \A s \in Ss : VerifyTail(key, Negated(key), message, [sig EXCEPT !.s = s]) = "Ok" => s = sig.s
=============================================================================

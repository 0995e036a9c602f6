-------------------------------- MODULE Hpke --------------------------------
(***************************************************************************)
(* blindplane-crypto's hpke module in use: payloads sealed in base and in  *)
(* auth mode, and opened by anyone who holds a secret, with any of the     *)
(* encapsulated keys, pins, info strings and suites a caller may pass.     *)
(***************************************************************************)
EXTENDS HpkeTerms, FiniteSets

CONSTANTS
  Secrets,    (* the parties' secrets                                       *)
  Ephemerals, (* the secrets generate draws, in order                       *)
  Suites,
  Inputs,     (* the caller's [info, aad]                                   *)
  NoAnswer

VARIABLES
  sealed,  (* the payloads sealed, with what they were sealed with          *)
  answer   (* the outcome of the last call                                  *)

vars == <<sealed, answer>>

Init == sealed = <<>> /\ answer = NoAnswer

Publics == { PublicKey(s) : s \in Secrets } \cup {SmallOrder}
None    == <<>>
Senders == { <<s>> : s \in Secrets } \cup {None}

-----------------------------------------------------------------------------
(* seal and auth_seal.                                                     *)
Seal(suite, sender, recipient, input) ==
  LET ephemeral == Ephemerals[Len(sealed) + 1]
      call == [suite |-> suite, sender |-> sender, recipient |-> recipient, input |-> input]
      result == SealWith(suite, ephemeral, recipient, sender, input.info, input.aad, call)
  IN  /\ answer = NoAnswer /\ Len(sealed) < Len(Ephemerals)
      /\ IF result.kind = "ok"
         THEN sealed' = Append(sealed, [call |-> call, out |-> result.value]) /\ UNCHANGED answer
         ELSE answer' = [op |-> "seal", call |-> call, result |-> result] /\ UNCHANGED sealed

(* generate fails when the operating system gives no randomness.           *)
SealWithoutRandomness ==
  /\ answer = NoAnswer
  /\ answer' = [op |-> "seal", call |-> "none", result |-> Err("KeyDerivation")]
  /\ UNCHANGED sealed

(* open and auth_open of a sealed payload with any encapsulated key.       *)
Open(suite, secret, enc, pin, input, i) ==
  /\ answer = NoAnswer
  /\ answer' = [op |-> "open",
                call |-> [suite |-> suite, secret |-> secret, enc |-> enc, pin |-> pin,
                          input |-> input, payload |-> i],
                result |-> OpenWith(suite, secret, enc, pin, input.info, input.aad,
                                    sealed[i].out.ciphertext)]
  /\ UNCHANGED sealed

Encs == { sealed[i].out.enc : i \in DOMAIN sealed } \cup { <<SmallOrder>>, <<>> }

Next ==
  \/ \E suite \in Suites, sender \in Senders, recipient \in Publics, input \in Inputs :
       Seal(suite, sender, recipient, input)
  \/ SealWithoutRandomness
  \/ \E suite \in Suites, secret \in Secrets, enc \in Encs,
        pin \in { <<p>> : p \in Publics } \cup {None}, input \in Inputs, i \in DOMAIN sealed :
       Open(suite, secret, enc, pin, input, i)

Spec == Init /\ [][Next]_vars

-----------------------------------------------------------------------------
(* A payload opens exactly for the recipient it was sealed to, with its    *)
(* own encapsulated key, the sender it was authenticated by (none for base *)
(* mode), the same info, associated data and suite: the two sides arrive   *)
(* at one key schedule then and only then.                                 *)
OpensAsSealed ==
  (answer # NoAnswer /\ answer.op = "open") =>
    LET c == answer.call
        m == sealed[c.payload]
        same == /\ c.suite = m.call.suite
                /\ PublicKey(c.secret) = m.call.recipient
                /\ c.enc = m.out.enc
                /\ c.pin = [i \in DOMAIN m.call.sender |-> PublicKey(m.call.sender[i])]
                /\ c.input = m.call.input
    IN  IF same THEN answer.result = Ok(m.call) ELSE answer.result.kind = "err"

(* No two payloads are sealed under one AEAD key, whatever their modes,    *)
(* recipients, suites and info strings: base_nonce is never incremented.   *)
KeysAreFresh ==
  \A i, j \in DOMAIN sealed :
    i # j => sealed[i].out.ciphertext[3] # sealed[j].out.ciphertext[3]
=============================================================================

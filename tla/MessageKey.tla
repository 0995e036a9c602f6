----------------------------- MODULE MessageKey -----------------------------
(***************************************************************************)
(* blindplane-crypto's simple::Key: encrypt lays a message out as nonce,   *)
(* suite code, ciphertext with its tag; decrypt has to find the suite code *)
(* again without knowing the nonce's length.  Messages outlive the machine *)
(* that made them and may be damaged in storage.                           *)
(*                                                                         *)
(* Of a message's bytes, decrypt looks at two: the ones at the offsets     *)
(* where a 12-byte and a 24-byte nonce would end.  An AEAD opens exactly   *)
(* the undamaged ciphertext sealed under the same key, suite and context.  *)
(***************************************************************************)
EXTENDS Integers, FiniteSets, TLAPS

CONSTANTS
  Machines,     (* machines the key is used on                             *)
  HasAes,       (* those whose CPU has AES instructions                    *)
  Contexts,     (* associated data the caller binds messages to            *)
  Plaintexts,   (* one-byte messages                                       *)
  Bytes,        (* the byte values a nonce or ciphertext byte may take     *)
  Lengths,      (* the lengths damage may cut a message to                 *)
  MaxMessages,  (* bound: how many messages are stored                     *)
  NoAnswer      (* no call to decrypt was made yet                         *)

Suites == {"Aes256Gcm", "XChaCha20Poly1305", "ChaCha20Poly1305"}

NonceLen(s) == IF s = "XChaCha20Poly1305" THEN 24 ELSE 12

Code(s) == CASE s = "Aes256Gcm"         -> 1
             [] s = "XChaCha20Poly1305" -> 2
             [] s = "ChaCha20Poly1305"  -> 3

TagLen == 16

(* at[12] and at[24] are the bytes at those offsets; `intact' and the      *)
(* fields after it say what the AEAD under the message can open.           *)
Message ==
  [len: Nat, at: [{12, 24} -> Bytes], intact: BOOLEAN,
   suite: Suites, machine: Machines, context: Contexts, plaintext: Plaintexts]

Outcome == [kind: {"ok"}, plaintext: Plaintexts]
             \cup [kind: {"unsupported", "unauthenticated"}]

ASSUME MessageKeyAssumption ==
  /\ HasAes \subseteq Machines
  /\ {1, 2, 3} \subseteq Bytes
  /\ Lengths \subseteq Nat
  /\ MaxMessages \in Nat

VARIABLES
  stored,  (* the messages kept                                            *)
  answer   (* the last call to decrypt and its outcome                     *)

vars == <<stored, answer>>

TypeOK ==
  /\ stored \in SUBSET Message
  /\ \/ answer = NoAnswer
     \/ /\ answer.message \in Message
        /\ answer.machine \in Machines
        /\ answer.context \in Contexts
        /\ answer.outcome \in Outcome

Init == stored = {} /\ answer = NoAnswer

-----------------------------------------------------------------------------
FastestAvailable(m) == IF m \in HasAes THEN "Aes256Gcm" ELSE "XChaCha20Poly1305"
IsAvailable(s, m)   == s = "Aes256Gcm" => m \in HasAes

(* encrypt.  The code is at the end of the nonce; the other byte decrypt   *)
(* may look at belongs to the random nonce, or to the ciphertext.          *)
Encrypt(m, x, p, b) ==
  LET s == FastestAvailable(m)
      n == NonceLen(s)
  IN  /\ Cardinality(stored) < MaxMessages
      /\ stored' = stored \cup
           { [len |-> n + 1 + 1 + TagLen,
              at |-> [i \in {12, 24} |-> IF i = n THEN Code(s) ELSE b],
              intact |-> TRUE, suite |-> s, machine |-> m, context |-> x, plaintext |-> p] }
      /\ UNCHANGED answer

(* Storage cuts a message short or changes bytes of it.                    *)
Damage(e, n, b, c) ==
  /\ e.intact
  /\ n <= e.len
  /\ stored' = (stored \ {e}) \cup
       { [e EXCEPT !.len = n, !.at = [i \in {12, 24} |-> IF i = 12 THEN b ELSE c],
              !.intact = FALSE] }
  /\ UNCHANGED answer

(* Suite::open on what follows the header: too short for a tag, a suite    *)
(* this CPU lacks, or the AEAD's verdict.                                  *)
Header(s)        == NonceLen(s) + 1
Genuine(e, s, x) == e.intact /\ e.suite = s /\ e.context = x

Open(e, s, m, x) ==
  IF e.len - Header(s) < TagLen THEN [kind |-> "unauthenticated"]
  ELSE IF ~ IsAvailable(s, m) THEN [kind |-> "unsupported"]
  ELSE IF Genuine(e, s, x) THEN [kind |-> "ok", plaintext |-> e.plaintext]
  ELSE [kind |-> "unauthenticated"]

(* Mutant: the two ChaCha suites are tried first.                          *)
ChaChaFirst == <<"XChaCha20Poly1305", "ChaCha20Poly1305", "Aes256Gcm">>

(* The suites in the order decrypt tries them, and those whose code stands *)
(* where their nonce would end.                                            *)
Order       == <<"Aes256Gcm", "XChaCha20Poly1305", "ChaCha20Poly1305">>
Names(e, s) == e.len > Header(s) /\ e.at[NonceLen(s)] = Code(s)
Named(e)    == { i \in 1..3 : Names(e, Order[i]) }

(* Mutant: the message's own context is used, not the caller's.            *)
DecryptAnyContext(e, m, x) ==
  /\ \E i \in Named(e) :
       answer' = [message |-> e, machine |-> m, context |-> x,
                  outcome |-> Open(e, Order[i], m, e.context)]
  /\ UNCHANGED stored

(* decrypt: the first suite named decides, and its error is the call's.    *)
Decrypt(e, m, x) ==
  /\ \/ /\ Named(e) = {}
        /\ answer' = [message |-> e, machine |-> m, context |-> x,
                      outcome |-> [kind |-> "unauthenticated"]]
     \/ \E i \in Named(e) :
          /\ \A j \in Named(e) : i <= j
          /\ answer' = [message |-> e, machine |-> m, context |-> x,
                        outcome |-> Open(e, Order[i], m, x)]
  /\ UNCHANGED stored

Next ==
  \/ \E m \in Machines, x \in Contexts, p \in Plaintexts, b \in Bytes : Encrypt(m, x, p, b)
  \/ \E e \in stored, n \in Lengths, b \in Bytes, c \in Bytes : Damage(e, n, b, c)
  \/ \E e \in stored, m \in Machines, x \in Contexts : Decrypt(e, m, x)

Spec == Init /\ [][Next]_vars

-----------------------------------------------------------------------------
(* Damaged messages and other contexts never open, on any machine, and     *)
(* what opens is what was encrypted: the code byte decrypt happens to find *)
(* cannot make one suite's message pass as another's.                      *)
OpensOnlyGenuine ==
  answer # NoAnswer /\ answer.outcome.kind = "ok" =>
    /\ answer.message.intact
    /\ answer.context = answer.message.context
    /\ answer.outcome.plaintext = answer.message.plaintext

(* An undamaged message opens under its context on every machine that has  *)
(* its suite, except when a nonce byte of an XChaCha20 message equals the  *)
(* code decrypt looks for at that offset.                                  *)
OpensUnlessNonceClashes ==
  answer # NoAnswer
    /\ answer.message.intact
    /\ answer.context = answer.message.context
    /\ IsAvailable(answer.message.suite, answer.machine) =>
  LET e == answer.message
  IN  (answer.outcome.kind = "ok") <=>
        ~ (e.suite = "XChaCha20Poly1305" /\ e.at[12] = Code("Aes256Gcm"))

(* "Decrypt something produced by Key::encrypt": on the machine that made  *)
(* it, under its key and context, an undamaged message opens.              *)
RoundTrip ==
  answer # NoAnswer
    /\ answer.message.intact
    /\ answer.context = answer.message.context
    /\ answer.machine = answer.message.machine =>
  answer.outcome.kind = "ok"

-----------------------------------------------------------------------------
(* For any machines, contexts, plaintexts and any number of stored         *)
(* messages: only genuine messages open, and a genuine one opens unless    *)
(* byte 12 of its XChaCha20 nonce is the code of AES-256-GCM.              *)

(* What encrypt lays out: the suite's own nonce, its code behind it, one   *)
(* byte of ciphertext and the tag.  ChaCha20Poly1305 is never chosen.      *)
WellMade(e) ==
  e.intact => /\ e.suite \in {"Aes256Gcm", "XChaCha20Poly1305"}
              /\ e.len = NonceLen(e.suite) + 1 + 1 + TagLen
              /\ e.at[NonceLen(e.suite)] = Code(e.suite)

IInv == /\ TypeOK
        /\ \A e \in stored : WellMade(e)
        /\ OpensOnlyGenuine
        /\ OpensUnlessNonceClashes

-----------------------------------------------------------------------------
(* Suite::open says "ok" for the genuine message only, which it returns.   *)
LEMMA OpenGivesGenuine ==
  ASSUME NEW e \in Message, NEW s \in Suites, NEW m \in Machines, NEW x \in Contexts
  PROVE  /\ Open(e, s, m, x) \in Outcome
         /\ Open(e, s, m, x).kind = "ok" =>
              Genuine(e, s, x) /\ Open(e, s, m, x).plaintext = e.plaintext
<1>1. CASE e.len - Header(s) < TagLen BY <1>1 DEF Open, Outcome
<1>2. CASE ~ (e.len - Header(s) < TagLen) /\ ~ IsAvailable(s, m)
  BY <1>2 DEF Open, Outcome
<1>3. CASE ~ (e.len - Header(s) < TagLen) /\ IsAvailable(s, m) /\ Genuine(e, s, x)
  BY <1>3 DEF Open, Outcome, Message
<1>4. CASE ~ (e.len - Header(s) < TagLen) /\ IsAvailable(s, m) /\ ~ Genuine(e, s, x)
  BY <1>4 DEF Open, Outcome
<1> QED BY <1>1, <1>2, <1>3, <1>4

(* encrypt keeps the invariant: what it stores is well made.               *)
LEMMA EncryptKeeps ==
  ASSUME MessageKeyAssumption, IInv,
         NEW m \in Machines, NEW x \in Contexts, NEW p \in Plaintexts, NEW b \in Bytes,
         Encrypt(m, x, p, b)
  PROVE  IInv'
<1> DEFINE s == FastestAvailable(m)
           n == NonceLen(s)
           e == [len |-> n + 1 + 1 + TagLen,
                 at |-> [i \in {12, 24} |-> IF i = n THEN Code(s) ELSE b],
                 intact |-> TRUE, suite |-> s, machine |-> m, context |-> x, plaintext |-> p]
<1>1. s \in {"Aes256Gcm", "XChaCha20Poly1305"} BY DEF FastestAvailable
<1>2. n \in {12, 24} /\ Code(s) \in Bytes
  BY <1>1 DEF NonceLen, Code, MessageKeyAssumption
<1>3. stored' = stored \cup {e} /\ answer' = answer BY DEF Encrypt
<1> HIDE DEF s
<1>4. e \in Message
  <2>1. [i \in {12, 24} |-> IF i = n THEN Code(s) ELSE b] \in [{12, 24} -> Bytes] BY <1>2
  <2>2. n + 1 + 1 + TagLen \in Nat BY <1>2, SMT DEF TagLen
  <2> QED BY <2>1, <2>2, <1>1 DEF Message, Suites
<1>5. WellMade(e) BY <1>1, <1>2 DEF WellMade
<1> HIDE DEF e
<1>6. TypeOK' BY <1>3, <1>4 DEF TypeOK, IInv
<1>7. \A d \in stored' : WellMade(d) BY <1>3, <1>5 DEF IInv
<1> QED BY <1>3, <1>6, <1>7 DEF IInv, OpensOnlyGenuine, OpensUnlessNonceClashes, WellMade

(* Damage keeps it: a damaged message is no longer intact.                 *)
LEMMA DamageKeeps ==
  ASSUME MessageKeyAssumption, IInv,
         NEW e \in stored, NEW n \in Lengths, NEW b \in Bytes, NEW c \in Bytes,
         Damage(e, n, b, c)
  PROVE  IInv'
<1> DEFINE d == [e EXCEPT !.len = n, !.at = [i \in {12, 24} |-> IF i = 12 THEN b ELSE c],
                          !.intact = FALSE]
<1>1. stored' = (stored \ {e}) \cup {d} /\ answer' = answer BY DEF Damage
<1>2. e \in Message BY DEF IInv, TypeOK
<1>3. d \in Message BY <1>2 DEF Message, MessageKeyAssumption
<1>4. d.intact = FALSE BY <1>2 DEF Message
<1> HIDE DEF d
<1>5. WellMade(d) BY <1>4 DEF WellMade
<1>6. TypeOK' BY <1>1, <1>3 DEF TypeOK, IInv
<1>7. \A a \in stored' : WellMade(a) BY <1>1, <1>5 DEF IInv
<1> QED BY <1>1, <1>6, <1>7 DEF IInv, OpensOnlyGenuine, OpensUnlessNonceClashes, WellMade

(* An intact message is named by its own suite, and the only other suite   *)
(* that may come first is AES-256-GCM, before XChaCha20.                   *)
LEMMA FirstNamed ==
  ASSUME NEW e \in Message, WellMade(e), e.intact
  PROVE  /\ Named(e) # {}
         /\ \A i \in Named(e) : (\A j \in Named(e) : i <= j) =>
              (Order[i] = e.suite
                 <=> ~ (e.suite = "XChaCha20Poly1305" /\ e.at[12] = Code("Aes256Gcm")))
         /\ e.len - Header(e.suite) >= TagLen
<1>0. Named(e) \subseteq 1..3 BY DEF Named
<1>1. CASE e.suite = "Aes256Gcm"
  <2>1. e.len = 30 /\ e.at[12] = 1 BY <1>1, SMT DEF WellMade, NonceLen, Code, TagLen
  <2>2. 1 \in Named(e) BY <2>1, SMT DEF Named, Names, Order, NonceLen, Header, Code
  <2>3. Order[1] = e.suite BY <1>1 DEF Order
  <2>4. e.len - Header(e.suite) >= TagLen BY <2>1, <1>1, SMT DEF Header, NonceLen, TagLen
  <2>5. ASSUME NEW i \in Named(e), \A j \in Named(e) : i <= j PROVE i = 1
    BY <2>2, <2>5, <1>0, SMT
  <2> QED BY <2>2, <2>3, <2>4, <2>5, <1>1
<1>2. CASE e.suite = "XChaCha20Poly1305"
  <2>1. e.len = 42 /\ e.at[24] = 2 BY <1>2, SMT DEF WellMade, NonceLen, Code, TagLen
  <2>2. 2 \in Named(e) BY <2>1, SMT DEF Named, Names, Order, NonceLen, Header, Code
  <2>3. Order[2] = e.suite /\ Order[1] # e.suite BY <1>2 DEF Order
  <2>4. e.len - Header(e.suite) >= TagLen BY <2>1, <1>2, SMT DEF Header, NonceLen, TagLen
  <2>5. 1 \in Named(e) <=> e.at[12] = Code("Aes256Gcm")
    BY <2>1, SMT DEF Named, Names, Order, NonceLen, Header, Code
  <2>6. ASSUME NEW i \in Named(e), \A j \in Named(e) : i <= j
        PROVE  i = 1 \/ (i = 2 /\ 1 \notin Named(e))
    BY <2>2, <2>6, <1>0, SMT
  <2> QED BY <2>2, <2>3, <2>4, <2>5, <2>6, <1>2
<1> QED BY <1>1, <1>2 DEF WellMade

(* decrypt keeps it: the answer is what the first suite named says.        *)
LEMMA DecryptKeeps ==
  ASSUME MessageKeyAssumption, IInv,
         NEW e \in stored, NEW m \in Machines, NEW x \in Contexts, Decrypt(e, m, x)
  PROVE  IInv'
<1>0. e \in Message /\ WellMade(e) /\ stored' = stored BY DEF IInv, TypeOK, Decrypt
<1>1. PICK o \in Outcome :
        /\ answer' = [message |-> e, machine |-> m, context |-> x, outcome |-> o]
        /\ \/ Named(e) = {} /\ o.kind = "unauthenticated"
           \/ \E i \in Named(e) : /\ \A j \in Named(e) : i <= j
                                  /\ o = Open(e, Order[i], m, x)
  <2>1. CASE Named(e) = {}
    <3>1. [kind |-> "unauthenticated"] \in Outcome BY DEF Outcome
    <3> QED BY <2>1, <3>1 DEF Decrypt
  <2>2. CASE Named(e) # {}
    <3>1. PICK i \in Named(e) :
            /\ \A j \in Named(e) : i <= j
            /\ answer' = [message |-> e, machine |-> m, context |-> x,
                          outcome |-> Open(e, Order[i], m, x)]
      BY <2>2 DEF Decrypt
    <3>2. Order[i] \in Suites BY DEF Named, Order, Suites
    <3>3. Open(e, Order[i], m, x) \in Outcome BY <3>2, <1>0, OpenGivesGenuine
    <3> QED BY <3>1, <3>3
  <2> QED BY <2>1, <2>2
<1>2. TypeOK' BY <1>0, <1>1 DEF TypeOK, IInv
<1>3. answer'.message = e /\ answer'.context = x /\ answer'.machine = m /\ answer'.outcome = o
  BY <1>1
<1>4. ASSUME o.kind = "ok" PROVE e.intact /\ x = e.context /\ o.plaintext = e.plaintext
  <2>1. PICK i \in Named(e) : o = Open(e, Order[i], m, x) BY <1>1, <1>4
  <2>2. Order[i] \in Suites BY DEF Named, Order, Suites
  <2> QED BY <2>1, <2>2, <1>0, <1>4, OpenGivesGenuine DEF Genuine
<1>5. OpensOnlyGenuine' BY <1>3, <1>4 DEF OpensOnlyGenuine
<1>6. ASSUME e.intact, x = e.context, IsAvailable(e.suite, m)
      PROVE  o.kind = "ok" <=>
               ~ (e.suite = "XChaCha20Poly1305" /\ e.at[12] = Code("Aes256Gcm"))
  <2>1. Named(e) # {} /\ e.len - Header(e.suite) >= TagLen BY <1>0, <1>6, FirstNamed
  <2>2. PICK i \in Named(e) : (\A j \in Named(e) : i <= j) /\ o = Open(e, Order[i], m, x)
    BY <1>1, <2>1
  <2>3. Order[i] \in Suites BY DEF Named, Order, Suites
  <2>4. Order[i] = e.suite
          <=> ~ (e.suite = "XChaCha20Poly1305" /\ e.at[12] = Code("Aes256Gcm"))
    BY <1>0, <1>6, <2>2, FirstNamed
  <2>5. o.kind = "ok" => Order[i] = e.suite
    BY <2>2, <2>3, <1>0, OpenGivesGenuine DEF Genuine
  <2>6. ASSUME Order[i] = e.suite PROVE o.kind = "ok"
    <3>1. e.len \in Nat /\ Header(e.suite) \in Nat
      BY <1>0, SMT DEF Message, Header, NonceLen
    <3>2. ~ (e.len - Header(e.suite) < TagLen) BY <2>1, <3>1, SMT DEF TagLen
    <3> QED BY <3>2, <2>2, <2>6, <1>6 DEF Open, Genuine
  <2> QED BY <2>4, <2>5, <2>6
<1>7. OpensUnlessNonceClashes' BY <1>3, <1>6 DEF OpensUnlessNonceClashes
<1>8. (\A d \in stored : WellMade(d))' BY <1>0 DEF IInv, WellMade
<1> QED BY <1>2, <1>5, <1>7, <1>8 DEF IInv

-----------------------------------------------------------------------------
(* The three invariants of the message key, with how messages are made.    *)
THEOREM Invariance == Spec => []IInv
<1> USE MessageKeyAssumption
<1>1. Init => IInv
  BY DEF Init, IInv, TypeOK, OpensOnlyGenuine, OpensUnlessNonceClashes
<1>2. IInv /\ [Next]_vars => IInv'
  <2> SUFFICES ASSUME IInv, [Next]_vars PROVE IInv' OBVIOUS
  <2>1. CASE \E m \in Machines, x \in Contexts, p \in Plaintexts, b \in Bytes :
               Encrypt(m, x, p, b)
    BY <2>1, EncryptKeeps
  <2>2. CASE \E e \in stored, n \in Lengths, b \in Bytes, c \in Bytes : Damage(e, n, b, c)
    BY <2>2, DamageKeeps
  <2>3. CASE \E e \in stored, m \in Machines, x \in Contexts : Decrypt(e, m, x)
    BY <2>3, DecryptKeeps
  <2>4. CASE UNCHANGED vars
    BY <2>4 DEF vars, IInv, TypeOK, OpensOnlyGenuine, OpensUnlessNonceClashes, WellMade
  <2> QED BY <2>1, <2>2, <2>3, <2>4 DEF Next
<1> QED BY <1>1, <1>2, PTL DEF Spec

(* decrypt's outcome is one of the three that key.rs:70 onwards describes. *)
THEOREM TypeCorrect == Spec => []TypeOK
BY Invariance, PTL DEF IInv

(* What decrypt opens was encrypted under this context and is undamaged.   *)
THEOREM OnlyGenuine == Spec => []OpensOnlyGenuine
BY Invariance, PTL DEF IInv

(* The nonce byte is the only reason for an undamaged message not to open. *)
THEOREM OnlyClashesFail == Spec => []OpensUnlessNonceClashes
BY Invariance, PTL DEF IInv
=============================================================================

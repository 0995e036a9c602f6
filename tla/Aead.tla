-------------------------------- MODULE Aead --------------------------------
(***************************************************************************)
(* blindplane-crypto's AEAD front and its three suites: a message sealed   *)
(* in place on one machine, carried with its tag, and opened in place on   *)
(* another.  AES-256-GCM fuses counter mode with GHASH in passes of eight  *)
(* blocks, four, one and a tail; ChaCha20-Poly1305 fuses 512-byte chunks;  *)
(* XChaCha20-Poly1305 splits its nonce first.                              *)
(*                                                                         *)
(* Buffers are cut in words of four bytes.  A word is the set of what was  *)
(* XORed into it: a word of the text, words of the keystream.  The tag is  *)
(* free: the key stream's name and the transcript it authenticates.        *)
(***************************************************************************)
EXTENDS KeystreamPaths

CONSTANTS
  Suites, Builds,     (* "portable" and "vector" ChaCha20                   *)
  TextLens, AdLens,   (* lengths in words                                   *)
  Changes,            (* what may happen to a message on the way            *)
  NoResult

VARIABLES
  suite, sealer, opener,   (* the machines: [build, aes]                    *)
  ad, buffer, nonce, nonce_ok,
  phase, offset, counter, transcript, tag,
  change,                  (* what happened on the way                      *)
  result

setting == <<suite, sealer, opener>>
vars == <<setting, ad, buffer, nonce, nonce_ok, phase, offset, counter, transcript, tag, change, result>>

Machines == [build: Builds, aes: BOOLEAN]
Gcm      == "aes256gcm"

Text(n)      == [i \in 1..n |-> {<<"text", i>>}]
AssocData(n) == [i \in 1..n |-> {<<"ad", i>>}]

Toggle(a, b) == (a \ b) \cup (b \ a)

(* Key and nonce of the stream: XChaCha20 derives a subkey from the first  *)
(* part of its nonce and keeps the rest.                                   *)
StreamOf(s, n) ==
  IF s = "xchacha20poly1305" THEN [key |-> <<"subkey", n[1]>>, nonce |-> n[2]]
                             ELSE [key |-> <<"key">>, nonce |-> n]

Init ==
  /\ suite \in Suites /\ sealer \in Machines /\ opener \in Machines
  /\ \E n \in AdLens : ad = AssocData(n)
  /\ \E n \in TextLens : buffer = Text(n)
  /\ nonce = <<0, 0>> /\ nonce_ok \in BOOLEAN
  /\ phase = "seal" /\ offset = 0 /\ counter = 0
  /\ transcript = <<>> /\ tag = <<>> /\ change = "none" /\ result = NoResult

Available(machine) == suite = Gcm => machine.aes

(* XOR keys into the words after offset.                                   *)
XorAt(b, at, stream, keys) ==
  [i \in 1..Len(b) |-> IF i - at \in 1..Len(keys)
                       THEN Toggle(b[i], {<<"key", stream, keys[i - at]>>}) ELSE b[i]]

Padded(s, block) == s \o [i \in 1..(block - (Len(s) % block)) % block |-> {}]

(* Mutant: the lengths are left out.                                       *)
ClosedUnmeasured(data, ad_len, len) == Padded(data, 4)

(* GHASH and Poly1305 see the same transcript, in blocks of four words.    *)
Closed(data, ad_len, len) == Padded(data, 4) \o <<{<<"lengths", ad_len, len>>}>>
TagOf(stream, t) == <<stream, t>>

-----------------------------------------------------------------------------
(* Sealing.                                                                *)
SealRefuse ==
  /\ phase = "seal" /\ (~nonce_ok \/ ~Available(sealer))
  /\ result' = "Unsupported" /\ phase' = "done"
  /\ UNCHANGED <<setting, ad, buffer, nonce, nonce_ok, offset, counter, transcript, tag, change>>

SealStart ==
  /\ phase = "seal" /\ nonce_ok /\ Available(sealer)
  /\ counter' = IF suite = Gcm THEN 2 ELSE 1
  /\ transcript' = Padded(ad, 4) /\ phase' = "sealing"
  /\ UNCHANGED <<setting, ad, buffer, nonce, nonce_ok, offset, tag, change, result>>

Remaining == Len(buffer) - offset

(* XOR the keystream into the next words and authenticate what results.    *)
Fuse(keys, next) ==
  /\ buffer' = XorAt(buffer, offset, StreamOf(suite, nonce), keys)
  /\ transcript' = transcript \o SubSeq(buffer', offset + 1, offset + Len(keys))
  /\ offset' = offset + Len(keys)
  /\ counter' = next
  /\ UNCHANGED <<setting, ad, nonce, nonce_ok, phase, tag, change, result>>

(* The counter blocks of a group, four words each.  The sums in a group    *)
(* wrap in a release build; one with overflow checks panics there.         *)
CounterKeys(c, words) == [i \in 1..words |-> << WrappingAdd(c, (i - 1) \div 4), (i - 1) % 4 >>]

(* Mutant: a pass of eight blocks counts four.                             *)
GcmGroupShort(blocks) ==
  /\ phase = "sealing" /\ suite = Gcm /\ Remaining >= 4 * blocks
  /\ \A larger \in {4, 8} : larger > blocks => Remaining < 4 * larger
  /\ Fuse(CounterKeys(counter, 4 * blocks), WrappingAdd(counter, IF blocks = 8 THEN 4 ELSE blocks))

(* A pass of eight blocks while they fit, then of four, then of one.       *)
GcmGroup(blocks) ==
  /\ phase = "sealing" /\ suite = Gcm /\ Remaining >= 4 * blocks
  /\ \A larger \in {4, 8} : larger > blocks => Remaining < 4 * larger
  /\ Fuse(CounterKeys(counter, 4 * blocks), WrappingAdd(counter, blocks))

GcmTail ==
  /\ phase = "sealing" /\ suite = Gcm /\ Remaining \in 1..3
  /\ Fuse(CounterKeys(counter, Remaining), counter)

Applied(build, c, n) == IF build = "vector" THEN Vector(c, n) ELSE Portable(c, n)

ChaChaChunk ==
  LET n == IF Remaining < 128 THEN Remaining ELSE 128
      k == Applied(sealer.build, counter, n)
  IN  /\ phase = "sealing" /\ suite # Gcm /\ Remaining > 0
      /\ Fuse(k.keys, k.counter)

SealFinish ==
  /\ phase = "sealing" /\ Remaining = 0
  /\ transcript' = Closed(transcript, Len(ad), Len(buffer))
  /\ tag' = TagOf(StreamOf(suite, nonce), transcript')
  /\ phase' = "sealed"
  /\ UNCHANGED <<setting, ad, buffer, nonce, nonce_ok, offset, counter, change, result>>

-----------------------------------------------------------------------------
(* What may happen to a sealed message before it is opened.                *)
Carried(c) ==
  /\ phase = "sealed" /\ change' = c /\ phase' = "open"
  /\ c \in {"boundary"} => ad # <<>>
  /\ c \in {"truncated", "altered"} => buffer # <<>>
  /\ buffer' = CASE c = "altered"   -> [buffer EXCEPT ![1] = Toggle(@, {<<"noise">>})]
                 [] c = "truncated" -> SubSeq(buffer, 1, Len(buffer) - 1)
                 [] c = "extended"  -> Append(buffer, {})
                 [] c = "boundary"  -> <<ad[Len(ad)]>> \o buffer
                 [] OTHER -> buffer
  /\ ad'  = IF c = "boundary" THEN SubSeq(ad, 1, Len(ad) - 1)
            ELSE IF c = "extended_ad" THEN Append(ad, {}) ELSE ad
  /\ tag' = IF c = "other_tag" THEN <<"noise">> ELSE tag
  /\ nonce' = CASE c = "other_prefix" -> <<1, nonce[2]>>
                [] c = "other_suffix" -> <<nonce[1], 1>>
                [] OTHER -> nonce
  /\ nonce_ok' = (c # "short_nonce")
  /\ UNCHANGED <<setting, offset, counter, transcript, result>>

-----------------------------------------------------------------------------
(* Opening.                                                                *)
OpenReturn(r, b) ==
  /\ result' = r /\ buffer' = b /\ phase' = "done"
  /\ UNCHANGED <<setting, ad, nonce, nonce_ok, offset, counter, transcript, tag, change>>

(* The early returns leave the buffer alone.                               *)
OpenWrongNonce  == phase = "open" /\ ~nonce_ok /\ OpenReturn("Unauthenticated", buffer)
OpenUnsupported ==
  phase = "open" /\ nonce_ok /\ ~Available(opener) /\ OpenReturn("Unsupported", buffer)

Expected ==
  TagOf(StreamOf(suite, nonce),
        Closed(Padded(ad, 4) \o buffer, Len(ad), Len(buffer)))

Erased(b) == [i \in 1..Len(b) |-> {}]

(* apply_ctr from counter 2, or one call of the generator from counter 1.  *)
Decrypted ==
  XorAt(buffer, 0, StreamOf(suite, nonce),
        IF suite = Gcm THEN CounterKeys(2, Len(buffer))
        ELSE Applied(opener.build, 1, Len(buffer)).keys)

OpenVerified ==
  /\ phase = "open" /\ nonce_ok /\ Available(opener)
  /\ IF Expected = tag THEN OpenReturn("Ok", Decrypted)
                       ELSE OpenReturn("Unauthenticated", Erased(buffer))

Next ==
  \/ SealRefuse \/ SealStart \/ GcmTail \/ ChaChaChunk \/ SealFinish
  \/ \E blocks \in {1, 4, 8} : GcmGroup(blocks)
  \/ \E c \in Changes : Carried(c)
  \/ OpenWrongNonce \/ OpenUnsupported \/ OpenVerified

Spec == Init /\ [][Next]_vars

-----------------------------------------------------------------------------
(* A message is opened if and only if it was sealed like that, and then to *)
(* its text, whatever the two machines' keystream paths are.               *)
OpensWhatWasSealed ==
  (phase = "done" /\ change # "none" /\ nonce_ok /\ Available(opener)) =>
    IF change = "carried"
    THEN result = "Ok" /\ buffer = Text(Len(buffer))
    ELSE result = "Unauthenticated"

(* No word of a buffer that failed to open holds text.                     *)
NoUnverifiedText ==
  (phase = "done" /\ change # "none" /\ result # "Ok") =>
    \A i \in DOMAIN buffer : \A n \in TextLens : ~ \E k \in 1..n : buffer[i] = {<<"text", k>>}

(* Two words of a message take the same word of the keystream exactly when *)
(* whole turns of the counter lie between them, and a word takes one of    *)
(* the block that makes the authentication key or mask exactly in the last *)
(* block of a turn.  So nothing is used twice below CounterSize blocks,    *)
(* and nothing keeps a longer message, which seal takes, from it.          *)
KeystreamPeriod ==
  phase = "sealed" =>
    LET reserved == IF suite = Gcm THEN 1 ELSE 0
        words    == IF suite = Gcm THEN 4 ELSE Words
        taken    == [i \in DOMAIN buffer |-> buffer[i] \ {<<"text", i>>}]
    IN  /\ \A i, j \in DOMAIN buffer :
             i < j => (taken[i] = taken[j] <=> (j - i) % (words * CounterSize) = 0)
        /\ \A i \in DOMAIN buffer : \A k \in buffer[i] :
             k[1] = "key" => (k[3][1] = reserved <=> ((i - 1) \div words + 1) % CounterSize = 0)

(* aead/mod.rs:141: "On failure the buffer is zeroed rather than left      *)
(* holding a partially decrypted message."                                 *)
ErasedOnFailure ==
  (phase = "done" /\ change # "none" /\ result # "Ok") => buffer = Erased(buffer)
=============================================================================

-------------------------------- MODULE Hkdf --------------------------------
(***************************************************************************)
(* blindplane-crypto's kdf: HMAC over a hash of BlockLen-byte blocks, and  *)
(* hkdf, which extracts a key from salt and input and expands it block by  *)
(* block into the caller's buffer.  The counter that separates the blocks  *)
(* is one byte, and the output is limited so that it does not come round.  *)
(*                                                                         *)
(* A byte is a tuple that starts with its kind.  The hash is free: a byte  *)
(* of a digest is named by what was hashed and its place.                  *)
(***************************************************************************)
EXTENDS Integers, Sequences

CONSTANTS
  BlockLen, HashLen, (* 64 and 32 bytes, or 128 and 64                      *)
  CounterSpan,       (* 256: the values the counter can take                *)
  SaltLens, InfoLens, OutputLens

VARIABLES
  salt, info,        (* the caller's                                        *)
  okm,               (* the caller's buffer                                 *)
  prk,               (* extracted key, empty before extract                 *)
  previous, counter, written,
  returned           (* "" until hkdf returns                               *)

input == <<salt, info>>
vars  == <<input, okm, prk, previous, counter, written, returned>>

Zero       == <<"zero">>
Bytes(k,n) == [i \in 1..n |-> <<k, i>>]
Before(n)  == [i \in 1..n |-> <<"before">>]

Digest(message) == [i \in 1..HashLen |-> <<"sha", message, i>>]

(* The key, or the digest of a longer one, filled up with zeroes.          *)
KeyBlock(key) ==
  LET k == IF Len(key) > BlockLen THEN Digest(key) ELSE key
  IN  [i \in 1..BlockLen |-> IF i <= Len(k) THEN k[i] ELSE Zero]

Padded(pad, key) == LET block == KeyBlock(key) IN [i \in 1..BlockLen |-> <<pad, block[i]>>]

Mac(key, message) == Digest(Padded("opad", key) \o Digest(Padded("ipad", key) \o message))

-----------------------------------------------------------------------------
Init ==
  /\ \E n \in SaltLens : salt = Bytes("salt", n)
  /\ \E n \in InfoLens : info = Bytes("info", n)
  /\ \E n \in OutputLens : okm = Before(n)
  /\ prk = <<>> /\ previous = <<>> /\ counter = 0 /\ written = 0 /\ returned = ""

Limit == (CounterSpan - 1) * HashLen

HkdfExtract ==
  /\ prk = <<>>
  /\ prk' = Mac(salt, << <<"ikm">> >>)
  /\ UNCHANGED <<input, okm, previous, counter, written, returned>>

ExpandRefuse ==
  /\ prk # <<>> /\ returned = "" /\ counter = 0 /\ written = 0
  /\ Len(okm) > Limit
  /\ returned' = "false"
  /\ UNCHANGED <<input, okm, prk, previous, counter, written>>

ExpandStart ==
  /\ prk # <<>> /\ returned = "" /\ counter = 0 /\ written = 0
  /\ Len(okm) <= Limit
  /\ counter' = 1
  /\ IF Len(okm) = 0 THEN returned' = "true" ELSE UNCHANGED returned
  /\ UNCHANGED <<input, okm, prk, previous, written>>

(* One turn of the loop; the last one returns, its counter unused.         *)
ExpandBlock ==
  /\ returned = "" /\ (written > 0 \/ counter # 0) /\ written < Len(okm)
  /\ LET block == Mac(prk, previous \o info \o << <<"counter", counter>> >>)
         take  == IF HashLen < Len(okm) - written THEN HashLen ELSE Len(okm) - written
     IN  /\ okm' = [i \in 1..Len(okm) |-> IF i - written \in 1..take THEN block[i - written] ELSE okm[i]]
         /\ previous' = block
         /\ written' = written + take
  /\ counter' = (counter + 1) % CounterSpan
  /\ returned' = IF written' = Len(okm) THEN "true" ELSE ""
  /\ UNCHANGED <<input, prk>>

Next == HkdfExtract \/ ExpandRefuse \/ ExpandStart \/ ExpandBlock

Spec == Init /\ [][Next]_vars

-----------------------------------------------------------------------------
(* RFC 5869 as the crate's documentation names it: block n is the MAC of   *)
(* block n - 1, the info and n, for n up to 255, under the key extracted   *)
(* with a salt that is padded to a block, or hashed when it is longer.     *)
RefKey == LET s == IF Len(salt) <= BlockLen THEN salt ELSE Digest(salt)
          IN  s \o [i \in 1..(BlockLen - Len(s)) |-> Zero]
RefMac(block, message) ==
  LET inner == Digest([i \in DOMAIN block |-> <<"ipad", block[i]>>] \o message)
  IN  Digest([i \in DOMAIN block |-> <<"opad", block[i]>>] \o inner)
RefPrk == RefMac(RefKey, << <<"ikm">> >>)
Fill(k) == k \o [i \in 1..(BlockLen - Len(k)) |-> Zero]
RefBlocks ==
  LET T[n \in 0..(CounterSpan - 1)] ==
        IF n = 0 THEN <<>> ELSE RefMac(Fill(RefPrk), T[n - 1] \o info \o << <<"counter", n>> >>)
  IN  T

(* What was written so far is the output of RFC 5869 for this salt, info   *)
(* and length: the blocks are chained, numbered from one and cut at the    *)
(* end, and the last number of a full output is still one the counter has. *)
ExpandsAsSpecified ==
  LET blocks == (written + HashLen - 1) \div HashLen
      T == RefBlocks
  IN  /\ blocks < CounterSpan
      /\ \A i \in 1..written :
           okm[i] = T[((i - 1) \div HashLen) + 1][((i - 1) % HashLen) + 1]

(* Either all of the buffer is filled, or it is left untouched and false   *)
(* is returned, exactly when it is longer than 255 blocks.                 *)
AllOrNothing ==
  /\ returned = "true"  => \A i \in DOMAIN okm : okm[i] # <<"before">>
  /\ returned = "false" => okm = Before(Len(okm)) /\ Len(okm) > (CounterSpan - 1) * HashLen
=============================================================================

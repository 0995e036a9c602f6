------------------------------ MODULE MCSecrets ------------------------------
(***************************************************************************)
(* The primitives of blindplane-crypto that seal, derive and draw secrets, *)
(* on small instances: password hashing, the keystream, the AEADs, HKDF    *)
(* and rand; and, with a specification of their own, the streaming         *)
(* hashers.  Each state is one primitive at work, and unit says which.     *)
(* They share no state in the code and none here: s1, s2, .. are the       *)
(* variables of the one at work, among these or those of MCPrimitives.     *)
(* Rand is extended and keeps variables of its own.                        *)
(***************************************************************************)
EXTENDS Rand, Sequences

CONSTANTS
  NoResult,
  (* Passwords: the guesses, the releases' default costs and two bounds.    *)
  Guesses, Releases, MaxPasswordRows, MaxRowEdits,
  (* Keystreams: the counters, where generators start, the calls' lengths,  *)
  (* and the lengths of the AEADs' texts and associated data.               *)
  CounterSize, StreamStarts, StreamCalls, MaxStreamCalls, AeadTextLens, AeadAdLens,
  (* HKDF: bytes of a block and a hash, the counter's values, the lengths.  *)
  KdfBlock, KdfHash, KdfSpan, KdfSaltLens, KdfInfoLens, KdfOutputLens,
  (* Hashers: block and field lengths, the counter's values, the values of  *)
  (* a unit of Poly1305's input, its keys, messages and their length.       *)
  ShaAlgorithms, ShaBlockLens, ShaFieldLens, ShaLengthMod, ShaMaxLen,
  PolyByteOf, PolyKeys, PolyPatterns, PolyMaxLen,
  BlakeBlock, BlakeOutputLens, BlakeMaxLen

VARIABLES unit, s1, s2, s3, s4, s5, s6, s7, s8, s9, s10, s11, s12, s13, s14

slots  == <<s1, s2, s3, s4, s5, s6, s7, s8, s9, s10, s11, s12, s13, s14>>
bench  == <<unit, slots, vars>>

(* How many slots each takes.                                              *)
Takes == [ rand |-> 0, sha |-> 5, rounds |-> 9, poly1305 |-> 8, blake2b |-> 7, argon2id |-> 11,
           keystream |-> 6, mix |-> 5, ghash |-> 5, aead |-> 14, hkdf |-> 8, password |-> 5 ]

-----------------------------------------------------------------------------
(* Two parameters of a release, the second costlier.                       *)
MCReleases == << [memory |-> 64, passes |-> 1], [memory |-> 64, passes |-> 3] >>

(* Costs are such that Argon2id takes them.                                *)
ASSUME ReleasesAssumption ==
  /\ Releases \in Seq([memory : Nat, passes : Nat]) /\ Releases # <<>>
  /\ \A i \in DOMAIN Releases : Releases[i].memory >= 8 /\ Releases[i].passes > 0

Password == INSTANCE PasswordHash WITH
              Passwords <- Guesses, Costs <- Releases,
              MaxRows <- MaxPasswordRows, MaxEdits <- MaxRowEdits, NoAnswer <- NoResult,
              release <- s1, rows <- s2, edits <- s3, vaults <- s4, answer <- s5

-----------------------------------------------------------------------------
(* Generators start at counters; the run's calls end within a block, at    *)
(* its end, at the end of four and of eight and just behind.               *)
ASSUME StreamAssumption ==
  /\ CounterSize \in Nat /\ CounterSize > 2
  /\ StreamStarts \subseteq 0..(CounterSize - 1) /\ StreamCalls \subseteq Nat

Stream == INSTANCE Keystream WITH
            Starts <- StreamStarts, CallLens <- StreamCalls, MaxCalls <- MaxStreamCalls,
            start <- s1, counter <- s2, produced <- s3, vcounter <- s4, vproduced <- s5,
            calls <- s6

(* The run's texts and associated data end within a block of four words,   *)
(* at its end, past a group of eight, and past a turn of the counter:      *)
(* nothing in the code bounds a text.                                      *)
AeadBuilds   == {"portable", "vector"}
AeadSuites   == {"aes256gcm", "chacha20poly1305", "xchacha20poly1305"}
AeadChanges  == {"carried", "altered", "truncated", "extended", "extended_ad",
                 "boundary", "other_tag", "other_prefix", "other_suffix", "short_nonce"}

ASSUME TextsAssumption == AeadTextLens \cup AeadAdLens \subseteq Nat

Suites == INSTANCE Aead WITH
             Builds <- AeadBuilds, Suites <- AeadSuites,
             TextLens <- AeadTextLens, AdLens <- AeadAdLens, Changes <- AeadChanges,
             suite <- s1, sealer <- s2, opener <- s3, ad <- s4, buffer <- s5, nonce <- s6,
             nonce_ok <- s7, phase <- s8, offset <- s9, counter <- s10, transcript <- s11,
             tag <- s12, change <- s13, result <- s14

(* In the run hashes of two bytes, blocks of three, and a counter that     *)
(* comes round after three: one block more than expand gives is asked for. *)
ASSUME KdfAssumption ==
  /\ KdfBlock \in Nat /\ KdfHash \in 1..KdfBlock /\ KdfSpan \in Nat /\ KdfSpan > 1
  /\ KdfSaltLens \cup KdfInfoLens \cup KdfOutputLens \subseteq Nat

Kdf == INSTANCE Hkdf WITH
         BlockLen <- KdfBlock, HashLen <- KdfHash, CounterSpan <- KdfSpan,
         SaltLens <- KdfSaltLens, InfoLens <- KdfInfoLens, OutputLens <- KdfOutputLens,
         salt <- s1, info <- s2, okm <- s3, prk <- s4, previous <- s5, counter <- s6,
         written <- s7, returned <- s8

-----------------------------------------------------------------------------
(* The streaming hashers.                                                  *)
Sha == INSTANCE ShaBuffer WITH
         Algorithms <- ShaAlgorithms, BlockLen <- ShaBlockLens, FieldLen <- ShaFieldLens,
         LengthMod <- ShaLengthMod, MaxLen <- ShaMaxLen,
         algo <- s1, hasher <- s2, bits <- s3, pc <- s4, digest <- s5

Poly == INSTANCE Poly1305 WITH
          ByteOf <- PolyByteOf, Keys <- PolyKeys, Patterns <- PolyPatterns, MaxLen <- PolyMaxLen,
          key <- s1, pattern <- s2, message <- s3, sent <- s4, h <- s5,
          buffer <- s6, buffered <- s7, tag <- s8

Blake == INSTANCE Blake2b WITH
           Block <- BlakeBlock, OutputLens <- BlakeOutputLens, MaxLen <- BlakeMaxLen,
           outputLen <- s1, state <- s2, buffer <- s3, buffered <- s4, counter <- s5,
           todo <- s6, digest <- s7

(* Lengths fit their counters and fields, and a unit its words.            *)
ASSUME HashersAssumption == Sha!Sizes /\ Poly!Sizes /\ Blake!Sizes

hashers == <<unit, s1, s2, s3, s4, s5, s6, s7, s8>>

HashersInit ==
  \/ unit = "sha"      /\ Sha!Init
  \/ unit = "poly1305" /\ Poly!Init
  \/ unit = "blake2b"  /\ Blake!Init

HashersNext ==
  /\ \/ unit = "sha"      /\ Sha!Next
     \/ unit = "poly1305" /\ Poly!Next
     \/ unit = "blake2b"  /\ Blake!Next
  /\ UNCHANGED unit

HashersSpec == HashersInit /\ [][HashersNext]_hashers

-----------------------------------------------------------------------------
(* A slot the primitive at work does not take holds nothing.               *)
Empty(k, s)    == Takes[unit] < k => s = NoResult
Untouched(k, s) == Takes[unit] < k => UNCHANGED s

AllEmpty ==
  /\ Empty(1, s1) /\ Empty(2, s2) /\ Empty(3, s3) /\ Empty(4, s4) /\ Empty(5, s5)
  /\ Empty(6, s6) /\ Empty(7, s7) /\ Empty(8, s8) /\ Empty(9, s9) /\ Empty(10, s10)
  /\ Empty(11, s11) /\ Empty(12, s12) /\ Empty(13, s13) /\ Empty(14, s14)

RestUntouched ==
  /\ UNCHANGED unit /\ (unit # "rand" => UNCHANGED vars)
  /\ Untouched(1, s1) /\ Untouched(2, s2) /\ Untouched(3, s3) /\ Untouched(4, s4)
  /\ Untouched(5, s5) /\ Untouched(6, s6) /\ Untouched(7, s7) /\ Untouched(8, s8)
  /\ Untouched(9, s9) /\ Untouched(10, s10) /\ Untouched(11, s11) /\ Untouched(12, s12)
  /\ Untouched(13, s13) /\ Untouched(14, s14)

(* Rand while another is at work: a buffer of no bytes.                    *)
RandIdle ==
  unix = TRUE /\ buffer = <<>> /\ filled = 0 /\ phase = "chunks" /\ secret = "none"

RandStep == unit = "rand" /\ Next

SecretsInit ==
  /\ \/ unit = "rand"      /\ Init
     \/ unit = "password"  /\ Password!Init /\ RandIdle
     \/ unit = "keystream" /\ Stream!Init   /\ RandIdle
     \/ unit = "aead"      /\ Suites!Init   /\ RandIdle
     \/ unit = "hkdf"      /\ Kdf!Init      /\ RandIdle
  /\ AllEmpty

SecretsNext ==
  /\ \/ RandStep
     \/ unit = "password"  /\ Password!Next
     \/ unit = "keystream" /\ Stream!Next
     \/ unit = "aead"      /\ Suites!Next
     \/ unit = "hkdf"      /\ Kdf!Next
  /\ RestUntouched

SecretsSpec == SecretsInit /\ [][SecretsNext]_bench

-----------------------------------------------------------------------------
(* A message is opened if and only if it was sealed like that, and then to *)
(* its text, whatever the two machines' paths are; no word of a buffer     *)
(* that failed to authenticate holds text.                                 *)
OpensWhatWasSealed ==
  unit = "aead" => Suites!OpensWhatWasSealed /\ Suites!NoUnverifiedText

(* The words of a message, however long, repeat the keystream, or take the *)
(* block that is reserved, only by whole turns of the counter; and however *)
(* calls follow each other both builds of ChaCha20 resume at the next      *)
(* block.                                                                  *)
KeystreamRepeatsByTurns ==
  /\ [](unit = "aead" => Suites!KeystreamPeriod)
  /\ [][unit = "keystream" => Stream!BothResume \/ UNCHANGED Stream!vars]_bench

(* What is derived stays what it was: a stored row verifies its password   *)
(* and costs whatever the release's defaults, and an edited row restates   *)
(* one that was stored or verifies nothing; a vault key follows the        *)
(* defaults; HKDF fills all of the buffer with RFC 5869's output or leaves *)
(* it alone.                                                               *)
DerivationsAreStable ==
  /\ unit = "password" => /\ Password!StoredRowsKeepVerifying
                          /\ Password!EditsOnlyRestate /\ Password!VaultsFollowDefaults
  /\ unit = "hkdf" => Kdf!ExpandsAsSpecified /\ Kdf!AllOrNothing

(* However the bytes are cut into calls of update, with Poly1305's         *)
(* pad_to_block in between and BLAKE2b's last block held back to be        *)
(* flagged, each hasher returns what one call on all of them would: every  *)
(* step of it is a step of its OneShot.                                    *)
HashersImplementOneShot ==
  /\ unit = "sha"      => Sha!Hash!Init
  /\ unit = "poly1305" => Poly!Mac!Init
  /\ unit = "blake2b"  => Blake!Hash!Init
  /\ [][ /\ unit = "sha"      => Sha!Hash!Next   \/ UNCHANGED Sha!Hash!vars
         /\ unit = "poly1305" => Poly!Mac!Next   \/ UNCHANGED Poly!Mac!vars
         /\ unit = "blake2b"  => Blake!Hash!Next \/ UNCHANGED Blake!Hash!vars ]_hashers
=============================================================================

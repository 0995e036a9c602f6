---------------------------- MODULE MCOperations ----------------------------
(***************************************************************************)
(* The curve arithmetic of blindplane-crypto and what is built on it, and  *)
(* the HTTP adapter, on small instances: each state is one of them at      *)
(* work, and unit says which.  They share no state in the code and none    *)
(* here: s1, s2, .. are the variables of the one at work.  ScalarReduce is *)
(* extended and keeps variables of its own.  What theorems speak of is     *)
(* instantiated with constants; names beginning with MC are their values.  *)
(***************************************************************************)
EXTENDS ScalarReduce, Sequences

CONSTANTS
  Nothing,
  (* The field: limbs, numbers loaded and a bound, as in Field.             *)
  Radix, Fold, A24, LimbWord, Wide, Slack, Loads, MaxFieldOps,
  (* The ladder: bits of a secret, orders of the peers' points.             *)
  KeyBits, PeerOrders,
  (* Scalar multiplication: the words of a scalar, the windows of the key   *)
  (* and of the base point, the scalars of either.                          *)
  MulWordBits, MulWords, MulKeyWidths, MulBaseWidth, MulAs, MulBs,
  (* Signatures.                                                            *)
  Order, Signed, SecondHalves, Nonces, Challenges,
  (* HPKE: two parties, and the secrets of as many seals.                   *)
  Ciphers, HpkeSecrets, HpkeEphemerals, HpkeInputs,
  (* Envelopes: devices, the server's secret and records.                   *)
  DeviceIds, DeviceEpochs, DeviceSecrets, ServerSecret, RecordContexts,
  MaxKeypairs, MaxRecords,
  MCTexts, MCTokens   (* HttpTexts and HttpTokens, below                    *)

VARIABLES unit, s1, s2, s3, s4, s5, s6, s7, s8, s9, s10

slots == <<s1, s2, s3, s4, s5, s6, s7, s8, s9, s10>>
bench == <<unit, slots, vars>>

(* How many slots each takes.                                              *)
Takes == [ scalar |-> 0, field |-> 5, ladder |-> 7, mul |-> 10, point |-> 3, signature |-> 7,
           hpke |-> 2, envelopes |-> 5, http |-> 6 ]

-----------------------------------------------------------------------------
(* Words of three bits; 521 is a prime above 2^9 that needs both           *)
(* subtractions.                                                           *)
MCWides ==
  {k * L + d : k \in {i * 37 : i \in 0..869}, d \in {0, 1, L - 1}}
    \cup {W8 - 1, W8 - 2, W5 - 1, W5, 3 * L - 1, 3 * L}
MCEncodings == {0, 1, L - 1, L, L + 1, 2 * L - 1, 2 * L, 3 * L, W4 - 1}

(* Five limbs of six bits, modulo 2^30 - 3.                                *)
Top     == 64^5
Prime   == Top - 3
MCLoads == {0, 1, 2, Prime - 1, Prime, Prime + 1, Top - 1, Top + 5, Top \div 2, 357913941}

Limbs == INSTANCE Field WITH
           Word <- LimbWord, MaxOps <- MaxFieldOps, f <- s1, g <- s2, v <- s3, w <- s4, ops <- s5

Montgomery == INSTANCE Ladder WITH
                Bits <- KeyBits, Orders <- PeerOrders,
                secret <- s1, order <- s2, p2 <- s3, p3 <- s4, swap <- s5, i <- s6, shared <- s7

(* A peer's point has small order, or one that a large odd number divides: *)
(* on the curve and on its twist a prime above 2^252.                      *)
ASSUME LadderAssumption ==
  /\ KeyBits \in Nat /\ KeyBits > 4
  /\ \A o \in PeerOrders :
       /\ o \in Nat /\ o > 0
       /\ \/ 8 % o = 0
          \/ \E d \in 1..o : d % 2 = 1 /\ o % d = 0 /\ d >= Montgomery!Pow2[KeyBits - 4]

(* Two words of six bits; reduced scalars leave the top three bits free.   *)
MCMulAs == { 3 * k : k \in 0..170 } \cup {1, 31, 32, 511}
MCMulBs == {0, 31, 170, 341, 511}

Multiples == INSTANCE EdwardsMul WITH
               WordBits <- MulWordBits, Words <- MulWords,
               KeyWidths <- MulKeyWidths, BaseWidth <- MulBaseWidth, As <- MulAs, Bs <- MulBs,
               job <- s1, a <- s2, b <- s3, width <- s4, phase <- s5, naf <- s6, pos <- s7,
               carry <- s8, at <- s9, acc <- s10

(* A scalar is nibbles and has its top three bits free; a window, of at    *)
(* least two bits, reaches no further than the next word.                  *)
ASSUME MultiplesAssumption ==
  /\ MulWordBits \in Nat /\ MulWordBits >= 2 /\ MulWords \in Nat /\ MulWords >= 1
  /\ Multiples!Positions % 4 = 0
  /\ MulKeyWidths \subseteq 2..MulWordBits /\ MulBaseWidth \in 2..MulWordBits
  /\ MulAs \cup MulBs \subseteq 0..(Multiples!Pow2[Multiples!Positions - 3] - 1)

(* The curve -x^2 + y^2 = 1 + 3 x^2 y^2 modulo 29.                         *)
PointScales == {1, 5}

Points == INSTANCE EdwardsPoint WITH
            P <- 29, D <- 3, SqrtM1 <- 12, Encoded <- 32, Scales <- PointScales, Odd <- 4,
            acc <- s1, pt <- s2, read <- s3

(* A base point of order five, and second halves up to three times that.   *)
MCSecondHalves == {0, 1, 4, 5, 6, 9, 15}
MCNonces       == [seed \in 1..4 |-> [text \in 0..1 |-> (3 * seed + 2 * text + 1) % 5]]
MCChallenges   ==
  [r \in 0..40 |-> [pk \in 0..40 |-> [text \in 0..1 |-> (r + 3 * pk + 4 * text + 2) % 5]]]

Signing == INSTANCE Signatures WITH
             Q <- Order, Messages <- Signed, Ss <- SecondHalves,
             Nonce <- Nonces, Challenge <- Challenges,
             key <- s1, message <- s2, sig <- s3, genuine <- s4, free <- s5, prepared <- s6,
             viaPrepared <- s7

(* Of the order, a prime above two, no more than that it is odd is used.   *)
ASSUME SigningAssumption ==
  /\ Order \in Nat /\ Order % 2 = 1 /\ Order > 1
  /\ SecondHalves \subseteq Nat
  /\ Nonces \in [1..(Order - 1) -> [Signed -> 0..(Order - 1)]]
  /\ Challenges \in [0..(8 * Order) -> [0..(8 * Order) -> [Signed -> 0..(Order - 1)]]]

-----------------------------------------------------------------------------
(* Two parties, either of whom may be sender and recipient, and two seals. *)
MCHpkeEphemerals == <<"e1", "e2">>
MCHpkeInputs ==
  { [info |-> << <<"i1">> >>, aad |-> "x1"], [info |-> << <<"i2">> >>, aad |-> "x1"],
    [info |-> << <<"i1">> >>, aad |-> "x2"] }

Sealing == INSTANCE Hpke WITH
             Secrets <- HpkeSecrets, Ephemerals <- HpkeEphemerals, Suites <- Ciphers,
             Inputs <- HpkeInputs,
             NoAnswer <- Nothing, sealed <- s1, answer <- s2

(* Ephemeral secrets are drawn fresh; info strings are byte strings.       *)
ASSUME SealingAssumption ==
  /\ HpkeEphemerals \in Seq({ HpkeEphemerals[e] : e \in DOMAIN HpkeEphemerals })
  /\ \A d, e \in DOMAIN HpkeEphemerals : HpkeEphemerals[d] = HpkeEphemerals[e] => d = e
  /\ \A x \in HpkeInputs : /\ x = [info |-> x.info, aad |-> x.aad]
                           /\ x.info \in Seq({ x.info[d] : d \in DOMAIN x.info })

Wrapping == INSTANCE Envelopes WITH
              Ids <- DeviceIds, Epochs <- DeviceEpochs, Secrets <- DeviceSecrets,
              Contexts <- RecordContexts, Suites <- Ciphers,
              keypairs <- s1, pinned <- s2, recipients <- s3, records <- s4, answer <- s5

(* The server has no device's secret.                                      *)
ASSUME DevicesAssumption == ServerSecret \notin DeviceSecrets

(* Bytes of four bits, characters of three.  Each record is sent in base64 *)
(* and in groups cut at any place, so padding comes before the end; and    *)
(* with one character changed or left out.                                 *)
Codec == INSTANCE HttpAdapter WITH
           ByteBits <- 4, Tenants <- 1..2, MaxName <- 1, Versions <- 1..2, TokenLen <- 1,
           MaxRequests <- 3, Texts <- {}, TokenTexts <- {},
           stored <- s1, request <- s2, group <- s3, out <- s4, reply <- s5, served <- s6

Bodies == { <<t, v>> \o tail : t \in {1, 2}, v \in {1, 2}, tail \in { <<5>>, <<5, 9, 15>> } }
            \cup { <<1, 0, 5, 9>>, <<2, 0, 5, 9>>, <<1, 1, 5, 10>> }

Cut(b, k) == Codec!Base64Encode(SubSeq(b, 1, k)) \o Codec!Base64Encode(SubSeq(b, k + 1, Len(b)))

HttpTexts ==
  { Cut(b, k) : b \in Bodies, k \in 0..2 }
  \cup { [x EXCEPT ![i] = c] :
           x \in { Codec!Base64Encode(<<1, 1, 5>>), Codec!Base64Encode(<<1, 1, 5, 9, 15>>) },
           i \in {2, 4}, c \in {Codec!Pad, Codec!Foreign, 3} }
  \cup { Tail(Codec!Base64Encode(<<1, 1, 5>>)), <<>> }

Hex(v, u) == [value |-> v, upper |-> u]
HttpTokens ==
  { <<Hex(1, u), Hex(1, w)>> : u, w \in BOOLEAN }
  \cup { <<Hex(2, FALSE), Hex(1, FALSE)>>, <<Hex(1, FALSE)>>,
         <<Hex(Codec!Foreign, FALSE), Hex(1, FALSE)>> }

Http == INSTANCE HttpAdapter WITH
          ByteBits <- 4, Tenants <- 1..2, MaxName <- 1, Versions <- 1..2, TokenLen <- 1,
          MaxRequests <- 3, Texts <- MCTexts, TokenTexts <- MCTokens,
          stored <- s1, request <- s2, group <- s3, out <- s4, reply <- s5, served <- s6

-----------------------------------------------------------------------------
(* A slot the component at work does not take holds nothing.               *)
Empty(k, s)     == Takes[unit] < k => s = Nothing
Untouched(k, s) == Takes[unit] < k => UNCHANGED s

AllEmpty ==
  /\ Empty(1, s1) /\ Empty(2, s2) /\ Empty(3, s3) /\ Empty(4, s4) /\ Empty(5, s5)
  /\ Empty(6, s6) /\ Empty(7, s7) /\ Empty(8, s8) /\ Empty(9, s9) /\ Empty(10, s10)

RestUntouched ==
  /\ UNCHANGED unit /\ (unit # "scalar" => UNCHANGED vars)
  /\ Untouched(1, s1) /\ Untouched(2, s2) /\ Untouched(3, s3) /\ Untouched(4, s4)
  /\ Untouched(5, s5) /\ Untouched(6, s6) /\ Untouched(7, s7) /\ Untouched(8, s8)
  /\ Untouched(9, s9) /\ Untouched(10, s10)

(* The scalars while another is at work.                                   *)
ScalarsIdle == p = 0 /\ q = 0 /\ m = 0 /\ n = 0 /\ ops = 0

BenchInit ==
  /\ \/ unit = "scalar"    /\ Init
     \/ unit = "field"     /\ Limbs!Init      /\ ScalarsIdle
     \/ unit = "ladder"    /\ Montgomery!Init /\ ScalarsIdle
     \/ unit = "mul"       /\ Multiples!Init  /\ ScalarsIdle
     \/ unit = "point"     /\ Points!Init     /\ ScalarsIdle
     \/ unit = "signature" /\ Signing!Init    /\ ScalarsIdle
     \/ unit = "hpke"      /\ Sealing!Init    /\ ScalarsIdle
     \/ unit = "envelopes" /\ Wrapping!Init   /\ ScalarsIdle
     \/ unit = "http"      /\ Http!Init       /\ ScalarsIdle
  /\ AllEmpty

BenchNext ==
  /\ \/ unit = "scalar"    /\ Next
     \/ unit = "field"     /\ Limbs!Next
     \/ unit = "ladder"    /\ Montgomery!Next
     \/ unit = "mul"       /\ Multiples!Next
     \/ unit = "point"     /\ Points!Next
     \/ unit = "signature" /\ Signing!Next
     \/ unit = "hpke"      /\ Sealing!Next
     \/ unit = "envelopes" /\ Wrapping!Next
     \/ unit = "http"      /\ Http!Next
  /\ RestUntouched

BenchSpec == BenchInit /\ [][BenchNext]_bench

-----------------------------------------------------------------------------
(* field/mod.rs:30: "Limbs are kept below 2^52 after every public          *)
(* operation"; what one more operation computes fits the machine's words;  *)
(* and the registers stand for, and encode, the numbers computed.          *)
FieldIsExact ==
  unit = "field" => Limbs!LimbsBelow2to52 /\ Limbs!FitsMachine /\ Limbs!EncodesNumber

(* The ladder's two points differ by the peer's own after every rung, it   *)
(* ends at the clamped secret's multiple, and peers of small order and no  *)
(* others are refused.                                                     *)
LadderIsExact ==
  unit = "ladder" => /\ Montgomery!DifferenceIsThePoint
                     /\ Montgomery!ComputesMultiple /\ Montgomery!RefusesSmallOrder

(* Every way to multiply on the Edwards curve ends at the scalars'         *)
(* multiples with digits its table has.                                    *)
MultiplesAreExact == unit = "mul" => Multiples!EndsAtMultiple /\ Multiples!DigitsFitTables

(* All of it, for the run.                                                 *)
ArithmeticIsExact == FieldIsExact /\ LadderIsExact /\ MultiplesAreExact

(* Whatever formulas are mixed, coordinates stand for the sum of points,   *)
(* points have one encoding, small order is told, and the tables hold the  *)
(* odd multiples.                                                          *)
PointsAreExact ==
  unit = "point" => /\ Points!RepresentsSum /\ Points!OneEncodingPerPoint
                    /\ Points!SmallOrderIsExact /\ Points!TableHoldsOddMultiples

(* What sign made verifies, the prepared key accepts and rejects what the  *)
(* free function does, and with its R an accepted signature is the only    *)
(* one for its message.                                                    *)
OneVerdictPerSignature ==
  unit = "signature" => Signing!GenuineVerifies /\ Signing!WaysAgree /\ Signing!OneSForR

(* An HPKE payload opens exactly for its recipient, sender, info,          *)
(* associated data and suite, and no two share an AEAD key.  What a device *)
(* opens comes whole from one record sealed to it in its context; a key    *)
(* the server puts in a reader's place gets no envelope.                   *)
OpensForItsPartiesOnly ==
  /\ unit = "hpke" => Sealing!OpensAsSealed /\ Sealing!KeysAreFresh
  /\ unit = "envelopes" =>
       /\ Wrapping!ReadsOnlyItsRecords /\ Wrapping!OnlyPinnedKeysGetEnvelopes
       /\ Wrapping!EnvelopeStaysInContext

(* A text that is the base64 of a byte string decodes to it, and a reply   *)
(* carries the base64 of what is stored.  A search finds what is stored    *)
(* under its token in either case of letters; an error status means that   *)
(* nothing changed, success that the record is stored under the tenant of  *)
(* the route.                                                              *)
RoutesTellTheEffect ==
  /\ [](unit = "http" => Http!DecodesBase64 /\ Http!RepliesCarryRecords)
  /\ [][unit = "http" => Http!FindsByAnySpelling /\ Http!TellsTheEffect]_bench
=============================================================================

---------------------------- MODULE MCPrimitives ----------------------------
(***************************************************************************)
(* The primitives of blindplane-crypto on small instances: beside those of *)
(* MCSecrets SHA-2's rounds, GHASH, the mixes and Argon2id; and small      *)
(* values for the hashers.                                                 *)
(***************************************************************************)
EXTENDS MCSecrets

CONSTANT InvalidParams

-----------------------------------------------------------------------------
(* Blocks of 6 and 8 bytes with length fields of 2 and 3, and messages of  *)
(* up to two and a half blocks in any pieces.                              *)
BlockLens == [sha256 |-> 6, sha512 |-> 8]
FieldLens == [sha256 |-> 2, sha512 |-> 3]

(* Words of four bits.  The bits of a word are the places of its ones, and *)
(* the sigma functions rotate and shift by scaled amounts.                 *)
Word4       == 0..15
Bit(x, i)   == (x \div 2 ^ i) % 2
FromBits(b) == b[0] + 2 * b[1] + 4 * b[2] + 8 * b[3]
Rotr(x, n)  == FromBits([i \in 0..3 |-> Bit(x, (i + n) % 4)])
Xor3(x, y, z) ==
  FromBits([i \in 0..3 |-> (Bit(x, i) + Bit(y, i) + Bit(z, i)) % 2])

Big0   == [x \in Word4 |-> Xor3(Rotr(x, 1), Rotr(x, 2), x)]
Big1   == [x \in Word4 |-> Xor3(Rotr(x, 3), Rotr(x, 1), x)]
Small0 == [x \in Word4 |-> Xor3(Rotr(x, 1), x, x \div 2)]
Small1 == [x \in Word4 |-> Xor3(Rotr(x, 2), x, x \div 4)]
Choice == [t \in Word4 \X Word4 \X Word4 |->
             FromBits([i \in 0..3 |-> IF Bit(t[1], i) = 1 THEN Bit(t[2], i) ELSE Bit(t[3], i)])]
Majority == [t \in Word4 \X Word4 \X Word4 |->
               FromBits([i \in 0..3 |-> IF Bit(t[1], i) + Bit(t[2], i) + Bit(t[3], i) >= 2
                                        THEN 1 ELSE 0])]
RoundConstants == [i \in 0..79 |-> (7 * i + 3 + (i \div 5)) % 16]
RoundInputs ==
  { [blocks |-> [k \in 0..1 |-> [i \in 0..15 |-> (a * i * i + (b + k) * i + 1) % 16]],
     state |-> [i \in 0..7 |-> (b * i + a) % 16]] : a \in {0, 3, 7}, b \in {1, 6, 10} }

Rounds == INSTANCE ShaRounds WITH
            Size <- 16, K <- RoundConstants, BigSigma0 <- Big0, BigSigma1 <- Big1,
            SmallSigma0 <- Small0, SmallSigma1 <- Small1, Ch <- Choice, Maj <- Majority,
            Inputs <- RoundInputs,
            algo <- s1, input <- s2, block <- s3, saved <- s4, w <- s5, regs <- s6,
            vregs <- s7, msg <- s8, step <- s9

-----------------------------------------------------------------------------
(* Keys with small, large and mixed halves, and messages of low and high   *)
(* bytes, so that the accumulator passes p before and at the end.          *)
PolyLen    == 9
MCPolyKeys == { [r0 |-> a, r1 |-> b, pad |-> c] : a \in {0, 7, 15}, b \in {0, 12}, c \in {65535} }
MCPolyPatterns == { [i \in 1..PolyLen |-> (a + b * i * i) % 16] : a \in {0, 15}, b \in {0, 5} }

(* Memory sizes below the limit, above it and rounded down, so that a      *)
(* segment crosses an address block of four words; the output lengths at   *)
(* which the chain of H' gains a digest.                                   *)
ArgonMemories  == {4, 8, 13, 27}
ArgonPasses    == {0, 1, 3}
ArgonOutputs   == {3, 64, 65, 97, 161}
ArgonPasswords == {<<>>, <<1>>}
ArgonSalts     == {<<1>>, <<1, 1>>}

Argon == INSTANCE Argon2id WITH
           Memories <- ArgonMemories, PassCounts <- ArgonPasses,
           OutputLens <- ArgonOutputs, Passwords <- ArgonPasswords,
           Salts <- ArgonSalts, QWORDS <- 4, MinSalt <- 2, HalfRange <- 8,
           params <- s1, h0 <- s2, pass <- s3, slice <- s4, index <- s5, written <- s6,
           address <- s7, step <- s8, chained <- s9, out <- s10, result <- s11

-----------------------------------------------------------------------------
(* The inputs of the source's tests, with what the tests expect: RFC       *)
(* 8439's keystream, the XChaCha draft's subkey and BLAKE2b of "abc"; and  *)
(* two inputs without a vector for Argon2's permutation.                   *)
Terms == INSTANCE MixRounds WITH
           Inputs <- {}, Expected <- <<>>,
           input <- s1, v <- s2, half <- s3, todo <- s4, out <- s5

TestKey    == [i \in 1..32 |-> i - 1]
TestNonce  == <<0, 0, 0, 0,  0, 0, 0, 74,  0, 0, 0, 0>>
TestXNonce == <<0, 0, 0, 9,  0, 0, 0, 74,  0, 0, 0, 0,  49, 65, 89, 39>>
Abc        == [i \in 0..15 |-> IF i = 0 THEN <<97, 98, 99, 0, 0, 0, 0, 0>> ELSE [k \in 1..8 |-> 0]]
Three      == <<3, 0, 0, 0, 0, 0, 0, 0>>
Window(a)  == [i \in 0..15 |-> [k \in 1..8 |-> (a * i * k + 31 * k + i) % 256]]

Mixed(algo, start) == [algo |-> algo, start |-> start, message |-> Abc]

MixInputs ==
  { Mixed(algo, Terms!ChaCha(TestKey, <<1, 0, 0, 0>>, TestNonce)) : algo \in {"chacha20", "neon"} }
    \cup { Mixed("hchacha20", Terms!HChaCha(TestKey, TestXNonce)),
           Mixed("blake2b", Terms!Compress(Terms!BlakeNew(64), Three, TRUE)) }
    \cup { Mixed("permute", Window(a)) : a \in {5, 251} }

(* A test compares the first sixteen bytes of a ciphertext: its text       *)
(* begins "Ladies and Gentl".                                              *)
Plain  == <<76, 97, 100, 105,  101, 115, 32, 97,  110, 100, 32, 71,  101, 110, 116, 108>>
Cipher == <<110, 46, 53, 154,  37, 104, 249, 128,  65, 186, 7, 40,  221, 13, 105, 129>>
Subkey == << 130, 65, 59, 66,  39, 178, 123, 254,  211, 14, 66, 80,  138, 135, 125, 115,
             160, 249, 228, 213,  138, 116, 168, 83,  193, 46, 196, 19,  38, 211, 236, 220 >>
Digest == << 186, 128, 165, 63, 152, 28, 77, 13,     106, 39, 151, 182, 159, 18, 246, 233,
             76, 33, 47, 20, 104, 90, 196, 183,      75, 18, 187, 111, 219, 255, 162, 209,
             125, 135, 197, 57, 42, 171, 121, 45,    194, 82, 213, 222, 69, 51, 204, 149,
             24, 211, 138, 168, 219, 241, 146, 90,   185, 35, 134, 237, 212, 0, 153, 35 >>

FromZero(f, count) == [i \in 1..count |-> f[i - 1]]

MixExpected == [i \in MixInputs |->
  CASE i.algo \in {"chacha20", "neon"} -> FromZero(Terms!WordsOf(Terms!Xor(Plain, Cipher), 4), 4)
    [] i.algo = "hchacha20" -> FromZero(Terms!WordsOf(Subkey, 4), 8)
    [] i.algo = "blake2b"   -> FromZero(Terms!WordsOf(Digest, 8), 8)
    [] i.algo = "permute"   -> <<>>]

Mix == INSTANCE MixRounds WITH
         Inputs <- MixInputs, Expected <- MixExpected,
         input <- s1, v <- s2, half <- s3, todo <- s4, out <- s5

-----------------------------------------------------------------------------
(* Polynomials of degree below six; messages of groups of eight, of four   *)
(* and of single blocks.                                                   *)
HashKeys  == {1, 2, 29, 37, 50, 63}
HashSeeds == {3, 21, 58}

Hash == INSTANCE Ghash WITH
          Half <- 3, Fold <- 9, Keys <- HashKeys, Seeds <- HashSeeds,
          MaxBlocks <- 17,
          h <- s1, seed <- s2, powers <- s3, acc <- s4, log <- s5

-----------------------------------------------------------------------------
BenchInit ==
  \/ SecretsInit
  \/ /\ \/ HashersInit
        \/ unit = "rounds"   /\ Rounds!Init
        \/ unit = "argon2id" /\ Argon!Init
        \/ unit = "mix"      /\ Mix!Init
        \/ unit = "ghash"    /\ Hash!Init
     /\ RandIdle /\ AllEmpty

ArgonStep == unit = "argon2id" /\ Argon!Next

BenchNext ==
  \/ SecretsNext
  \/ /\ \/ HashersNext \/ ArgonStep
        \/ unit = "rounds"   /\ Rounds!Next
        \/ unit = "mix"      /\ Mix!Next
        \/ unit = "ghash"    /\ Hash!Next
     /\ RestUntouched

(* The fairness of ShaBuffer, Argon2id and Rand: a call that was begun     *)
(* goes on.                                                                *)
BenchSpec ==
  /\ BenchInit /\ [][BenchNext]_bench
  /\ WF_bench(unit = "sha" /\ Sha!Finalizing /\ RestUntouched)
  /\ WF_bench(ArgonStep /\ RestUntouched)
  /\ WF_bench(RandStep /\ RestUntouched)

-----------------------------------------------------------------------------
(* The paths written for one CPU compute what the portable code or the     *)
(* definition says: SHA-2's vector rounds, whose message registers run     *)
(* ahead; ChaCha20's and BLAKE2b's mixes in any order, on the source's     *)
(* test vectors; GHASH in groups; Poly1305's limbs within absorb's bounds. *)
FastPathsAreExact ==
  /\ unit = "rounds"   => Rounds!PathsAgreeOnState /\ Rounds!MessageRunsAhead
  /\ unit = "mix"      => Mix!MixesCommute /\ Mix!ReproducesVectors
  /\ unit = "ghash"    => Hash!AccumulatesHorner
  /\ unit = "poly1305" => Poly!AccumulatorBounds

(* Parameters that differ anywhere start Argon2id from different hashes;   *)
(* the area a block may refer to is exactly the blocks that are written;   *)
(* a data-independent block takes its own word of the right address block; *)
(* every pass writes every block once; the output is RFC 9106's H'.        *)
ArgonWalksItsMemory ==
  /\ [](unit = "argon2id" =>
          /\ Argon!H0BindsEveryParameter /\ Argon!AreaIsReferable
          /\ Argon!AddressesAreInStep    /\ Argon!PassesAreComplete
          /\ Argon!OutputIsHPrime)
  /\ [][unit = "argon2id" => Argon!MixesWritten]_bench

(* finalize's padding loop, which leaves at one fill of the buffer only,   *)
(* ends; every chain of H' gets to its tail; and of a secret, rand.rs:9-10 *)
(* promises that a failing source fails the operation and does not loop.   *)
CallsReturn ==
  /\ (unit = "sha" /\ Sha!Padding) ~> (unit = "sha" /\ Sha!Done)
  /\ (unit = "argon2id") ~> (s11 # NoResult)
  /\ (unit = "rand") ~> (secret \in {"given", "refused"})
=============================================================================

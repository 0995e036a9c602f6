----------------------------- MODULE MixRounds -----------------------------
(***************************************************************************)
(* The round functions built on one shape of mix over sixteen words:       *)
(* ChaCha20 and HChaCha20 (portable and in vector registers), BLAKE2b, and *)
(* the permutation of Argon2's blocks.  Each half round is four mixes, of  *)
(* the columns or of the diagonals.  The source interleaves and vectorises *)
(* them, so here they run in any order.                                    *)
(*                                                                         *)
(* Words have their real width: sequences of four or eight bytes, lowest   *)
(* byte first, so that reading a word from its bytes changes nothing.      *)
(***************************************************************************)
EXTENDS Integers, Sequences, FiniteSets, SequencesExt

CONSTANTS
  Inputs,    (* [algo, start, message]: the sixteen words of each run      *)
  Expected   (* the first words of its output by the source's own tests,   *)
             (* or <<>>: a function of the input                           *)

VARIABLES input, v, half, todo, out

vars == <<input, v, half, todo, out>>

-----------------------------------------------------------------------------
(* Arithmetic on words.                                                    *)
NibbleXor(x, y) ==
  LET Bit(k) == ((x \div k + y \div k) % 2) * k IN Bit(1) + Bit(2) + Bit(4) + Bit(8)

ByteXor(x, y) == 16 * NibbleXor(x \div 16, y \div 16) + NibbleXor(x % 16, y % 16)
Xor(x, y)     == [i \in DOMAIN x |-> ByteXor(x[i], y[i])]

(* The bytes of a number given as columns of any size, modulo its width.   *)
Carried(columns) ==
  LET sum[i \in 0..Len(columns)] ==
        IF i = 0 THEN [bytes |-> <<>>, carry |-> 0]
        ELSE LET acc == sum[i - 1]
                 c   == columns[i] + acc.carry
             IN  [bytes |-> Append(acc.bytes, c % 256), carry |-> c \div 256]
  IN  sum[Len(columns)].bytes

Add(x, y) == Carried([i \in DOMAIN x |-> x[i] + y[i]])

(* Argon2's addition: x + y + 2 * low(x) * low(y), low the low half word.  *)
FusedAdd(x, y) ==
  LET low == Len(x) \div 2
      Product(i) ==
        LET sum[j \in 0..low] ==
              IF j = 0 THEN 0
              ELSE sum[j - 1] + (IF i + 1 - j \in 1..low THEN x[j] * y[i + 1 - j] ELSE 0)
        IN  sum[low]
  IN  Carried([i \in DOMAIN x |-> x[i] + y[i] + 2 * Product(i)])

ShiftLeft(x, n) ==
  LET q == n \div 8 r == n % 8
      At(i) == IF i \in DOMAIN x THEN x[i] ELSE 0
  IN  [i \in DOMAIN x |-> ((At(i - q) * 2^r) % 256) + (At(i - q - 1) \div 2^(8 - r))]

ShiftRight(x, n) ==
  LET q == n \div 8 r == n % 8
      At(i) == IF i \in DOMAIN x THEN x[i] ELSE 0
  IN  [i \in DOMAIN x |-> (At(i + q) \div 2^r) + ((At(i + q + 1) * 2^(8 - r)) % 256)]

RotateLeft(x, n)  == Xor(ShiftLeft(x, n), ShiftRight(x, 8 * Len(x) - n))
RotateRight(x, n) == RotateLeft(x, 8 * Len(x) - n)

(* The vector path's rotations: a swap of halves, a byte table, and shift  *)
(* right and insert, which keeps the top n bits of its first operand.      *)
SwapHalves(x)   == <<x[3], x[4], x[1], x[2]>>
ROT8            == <<4, 1, 2, 3>>
ByteTable(x)    == [i \in 1..4 |-> x[ROT8[i]]]
ShiftInsert(x, y, n) == Xor(ShiftLeft(ShiftRight(x, 32 - n), 32 - n), ShiftRight(y, n))

-----------------------------------------------------------------------------
(* The starting states.  Words are cut from bytes; indices count from 0.   *)
WordsOf(bytes, width) ==
  [i \in 0..(Len(bytes) \div width) - 1 |-> SubSeq(bytes, width * i + 1, width * i + width)]

CHACHA_SIGMA == << 101, 120, 112, 97,  110, 100, 32, 51,  50, 45, 98, 121,  116, 101, 32, 107 >>

BLAKE2B_IV == WordsOf(<<
    8, 201, 188, 243, 103, 230, 9, 106,      59, 167, 202, 132, 133, 174, 103, 187,
    43, 248, 148, 254, 114, 243, 110, 60,    241, 54, 29, 95, 58, 245, 79, 165,
    209, 130, 230, 173, 127, 82, 14, 81,     31, 108, 62, 43, 140, 104, 5, 155,
    107, 189, 65, 251, 171, 217, 131, 31,    121, 33, 126, 19, 25, 205, 224, 91 >>, 8)

SIGMA == <<
    <<0, 1, 2, 3, 4, 5, 6, 7, 8, 9, 10, 11, 12, 13, 14, 15>>,
    <<14, 10, 4, 8, 9, 15, 13, 6, 1, 12, 0, 2, 11, 7, 5, 3>>,
    <<11, 8, 12, 0, 5, 2, 15, 13, 10, 14, 3, 6, 7, 1, 9, 4>>,
    <<7, 9, 3, 1, 13, 12, 11, 14, 2, 6, 5, 10, 4, 0, 15, 8>>,
    <<9, 0, 5, 7, 2, 4, 10, 15, 14, 1, 11, 12, 6, 8, 3, 13>>,
    <<2, 12, 6, 10, 0, 11, 8, 3, 4, 13, 7, 5, 15, 14, 1, 9>>,
    <<12, 5, 1, 15, 14, 13, 4, 10, 0, 7, 6, 3, 9, 2, 8, 11>>,
    <<13, 11, 7, 14, 12, 1, 3, 9, 5, 0, 15, 4, 8, 6, 2, 10>>,
    <<6, 15, 14, 9, 11, 3, 0, 8, 12, 2, 13, 7, 1, 4, 10, 5>>,
    <<10, 2, 8, 4, 7, 6, 1, 5, 15, 11, 9, 14, 3, 12, 13, 0>>,
    <<0, 1, 2, 3, 4, 5, 6, 7, 8, 9, 10, 11, 12, 13, 14, 15>>,
    <<14, 10, 4, 8, 9, 15, 13, 6, 1, 12, 0, 2, 11, 7, 5, 3>> >>

ChaCha(key, counter, nonce) == WordsOf(CHACHA_SIGMA \o key \o counter \o nonce, 4)
HChaCha(key, nonce)         == WordsOf(CHACHA_SIGMA \o key \o nonce, 4)

(* The unkeyed parameter block: digest length, fanout 1, depth 1.          *)
BlakeNew(output_len) ==
  [BLAKE2B_IV EXCEPT ![0] = Xor(@, <<output_len, 0, 1, 1, 0, 0, 0, 0>>)]

Compress(h, counter, last) ==
  [i \in 0..15 |->
     CASE i < 8  -> h[i]
       [] i = 12 -> Xor(BLAKE2B_IV[4], counter)
       [] i = 14 /\ last -> [k \in 1..8 |-> 255 - BLAKE2B_IV[6][k]]
       [] OTHER  -> BLAKE2B_IV[i - 8]]

-----------------------------------------------------------------------------
Rotations == [chacha |-> <<16, 12, 8, 7>>, blake |-> <<32, 24, 16, 63>>]

(* The k-th rotation of a mix.                                             *)
Turn(algo, x, k) ==
  CASE algo = "neon" -> << SwapHalves(x), ShiftInsert(ShiftLeft(x, 12), x, 20), ByteTable(x),
                           ShiftInsert(ShiftLeft(x, 7), x, 25) >>[k]
    [] algo \in {"chacha20", "hchacha20"} -> RotateLeft(x, Rotations.chacha[k])
    [] OTHER -> RotateRight(x, Rotations.blake[k])

Plus(algo, x, y) == IF algo = "permute" THEN FusedAdd(x, y) ELSE Add(x, y)

(* One mix of the words at q, with message words x and y where the         *)
(* function has a message.                                                 *)
Mix(algo, w, q, x, y) ==
  LET a1 == Add(Plus(algo, w[q[1]], w[q[2]]), x)
      d1 == Turn(algo, Xor(a1, w[q[4]]), 1)
      c1 == Plus(algo, d1, w[q[3]])
      b1 == Turn(algo, Xor(c1, w[q[2]]), 2)
      a2 == Add(Plus(algo, b1, a1), y)
      d2 == Turn(algo, Xor(a2, d1), 3)
      c2 == Plus(algo, d2, c1)
      b2 == Turn(algo, Xor(c2, b1), 4)
  IN  [w EXCEPT ![q[1]] = a2, ![q[2]] = b2, ![q[3]] = c2, ![q[4]] = d2]

Columns   == << <<0, 4, 8, 12>>, <<1, 5, 9, 13>>, <<2, 6, 10, 14>>, <<3, 7, 11, 15>> >>
Diagonals == << <<0, 5, 10, 15>>, <<1, 6, 11, 12>>, <<2, 7, 8, 13>>, <<3, 4, 9, 14>> >>

HalfRounds == [chacha20 |-> 20, neon |-> 20, hchacha20 |-> 20, blake2b |-> 24, permute |-> 2]

Zero == [i \in DOMAIN input.start[0] |-> 0]

(* The message word of a half round's n-th mix.                            *)
Scheduled(i, n) ==
  IF input.algo = "blake2b"
  THEN input.message[SIGMA[(half \div 2) + 1][8 * (half % 2) + 2 * (i - 1) + n + 1]]
  ELSE Zero

MixAt(w, i) ==
  Mix(input.algo, w, (IF half % 2 = 0 THEN Columns ELSE Diagonals)[i],
      Scheduled(i, 0), Scheduled(i, 1))

Init ==
  /\ input \in Inputs
  /\ v = input.start /\ half = 0 /\ todo = 1..4
  /\ out = <<>>

DoMix(i) ==
  /\ i \in todo
  /\ v' = MixAt(v, i) /\ todo' = todo \ {i}
  /\ UNCHANGED <<input, half, out>>

NextHalf ==
  /\ todo = {} /\ half + 1 < HalfRounds[input.algo]
  /\ half' = half + 1 /\ todo' = 1..4
  /\ UNCHANGED <<input, v, out>>

(* What the rounds are followed by: the addition of the initial state, the *)
(* first and last rows of it without, or the feed back into BLAKE2b's h.   *)
Output(algo, w, start) ==
  CASE algo \in {"chacha20", "neon"} -> [i \in 1..16 |-> Add(w[i - 1], start[i - 1])]
    [] algo = "hchacha20" -> [i \in 1..8 |-> IF i <= 4 THEN w[i - 1] ELSE w[i + 7]]
    [] algo = "blake2b"   -> [i \in 1..8 |-> Xor(start[i - 1], Xor(w[i - 1], w[i + 7]))]
    [] algo = "permute"   -> [i \in 1..16 |-> w[i - 1]]

Finish ==
  /\ todo = {} /\ half + 1 = HalfRounds[input.algo] /\ out = <<>>
  /\ out' = Output(input.algo, v, input.start)
  /\ UNCHANGED <<input, v, half, todo>>

Next == (\E i \in 1..4 : DoMix(i)) \/ NextHalf \/ Finish

Spec == Init /\ [][Next]_vars

-----------------------------------------------------------------------------
(* The mixes of a half round do not touch each other's words, which is     *)
(* what lets the code run four in a vector and interleave two groups.      *)
MixesCommute ==
  \A i, j \in todo : i < j =>
    \A w \in {MixAt(v, i)}, u \in {MixAt(v, j)} : MixAt(w, j) = MixAt(u, i)

(* The output is that of the source's tests (RFC 8439, the XChaCha draft,  *)
(* RFC 7693), on the portable path and in the vector instructions.         *)
ReproducesVectors == out = <<>> \/ IsPrefix(Expected[input], out)
=============================================================================

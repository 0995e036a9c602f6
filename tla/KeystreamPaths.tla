--------------------------- MODULE KeystreamPaths ---------------------------
(***************************************************************************)
(* ChaCha20's two ways to XOR a keystream into a buffer: portable lanes,   *)
(* four blocks at a time, and vector registers, eight blocks, then four,   *)
(* then a staged tail.  A block is free: word w of the block with counter  *)
(* c is the pair <<c, w>>.  Buffers are cut in words of four bytes.        *)
(***************************************************************************)
EXTENDS Integers, Sequences

CONSTANT CounterSize   (* 2^32 *)

Words == 16            (* in a block *)

WrappingAdd(c, n) == (c + n) % CounterSize
DivCeil(n, d)     == (n + d - 1) \div d

(* The four blocks in flight: the lanes of each of the sixteen vectors.    *)
Lanes(counter) == [w \in 0..15 |-> [lane \in 0..3 |-> <<WrappingAdd(counter, lane), w>>]]

(* four_blocks' output: block by block, word by word.                      *)
FourBlocks(counter) ==
  LET v == Lanes(counter) IN [i \in 0..63 |-> v[i % 16][i \div 16]]

Trn1(a, b)   == [lane \in 0..3 |-> IF lane % 2 = 0 THEN a[lane] ELSE b[lane - 1]]
Trn2(a, b)   == [lane \in 0..3 |-> IF lane % 2 = 0 THEN a[lane + 1] ELSE b[lane]]
Trn1D(a, b)  == [lane \in 0..3 |-> IF lane < 2 THEN a[lane] ELSE b[lane - 2]]
Trn2D(a, b)  == [lane \in 0..3 |-> IF lane < 2 THEN a[lane + 2] ELSE b[lane]]

Transpose(a, b, c, d) ==
  LET t0 == Trn1(a, b) t1 == Trn2(a, b) t2 == Trn1(c, d) t3 == Trn2(c, d)
  IN  << Trn1D(t0, t2), Trn1D(t1, t3), Trn2D(t0, t2), Trn2D(t1, t3) >>

(* What emit stores: 64 bytes a block, 16 bytes from each transposed group.*)
Emitted(counter) ==
  LET v == Lanes(counter)
      g == [n \in 0..3 |-> Transpose(v[4 * n], v[4 * n + 1], v[4 * n + 2], v[4 * n + 3])]
  IN  [i \in 0..63 |-> g[(i % 16) \div 4][(i \div 16) + 1][i % 4]]

Take(keystream, n) == [i \in 1..n |-> keystream[i - 1]]

(* The keystream applied to n words, and the counter it leaves.            *)
Portable(counter, n) ==
  LET turns == DivCeil(n, 64)
      Turn[k \in 0..turns] ==
        IF k = 0 THEN [keys |-> <<>>, counter |-> counter]
        ELSE LET acc  == Turn[k - 1]
                 left == n - 64 * (k - 1)
                 take == IF left < 64 THEN left ELSE 64
             IN  [keys    |-> acc.keys \o Take(FourBlocks(acc.counter), take),
                  counter |-> WrappingAdd(acc.counter, DivCeil(take, Words))]
  IN  Turn[turns]

(* Eight blocks while they fit; then four, or a tail.                      *)
Vector(counter, n) ==
  LET eights == n \div 128
      turns  == eights + DivCeil(n % 128, 64)
      Turn[k \in 0..turns] ==
        IF k = 0 THEN [keys |-> <<>>, counter |-> counter]
        ELSE LET acc  == Turn[k - 1]
                 left == n - Len(acc.keys)
             IN  IF k <= eights
                 THEN [keys    |-> acc.keys \o Take(Emitted(acc.counter), 64)
                                            \o Take(Emitted(WrappingAdd(acc.counter, 4)), 64),
                       counter |-> WrappingAdd(acc.counter, 8)]
                 ELSE IF left >= 64
                 THEN [keys    |-> acc.keys \o Take(Emitted(acc.counter), 64),
                       counter |-> WrappingAdd(acc.counter, 4)]
                 ELSE [keys    |-> acc.keys \o Take(Emitted(acc.counter), left),
                       counter |-> WrappingAdd(acc.counter, DivCeil(left, Words))]
  IN  Turn[turns]
=============================================================================

------------------------------ MODULE Poly1305 ------------------------------
(***************************************************************************)
(* blindplane-crypto's Poly1305 for limbs of two units and blocks of four. *)
(* With units of 32 bits these are the source's 64-bit limbs, blocks of 16 *)
(* bytes and the modulus 2^130 - 5; TLC takes units of 4 bits and the      *)
(* modulus 2^18 - 5.  The clamp clears the four top bits of each half of r *)
(* and makes the high half a multiple of four.  Wide products are exact; a *)
(* limb is cut to its width where the source cuts it.                      *)
(***************************************************************************)
EXTENDS Integers, Sequences

CONSTANTS
  ByteOf,      (* the values of a unit of input: 2^32 for units of 4 bytes *)
  Keys,        (* [r0, r1, pad]: clamped halves of r, and the second half  *)
  Patterns,    (* the messages, as functions from places to bytes          *)
  MaxLen,      (* bound: the longest message                               *)
  NoResult

Limb  == ByteOf * ByteOf
Block == 4
P     == 4 * Limb * Limb - 5

(* Limbs split into units and the clamp's bits; keys are clamped.          *)
Sizes ==
  /\ ByteOf \in Nat /\ ByteOf > 0 /\ ByteOf % 4 = 0
  /\ \A k \in Keys : /\ k.r0 \in 0..(Limb \div 16 - 1) /\ k.r1 \in 0..(Limb \div 16 - 1)
                     /\ k.r1 % 4 = 0 /\ k.pad \in Nat
  /\ MaxLen \in Nat /\ Patterns \subseteq [1..MaxLen -> 0..(ByteOf - 1)]
  /\ NoResult \notin Nat

VARIABLES
  key,       (* the one-time key                                           *)
  pattern,   (* auxiliary: the bytes the caller will send                  *)
  message,   (* auxiliary: the bytes absorbed, padding included            *)
  sent,      (* auxiliary: how many of the pattern's bytes were sent       *)
  h,         (* the accumulator, <<h0, h1, h2>>                            *)
  buffer, buffered, tag

vars == <<key, pattern, message, sent, h, buffer, buffered, tag>>

Min2(m, n)        == IF m <= n THEN m ELSE n
Slice(data, i, j) == SubSeq(data, i + 1, j)

(* Little-endian limbs of a block.                                         *)
LimbAt(block, i) == block[2 * i + 1] + ByteOf * block[2 * i + 2]

(* r[1] * 5 / 4, exact because the clamp clears its two low bits.          *)
S1 == key.r1 + key.r1 \div 4

-----------------------------------------------------------------------------
(* absorb: h += m with the padbit as bit 2^128, h *= r folding 2^128 * x   *)
(* to 5/4 r1 x, then fold the bits at and above 2^130 back in.             *)
WithBlock(x, m0, m1, padbit) ==
  LET t0 == x[1] + m0
      t1 == x[2] + t0 \div Limb + m1
  IN  <<t0 % Limb, t1 % Limb, (x[3] + t1 \div Limb + padbit) % Limb>>

Products(x) ==
  LET d0 == x[1] * key.r0 + x[2] * S1
      d1 == x[1] * key.r1 + x[2] * key.r0 + ((x[3] * S1) % Limb) + d0 \div Limb
  IN  <<d0 % Limb, d1 % Limb, (((x[3] * key.r0) % Limb) + d1 \div Limb) % Limb>>

Fold(x) ==
  LET c  == x[3] \div 4 + (x[3] - (x[3] % 4))
      t0 == x[1] + c
      t1 == x[2] + t0 \div Limb
  IN  <<t0 % Limb, t1 % Limb, (x[3] % 4) + t1 \div Limb>>

AbsorbBlock(x, block, padbit) ==
  Fold(Products(WithBlock(x, LimbAt(block, 0), LimbAt(block, 1), padbit)))

(* The loop over the whole blocks of data.                                 *)
AbsorbBlocks(x, data) ==
  LET n == Len(data) \div Block
      y[i \in 0..n] == IF i = 0 THEN x
                       ELSE AbsorbBlock(y[i - 1], Slice(data, Block * (i - 1), Block * i), 1)
  IN  y[n]

CopyInto(b, offset, data) ==
  [i \in 1..Block |-> IF i - offset \in 1..Len(data) THEN data[i - offset] ELSE b[i]]

-----------------------------------------------------------------------------
Zeros(n) == [i \in 1..n |-> 0]

Init ==
  /\ key \in Keys
  /\ pattern \in Patterns
  /\ message = <<>> /\ sent = 0
  /\ h = <<0, 0, 0>>
  /\ buffer = Zeros(Block) /\ buffered = 0
  /\ tag = NoResult

(* update: top the begun block up, absorb it when full, then the whole     *)
(* blocks, then buffer the tail.                                           *)
Update(data) ==
  LET take   == IF buffered > 0 THEN Min2(Block - buffered, Len(data)) ELSE 0
      filled == CopyInto(buffer, buffered, Slice(data, 0, take))
      full   == buffered > 0 /\ buffered + take = Block
      rest   == Slice(data, take, Len(data))
      left   == Slice(rest, (Len(rest) \div Block) * Block, Len(rest))
      h1     == IF full THEN AbsorbBlock(h, filled, 1) ELSE h
  IN  /\ h' = AbsorbBlocks(h1, rest)
      /\ buffer' = CopyInto(filled, 0, left)
      /\ buffered' = CASE left # <<>> -> Len(left)
                       [] left = <<>> /\ full -> 0
                       [] left = <<>> /\ ~ full -> buffered + take

Send(n) ==
  /\ tag = NoResult
  /\ sent + n <= MaxLen
  /\ LET data == [i \in 1..n |-> pattern[sent + i]]
     IN  Update(data) /\ message' = message \o data
  /\ sent' = sent + n
  /\ UNCHANGED <<key, pattern, tag>>

(* Zero bytes up to a multiple of 16.                                      *)
PadToBlock ==
  /\ tag = NoResult
  /\ buffered > 0
  /\ Update(Zeros(Block - buffered)) /\ message' = message \o Zeros(Block - buffered)
  /\ UNCHANGED <<key, pattern, sent, tag>>

(* The last, partial block ends in a 1 of its own and has no padbit.       *)
LastBlock ==
  [i \in 1..Block |-> CASE i <= buffered     -> buffer[i]
                        [] i = buffered + 1 -> 1
                        [] i > buffered + 1 -> 0]

Final == IF buffered > 0 THEN AbsorbBlock(h, LastBlock, 0) ELSE h

(* h + 5 is kept when it reaches 2^130, that is, when h >= p.              *)
Reduced(x) ==
  LET t0   == x[1] + 5
      t1   == x[2] + t0 \div Limb
      g2   == (x[3] + t1 \div Limb) % Limb
      mask == g2 \div 4
  IN  IF mask # 0 THEN (t0 % Limb) + Limb * (t1 % Limb) ELSE x[1] + Limb * x[2]

(* finalize: the tag is h plus the key's second half, modulo 2^128.        *)
Finalize ==
  /\ tag = NoResult
  /\ h' = Final
  /\ tag' = (Reduced(Final) + key.pad) % (Limb * Limb)
  /\ buffered' = 0
  /\ UNCHANGED <<key, pattern, message, sent, buffer>>

Next == (\E n \in 0..MaxLen : Send(n)) \/ PadToBlock \/ Finalize

Spec == Init /\ [][Next]_vars

-----------------------------------------------------------------------------
(* RFC 8439: the blocks, each with a 1 above its last byte, as the         *)
(* coefficients of a polynomial at r, modulo p; then the pad.              *)
Coefficient(m, i) ==
  LET n     == Min2(Block, Len(m) - Block * (i - 1))
      at(j) == CASE j <= n     -> m[Block * (i - 1) + j]
                 [] j = n + 1 -> 1
                 [] j > n + 1 -> 0
  IN  at(1) + ByteOf * (at(2) + ByteOf * (at(3) + ByteOf * (at(4) + ByteOf * at(5))))

Horner(k, m) ==
  LET n == (Len(m) + Block - 1) \div Block
      v[i \in 0..n] == IF i = 0 THEN 0
                       ELSE ((v[i - 1] + Coefficient(m, i)) * (k.r0 + Limb * k.r1)) % P
  IN  v[n]

TagOf(k, m) == (Horner(k, m) + k.pad) % (Limb * Limb)

Pieces == { Zeros(n) : n \in 1..Block }
            \cup UNION { { [i \in 1..n |-> f[s + i]] : f \in Patterns, s \in 0..(MaxLen - n) }
                          : n \in 0..MaxLen }

Mac == INSTANCE OneShot WITH
         Parameters <- Keys, Pieces <- Pieces, Function <- TagOf,
         parameter <- key, message <- message, result <- tag

(* However the bytes are cut into calls of update, with pad_to_block in    *)
(* between, finalize returns the polynomial's value of all of them: no     *)
(* carry is lost and the last subtraction of p settles it.                 *)
ImplementsOneShot == Mac!Spec

(* The bounds absorb's comment promises: the overflow word is at most 4    *)
(* between blocks and 6 after the block is added, and from there its       *)
(* products with r0 and s1 fit into a limb.                                *)
AccumulatorBounds ==
  /\ h[1] < Limb /\ h[2] < Limb /\ h[3] <= 4
  /\ (h[3] + 2) * key.r0 < Limb \div 2
  /\ (h[3] + 2) * S1 < Limb \div 2
=============================================================================

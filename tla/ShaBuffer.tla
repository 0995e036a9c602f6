----------------------------- MODULE ShaBuffer -----------------------------
(***************************************************************************)
(* The streaming hashers of blindplane-crypto's sha2: a block buffer, a    *)
(* byte count, and finalize, which pads through update itself.  Sha256 and *)
(* Sha512 are the same code at two block lengths, smaller here.  The       *)
(* compression function is free: the state is the sequence of blocks that  *)
(* were compressed, so two states are equal only if every block was.       *)
(***************************************************************************)
EXTENDS Integers, Sequences, SequencesExt

CONSTANTS
  Algorithms,   (* {"sha256", "sha512"}                                    *)
  BlockLen,     (* BLOCK_LEN of each: 64 and 128                           *)
  FieldLen,     (* the bytes of the length field: 8 and 16                 *)
  LengthMod,    (* the counter's modulus: 2^64 and 2^128                   *)
  MaxLen,       (* bound: the longest message                              *)
  NoResult

VARIABLES
  algo,         (* which hasher this is                                    *)
  hasher,       (* state, buffer, buffered, length                         *)
  bits,         (* finalize's bit_length                                   *)
  pc,           (* "absorbing", "padding" inside finalize, "done"          *)
  digest

vars == <<algo, hasher, bits, pc, digest>>

(* A length in bits fits the counter, and the field what padding leaves.   *)
Sizes ==
  /\ Algorithms \subseteq {"sha256", "sha512"}
  /\ \A a \in Algorithms : BlockLen[a] \in Nat /\ FieldLen[a] \in 1..BlockLen[a]
  /\ MaxLen \in Nat /\ LengthMod \in Nat /\ 8 * MaxLen < LengthMod
  /\ \A a \in Algorithms : MaxLen + FieldLen[a] < LengthMod

(* The bytes of the buffer that count, and a run of a slice of data.       *)
Held(h)           == SubSeq(h.buffer, 1, h.buffered)
Slice(data, i, j) == SubSeq(data, i + 1, j)
Min2(m, n)        == IF m <= n THEN m ELSE n

New(b) == [state |-> <<>>, buffer |-> [i \in 1..b |-> 0], buffered |-> 0, length |-> 0]

(* copy_from_slice into the buffer at an offset.                           *)
CopyInto(buffer, offset, data) ==
  [i \in 1..Len(buffer) |->
     IF i - offset \in 1..Len(data) THEN data[i - offset] ELSE buffer[i]]

(* compress256_blocks and compress512_blocks: both paths take the data by  *)
(* chunks_exact, so bytes after the last whole block would be lost.        *)
Chunk(data, i, b) == Slice(data, (i - 1) * b, i * b)
Compress(state, data, b) ==
  state \o [i \in 1..(Len(data) \div b) |-> Chunk(data, i, b)]

(* update: fill the buffer if it was begun, compress it when full; then    *)
(* the whole blocks of the rest; then buffer what is left.                 *)
TopUp(h, data, b) ==
  LET take   == IF h.buffered > 0 THEN Min2(b - h.buffered, Len(data)) ELSE 0
      buffer == CopyInto(h.buffer, h.buffered, Slice(data, 0, take))
      full   == h.buffered > 0 /\ h.buffered + take = b
  IN  [h EXCEPT !.state    = IF full THEN Compress(@, buffer, b) ELSE @,
                !.buffer   = buffer,
                !.buffered = IF full THEN 0 ELSE @ + take]

Rest(h, data, b) ==
  IF h.buffered > 0 THEN Slice(data, Min2(b - h.buffered, Len(data)), Len(data)) ELSE data

(* Mutant: nothing left to buffer, nothing done.                           *)
BufferNothingLeft(h, data, b) ==
  LET full == (Len(data) \div b) * b
      left == Slice(data, full, Len(data))
  IN  IF left = <<>> THEN h
      ELSE [h EXCEPT !.state = Compress(@, Slice(data, 0, full), b),
                     !.buffer = CopyInto(@, 0, left), !.buffered = Len(left)]

Buffer(h, data, b) ==
  LET full == (Len(data) \div b) * b
      left == Slice(data, full, Len(data))
      h1   == [h EXCEPT !.state = Compress(@, Slice(data, 0, full), b)]
  IN  IF left = <<>> THEN h1
      ELSE [h1 EXCEPT !.buffer = CopyInto(@, 0, left), !.buffered = Len(left)]

Counted(h, data) == [h EXCEPT !.length = (@ + Len(data)) % LengthMod]

Update256(h, data) ==
  Buffer(Counted(TopUp(h, data, BlockLen["sha256"]), data),
         Rest(h, data, BlockLen["sha256"]), BlockLen["sha256"])

Update512(h, data) ==
  Buffer(Counted(TopUp(h, data, BlockLen["sha512"]), data),
         Rest(h, data, BlockLen["sha512"]), BlockLen["sha512"])

Absorb(h, data) == IF algo = "sha256" THEN Update256(h, data) ELSE Update512(h, data)

-----------------------------------------------------------------------------
(* The byte at each place of a message is the place's number, so that a    *)
(* lost, repeated or misplaced byte shows.                                 *)
Numbered(n, k) == [i \in 1..k |-> n + i]
Pieces         == { Numbered(n, k) : n \in 0..MaxLen, k \in 0..MaxLen }

Init ==
  /\ algo \in Algorithms
  /\ hasher = New(BlockLen[algo])
  /\ bits = 0
  /\ pc = "absorbing"
  /\ digest = NoResult

Update(k) ==
  /\ pc = "absorbing"
  /\ hasher.length + k <= MaxLen
  /\ hasher' = Absorb(hasher, Numbered(hasher.length, k))
  /\ UNCHANGED <<algo, bits, pc, digest>>

(* update counted the padding byte; the length field must not.             *)
Uncounted(h) == [h EXCEPT !.length = (@ + LengthMod - 1) % LengthMod]

BeginFinalize ==
  /\ pc = "absorbing"
  /\ bits' = (hasher.length * 8) % LengthMod
  /\ hasher' = Uncounted(Absorb(hasher, <<128>>))
  /\ pc' = "padding"
  /\ UNCHANGED <<algo, digest>>

(* The loop runs until the buffer has room for exactly the length field:   *)
(* at 56 of 64 bytes, at 112 of 128.                                       *)
FieldAt256 == BlockLen["sha256"] - FieldLen["sha256"]
FieldAt512 == BlockLen["sha512"] - FieldLen["sha512"]
FieldAt    == IF algo = "sha256" THEN FieldAt256 ELSE FieldAt512

(* Mutant: the loop stops once there is no more room than the field needs. *)
PadZeroBelow ==
  /\ pc = "padding"
  /\ hasher.buffered < FieldAt
  /\ hasher' = Uncounted(Absorb(hasher, <<0>>))
  /\ UNCHANGED <<algo, bits, pc, digest>>

PadZero ==
  /\ pc = "padding"
  /\ hasher.buffered # FieldAt
  /\ hasher' = Uncounted(Absorb(hasher, <<0>>))
  /\ UNCHANGED <<algo, bits, pc, digest>>

BigEndian(n, k) == [i \in 1..k |-> (n \div 256 ^ (k - i)) % 256]

WriteLength ==
  /\ pc = "padding"
  /\ hasher.buffered = FieldAt
  /\ hasher' = Absorb(hasher, BigEndian(bits, FieldLen[algo]))
  /\ digest' = hasher'.state
  /\ pc' = "done"
  /\ UNCHANGED <<algo, bits>>

Next == (\E k \in 0..MaxLen : Update(k)) \/ BeginFinalize \/ PadZero \/ WriteLength

Spec         == Init /\ [][Next]_vars
Finalizing   == pc = "padding" /\ (PadZero \/ WriteLength)
FairSpec     == Spec /\ WF_vars(Finalizing)

-----------------------------------------------------------------------------
(* FIPS 180-4: the message, one 1 bit, zeros, and its length in bits, cut  *)
(* into blocks.                                                            *)
Padded(a, m) ==
  LET zeros == CHOOSE z \in 0..(BlockLen[a] - 1) :
                 (Len(m) + 1 + z + FieldLen[a]) % BlockLen[a] = 0
  IN  m \o <<128>> \o [i \in 1..zeros |-> 0] \o BigEndian(8 * Len(m), FieldLen[a])

Blocks(a, m) ==
  LET p == Padded(a, m)
  IN  [i \in 1..(Len(p) \div BlockLen[a]) |-> Chunk(p, i, BlockLen[a])]

(* The message, read back from the compressed blocks and the buffer.       *)
Absorbed ==
  LET n == IF pc = "done" THEN hasher.length - FieldLen[algo] ELSE hasher.length
      s == FlattenSeq(hasher.state) \o Held(hasher)
  IN  Slice(s, 0, Min2(n, Len(s)))

Hash == INSTANCE OneShot WITH
          Parameters <- Algorithms, Pieces <- Pieces, Function <- Blocks,
          parameter <- algo, message <- Absorbed, result <- digest

(* However a message is cut into calls of update, finalize returns the     *)
(* digest of all of it (tests only split at chosen places), and no call    *)
(* loses, repeats or reorders a byte on the way.                           *)
ImplementsOneShot == Hash!Spec

(* finalize ends: its loop, which leaves only at one fill of the buffer,   *)
(* reaches it from every message length, through a second block if the     *)
(* padding byte left too little room in the first.                         *)
Padding         == pc = "padding"
Done            == pc = "done"
FinalizeReturns == Padding ~> Done
=============================================================================

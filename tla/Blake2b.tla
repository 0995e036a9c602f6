------------------------------- MODULE Blake2b -------------------------------
(***************************************************************************)
(* blindplane-crypto's streaming BLAKE2b.  It keeps a full buffer until it *)
(* knows that more input follows, since the last block is compressed with  *)
(* a flag, and counts the bytes compressed.  Compression is free: the      *)
(* state is the sequence of (block, counter, last) it was given.           *)
(***************************************************************************)
EXTENDS Integers, Sequences, SequencesExt

CONSTANTS
  Block,      (* the block length: 128                                     *)
  OutputLens, (* the digest lengths asked for: 1 to 64                     *)
  MaxLen,     (* bound: the longest message                                *)
  NoResult

VARIABLES
  outputLen,  (* parameterises the initial state                           *)
  state, buffer, buffered, counter,
  todo,       (* what the running call of update has not copied yet        *)
  digest

vars == <<outputLen, state, buffer, buffered, counter, todo, digest>>

(* A block has bytes, and no digest is the sentinel.                       *)
Sizes ==
  /\ Block \in Nat /\ Block > 0 /\ MaxLen \in Nat
  /\ NoResult \notin [outputLen : OutputLens,
                      state : Seq([block : [1..Block -> Nat], counter : Nat, last : BOOLEAN])]

Min2(m, n)     == IF m <= n THEN m ELSE n
Zeros          == [i \in 1..Block |-> 0]
Numbered(n, k) == [i \in 1..k |-> n + i]
Pieces         == { Numbered(n, k) : n \in 0..MaxLen, k \in 0..MaxLen }

CopyInto(b, offset, data) ==
  [i \in 1..Block |-> IF i - offset \in 1..Len(data) THEN data[i - offset] ELSE b[i]]

Compressed(block, n, last) == [block |-> block, counter |-> n, last |-> last]

Init ==
  /\ outputLen \in OutputLens
  /\ state = <<>> /\ buffer = Zeros /\ buffered = 0 /\ counter = 0
  /\ todo = <<>>
  /\ digest = NoResult

(* The bytes of the message so far: the whole blocks compressed, what the  *)
(* buffer holds, and what update still has to copy.                        *)
Absorbed ==
  IF digest # NoResult
  THEN SubSeq(FlattenSeq([i \in 1..Len(state) |-> state[i].block]), 1, counter)
  ELSE FlattenSeq([i \in 1..Len(state) |-> state[i].block]) \o SubSeq(buffer, 1, buffered) \o todo

Update(k) ==
  /\ digest = NoResult /\ todo = <<>>
  /\ Len(Absorbed) + k <= MaxLen
  /\ todo' = Numbered(Len(Absorbed), k)
  /\ UNCHANGED <<outputLen, state, buffer, buffered, counter, digest>>

(* One turn of update's loop: a full buffer is compressed only now that    *)
(* more input is known to exist; then as much as fits is copied.           *)
Copy ==
  LET full == buffered = Block
      at   == IF full THEN 0 ELSE buffered
      take == Min2(Block - at, Len(todo))
  IN  /\ todo # <<>>
      /\ counter' = IF full THEN counter + Block ELSE counter
      /\ state' = IF full THEN Append(state, Compressed(buffer, counter', FALSE)) ELSE state
      /\ buffer' = CopyInto(buffer, at, SubSeq(todo, 1, take))
      /\ buffered' = at + take
      /\ todo' = SubSeq(todo, take + 1, Len(todo))
      /\ UNCHANGED <<outputLen, digest>>

(* finalize_into: the rest of the buffer is zeroed, and the last block is  *)
(* flagged and counted by the bytes it really holds.                       *)
Finalize ==
  /\ digest = NoResult /\ todo = <<>>
  /\ counter' = counter + buffered
  /\ buffer' = [i \in 1..Block |-> IF i <= buffered THEN buffer[i] ELSE 0]
  /\ state' = Append(state, Compressed(buffer', counter', TRUE))
  /\ digest' = [outputLen |-> outputLen, state |-> state']
  /\ UNCHANGED <<outputLen, buffered, todo>>

Next == (\E k \in 1..MaxLen : Update(k)) \/ Copy \/ Finalize

Spec == Init /\ [][Next]_vars

-----------------------------------------------------------------------------
(* RFC 7693: zero-padded blocks; every block but the last counts as full,  *)
(* an empty message has one block.                                         *)
Digest(len, m) ==
  LET blocks == IF m = <<>> THEN 1 ELSE (Len(m) + Block - 1) \div Block
  IN  [outputLen |-> len,
       state |-> [i \in 1..blocks |->
          Compressed([j \in 1..Block |-> LET n == Block * (i - 1) + j
                                         IN  IF n <= Len(m) THEN m[n] ELSE 0],
                     Min2(Block * i, Len(m)), i = blocks)]]

Hash == INSTANCE OneShot WITH
          Parameters <- OutputLens, Pieces <- Pieces, Function <- Digest,
          parameter <- outputLen, message <- Absorbed, result <- digest

(* Any cut of the input into calls gives the digest of all of it, although *)
(* the block that ends it is only known to be the last at the end: a       *)
(* message of exactly n blocks is the case in point.                       *)
ImplementsOneShot == Hash!Spec
=============================================================================

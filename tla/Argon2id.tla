------------------------------ MODULE Argon2id ------------------------------
(***************************************************************************)
(* blindplane-crypto's single-lane Argon2id: the walk over memory in       *)
(* passes, slices and segments, the blocks it refers back to, the address  *)
(* blocks of the data-independent half pass, and the variable-length hash  *)
(* H'.  The contents of a block are free: a pseudo-random word is any      *)
(* word.  What counts is which block is written, read, or never written.   *)
(***************************************************************************)
EXTENDS Integers, Sequences, FiniteSets, SequencesExt

CONSTANTS
  Memories, PassCounts, OutputLens, Passwords, Salts,
  QWORDS,      (* words of a block: 128                                    *)
  MinSalt,     (* the shortest salt: 8                                     *)
  HalfRange,   (* 2^32, the range of the half word reference_index uses    *)
  NoResult, InvalidParams

VARIABLES
  params, h0,
  pass, slice, index,  (* the loop counters                                *)
  written,             (* how many passes have written each block          *)
  address,             (* the counter of the address block, 0 for none     *)
  step,                (* what the last turn of the inner loop did         *)
  chained, out,        (* H': digests taken so far, bytes written          *)
  result

walk == <<pass, slice, index, written, address, step>>
vars == <<params, h0, walk, chained, out, result>>

Params == [memory_kib: Memories, passes: PassCounts, output_len: OutputLens,
           password: Passwords, salt: Salts]

Invalid(p) == p.memory_kib < 8 \/ p.passes = 0 \/ p.output_len < 4 \/ Len(p.salt) < MinSalt

BlockCount(p)    == (p.memory_kib \div 4) * 4
SegmentLength(p) == BlockCount(p) \div 4
Blocks(p)        == 0..BlockCount(p) - 1

(* What H0 hashes; a number is the four bytes of its encoding.             *)
H0(p) ==
  <<1, p.output_len, p.memory_kib, p.passes, 19, 2>>
    \o <<Len(p.password)>> \o p.password \o <<Len(p.salt)>> \o p.salt \o <<0, 0>>

NoStep == [current |-> -1]

(* The first segment starts at index 2, where the loop generates none.     *)
FirstAddress == 1

Init ==
  /\ params \in Params
  /\ h0 = H0(params)
  /\ pass = 0 /\ slice = 0 /\ index = 2
  /\ written = [b \in Blocks(params) |-> IF b < 2 THEN 1 ELSE 0]
  /\ address = FirstAddress
  /\ step = NoStep
  /\ chained = 0 /\ out = <<>> /\ result = NoResult

Refuse ==
  /\ result = NoResult /\ Invalid(params)
  /\ result' = InvalidParams
  /\ UNCHANGED <<params, h0, walk, chained, out>>

DataIndependent == pass = 0 /\ slice < 2

(* reference_index, in two parts: how many blocks may be referred to and   *)
(* where they start, and the quadratic map into them.                      *)
Area ==
  IF pass = 0
  THEN slice * SegmentLength(params) + index - 1
  ELSE BlockCount(params) - SegmentLength(params) + index - 1

(* Mutant: the last slice starts at the end instead of at 0.               *)
StartHere == IF pass = 0 THEN 0 ELSE slice * SegmentLength(params)

Start == IF pass = 0 \/ slice = 3 THEN 0 ELSE (slice + 1) * SegmentLength(params)

ReferenceIndex(j) ==
  LET squared  == (j * j) \div HalfRange
      relative == Area - 1 - ((Area * squared) \div HalfRange)
  IN  (Start + relative) % BlockCount(params)

Current  == slice * SegmentLength(params) + index
Previous == IF Current = 0 THEN BlockCount(params) - 1 ELSE Current - 1

(* One turn of the inner loop: the pseudo-random word comes from the       *)
(* address block, renewed every QWORDS words, or from the previous block;  *)
(* the mixed block is stored in the first pass and folded in afterwards.   *)
Fill ==
  /\ result = NoResult /\ ~Invalid(params) /\ pass < params.passes
  /\ index < SegmentLength(params)
  /\ address' = IF DataIndependent /\ index % QWORDS = 0 THEN address + 1 ELSE address
  /\ \E j \in 0..HalfRange - 1 :
       step' = [current |-> Current, previous |-> Previous, reference |-> ReferenceIndex(j),
                address |-> IF DataIndependent THEN <<address', index % QWORDS>> ELSE <<>>]
  /\ written' = [written EXCEPT ![Current] = pass + 1]
  /\ index' = index + 1
  /\ UNCHANGED <<params, h0, pass, slice, chained, out, result>>

(* The next slice, with its own address counter, and the next pass.        *)
NextSegment ==
  /\ result = NoResult /\ ~Invalid(params) /\ pass < params.passes
  /\ index >= SegmentLength(params)
  /\ slice' = (slice + 1) % 4
  /\ pass' = IF slice = 3 THEN pass + 1 ELSE pass
  /\ index' = 0 /\ address' = 0 /\ step' = NoStep
  /\ UNCHANGED <<params, h0, written, chained, out, result>>

Filled == result = NoResult /\ ~Invalid(params) /\ pass = params.passes

(* Bytes first..last of the n-th digest of the chain.                      *)
DigestBytes(n, first, last) == [i \in 1..(last - first + 1) |-> <<n, first + i - 1>>]

(* hash_prime of the final block.  An output of at most 64 bytes is one    *)
(* digest; a longer one takes 32 bytes of each digest of a chain and all   *)
(* of the last.                                                            *)
HashShort ==
  /\ Filled /\ params.output_len <= 64
  /\ out' = DigestBytes(1, 1, params.output_len)
  /\ result' = out'
  /\ UNCHANGED <<params, h0, walk, chained>>

HashFirst ==
  /\ Filled /\ params.output_len > 64 /\ chained = 0
  /\ out' = DigestBytes(1, 1, 32) /\ chained' = 1
  /\ UNCHANGED <<params, h0, walk, result>>

HashNext ==
  /\ Filled /\ chained > 0 /\ params.output_len - Len(out) > 64
  /\ chained' = chained + 1
  /\ out' = out \o DigestBytes(chained', 1, 32)
  /\ UNCHANGED <<params, h0, walk, result>>

HashTail ==
  /\ Filled /\ chained > 0 /\ params.output_len - Len(out) <= 64
  /\ out' = out \o DigestBytes(chained + 1, 1, params.output_len - Len(out))
  /\ result' = out'
  /\ UNCHANGED <<params, h0, walk, chained>>

Next == Refuse \/ Fill \/ NextSegment \/ HashShort \/ HashFirst \/ HashNext \/ HashTail

Spec == Init /\ [][Next]_vars /\ WF_vars(Next)

-----------------------------------------------------------------------------
(* H0 binds every parameter: no other parameters, password and salt feed   *)
(* it the same bytes.                                                      *)
H0BindsEveryParameter == \A p \in Params : p # params => H0(p) # h0

(* The blocks a block may refer to: those written so far, but for what     *)
(* this segment is about to overwrite and for the previous block.          *)
Referable ==
  { b \in Blocks(params) :
      /\ written[b] > 0 /\ b # Previous
      /\ b \notin Current..((slice + 1) * SegmentLength(params) - 1) }

(* The area reference_index computes is those blocks exactly, and there is *)
(* always one: at the start of a segment, in the first pass and later.     *)
AreaIsReferable ==
  (result = NoResult /\ ~Invalid(params) /\ pass < params.passes
     /\ index < SegmentLength(params)) =>
  /\ Area = Cardinality(Referable) /\ Area > 0
  /\ { (Start + k) % BlockCount(params) : k \in 0..Area - 1 } = Referable

(* A block is mixed from two blocks the walk has written, neither of them  *)
(* the block itself.                                                       *)
MixesWritten ==
  step' # step /\ step' # NoStep =>
    /\ written[step'.previous] > 0 /\ step'.reference \in Referable
    /\ step'.reference # step'.current

MixesWrittenBlocks == [][MixesWritten]_vars

(* A data-independent block takes its own word of the right address block, *)
(* in the first segment too, which starts in the middle of one.            *)
AddressesAreInStep ==
  (step # NoStep /\ DataIndependent) =>
  LET i == step.current - slice * SegmentLength(params)
  IN  step.address = <<(i \div QWORDS) + 1, i % QWORDS>>

(* Every pass writes every block once, whatever the memory size is.        *)
PassesAreComplete ==
  (~Invalid(params) /\ slice = 0 /\ index = 0) =>
  \A b \in Blocks(params) : written[b] = pass

(* RFC 9106's H': V_1 to V_r give 32 bytes each and V_(r+1) the rest.      *)
HPrime(n) ==
  IF n <= 64 THEN DigestBytes(1, 1, n)
  ELSE LET r == ((n + 31) \div 32) - 2
       IN  FlattenSeq([k \in 1..r + 1 |->
             IF k <= r THEN DigestBytes(k, 1, 32) ELSE DigestBytes(k, 1, n - 32 * r)])

OutputIsHPrime ==
  result \notin {NoResult, InvalidParams} => result = HPrime(params.output_len)

(* The derivation ends: every chain gets to its tail.                      *)
Terminates == <>(result # NoResult)
=============================================================================

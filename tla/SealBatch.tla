----------------------------- MODULE SealBatch -----------------------------
(***************************************************************************)
(* blindplane-core's seal_batch: the items are cut into chunks, one scoped *)
(* thread seals each chunk, and the caller joins the threads in the order  *)
(* it spawned them, placing each thread's results at the chunk's offset.   *)
(* An item's result is named by the item; it may be an error, which must   *)
(* not disturb the other items.  Items count from 0, as in the source.     *)
(***************************************************************************)
EXTENDS Integers, Sequences, TLAPS

CONSTANTS
  MaxItems,   (* bound: the longest batch                                  *)
  MaxCores,   (* bound: the largest available_parallelism                  *)
  NoResult    (* a result slot that was not filled                         *)

Outcomes == [item: 0..(MaxItems - 1), ok: BOOLEAN]

ASSUME SealBatchAssumption ==
  /\ MaxItems \in Nat
  /\ MaxCores \in Nat \ {0}
  /\ NoResult \notin Outcomes

VARIABLES
  len,      (* items.len()                                                 *)
  cores,    (* available_parallelism, 1 where it is unknown                *)
  failing,  (* the items that seal refuses                                 *)
  pc,       (* where the caller is                                         *)
  spawned,  (* how many chunks have a thread                               *)
  output,   (* what the thread of each chunk has collected                 *)
  joined,   (* how many threads the caller has joined                      *)
  results   (* the caller's slots                                          *)

input == <<len, cores, failing>>
vars  == <<input, pc, spawned, output, joined, results>>

Items == 0..(len - 1)

TypeOK ==
  /\ len \in 0..MaxItems
  /\ cores \in 1..MaxCores
  /\ failing \in SUBSET Items
  /\ pc \in {"start", "inline", "spawn", "join", "returned", "panicked"}
  /\ spawned \in 0..len
  /\ output \in [0..MaxItems -> Seq(Outcomes)]
  /\ joined \in 0..spawned
  /\ results \in [Items -> Outcomes \cup {NoResult}]

Init ==
  /\ len \in 0..MaxItems
  /\ cores \in 1..MaxCores
  /\ failing \in SUBSET Items
  /\ pc = "start"
  /\ spawned = 0
  /\ output = [c \in 0..MaxItems |-> <<>>]
  /\ joined = 0
  /\ results = [i \in Items |-> NoResult]

Least(m, n)    == IF m <= n THEN m ELSE n
Greatest(m, n) == IF m <= n THEN n ELSE m

Workers == Least(cores, Greatest(len, 1))

(* Rounded up, so that no more chunks than workers cover the items.        *)
ChunkSize == (len + Workers - 1) \div Workers

Offset(c) == c * ChunkSize

ChunkLength(c) == Least(ChunkSize, len - Offset(c))

(* What seal returns for an item.                                          *)
SealOf(i) == [item |-> i, ok |-> i \notin failing]

-----------------------------------------------------------------------------
(* One core, or at most one item: no thread is spawned.                    *)
Begin ==
  /\ pc = "start"
  /\ pc' = IF Workers <= 1 \/ len <= 1 THEN "inline" ELSE "spawn"
  /\ UNCHANGED <<input, spawned, output, joined, results>>

SealInline ==
  /\ pc = "inline"
  /\ Len(output[0]) < len
  /\ output' = [output EXCEPT ![0] = Append(@, SealOf(Len(@)))]
  /\ UNCHANGED <<input, pc, spawned, joined, results>>

ReturnInline ==
  /\ pc = "inline"
  /\ Len(output[0]) = len
  /\ results' = [i \in Items |-> output[0][i + 1]]
  /\ pc' = "returned"
  /\ UNCHANGED <<input, spawned, output, joined>>

(* items.chunks(chunk_size): the next chunk, while items remain.           *)
Spawn ==
  /\ pc = "spawn"
  /\ Offset(spawned) < len
  /\ spawned' = spawned + 1
  /\ UNCHANGED <<input, pc, output, joined, results>>

SpawnedAll ==
  /\ pc = "spawn"
  /\ Offset(spawned) >= len
  /\ pc' = "join"
  /\ UNCHANGED <<input, spawned, output, joined, results>>

(* Mutant: the thread counts from the start of the batch.                  *)
SealFromStart(c) ==
  /\ Len(output[c]) < ChunkLength(c)
  /\ output' = [output EXCEPT ![c] = Append(@, SealOf(Len(@)))]
  /\ UNCHANGED <<input, pc, spawned, joined, results>>

(* The thread of chunk c seals the next item of its chunk.                 *)
SealNext(c) ==
  /\ Len(output[c]) < ChunkLength(c)
  /\ output' = [output EXCEPT ![c] = Append(@, SealOf(Offset(c) + Len(@)))]
  /\ UNCHANGED <<input, pc, spawned, joined, results>>

(* Mutant: a thread is done once it collected chunk_size results.          *)
FinishedFull(c) == Len(output[c]) = ChunkSize

Finished(c) == Len(output[c]) = ChunkLength(c)

(* join waits for the thread; its results go to the chunk's slots.         *)
Place(offset, collected) ==
  results' = [i \in Items |-> IF i - offset \in 0..(Len(collected) - 1)
                              THEN collected[i - offset + 1] ELSE results[i]]

(* Mutant: the handle keeps the chunk's number in place of its offset.     *)
JoinAtNumber ==
  /\ pc = "join"
  /\ joined < spawned
  /\ Finished(joined)
  /\ Place(joined, output[joined])
  /\ joined' = joined + 1
  /\ UNCHANGED <<input, pc, spawned, output>>

(* Mutant: the caller does not wait for the thread to end.                 *)
JoinUnfinished ==
  /\ pc = "join"
  /\ joined < spawned
  /\ Place(Offset(joined), output[joined])
  /\ joined' = joined + 1
  /\ UNCHANGED <<input, pc, spawned, output>>

Join ==
  /\ pc = "join"
  /\ joined < spawned
  /\ Finished(joined)
  /\ Place(Offset(joined), output[joined])
  /\ joined' = joined + 1
  /\ UNCHANGED <<input, pc, spawned, output>>

(* Every slot is unwrapped with expect: an empty one panics.               *)
Collect ==
  /\ pc = "join"
  /\ joined = spawned
  /\ pc' = IF \E i \in Items : results[i] = NoResult THEN "panicked" ELSE "returned"
  /\ UNCHANGED <<input, spawned, output, joined, results>>

Caller ==
  Begin \/ SealInline \/ ReturnInline \/ Spawn \/ SpawnedAll \/ Join \/ Collect

Worker(c) == c < spawned /\ SealNext(c)

Next == Caller \/ \E c \in 0..MaxItems : Worker(c)

(* Every thread that can run is eventually run.                            *)
Fairness == WF_vars(Caller) /\ \A c \in 0..MaxItems : WF_vars(Worker(c))

Spec     == Init /\ [][Next]_vars
FairSpec == Spec /\ Fairness

-----------------------------------------------------------------------------
(* "preserving input order": whatever the batch, the cores and the order   *)
(* in which threads run, what is returned holds every item's own result,   *)
(* failures included, at the item's place.                                 *)
PreservesInputOrder ==
  pc = "returned" => results = [i \in Items |-> SealOf(i)]

(* "every index is filled by exactly one worker": the expect on each slot  *)
(* never fails, ...                                                        *)
NeverPanics == pc # "panicked"

(* ... and no thread's results ever overwrite another's.                   *)
FilledOnce ==
  [][\A i \in Items : results[i] # NoResult => results'[i] = results[i]]_vars

(* The call returns: every spawned thread is joined, every join ends.      *)
BatchReturns == <>(pc = "returned")

-----------------------------------------------------------------------------
(* The inductive invariant behind the safety properties above.             *)

(* What a thread has collected is its own chunk's results, in order.       *)
Collected ==
  \A c \in 0..MaxItems :
    \A k \in 1..Len(output[c]) : output[c][k] = SealOf(Offset(c) + k - 1)

(* The slots below the next thread's offset are filled, and no others.     *)
Placed ==
  pc # "returned" =>
    \A i \in Items :
      results[i] = IF i < Offset(joined) THEN SealOf(i) ELSE NoResult

CallerStands ==
  /\ pc \in {"start", "inline"} => spawned = 0
  /\ pc \in {"spawn", "join"} => len > 1
  /\ pc = "spawn" => joined = 0
  /\ pc = "join" => Offset(spawned) >= len
  /\ NeverPanics

IInv == TypeOK /\ Collected /\ Placed /\ PreservesInputOrder /\ CallerStands

-----------------------------------------------------------------------------
(* For every batch length, number of cores and choice of failing items,    *)
(* seal_batch returns each item's own result at its place and never finds  *)
(* an empty slot.  The argument: chunk c holds the items from Offset(c),   *)
(* offsets advance by the chunk size, and joining in order keeps exactly   *)
(* the slots below the next offset filled.                                 *)

USE SealBatchAssumption

(* Offsets step by the chunk size, which is positive for a batch of any    *)
(* item, so that a chunk never starts before its own number.               *)
LEMMA ChunkSizes ==
  ASSUME TypeOK
  PROVE  /\ Workers \in Nat \ {0}
         /\ ChunkSize \in Nat
         /\ len > 0 => ChunkSize >= 1
<1>1. len \in Nat /\ cores \in Nat /\ cores >= 1
  BY DEF TypeOK
<1>2. Workers \in Nat /\ Workers >= 1
  BY <1>1 DEF Workers, Least, Greatest
<1>3. len + Workers - 1 \in Nat /\ (len > 0 => len + Workers - 1 >= Workers)
  BY <1>1, <1>2
<1>4. \A n \in Nat, w \in Nat \ {0} : n \div w \in Nat /\ (n >= w => n \div w >= 1)
  OBVIOUS
<1> QED BY <1>2, <1>3, <1>4 DEF ChunkSize

LEMMA Offsets ==
  ASSUME TypeOK, NEW c \in Nat
  PROVE  /\ Offset(c) \in Nat
         /\ Offset(0) = 0
         /\ Offset(c + 1) = Offset(c) + ChunkSize
         /\ len > 0 => c <= Offset(c)
<1>1. \A m, s \in Nat : m * s \in Nat /\ 0 * s = 0 /\ (m + 1) * s = m * s + s
  OBVIOUS
<1>2. \A m, s \in Nat : s >= 1 => m <= m * s
  OBVIOUS
<1> QED BY <1>1, <1>2, ChunkSizes DEF Offset

(* The item an outcome names lies in the batch.                            *)
LEMMA SealOfTyped ==
  ASSUME TypeOK, NEW i \in Items
  PROVE  SealOf(i) \in Outcomes
BY DEF TypeOK, Items, SealOf, Outcomes

-----------------------------------------------------------------------------
LEMMA InitIInv == Init => IInv
<1> SUFFICES ASSUME Init PROVE IInv
  OBVIOUS
<1>1. TypeOK
  BY DEF Init, TypeOK, Items
<1>2. Offset(0) = 0
  BY <1>1, Offsets
<1>3. Collected
  BY DEF Init, Collected
<1>4. Placed /\ PreservesInputOrder /\ CallerStands
  BY <1>2 DEF Init, Placed, PreservesInputOrder, CallerStands, NeverPanics, Items
<1> QED BY <1>1, <1>3, <1>4 DEF IInv

(* A step that leaves the input alone leaves the layout of the chunks.     *)
LEMMA LayoutFixed ==
  ASSUME UNCHANGED input
  PROVE  /\ Items' = Items
         /\ ChunkSize' = ChunkSize
         /\ \A c : Offset(c)' = Offset(c)
         /\ \A i : SealOf(i)' = SealOf(i)
BY DEF input, Items, ChunkSize, Workers, Offset, SealOf

(* What a thread appends: the result of the next item of its chunk.        *)
LEMMA Appends ==
  ASSUME TypeOK, Collected, UNCHANGED input, NEW c \in 0..MaxItems, NEW i \in Items,
         i = Offset(c) + Len(output[c]),
         output' = [output EXCEPT ![c] = Append(output[c], SealOf(i))]
  PROVE  output' \in [0..MaxItems -> Seq(Outcomes)] /\ Collected'
<1>1. SealOf(i) \in Outcomes
  BY SealOfTyped
<1>2. output \in [0..MaxItems -> Seq(Outcomes)]
  BY DEF TypeOK
<1>3. output' \in [0..MaxItems -> Seq(Outcomes)]
  BY <1>1, <1>2
<1>4. SUFFICES ASSUME NEW d \in 0..MaxItems, NEW k \in 1..Len(output'[d])
               PROVE  output'[d][k] = SealOf(Offset(d) + k - 1)
  BY <1>3, LayoutFixed DEF Collected
<1>5. CASE d # c
  BY <1>2, <1>4, <1>5 DEF Collected
<1>6. CASE d = c
  <2>1. output'[c] = Append(output[c], SealOf(i)) /\ output[c] \in Seq(Outcomes)
    BY <1>2
  <2>2. Len(output[c]) \in Nat /\ Len(output'[c]) = Len(output[c]) + 1
    BY <1>1, <2>1
  <2>3. CASE k = Len(output[c]) + 1
    <3>1. output'[c][k] = SealOf(i)
      BY <1>1, <2>1, <2>3
    <3>2. c \in Nat /\ Offset(c) \in Nat
      <4>1. c \in Nat
        OBVIOUS
      <4> QED BY <4>1, Offsets
    <3>3. i = Offset(c) + k - 1
      BY <2>2, <2>3, <3>2
    <3> QED BY <1>6, <3>1, <3>3
  <2>4. CASE k # Len(output[c]) + 1
    <3>1. k \in 1..Len(output[c])
      BY <1>6, <2>2, <2>4
    <3>2. output'[c][k] = output[c][k]
      BY <1>1, <2>1, <3>1
    <3> QED BY <1>6, <3>1, <3>2 DEF Collected
  <2> QED BY <2>3, <2>4
<1> QED BY <1>3, <1>5, <1>6

(* Joining the next thread fills exactly the slots of its chunk.           *)
LEMMA Places ==
  ASSUME IInv, pc = "join", joined < spawned, Finished(joined),
         Place(Offset(joined), output[joined]), joined' = joined + 1,
         UNCHANGED <<input, pc, spawned, output>>
  PROVE  /\ results' \in [Items -> Outcomes \cup {NoResult}]
         /\ \A i \in Items :
              results'[i] = IF i < Offset(joined + 1) THEN SealOf(i) ELSE NoResult
<1> DEFINE lo == Offset(joined)
           done == output[joined]
<1>1. /\ joined \in Nat /\ joined \in 0..MaxItems /\ len \in Nat /\ len > 1
      /\ done \in Seq(Outcomes)
  BY DEF IInv, TypeOK, CallerStands
<1>2. lo \in Nat /\ ChunkSize \in Nat /\ Offset(joined + 1) = lo + ChunkSize
  BY <1>1, Offsets, ChunkSizes DEF IInv
<1>3. Len(done) \in Nat /\ Len(done) = Least(ChunkSize, len - lo)
  BY <1>1 DEF Finished, ChunkLength
<1>4. \A i \in Items : i \in Nat /\ i < len
  BY <1>1 DEF Items
<1>5. \A i \in Items :
        i - lo \in 0..(Len(done) - 1) <=> lo <= i /\ i < Offset(joined + 1)
  BY <1>1, <1>2, <1>3, <1>4 DEF Least
<1>6. \A i \in Items : lo <= i /\ i < Offset(joined + 1) => done[i - lo + 1] = SealOf(i)
  <2> SUFFICES ASSUME NEW i \in Items, lo <= i, i < Offset(joined + 1)
               PROVE  done[i - lo + 1] = SealOf(i)
    OBVIOUS
  <2>1. i - lo + 1 \in 1..Len(done)
    BY <1>2, <1>3, <1>4, <1>5
  <2>2. done[i - lo + 1] = SealOf(lo + (i - lo + 1) - 1)
    BY <1>1, <2>1 DEF IInv, Collected
  <2>3. lo + (i - lo + 1) - 1 = i
    BY <1>2, <1>4
  <2> QED BY <2>2, <2>3
<1>7. results' = [i \in Items |-> IF i - lo \in 0..(Len(done) - 1)
                                  THEN done[i - lo + 1] ELSE results[i]]
  BY LayoutFixed DEF Place
<1>8. \A i \in Items :
        results'[i] = IF i < Offset(joined + 1) THEN SealOf(i) ELSE NoResult
  <2> SUFFICES ASSUME NEW i \in Items
               PROVE  results'[i] = IF i < Offset(joined + 1) THEN SealOf(i) ELSE NoResult
    OBVIOUS
  <2>1. results[i] = IF i < lo THEN SealOf(i) ELSE NoResult
    BY DEF IInv, Placed
  <2>2. CASE lo <= i /\ i < Offset(joined + 1)
    BY <1>5, <1>6, <1>7, <2>2
  <2>3. CASE ~ (lo <= i /\ i < Offset(joined + 1))
    <3>1. results'[i] = results[i]
      BY <1>5, <1>7, <2>3
    <3>2. i < lo <=> i < Offset(joined + 1)
      BY <1>2, <1>4, <2>3
    <3> QED BY <2>1, <3>1, <3>2
  <2> QED BY <2>2, <2>3
<1>9. results' \in [Items -> Outcomes \cup {NoResult}]
  <2>1. \A i \in Items : results'[i] \in Outcomes \cup {NoResult}
    BY <1>8, SealOfTyped DEF IInv
  <2> QED BY <1>7, <2>1
<1> QED BY <1>8, <1>9

(* Each step preserves the inductive invariant.                            *)
LEMMA StepIInv == IInv /\ [Next]_vars => IInv'
<1> SUFFICES ASSUME IInv, [Next]_vars PROVE IInv'
  OBVIOUS
<1> USE DEF IInv
<1>a. /\ len \in Nat /\ joined \in Nat /\ spawned \in Nat /\ spawned <= len
      /\ joined <= spawned /\ len <= MaxItems
  BY DEF TypeOK
<1>b. UNCHANGED input
  BY DEF Next, Caller, Worker, Begin, SealInline, ReturnInline, Spawn, SpawnedAll,
         Join, Collect, SealNext, vars
<1>c. /\ Items' = Items /\ ChunkSize' = ChunkSize
      /\ \A c : Offset(c)' = Offset(c)
      /\ \A i : SealOf(i)' = SealOf(i)
  BY <1>b, LayoutFixed
<1>d. Offset(0) = 0
  BY Offsets
<1>e. /\ output' = output => Collected'
      /\ UNCHANGED <<joined, results>> /\ pc' # "returned" /\ pc # "returned" => Placed'
  BY <1>c DEF Collected, Placed
<1>1. CASE Begin
  <2>1. pc' \in {"inline", "spawn"} /\ (pc' = "spawn" => len > 1)
    BY <1>1, <1>a DEF Begin
  <2>2. joined = 0 /\ spawned = 0
    BY <1>1, <1>a DEF Begin, CallerStands
  <2> QED BY <1>1, <1>b, <1>c, <1>e, <2>1, <2>2
          DEF Begin, TypeOK, PreservesInputOrder, CallerStands, NeverPanics, input
<1>2. CASE SealInline
  <2>1. /\ pc = "inline" /\ 0 \in 0..MaxItems /\ Len(output[0]) \in Items
        /\ Len(output[0]) = Offset(0) + Len(output[0])
        /\ output' = [output EXCEPT ![0] = Append(output[0], SealOf(Len(output[0])))]
    BY <1>2, <1>a, <1>d DEF SealInline, TypeOK, Items
  <2>2. output' \in [0..MaxItems -> Seq(Outcomes)] /\ Collected'
    BY <1>b, <2>1, Appends
  <2> QED BY <1>2, <1>c, <1>e, <2>1, <2>2
          DEF SealInline, TypeOK, PreservesInputOrder, CallerStands, NeverPanics, input
<1>3. CASE ReturnInline
  <2>1. \A i \in Items : output[0][i + 1] = SealOf(i)
    <3>1. SUFFICES ASSUME NEW i \in Items PROVE output[0][i + 1] = SealOf(i)
      OBVIOUS
    <3>2. 0 \in 0..MaxItems /\ i + 1 \in 1..Len(output[0]) /\ 0 + (i + 1) - 1 = i
      BY <1>3, <1>a DEF ReturnInline, Items
    <3> QED BY <1>d, <3>2 DEF Collected
  <2>2. results' = [i \in Items |-> SealOf(i)]
    BY <1>3, <2>1 DEF ReturnInline
  <2>3. results' \in [Items -> Outcomes \cup {NoResult}]
    BY <2>2, SealOfTyped
  <2> QED BY <1>3, <1>c, <1>e, <2>2, <2>3
          DEF ReturnInline, TypeOK, Placed, PreservesInputOrder, CallerStands, NeverPanics, input
<1>4. CASE Spawn
  <2>1. spawned < len
    BY <1>4, <1>a, Offsets DEF Spawn, CallerStands
  <2> QED BY <1>4, <1>a, <1>c, <1>e, <2>1
          DEF Spawn, TypeOK, PreservesInputOrder, CallerStands, NeverPanics, input
<1>5. CASE SpawnedAll
  BY <1>5, <1>a, <1>c, <1>e
  DEF SpawnedAll, TypeOK, PreservesInputOrder, CallerStands, NeverPanics, input
<1>6. CASE Join
  <2>1. /\ results' \in [Items -> Outcomes \cup {NoResult}]
        /\ \A i \in Items :
             results'[i] = IF i < Offset(joined + 1) THEN SealOf(i) ELSE NoResult
    BY <1>6, <1>b, Places DEF Join
  <2>2. joined' = joined + 1 /\ joined' \in 0..spawned
    BY <1>6, <1>a DEF Join
  <2>3. Offset(joined)' = Offset(joined + 1)
    BY <1>c, <2>2 DEF Offset
  <2>4. Placed'
    BY <1>c, <2>1, <2>3 DEF Placed
  <2> QED BY <1>6, <1>c, <1>e, <2>1, <2>2, <2>4
          DEF Join, TypeOK, PreservesInputOrder, CallerStands, NeverPanics, input
<1>7. CASE Collect
  <2>1. \A i \in Items : results[i] = SealOf(i)
    BY <1>7, <1>a, Offsets DEF Collect, Placed, CallerStands, Items
  <2>2. \A i \in Items : results[i] # NoResult
    BY <2>1, SealOfTyped, SealBatchAssumption
  <2>3. pc' = "returned" /\ results = [i \in Items |-> SealOf(i)]
    BY <1>7, <2>1, <2>2 DEF Collect, TypeOK
  <2> QED BY <1>7, <1>c, <1>e, <2>3
          DEF Collect, TypeOK, Placed, PreservesInputOrder, CallerStands, NeverPanics, input
<1>8. ASSUME NEW c \in 0..MaxItems, Worker(c) PROVE IInv'
  <2>1. /\ c \in Nat /\ output[c] \in Seq(Outcomes) /\ Len(output[c]) \in Nat
        /\ Len(output[c]) < Least(ChunkSize, len - Offset(c))
    BY <1>8 DEF Worker, SealNext, TypeOK, ChunkLength
  <2>2. Offset(c) \in Nat /\ ChunkSize \in Nat
    BY <2>1, Offsets, ChunkSizes
  <2>3. Offset(c) + Len(output[c]) \in Items
    BY <1>a, <2>1, <2>2 DEF Least, Items
  <2>4. output' = [output EXCEPT ![c] = Append(output[c], SealOf(Offset(c) + Len(output[c])))]
    BY <1>8 DEF Worker, SealNext
  <2>5. output' \in [0..MaxItems -> Seq(Outcomes)] /\ Collected'
    BY <1>b, <2>3, <2>4, Appends
  <2>6. Placed'
    BY <1>8, <1>c DEF Worker, SealNext, Placed
  <2> QED BY <1>8, <1>c, <2>5, <2>6
          DEF Worker, SealNext, TypeOK, PreservesInputOrder, CallerStands, NeverPanics, input
<1>9. CASE UNCHANGED vars
  BY <1>9, <1>c DEF vars, input, TypeOK, Collected, Placed, PreservesInputOrder, CallerStands,
                   NeverPanics
<1> QED BY <1>1, <1>2, <1>3, <1>4, <1>5, <1>6, <1>7, <1>8, <1>9 DEF Next, Caller

-----------------------------------------------------------------------------
(* The inductive invariant holds of every execution of seal_batch.         *)
THEOREM Invariance == Spec => []IInv
BY InitIInv, StepIInv, PTL DEF Spec

(* seal_batch's state keeps its types, for every batch and every number of *)
(* cores; a thread never seals past the end of the batch.                  *)
THEOREM TypeCorrect == Spec => []TypeOK
<1>1. IInv => TypeOK
  BY DEF IInv
<1> QED BY <1>1, Invariance, PTL

(* seal_batch "preserves input order", with every item's own result.       *)
THEOREM InputOrder == Spec => []PreservesInputOrder
<1>1. IInv => PreservesInputOrder
  BY DEF IInv
<1> QED BY <1>1, Invariance, PTL

(* seal_batch's expect, "every index is filled by exactly one worker",     *)
(* never fails.                                                            *)
THEOREM NoPanic == Spec => []NeverPanics
<1>1. IInv => NeverPanics
  BY DEF IInv, CallerStands
<1> QED BY <1>1, Invariance, PTL

(* No thread's results overwrite another's: the slots a join writes are    *)
(* empty, or hold the same result already.                                 *)
THEOREM WriteOnce == Spec => FilledOnce
<1>1. ASSUME IInv, [Next]_vars
      PROVE  [\A i \in Items : results[i] # NoResult => results'[i] = results[i]]_vars
  <2> SUFFICES ASSUME NEW i \in Items, results[i] # NoResult
               PROVE  results'[i] = results[i]
    OBVIOUS
  <2>1. CASE results' = results
    BY <2>1
  <2>2. CASE ReturnInline
    <3>1. joined = 0 /\ Offset(0) = 0 /\ i \in Nat
      BY <1>1, <2>2, Offsets DEF IInv, TypeOK, CallerStands, ReturnInline, Items
    <3> QED BY <1>1, <2>2, <3>1 DEF IInv, Placed, ReturnInline
  <2>3. CASE Join
    <3>1. joined \in Nat /\ i \in Nat
      BY <1>1 DEF IInv, TypeOK, Items
    <3>2. Offset(joined) \in Nat /\ ChunkSize \in Nat /\ Offset(joined + 1) = Offset(joined) + ChunkSize
      BY <1>1, <3>1, Offsets, ChunkSizes DEF IInv
    <3>3. results[i] = SealOf(i) /\ i < Offset(joined)
      BY <1>1, <2>3 DEF IInv, Placed, Join
    <3>4. results'[i] = SealOf(i)
      BY <1>1, <2>3, <3>1, <3>2, <3>3, Places DEF Join, input
    <3> QED BY <3>3, <3>4
  <2> QED BY <1>1, <2>1, <2>2, <2>3
          DEF Next, Caller, Worker, Begin, SealInline, Spawn, SpawnedAll, Collect, SealNext, vars
<1> QED BY <1>1, Invariance, PTL DEF Spec, FilledOnce
=============================================================================

-------------------------------- MODULE Rand --------------------------------
(***************************************************************************)
(* blindplane-crypto's rand: fill asks the kernel for ChunkLen bytes at a  *)
(* time and, when a call fails, starts over on the whole buffer from       *)
(* /dev/urandom; secret_32 fills a zeroed secret.  A byte is named by the  *)
(* source it came from; what the kernel leaves in a buffer it did not fill *)
(* is anyone's guess.                                                      *)
(***************************************************************************)
EXTENDS Integers, FiniteSets

CONSTANTS
  ChunkLen,    (* 256: getentropy's limit                                   *)
  Lengths,     (* the buffers' lengths                                      *)
  Unix         (* the builds: TRUE where getentropy exists                  *)

ASSUME RandAssumption ==
  /\ ChunkLen \in Nat \ {0}
  /\ Lengths \subseteq Nat
  /\ Unix \subseteq BOOLEAN

VARIABLES
  unix,
  buffer, filled,   (* the caller's buffer and what fill has worked through *)
  phase,            (* "chunks", "open", "read", or fill's return           *)
  secret            (* what secret_32 gives its caller                      *)

vars == <<unix, buffer, filled, phase, secret>>

Init ==
  /\ unix \in Unix
  /\ \E n \in Lengths : buffer = [i \in 1..n |-> "stale"]
  /\ filled = 0
  /\ phase = IF unix THEN "chunks" ELSE "open"
  /\ secret = "none"

Length   == Cardinality(DOMAIN buffer)

(* chunks_mut: the next bytes, fewer for the last chunk.                   *)
Chunk    == filled + 1 .. IF filled + ChunkLen < Length THEN filled + ChunkLen ELSE Length

Put(places, source) == [i \in DOMAIN buffer |-> IF i \in places THEN source ELSE buffer[i]]

-----------------------------------------------------------------------------
GetEntropy ==
  /\ phase = "chunks" /\ filled < Length
  /\ buffer' = Put(Chunk, "getentropy")
  /\ filled' = filled + Cardinality(Chunk)
  /\ UNCHANGED <<unix, phase, secret>>

(* Mutant: a failed chunk is skipped.                                      *)
GetEntropyIgnored ==
  /\ phase = "chunks" /\ filled < Length
  /\ filled' = filled + Cardinality(Chunk)
  /\ UNCHANGED <<unix, buffer, phase, secret>>

(* Any chunk may fail, the first or a later one.                           *)
GetEntropyFails ==
  /\ phase = "chunks" /\ filled < Length
  /\ \E some \in SUBSET Chunk : buffer' = Put(some, "partial")
  /\ phase' = "open"
  /\ UNCHANGED <<unix, filled, secret>>

FillReturns ==
  /\ phase = "chunks" /\ filled = Length
  /\ phase' = "ok"
  /\ UNCHANGED <<unix, buffer, filled, secret>>

(* fill_from_dev_urandom, on the whole buffer.                             *)
OpenDevice ==
  /\ phase = "open"
  /\ phase' \in {"read", "failed"}
  /\ UNCHANGED <<unix, buffer, filled, secret>>

ReadExact ==
  /\ phase = "read"
  /\ buffer' = Put(DOMAIN buffer, "urandom")
  /\ phase' = "ok"
  /\ UNCHANGED <<unix, filled, secret>>

ReadFails ==
  /\ phase = "read"
  /\ \E some \in SUBSET DOMAIN buffer : buffer' = Put(some, "partial")
  /\ phase' = "failed"
  /\ UNCHANGED <<unix, filled, secret>>

(* secret_32: the secret on success; on failure it is dropped, erased.     *)
Secret32 ==
  /\ phase \in {"ok", "failed"} /\ secret = "none"
  /\ IF phase = "ok" THEN secret' = "given" /\ UNCHANGED buffer
                     ELSE secret' = "refused" /\ buffer' = Put(DOMAIN buffer, "erased")
  /\ UNCHANGED <<unix, filled, phase>>

Next == \/ GetEntropy \/ GetEntropyFails \/ FillReturns
        \/ OpenDevice \/ ReadExact \/ ReadFails \/ Secret32

(* The calls return: a fill that is under way goes on.                     *)
Spec == Init /\ [][Next]_vars /\ WF_vars(Next)

-----------------------------------------------------------------------------
(* A secret is given only when every byte of it came from the kernel, all  *)
(* from one of the two sources: no byte that was there before, none of a   *)
(* system call that failed midway.                                         *)
OnlyFreshBytes ==
  secret = "given" =>
    \/ \A i \in DOMAIN buffer : buffer[i] = "getentropy"
    \/ \A i \in DOMAIN buffer : buffer[i] = "urandom"

(* rand.rs:9-10: a failing source fails the operation, it does not loop.   *)
EveryFillReturns == <>(secret \in {"given", "refused"})
=============================================================================

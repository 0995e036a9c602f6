------------------------------ MODULE Keystream ------------------------------
(***************************************************************************)
(* One ChaCha20 generator used for several calls, on each of the two       *)
(* builds; see KeystreamPaths.                                             *)
(***************************************************************************)
EXTENDS KeystreamPaths

CONSTANTS
  Starts,    (* the counters a generator is made with                      *)
  CallLens,  (* the lengths of a call, in words                            *)
  MaxCalls   (* bound: calls of one generator                              *)

VARIABLES
  start,
  counter, produced,     (* the portable build's state[12] and keystream   *)
  vcounter, vproduced,   (* the vector build's                             *)
  calls

vars == <<start, counter, produced, vcounter, vproduced, calls>>

Init ==
  /\ start \in Starts
  /\ counter = start /\ vcounter = start
  /\ produced = <<>> /\ vproduced = <<>>
  /\ calls = 0

ApplyKeystream(n) ==
  LET p == Portable(counter, n)
      v == Vector(vcounter, n)
  IN  /\ calls < MaxCalls
      /\ calls' = calls + 1
      /\ produced' = produced \o p.keys /\ counter' = p.counter
      /\ vproduced' = vproduced \o v.keys /\ vcounter' = v.counter
      /\ UNCHANGED start

Next == \E n \in CallLens : ApplyKeystream(n)

Spec == Init /\ [][Next]_vars

-----------------------------------------------------------------------------
(* A generator that is at a counter and has made some keystream resumes at *)
(* the next unused block, with that block's words in order.                *)
Resumes(c, made, next_c, next_made) ==
  \E n \in CallLens :
    /\ next_made = made \o
         [i \in 1..n |-> << WrappingAdd(c, (i - 1) \div Words), (i - 1) % Words >>]
    /\ next_c = WrappingAdd(c, DivCeil(n, Words))

BothResume ==
  /\ Resumes(counter, produced, counter', produced')
  /\ Resumes(vcounter, vproduced, vcounter', vproduced')

(* However calls of any length follow each other, both builds resume at    *)
(* the next unused block; the vector path once advanced by four blocks     *)
(* after a short tail.                                                     *)
ResumesAtNextBlock == [][BothResume]_vars
=============================================================================

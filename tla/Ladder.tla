-------------------------------- MODULE Ladder --------------------------------
(***************************************************************************)
(* The Montgomery ladder behind X25519: clamping, the two working points   *)
(* with their deferred swap, and the refusal of an all-zero shared secret. *)
(* A point is the multiple of the peer's point it is, modulo that point's  *)
(* order; the field is exact.                                              *)
(***************************************************************************)
EXTENDS Integers

CONSTANTS
  Bits,    (* 256: bits of a secret                                         *)
  Orders   (* the orders a peer's point may have                            *)

VARIABLES
  secret,  (* the 32 bytes, as a number                                     *)
  order,   (* the order of the peer's point                                 *)
  p2, p3,  (* the two working points                                        *)
  swap,    (* whether they wait exchanged                                   *)
  i,       (* the next bit, -1 when none is left                            *)
  shared   (* what diffie_hellman returns, or "running"                     *)

vars == <<secret, order, p2, p3, swap, i, shared>>

-----------------------------------------------------------------------------
Pow2[k \in Nat] == IF k = 0 THEN 1 ELSE 2 * Pow2[k - 1]

(* The three lowest bits and the top one cleared, the next one set.        *)
Clamp(s) == (s % Pow2[Bits - 2]) - (s % 8) + Pow2[Bits - 2]

BitOf(s, k) == (s \div Pow2[k]) % 2

Init ==
  /\ secret \in 0..(Pow2[Bits] - 1) /\ order \in Orders
  /\ p2 = 0 /\ p3 = 1 % order /\ swap = 0
  /\ i = Bits - 2 /\ shared = "running"

(* The pair after a masked exchange.                                       *)
Swapped(choice) == IF choice = 1 THEN <<p3, p2>> ELSE <<p2, p3>>

(* One bit: exchange if it differs from the one before, then double the    *)
(* first point and add the two.                                            *)
Rung ==
  /\ i >= 0
  /\ LET bit  == BitOf(Clamp(secret), i)
         pair == Swapped((swap + bit) % 2)
     IN  /\ p2' = (2 * pair[1]) % order /\ p3' = (pair[1] + pair[2]) % order
         /\ swap' = bit
  /\ i' = i - 1
  /\ UNCHANGED <<secret, order, shared>>

(* A point encodes as zero when it is the identity or has order two.       *)
EncodesZero(point) == (2 * point) % order = 0

(* The last exchange, the encoding, and the check of diffie_hellman.       *)
Finish ==
  /\ i = -1 /\ shared = "running"
  /\ p2' = Swapped(swap)[1] /\ p3' = Swapped(swap)[2]
  /\ shared' = IF EncodesZero(p2') THEN "None" ELSE "Some"
  /\ UNCHANGED <<secret, order, swap, i>>

Next == Rung \/ Finish

Spec == Init /\ [][Next]_vars

-----------------------------------------------------------------------------
(* The addition formula of a rung knows the difference of its two points   *)
(* and uses the peer's own: they differ by it after every rung, the second *)
(* ahead unless an exchange is due.                                        *)
DifferenceIsThePoint ==
  shared = "running" =>
    (IF swap = 1 THEN p2 - p3 ELSE p3 - p2) % order = 1 % order

(* The ladder ends at the clamped secret's multiple of the peer's point.   *)
ComputesMultiple == shared # "running" => p2 = Clamp(secret) % order

(* montgomery.rs:99: an all-zero secret "is what a small-order peer key    *)
(* produces": those and no other peers are refused, whatever the secret.   *)
RefusesSmallOrder == shared # "running" => (shared = "None" <=> 8 % order = 0)
=============================================================================

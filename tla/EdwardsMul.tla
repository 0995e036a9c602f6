------------------------------ MODULE EdwardsMul ------------------------------
(***************************************************************************)
(* Scalar multiplication on the Edwards curve: the signed radix-16 digits  *)
(* behind signing, by doublings (mul) or by the table of the base point    *)
(* (mul_base), and the width-w non-adjacent forms behind verification,     *)
(* with the joint loop over a key and the base point.  A point is a pair   *)
(* of coefficients, of the key's point and of the base point.              *)
(***************************************************************************)
EXTENDS Integers

CONSTANTS
  WordBits, Words,   (* 64 and 4: a scalar's words                          *)
  KeyWidths,         (* 5 for a key just decompressed, 8 for a prepared one *)
  BaseWidth,         (* 8                                                   *)
  As, Bs             (* the scalars of the key and of the base point        *)

Positions == WordBits * Words
Nibbles   == Positions \div 4

VARIABLES
  job,     (* "mul", "mul_base" or "verify"                                 *)
  a, b,    (* the scalars                                                   *)
  width,   (* of the key's windows                                          *)
  phase,   (* "naf_a", "naf_b", "loop" or "done"                            *)
  naf,     (* the non-adjacent forms of a and b                             *)
  pos, carry,  (* of the form being made                                    *)
  at,      (* the loop's position                                           *)
  acc      (* the accumulated point                                         *)

vars == <<job, a, b, width, phase, naf, pos, carry, at, acc>>

Point(x, y) == [A |-> x, B |-> y]
Plus(P, Q)  == Point(P.A + Q.A, P.B + Q.B)
Times(n, P) == Point(n * P.A, n * P.B)
Identity    == Point(0, 0)

Pow2[k \in Nat] == IF k = 0 THEN 1 ELSE 2 * Pow2[k - 1]

-----------------------------------------------------------------------------
(* Scalar::radix16: nibbles, each above seven borrowing from the next.     *)
Nibble(s, k) == (s \div Pow2[4 * k]) % 16

Radix16(s) ==
  LET Carry[k \in 0..Nibbles] ==
        IF k = 0 THEN 0 ELSE (Nibble(s, k - 1) + Carry[k - 1] + 8) \div 16
  IN  [k \in 0..(Nibbles - 1) |->
         Nibble(s, k) + Carry[k] - (IF k < Nibbles - 1 THEN 16 * Carry[k + 1] ELSE 0)]

(* select_signed: an entry of the table [1..8]P or the identity, negated   *)
(* for a negative digit.                                                   *)
SelectSigned(P, digit) ==
  LET magnitude == IF digit < 0 THEN -digit ELSE digit
      chosen    == IF magnitude \in 1..8 THEN Times(magnitude, P) ELSE Identity
  IN  IF digit < 0 THEN Times(-1, chosen) ELSE chosen

(* Scalar::non_adjacent_form reads a window at pos, from one word or two.  *)
Word(s, k) == (s \div Pow2[WordBits * k]) % Pow2[WordBits]

Window(s, w) ==
  LET word == pos \div WordBits
      bit  == pos % WordBits
      low  == Word(s, word) \div Pow2[bit]
      bits == IF bit < WordBits - w THEN low
              ELSE low + ((Word(s, word + 1) * Pow2[WordBits - bit]) % Pow2[WordBits])
  IN  carry + (bits % Pow2[w])

(* Odd multiples of a point, as many as windows of width w can name.       *)
TableSize(w) == Pow2[w - 2]

Magnitude(digit) == IF digit < 0 THEN -digit ELSE digit

(* add_signed: the entry at half the digit, negated for a negative digit.  *)
AddSigned(P, Q, digit) ==
  LET entry == 2 * (Magnitude(digit) \div 2) + 1
  IN  Plus(P, Times(IF digit > 0 THEN entry ELSE -entry, Q))

-----------------------------------------------------------------------------
NoForm == [k \in 0..(Positions - 1) |-> 0]
KeyPoint  == Point(1, 0)
BasePoint == Point(0, 1)

Init ==
  /\ job \in {"mul", "mul_base", "verify"}
  /\ a \in As /\ b \in Bs
  /\ job # "verify" => b = 0
  /\ width \in KeyWidths
  /\ job # "verify" => width = BaseWidth
  /\ phase = (IF job = "verify" THEN "naf_a" ELSE "loop")
  /\ naf = [A |-> NoForm, B |-> NoForm]
  /\ pos = 0 /\ carry = 0
  /\ at = (IF job = "mul_base" THEN 0 ELSE Nibbles - 1)
  /\ acc = Identity

Making == IF phase = "naf_a" THEN "A" ELSE "B"
TheWindow == IF phase = "naf_a" THEN Window(a, width) ELSE Window(b, BaseWidth)
ItsWidth  == IF phase = "naf_a" THEN width ELSE BaseWidth

(* An even window: the position has no digit.                              *)
Skip ==
  /\ phase \in {"naf_a", "naf_b"} /\ pos < Positions
  /\ TheWindow % 2 = 0
  /\ pos' = pos + 1
  /\ UNCHANGED <<job, a, b, width, phase, naf, carry, at, acc>>

(* An odd window: a digit, negative from half the radix on.                *)
Emit ==
  /\ phase \in {"naf_a", "naf_b"} /\ pos < Positions
  /\ TheWindow % 2 = 1
  /\ LET half  == Pow2[ItsWidth - 1]
         digit == IF TheWindow < half THEN TheWindow ELSE TheWindow - 2 * half
     IN  /\ naf' = [naf EXCEPT ![Making][pos] = digit]
         /\ carry' = IF TheWindow < half THEN 0 ELSE 1
  /\ pos' = pos + ItsWidth
  /\ UNCHANGED <<job, a, b, width, phase, at, acc>>

(* The topmost position with a digit of either form, or zero.              *)
TopDigit ==
  LET used == {k \in 0..(Positions - 1) : naf.A[k] # 0 \/ naf.B[k] # 0}
  IN  IF used = {} THEN 0 ELSE CHOOSE k \in used : \A j \in used : j <= k

(* The form is complete: on to the other one, or to the loop.              *)
FormDone ==
  /\ phase \in {"naf_a", "naf_b"} /\ pos >= Positions
  /\ pos' = 0 /\ carry' = 0
  /\ IF phase = "naf_a" THEN phase' = "naf_b" /\ at' = at
                        ELSE phase' = "loop" /\ at' = TopDigit
  /\ UNCHANGED <<job, a, b, width, naf, acc>>

(* Mutant: the second addition starts from the doubling again.             *)
VerifyTurnStale ==
  /\ job = "verify" /\ phase = "loop"
  /\ LET doubled == Times(2, acc)
         withA   == IF naf.A[at] # 0 THEN AddSigned(doubled, KeyPoint, naf.A[at]) ELSE doubled
     IN  acc' = IF naf.B[at] # 0 THEN AddSigned(doubled, BasePoint, naf.B[at]) ELSE withA
  /\ IF at = 0 THEN phase' = "done" /\ at' = at ELSE phase' = phase /\ at' = at - 1
  /\ UNCHANGED <<job, a, b, width, naf, pos, carry>>

(* double_scalar_mul: one doubling, then the digits of this position.      *)
VerifyTurn ==
  /\ job = "verify" /\ phase = "loop"
  /\ LET doubled == Times(2, acc)
         withA   == IF naf.A[at] # 0 THEN AddSigned(doubled, KeyPoint, naf.A[at]) ELSE doubled
     IN  acc' = IF naf.B[at] # 0 THEN AddSigned(withA, BasePoint, naf.B[at]) ELSE withA
  /\ IF at = 0 THEN phase' = "done" /\ at' = at ELSE phase' = phase /\ at' = at - 1
  /\ UNCHANGED <<job, a, b, width, naf, pos, carry>>

(* mul: four doublings, then the digit, from the top.                      *)
MulTurn ==
  /\ job = "mul" /\ phase = "loop"
  /\ acc' = Plus(Times(16, acc), SelectSigned(KeyPoint, Radix16(a)[at]))
  /\ IF at = 0 THEN phase' = "done" /\ at' = at ELSE phase' = phase /\ at' = at - 1
  /\ UNCHANGED <<job, a, b, width, naf, pos, carry>>

(* mul_base: row by row of the table [1..8] * 16^k * B, from the bottom.   *)
MulBaseTurn ==
  /\ job = "mul_base" /\ phase = "loop"
  /\ acc' = Plus(acc, SelectSigned(Times(Pow2[4 * at], BasePoint), Radix16(a)[at]))
  /\ IF at = Nibbles - 1 THEN phase' = "done" /\ at' = at ELSE phase' = phase /\ at' = at + 1
  /\ UNCHANGED <<job, a, b, width, naf, pos, carry>>

Next == Skip \/ Emit \/ FormDone \/ VerifyTurn \/ MulTurn \/ MulBaseTurn

Spec == Init /\ [][Next]_vars

-----------------------------------------------------------------------------
(* Each way ends at the scalars' multiples: what signing multiplies and    *)
(* what either verifier recomputes are the same points.                    *)
EndsAtMultiple ==
  phase = "done" =>
    acc = CASE job = "mul"      -> Point(a, 0)
            [] job = "mul_base" -> Point(0, a)
            [] job = "verify"   -> Point(a, b)

(* Every digit names an entry its table has, also after the carries into   *)
(* the topmost digits.                                                     *)
DigitsFitTables ==
  /\ \A k \in 0..(Nibbles - 1) : Magnitude(Radix16(a)[k]) <= 8
  /\ \A k \in 0..(Positions - 1) :
       /\ Magnitude(naf.A[k]) \div 2 < TableSize(width)
       /\ Magnitude(naf.B[k]) \div 2 < TableSize(BaseWidth)
       /\ naf.A[k] # 0 => naf.A[k] % 2 = 1
       /\ naf.B[k] # 0 => naf.B[k] % 2 = 1
=============================================================================

------------------------------ MODULE OneShot ------------------------------
(***************************************************************************)
(* What a streaming hash or authenticator promises: however the input is   *)
(* cut into calls, the result is the one-shot function of all of it, given *)
(* once.                                                                   *)
(***************************************************************************)
EXTENDS Sequences

CONSTANTS
  Pieces,        (* the inputs one call may carry                          *)
  Function(_, _),(* the one-shot function of the parameter and the input   *)
  Parameters,    (* algorithms, keys or lengths it may be started with      *)
  NoResult       (* not finished yet                                       *)

VARIABLES
  parameter,     (* chosen when it is started                              *)
  message,       (* everything absorbed so far                             *)
  result

Init == parameter \in Parameters /\ message = <<>> /\ result = NoResult

Update ==
  /\ result = NoResult
  /\ \E piece \in Pieces : message' = message \o piece
  /\ UNCHANGED <<parameter, result>>

Finalize ==
  /\ result = NoResult
  /\ result' = Function(parameter, message)
  /\ UNCHANGED <<parameter, message>>

Next == Update \/ Finalize

vars == <<parameter, message, result>>

Spec == Init /\ [][Next]_vars
=============================================================================

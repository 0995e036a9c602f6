-------------------------- MODULE MCFreshnessChain --------------------------
(***************************************************************************)
(* The author's phone and one reader, who signs records of his own; one    *)
(* object with two successive contexts and a second object.  The largest   *)
(* u64 is 3, so that a chain reaches it and one more grant is tried.       *)
(***************************************************************************)
EXTENDS FreshnessChain

CONSTANTS phone, bob, owner, stranger, note, photo

Ctx(k, v, e) == [key |-> k, version |-> v, epoch |-> e]

MCSignerOf      == [d \in Devices |-> IF d = phone THEN owner ELSE stranger]
MCContexts      == { Ctx(note, 1, 1), Ctx(note, 2, 2), Ctx(photo, 1, 1) }
MCRecipientSets == { {phone}, {phone, bob} }
=============================================================================

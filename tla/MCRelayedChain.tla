--------------------------- MODULE MCRelayedChain ---------------------------
(***************************************************************************)
(* One author with two devices, so that writes race, one note with three   *)
(* successive contexts, and one reader.                                    *)
(***************************************************************************)
EXTENDS RelayedChain

CONSTANTS phone, tablet, bob, owner, note

Ctx(v) == [key |-> note, version |-> v, epoch |-> v]

MCSignerOf      == [d \in Devices |-> owner]
MCContexts      == { Ctx(1), Ctx(2), Ctx(3) }
MCRecipientSets == { {phone, tablet} }
=============================================================================

---------------------------- MODULE MCRelayStore ----------------------------
(***************************************************************************)
(* A small relay: two tenants, three keys, two tokens, and for the first   *)
(* key every way a successor can relate to what is stored: a grant (same   *)
(* version, next revision, same indexes), a rekey (next version, next      *)
(* revision), a fresh seal of the next version (revision 1 again, other    *)
(* indexes), and a record by an author the policy does not list.           *)
(***************************************************************************)
EXTENDS RelayStore

CONSTANTS k1, k2, k3, acme, corp, x, y, author, stranger, t1, t2, t3

MCKeys     == {k1, k2, k3}
MCTenants  == {acme, corp}
MCTenantOf == [k \in MCKeys |-> IF k = k3 THEN corp ELSE acme]

Rec(k, v, m, ix, s) ==
  [key |-> k, version |-> v, manifest_revision |-> m, indexes |-> ix, signer |-> s]

genesis  == Rec(k1, 1, 1, {x}, author)
granted  == Rec(k1, 1, 2, {x}, author)
rekeyed  == Rec(k1, 2, 2, {x, y}, author)
resealed == Rec(k1, 2, 1, {y}, author)
sibling  == Rec(k2, 1, 1, {x}, author)
foreign  == Rec(k3, 1, 1, {x}, author)
forged   == Rec(k1, 3, 1, {y}, stranger)

MCRecords == {genesis, granted, rekeyed, resealed, sibling, foreign, forged}

PutOf(r)      == [op |-> "put", route |-> r.key, bytes |-> r]
GetOf(k)      == [op |-> "get", route |-> k]
SearchOf(t, w) == [op |-> "search", entry |-> <<t, w>>]

Writes  == { PutOf(r) : r \in MCRecords }
Misused == { [op |-> "put", route |-> k2, bytes |-> genesis],
             [op |-> "put", route |-> k1, bytes |-> Garbage] }
Reads   == { GetOf(k1), SearchOf(acme, x), [op |-> "len"] }

(* The reads meet the writes on the first key and on its tenant's token.   *)
MCRequests == Writes \cup Misused \cup Reads
=============================================================================

---------------------------- MODULE AtomicStore ----------------------------
(***************************************************************************)
(* What the relay promises its clients: every request takes effect at one  *)
(* instant between its invocation and its reply, on a plain map from keys  *)
(* to records.  There is no secondary index and no lock here; a search is  *)
(* answered from the records themselves.                                   *)
(***************************************************************************)
EXTENDS RelayData

CONSTANT Threads   (* the threads that serve requests *)

VARIABLES
  records,  (* the record held at each key, or NoRecord  *)
  req,      (* the request each thread serves            *)
  reply     (* its reply, once the request took effect   *)

absVars == <<records, req, reply>>

TypeOK ==
  /\ records \in [Keys -> Records \cup {NoRecord}]
  /\ req \in [Threads -> Requests \cup {NoRequest}]
  /\ reply \in [Threads -> Reply \cup {NoReply}]

Init ==
  /\ records = [k \in Keys |-> NoRecord]
  /\ req = [t \in Threads |-> NoRequest]
  /\ reply = [t \in Threads |-> NoReply]

(* Every record whose own entries include the searched one.                *)
Matching(entry) ==
  { r \in Records : records[r.key] = r /\ entry \in EntriesOf(r) }

StoredKeys == { k \in Keys : records[k] # NoRecord }

-----------------------------------------------------------------------------
Invoke(t, q) ==
  /\ req[t] = NoRequest
  /\ req' = [req EXCEPT ![t] = q]
  /\ UNCHANGED <<records, reply>>

Pending(t, op) ==
  /\ req[t] # NoRequest
  /\ req[t].op = op
  /\ reply[t] = NoReply

Answer(t, a) == reply' = [reply EXCEPT ![t] = a] /\ UNCHANGED req

(* A put that is malformed, misrouted or not from a pinned signer changes  *)
(* nothing.                                                                *)
PutRefused(t) ==
  /\ Pending(t, "put")
  /\ \/ /\ req[t].bytes = Garbage
        /\ Answer(t, Refuse("invalid"))
     \/ /\ req[t].bytes # Garbage
        /\ ~ RouteAgrees(req[t])
        /\ Answer(t, Refuse("mismatch"))
     \/ /\ req[t].bytes # Garbage
        /\ RouteAgrees(req[t])
        /\ ~ Validates(req[t].bytes)
        /\ Answer(t, Refuse("invalid"))
  /\ UNCHANGED records

Admitted(q) == q.bytes # Garbage /\ RouteAgrees(q) /\ Validates(q.bytes)

(* An admitted put is stored at its key if the slot is free or it          *)
(* advances what the slot holds, and refused as stale otherwise.           *)
PutApplied(t) ==
  LET r == req[t].bytes
      k == req[t].route
  IN  /\ Pending(t, "put")
      /\ Admitted(req[t])
      /\ \/ /\ MayFill(r, records[k])
            /\ records' = [records EXCEPT ![k] = r]
            /\ Answer(t, ReceiptFor(r, records[k] = NoRecord))
         \/ /\ ~ MayFill(r, records[k])
            /\ Answer(t, StaleWrite(records[k], r))
            /\ UNCHANGED records

GetApplied(t) ==
  LET k == req[t].route
  IN  /\ Pending(t, "get")
      /\ \/ records[k] = NoRecord /\ Answer(t, Refuse("notfound"))
         \/ /\ records[k] # NoRecord
            /\ Answer(t, [kind |-> "record", record |-> records[k]])
      /\ UNCHANGED records

SearchApplied(t) ==
  /\ Pending(t, "search")
  /\ Answer(t, [kind |-> "records", records |-> Matching(req[t].entry)])
  /\ UNCHANGED records

LenApplied(t) ==
  /\ Pending(t, "len")
  /\ Answer(t, [kind |-> "count", count |-> Cardinality(StoredKeys)])
  /\ UNCHANGED records

Return(t) ==
  /\ reply[t] # NoReply
  /\ req' = [req EXCEPT ![t] = NoRequest]
  /\ reply' = [reply EXCEPT ![t] = NoReply]
  /\ UNCHANGED records

Next ==
  \E t \in Threads :
    \/ \E q \in Requests : Invoke(t, q)
    \/ PutRefused(t)
    \/ PutApplied(t)
    \/ GetApplied(t)
    \/ SearchApplied(t)
    \/ LenApplied(t)
    \/ Return(t)

Spec == Init /\ [][Next]_absVars
=============================================================================

----------------------------- MODULE RelayStore -----------------------------
(***************************************************************************)
(* blindplane-relay: Relay and MemoryStore, shared by the threads of a     *)
(* server.  put_encoded decodes, checks the route and validates before it  *)
(* takes the RwLock; everything put does to the two maps happens under the *)
(* write guard, one map operation per step; get, search and len run under  *)
(* the read guard.                                                         *)
(***************************************************************************)
EXTENDS RelayData

CONSTANTS
  Threads,      (* the threads that serve requests                         *)
  MaxRequests,  (* bound: how many requests the clients send in all        *)
  NoEntry,      (* an index key with no postings set                       *)
  NoThread      (* the write guard is free                                 *)

ASSUME RelayStoreAssumption ==
  /\ MaxRequests \in Nat
  /\ \A S \in SUBSET Keys : S # NoEntry
  /\ NoThread \notin Threads

VARIABLES
  records,  (* StoreInner::records                                         *)
  index,    (* StoreInner::index: the keys posted under each index key     *)
  writer,   (* the thread holding the write guard                          *)
  readers,  (* the threads holding a read guard                            *)
  pc,       (* where each thread is                                        *)
  req,      (* the request it serves                                       *)
  reply,    (* the result of the call, once it is determined               *)
  receipt,  (* put's local receipt, built before the maps change           *)
  unposted, (* the index entries put's current loop has still to visit     *)
  matched,  (* the keys search's filter_map has still to visit             *)
  found,    (* the records search has collected                            *)
  sent      (* how many requests were sent                                 *)

maps   == <<records, index>>
guards == <<writer, readers>>
locals == <<receipt, unposted, matched, found>>
vars   == <<maps, guards, pc, req, reply, locals, sent>>

WritePhase == {"check", "unpost", "post", "unlock_write"}
ReadPhase  == {"read", "fetch", "unlock_read"}
Phase == {"idle", "admit", "lock_write", "lock_read", "return"}
           \cup WritePhase \cup ReadPhase

TypeOK ==
  /\ records \in [Keys -> Records \cup {NoRecord}]
  /\ index \in [IndexKey -> {NoEntry} \cup SUBSET Keys]
  /\ writer \in Threads \cup {NoThread}
  /\ readers \in SUBSET Threads
  /\ pc \in [Threads -> Phase]
  /\ req \in [Threads -> Requests \cup {NoRequest}]
  /\ reply \in [Threads -> Reply \cup {NoReply}]
  /\ receipt \in [Threads -> Receipt \cup {NoReply}]
  /\ unposted \in [Threads -> SUBSET IndexKey]
  /\ matched \in [Threads -> SUBSET Keys]
  /\ found \in [Threads -> SUBSET Records]
  /\ sent \in 0..MaxRequests

Init ==
  /\ records = [k \in Keys |-> NoRecord]
  /\ index = [x \in IndexKey |-> NoEntry]
  /\ writer = NoThread
  /\ readers = {}
  /\ pc = [t \in Threads |-> "idle"]
  /\ req = [t \in Threads |-> NoRequest]
  /\ reply = [t \in Threads |-> NoReply]
  /\ receipt = [t \in Threads |-> NoReply]
  /\ unposted = [t \in Threads |-> {}]
  /\ matched = [t \in Threads |-> {}]
  /\ found = [t \in Threads |-> {}]
  /\ sent = 0

(* The keys posted under an index key, whether or not it has a set.        *)
Postings(x) == IF index[x] = NoEntry THEN {} ELSE index[x]

(* set.remove(key), dropping the set once it is empty.                     *)
Unpost(x, k) ==
  index' = [index EXCEPT ![x] = IF Postings(x) \subseteq {k} THEN NoEntry
                                ELSE Postings(x) \ {k}]

(* entry(x).or_default().insert(key)                                       *)
Post(x, k) == index' = [index EXCEPT ![x] = Postings(x) \cup {k}]

Goto(t, from, to) == pc[t] = from /\ pc' = [pc EXCEPT ![t] = to]
Answer(t, a)      == reply' = [reply EXCEPT ![t] = a]

-----------------------------------------------------------------------------
(* A client call arrives on an idle thread.                                *)
Invoke(t, q) ==
  /\ sent < MaxRequests
  /\ Goto(t, "idle", IF q.op = "put" THEN "admit" ELSE "lock_read")
  /\ req' = [req EXCEPT ![t] = q]
  /\ sent' = sent + 1
  /\ UNCHANGED <<maps, guards, reply, locals>>

(* The early returns of put_encoded and put, before any lock is taken.     *)
RefuseMalformed(t) ==
  /\ Goto(t, "admit", "return")
  /\ req[t].bytes = Garbage
  /\ Answer(t, Refuse("invalid"))
  /\ UNCHANGED <<maps, guards, req, locals, sent>>

RefuseMisrouted(t) ==
  /\ Goto(t, "admit", "return")
  /\ req[t].bytes # Garbage
  /\ ~ RouteAgrees(req[t])
  /\ Answer(t, Refuse("mismatch"))
  /\ UNCHANGED <<maps, guards, req, locals, sent>>

RefuseInvalid(t) ==
  /\ Goto(t, "admit", "return")
  /\ req[t].bytes # Garbage
  /\ RouteAgrees(req[t])
  /\ ~ Validates(req[t].bytes)
  /\ Answer(t, Refuse("invalid"))
  /\ UNCHANGED <<maps, guards, req, locals, sent>>

(* Mutant: the stale check moved under a read guard that is kept while     *)
(* waiting for the write guard.                                            *)
AdmitHoldingReadGuard(t) ==
  /\ Goto(t, "admit", "lock_write")
  /\ req[t].bytes # Garbage
  /\ RouteAgrees(req[t])
  /\ Validates(req[t].bytes)
  /\ writer = NoThread
  /\ readers' = readers \cup {t}
  /\ UNCHANGED <<maps, writer, req, reply, locals, sent>>

Admit(t) ==
  /\ Goto(t, "admit", "lock_write")
  /\ req[t].bytes # Garbage
  /\ RouteAgrees(req[t])
  /\ Validates(req[t].bytes)
  /\ UNCHANGED <<maps, guards, req, reply, locals, sent>>

(* The record being put, its RecordKey, and what the store holds there.    *)
Offered(t) == req[t].bytes
Slot(t)    == records[Offered(t).key]

LockWrite(t) ==
  /\ Goto(t, "lock_write", "check")
  /\ writer = NoThread
  /\ readers = {}
  /\ writer' = t
  /\ UNCHANGED <<maps, readers, req, reply, locals, sent>>

(* The stale check under the guard; on success the receipt is built and    *)
(* the loop over the replaced record's entries begins.                     *)
RefuseStale(t) ==
  /\ Goto(t, "check", "unlock_write")
  /\ ~ MayFill(Offered(t), Slot(t))
  /\ Answer(t, StaleWrite(Slot(t), Offered(t)))
  /\ UNCHANGED <<maps, guards, req, locals, sent>>

(* Mutant: the removal loop iterates the new record's entries.             *)
AcceptUnpostingNew(t) ==
  /\ Goto(t, "check", "unpost")
  /\ MayFill(Offered(t), Slot(t))
  /\ receipt' = [receipt EXCEPT ![t] = ReceiptFor(Offered(t), Slot(t) = NoRecord)]
  /\ unposted' = [unposted EXCEPT ![t] = EntriesOf(Offered(t))]
  /\ UNCHANGED <<maps, guards, req, reply, matched, found, sent>>

AcceptWrite(t) ==
  /\ Goto(t, "check", "unpost")
  /\ MayFill(Offered(t), Slot(t))
  /\ receipt' = [receipt EXCEPT ![t] = ReceiptFor(Offered(t), Slot(t) = NoRecord)]
  /\ unposted' = [unposted EXCEPT ![t] = EntriesAt(Slot(t))]
  /\ UNCHANGED <<maps, guards, req, reply, matched, found, sent>>

UnpostOne(t) ==
  /\ pc[t] = "unpost"
  /\ \E x \in unposted[t] :
       /\ Unpost(x, Offered(t).key)
       /\ unposted' = [unposted EXCEPT ![t] = @ \ {x}]
  /\ UNCHANGED <<records, guards, pc, req, reply, receipt, matched, found, sent>>

(* The first loop is over: the second visits the new record's entries.     *)
StartPosting(t) ==
  /\ Goto(t, "unpost", "post")
  /\ unposted[t] = {}
  /\ unposted' = [unposted EXCEPT ![t] = EntriesOf(Offered(t))]
  /\ UNCHANGED <<maps, guards, req, reply, receipt, matched, found, sent>>

PostOne(t) ==
  /\ pc[t] = "post"
  /\ \E x \in unposted[t] :
       /\ Post(x, Offered(t).key)
       /\ unposted' = [unposted EXCEPT ![t] = @ \ {x}]
  /\ UNCHANGED <<records, guards, pc, req, reply, receipt, matched, found, sent>>

(* records.insert and the return of the receipt.                           *)
InsertRecord(t) ==
  /\ Goto(t, "post", "unlock_write")
  /\ unposted[t] = {}
  /\ records' = [records EXCEPT ![Offered(t).key] = Offered(t)]
  /\ Answer(t, receipt[t])
  /\ UNCHANGED <<index, guards, req, locals, sent>>

UnlockWrite(t) ==
  /\ Goto(t, "unlock_write", "return")
  /\ writer' = NoThread
  /\ UNCHANGED <<maps, readers, req, reply, locals, sent>>

-----------------------------------------------------------------------------
LockRead(t) ==
  /\ Goto(t, "lock_read", "read")
  /\ writer = NoThread
  /\ readers' = readers \cup {t}
  /\ UNCHANGED <<maps, writer, req, reply, locals, sent>>

Get(t) ==
  LET slot == records[req[t].route]
  IN  /\ Goto(t, "read", "unlock_read")
      /\ req[t].op = "get"
      /\ Answer(t, IF slot = NoRecord THEN Refuse("notfound")
                   ELSE [kind |-> "record", record |-> slot])
      /\ UNCHANGED <<maps, guards, req, locals, sent>>

CountRecords(t) ==
  /\ Goto(t, "read", "unlock_read")
  /\ req[t].op = "len"
  /\ Answer(t, [kind |-> "count",
                count |-> Cardinality({k \in Keys : records[k] # NoRecord})])
  /\ UNCHANGED <<maps, guards, req, locals, sent>>

(* Mutant: the guard is dropped between the index lookup and the fetches.  *)
SearchIndexThenUnlock(t) ==
  /\ Goto(t, "read", "fetch")
  /\ req[t].op = "search"
  /\ matched' = [matched EXCEPT ![t] = Postings(req[t].entry)]
  /\ found' = [found EXCEPT ![t] = {}]
  /\ readers' = readers \ {t}
  /\ UNCHANGED <<maps, writer, req, reply, receipt, unposted, sent>>

(* search: one index lookup, then a records lookup per posted key, a key   *)
(* whose record is missing being skipped.                                  *)
SearchIndex(t) ==
  /\ Goto(t, "read", "fetch")
  /\ req[t].op = "search"
  /\ matched' = [matched EXCEPT ![t] = Postings(req[t].entry)]
  /\ found' = [found EXCEPT ![t] = {}]
  /\ UNCHANGED <<maps, guards, req, reply, receipt, unposted, sent>>

FetchOne(t) ==
  /\ pc[t] = "fetch"
  /\ \E k \in matched[t] :
       /\ matched' = [matched EXCEPT ![t] = @ \ {k}]
       /\ found' = [found EXCEPT ![t] = @ \cup ({records[k]} \ {NoRecord})]
  /\ UNCHANGED <<maps, guards, pc, req, reply, receipt, unposted, sent>>

SearchDone(t) ==
  /\ Goto(t, "fetch", "unlock_read")
  /\ matched[t] = {}
  /\ Answer(t, [kind |-> "records", records |-> found[t]])
  /\ UNCHANGED <<maps, guards, req, locals, sent>>

UnlockRead(t) ==
  /\ Goto(t, "unlock_read", "return")
  /\ readers' = readers \ {t}
  /\ UNCHANGED <<maps, writer, req, reply, locals, sent>>

-----------------------------------------------------------------------------
(* The reply reaches the client and the call's locals are dropped.         *)
Return(t) ==
  /\ Goto(t, "return", "idle")
  /\ req' = [req EXCEPT ![t] = NoRequest]
  /\ reply' = [reply EXCEPT ![t] = NoReply]
  /\ receipt' = [receipt EXCEPT ![t] = NoReply]
  /\ found' = [found EXCEPT ![t] = {}]
  /\ UNCHANGED <<maps, guards, unposted, matched, sent>>

Put(t) ==
  \/ RefuseMalformed(t) \/ RefuseMisrouted(t) \/ RefuseInvalid(t) \/ Admit(t)
  \/ LockWrite(t) \/ RefuseStale(t) \/ AcceptWrite(t)
  \/ UnpostOne(t) \/ StartPosting(t) \/ PostOne(t) \/ InsertRecord(t)
  \/ UnlockWrite(t)

Read(t) ==
  \/ LockRead(t) \/ Get(t) \/ CountRecords(t)
  \/ SearchIndex(t) \/ FetchOne(t) \/ SearchDone(t)
  \/ UnlockRead(t)

Serve(t) == Put(t) \/ Read(t) \/ Return(t)

Next == \E t \in Threads : (\E q \in Requests : Invoke(t, q)) \/ Serve(t)

(* A thread inside a call keeps being scheduled; clients need not call.    *)
Fairness == \A t \in Threads : WF_vars(Serve(t))

Spec     == Init /\ [][Next]_vars
FairSpec == Spec /\ Fairness

-----------------------------------------------------------------------------
(* The record a relay is left with at each key is one its policy admits,   *)
(* under its own key, and an acknowledged put names the route the client   *)
(* asked for.  Relay::put_encoded checks the route, put validates, both    *)
(* before the lock and on the record that is stored after it.              *)
OnlyAdmitted ==
  /\ \A k \in Keys : records[k] # NoRecord =>
       records[k].key = k /\ records[k].signer \in AllowedSigners
  /\ \A t \in Threads : reply[t] \in Receipt => reply[t].record.key = req[t].route

(* Whenever no writer is inside put, the secondary index is exactly the    *)
(* inverse of the stored records' own entries, with no empty set left      *)
(* behind: "a lookup never returns a token that no longer applies".        *)
IndexMirrorsRecords ==
  writer = NoThread =>
    \A x \in IndexKey :
      /\ Postings(x) = {k \in Keys : x \in EntriesAt(records[k])}
      /\ index[x] # {}

(* "Writes advance monotonically": no interleaving of writers ever removes *)
(* a stored record or replaces it by one that is not later in the order of *)
(* (version, manifest_revision).                                           *)
WritesAdvance ==
  [][\A k \in Keys : records[k] # NoRecord /\ records'[k] # records[k] =>
       /\ records'[k] # NoRecord
       /\ \/ records'[k].version > records[k].version
          \/ /\ records'[k].version = records[k].version
             /\ records'[k].manifest_revision > records[k].manifest_revision]_vars

(* "Monotonic access-manifest revision" (record.rs, on the field itself):  *)
(* the revision held at a key never decreases.  The stale check compares   *)
(* revisions only between equal versions, and seal starts again at 1.      *)
ManifestMonotonic ==
  [][\A k \in Keys : records[k] # NoRecord /\ records'[k] # NoRecord =>
       records'[k].manifest_revision >= records[k].manifest_revision]_vars

(* The locked store with its index answers every call as a single map      *)
(* updated and read at one instant would (linearizability): in particular  *)
(* a search returns exactly the records that carry the token at that       *)
(* instant, each of them whole, and exactly one put of a key is told it    *)
(* created the record.                                                     *)
Abstract == INSTANCE AtomicStore
ImplementsAtomicStore == Abstract!Spec

(* Every call returns: no early return of put leaks the guard and no       *)
(* reader or writer waits for ever once the clients' calls are finitely    *)
(* many.                                                                   *)
EveryCallReturns == \A t \in Threads : pc[t] # "idle" ~> pc[t] = "idle"

-----------------------------------------------------------------------------
(* The inductive invariant behind the safety properties above.             *)

(* The guards are held by exactly the threads inside the locked regions.   *)
GuardsHeld ==
  /\ \A t \in Threads : pc[t] \in WritePhase <=> writer = t
  /\ \A t \in Threads : pc[t] \in ReadPhase <=> t \in readers
  /\ writer # NoThread => readers = {}

(* What a thread has learnt about its request by the phase it is in.       *)
Admitted(q) == q.bytes \in Records /\ RouteAgrees(q) /\ Validates(q.bytes)

CallInPhase ==
  \A t \in Threads :
    /\ pc[t] = "idle" <=> req[t] = NoRequest
    /\ reply[t] # NoReply <=> pc[t] \in {"unlock_write", "unlock_read", "return"}
    /\ pc[t] = "admit" => req[t] \in PutRequest
    /\ pc[t] \in {"lock_write"} \cup WritePhase => req[t] \in PutRequest /\ Admitted(req[t])
    /\ pc[t] \in {"lock_read"} \cup ReadPhase =>
         req[t] \in GetRequest \cup SearchRequest \cup LenRequest
    /\ pc[t] = "fetch" => req[t] \in SearchRequest

(* The receipt built at the check still describes the slot: nothing moved  *)
(* it while the maps were being changed.                                   *)
ReceiptHolds ==
  \A t \in Threads : pc[t] \in {"unpost", "post"} =>
    /\ MayFill(Offered(t), Slot(t))
    /\ receipt[t] = ReceiptFor(Offered(t), Slot(t) = NoRecord)

(* Where the index stands, at every step of put: for the key being         *)
(* written, the old entries not yet removed, then the new ones already     *)
(* posted; for every other key, the entries of its record.                 *)
Writing(t, k, phase) == pc[t] = phase /\ Offered(t).key = k

PostedFor(k, x) ==
  \/ \E t \in Threads : Writing(t, k, "unpost") /\ x \in unposted[t]
  \/ \E t \in Threads : Writing(t, k, "post") /\ x \in EntriesOf(Offered(t)) \ unposted[t]
  \/ /\ \A t \in Threads : ~ Writing(t, k, "unpost") /\ ~ Writing(t, k, "post")
     /\ x \in EntriesAt(records[k])

IndexAtStep ==
  \A x \in IndexKey :
    /\ index[x] # {}
    /\ \A k \in Keys : k \in Postings(x) <=> PostedFor(k, x)

(* The second loop visits the new record's entries and nothing else.       *)
PostsOwnEntries ==
  \A t \in Threads : pc[t] = "post" => unposted[t] \subseteq EntriesOf(Offered(t))

(* What search has fetched and what it will fetch are together the records *)
(* that carry the token now.                                               *)
FetchesCurrent ==
  \A t \in Threads : pc[t] = "fetch" =>
    /\ \A k \in matched[t] : records[k] # NoRecord
    /\ found[t] \cup {records[k] : k \in matched[t]} = Abstract!Matching(req[t].entry)

IInv ==
  /\ TypeOK
  /\ GuardsHeld
  /\ CallInPhase
  /\ OnlyAdmitted
  /\ ReceiptHolds
  /\ PostsOwnEntries
  /\ IndexAtStep
  /\ FetchesCurrent
=============================================================================

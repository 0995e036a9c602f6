-------------------------- MODULE RelayStoreProofs --------------------------
(***************************************************************************)
(* IInv is an inductive invariant of RelayStore's Spec, for any keys,      *)
(* tokens, records, requests and threads; the safety properties follow.    *)
(***************************************************************************)
EXTENDS RelayStore, FiniteSetTheorems, TLAPS

-----------------------------------------------------------------------------
(* Facts about the data, each cited by name below.                         *)

(* The fields of a sealed record have their types.                         *)
LEMMA RecordFields ==
  ASSUME NEW r \in Records
  PROVE  /\ r # NoRecord
         /\ r # Garbage
         /\ r.key \in Keys
         /\ r.version \in Nat
         /\ r.manifest_revision \in Nat
         /\ EntriesOf(r) \in SUBSET IndexKey
BY RelayDataAssumption DEF RecordType, EntriesOf, IndexKey

(* A slot's entries are index keys.                                        *)
LEMMA SlotEntries ==
  ASSUME NEW slot \in Records \cup {NoRecord}
  PROVE  EntriesAt(slot) \in SUBSET IndexKey
BY RecordFields DEF EntriesAt

(* What the call's operation says about the type of its request.           *)
LEMMA RequestTypes ==
  ASSUME NEW q \in Requests
  PROVE  /\ q # NoRequest
         /\ q.op = "put" <=> q \in PutRequest
         /\ q.op = "get" <=> q \in GetRequest
         /\ q.op = "search" <=> q \in SearchRequest
         /\ q.op = "len" <=> q \in LenRequest
         /\ q.op \in {"put", "get", "search", "len"}
  <1>1. q \in PutRequest \cup GetRequest \cup SearchRequest \cup LenRequest
    BY RelayDataAssumption
  <1>2. q # NoRequest
    BY RelayDataAssumption
  <1> QED
    BY <1>1, <1>2 DEF PutRequest, GetRequest, SearchRequest, LenRequest

(* Every answer the relay computes is a Reply.                             *)
LEMMA ReplyTypes ==
  /\ \A why \in {"invalid", "mismatch", "notfound"} : Refuse(why) \in Reply
  /\ \A r \in Records, created \in BOOLEAN :
       /\ ReceiptFor(r, created) \in Receipt
       /\ ReceiptFor(r, created) \in Reply
       /\ ReceiptFor(r, created).record = r
  /\ \A r \in Records, s \in Records : StaleWrite(s, r) \in Reply \ Receipt
  /\ \A why \in {"invalid", "mismatch", "notfound"} : Refuse(why) \notin Receipt
  /\ NoReply \notin Reply
PROOF
  <1>1. \A r \in Records, s \in Records : StaleWrite(s, r) \in Stale
    BY RecordFields DEF StaleWrite, Stale
  <1>2. \A r \in Records, s \in Records : StaleWrite(s, r) \notin Receipt
    BY DEF StaleWrite, Receipt
  <1>3. \A why \in {"invalid", "mismatch", "notfound"} :
          Refuse(why) \in Refusal /\ Refuse(why) \notin Receipt
    BY DEF Refuse, Refusal, Receipt
  <1>4. \A r \in Records, created \in BOOLEAN :
          ReceiptFor(r, created) \in Receipt /\ ReceiptFor(r, created).record = r
    BY DEF ReceiptFor, Receipt
  <1> QED
    BY <1>1, <1>2, <1>3, <1>4, RelayDataAssumption DEF Reply

-----------------------------------------------------------------------------
(* Initially.                                                              *)
LEMMA InitInv == Init => IInv
  <1> SUFFICES ASSUME Init PROVE IInv
    OBVIOUS
  <1>1. TypeOK
    BY RelayStoreAssumption DEF Init, TypeOK, Phase
  <1>2. GuardsHeld
    BY RelayStoreAssumption DEF Init, GuardsHeld, WritePhase, ReadPhase
  <1>3. CallInPhase
    BY DEF Init, CallInPhase, WritePhase, ReadPhase
  <1>4. OnlyAdmitted
    BY ReplyTypes DEF Init, OnlyAdmitted, Reply
  <1>5. ReceiptHolds /\ PostsOwnEntries /\ FetchesCurrent
    BY DEF Init, ReceiptHolds, PostsOwnEntries, FetchesCurrent
  <1>6. IndexAtStep
    <2>1. \A x \in IndexKey : index[x] # {} /\ Postings(x) = {}
      BY RelayStoreAssumption DEF Init, Postings
    <2>2. \A k \in Keys, x \in IndexKey : ~ PostedFor(k, x)
      BY DEF Init, PostedFor, Writing, EntriesAt
    <2> QED
      BY <2>1, <2>2 DEF IndexAtStep
  <1> QED
    BY <1>1, <1>2, <1>3, <1>4, <1>5, <1>6 DEF IInv

(* What one put operation does to a postings set.                          *)
LEMMA PostingsTypes ==
  ASSUME TypeOK, NEW x \in IndexKey
  PROVE  Postings(x) \in SUBSET Keys
BY DEF TypeOK, Postings

(* The state a step of a call reads is of the right type.                  *)
LEMMA CallTypes ==
  ASSUME IInv, NEW t \in Threads
  PROVE  /\ pc[t] \in {"lock_write"} \cup WritePhase =>
              /\ Offered(t) \in Records
              /\ Offered(t).key \in Keys
              /\ Offered(t).key = req[t].route
              /\ Offered(t).signer \in AllowedSigners
              /\ Slot(t) \in Records \cup {NoRecord}
         /\ pc[t] \in {"unpost", "post"} =>
              /\ receipt[t] = ReceiptFor(Offered(t), Slot(t) = NoRecord)
              /\ receipt[t] \in Reply
              /\ receipt[t].record = Offered(t)
         /\ pc[t] # "idle" => req[t] \in Requests
  <1>1. pc[t] \in {"lock_write"} \cup WritePhase =>
              /\ Offered(t) \in Records
              /\ Offered(t).key = req[t].route
              /\ Offered(t).signer \in AllowedSigners
    BY DEF IInv, CallInPhase, Admitted, Offered, RouteAgrees, Validates
  <1>2. \A k \in Keys : records[k] \in Records \cup {NoRecord}
    BY DEF IInv, TypeOK
  <1>3. pc[t] # "idle" => req[t] \in Requests
    BY DEF IInv, TypeOK, CallInPhase
  <1>4. pc[t] \in {"unpost", "post"} =>
              receipt[t] = ReceiptFor(Offered(t), Slot(t) = NoRecord)
    BY DEF IInv, ReceiptHolds
  <1>5. (Slot(t) = NoRecord) \in BOOLEAN
    OBVIOUS
  <1>6. pc[t] \in {"unpost", "post"} =>
              receipt[t] \in Reply /\ receipt[t].record = Offered(t)
    BY <1>1, <1>4, <1>5, ReplyTypes DEF WritePhase
  <1> QED
    BY <1>1, <1>2, <1>3, <1>4, <1>6, RecordFields DEF Slot

(* What the three reads answer, all of it under the read guard.            *)
LEMMA ReadAnswers ==
  ASSUME IInv, NEW t \in Threads
  PROVE  /\ Get(t) => \E a \in Reply \ Receipt : Answer(t, a)
         /\ CountRecords(t) => \E a \in Reply \ Receipt : Answer(t, a)
         /\ SearchDone(t) => \E a \in Reply \ Receipt : Answer(t, a)
  <1>t. TypeOK
    BY DEF IInv
  <1>1. ASSUME Get(t)
        PROVE  \E a \in Reply \ Receipt : Answer(t, a)
    <2>1. req[t] \in GetRequest
      BY <1>1, CallTypes, RequestTypes DEF Get, Goto
    <2>2. records[req[t].route] \in Records \cup {NoRecord}
      BY <2>1, <1>t DEF TypeOK, GetRequest
    <2>3. records[req[t].route] # NoRecord =>
            [kind |-> "record", record |-> records[req[t].route]] \in Reply \ Receipt
      BY <2>2 DEF Reply, Found, Receipt
    <2> QED
      BY <1>1, <2>3, ReplyTypes DEF Get
  <1>2. ASSUME CountRecords(t)
        PROVE  \E a \in Reply \ Receipt : Answer(t, a)
    <2>1. Cardinality({k \in Keys : records[k] # NoRecord}) \in Nat
      BY RelayDataAssumption, FS_Subset, FS_CardinalityType
    <2>2. [kind |-> "count",
           count |-> Cardinality({k \in Keys : records[k] # NoRecord})] \in Reply \ Receipt
      BY <2>1 DEF Reply, Count, Receipt
    <2> QED
      BY <1>2, <2>2 DEF CountRecords
  <1>3. ASSUME SearchDone(t)
        PROVE  \E a \in Reply \ Receipt : Answer(t, a)
    <2>1. [kind |-> "records", records |-> found[t]] \in Reply \ Receipt
      BY <1>t DEF TypeOK, Reply, Matches, Receipt
    <2> QED
      BY <1>3, <2>1 DEF SearchDone
  <1> QED
    BY <1>1, <1>2, <1>3

LEMMA TypeStep ==
  ASSUME IInv, Next
  PROVE  TypeOK'
  <1> USE DEF maps, guards, locals, Goto, Answer
  <1>t. TypeOK
    BY DEF IInv
  <1>p. Phase = {"idle", "admit", "lock_write", "lock_read", "return",
                 "check", "unpost", "post", "unlock_write",
                 "read", "fetch", "unlock_read"}
    BY DEF Phase, WritePhase, ReadPhase
  <1>1. ASSUME NEW t \in Threads, NEW q \in Requests, Invoke(t, q)
        PROVE  TypeOK'
    BY <1>1, <1>t, <1>p, RelayStoreAssumption DEF TypeOK, Invoke
  <1>2. ASSUME NEW t \in Threads,
               RefuseMalformed(t) \/ RefuseMisrouted(t) \/ RefuseInvalid(t)
        PROVE  TypeOK'
    BY <1>2, <1>t, <1>p, ReplyTypes
    DEF TypeOK, RefuseMalformed, RefuseMisrouted, RefuseInvalid
  <1>3. ASSUME NEW t \in Threads,
               Admit(t) \/ LockWrite(t) \/ UnlockWrite(t) \/ LockRead(t) \/ UnlockRead(t)
        PROVE  TypeOK'
    BY <1>3, <1>t, <1>p DEF TypeOK, Admit, LockWrite, UnlockWrite, LockRead, UnlockRead
  <1>4. ASSUME NEW t \in Threads, RefuseStale(t)
        PROVE  TypeOK'
    <2>1. StaleWrite(Slot(t), Offered(t)) \in Reply
      BY <1>4, CallTypes, ReplyTypes DEF RefuseStale, WritePhase, MayFill
    <2> QED
      BY <1>4, <1>t, <1>p, <2>1 DEF TypeOK, RefuseStale
  <1>5. ASSUME NEW t \in Threads, AcceptWrite(t)
        PROVE  TypeOK'
    <2>1. /\ ReceiptFor(Offered(t), Slot(t) = NoRecord) \in Receipt
          /\ EntriesAt(Slot(t)) \in SUBSET IndexKey
      BY <1>5, CallTypes, ReplyTypes, SlotEntries DEF AcceptWrite, WritePhase
    <2> QED
      BY <1>5, <1>t, <1>p, <2>1 DEF TypeOK, AcceptWrite
  <1>6. ASSUME NEW t \in Threads, UnpostOne(t) \/ PostOne(t)
        PROVE  TypeOK'
    <2>1. PICK x \in IndexKey :
            /\ Unpost(x, Offered(t).key) \/ Post(x, Offered(t).key)
            /\ unposted' = [unposted EXCEPT ![t] = @ \ {x}]
      BY <1>6, <1>t DEF UnpostOne, PostOne, TypeOK
    <2>2. Offered(t).key \in Keys /\ Postings(x) \in SUBSET Keys
      BY <1>6, <1>t, CallTypes, PostingsTypes DEF UnpostOne, PostOne, WritePhase
    <2>3. index' \in [IndexKey -> {NoEntry} \cup SUBSET Keys]
      BY <2>1, <2>2, <1>t DEF TypeOK, Unpost, Post
    <2>4. unposted' \in [Threads -> SUBSET IndexKey]
      BY <2>1, <1>t DEF TypeOK
    <2> QED
      BY <1>6, <1>t, <2>3, <2>4 DEF TypeOK, UnpostOne, PostOne
  <1>7. ASSUME NEW t \in Threads, StartPosting(t)
        PROVE  TypeOK'
    <2>1. EntriesOf(Offered(t)) \in SUBSET IndexKey
      BY <1>7, CallTypes, RecordFields DEF StartPosting, WritePhase
    <2> QED
      BY <1>7, <1>t, <1>p, <2>1 DEF TypeOK, StartPosting
  <1>8. ASSUME NEW t \in Threads, InsertRecord(t)
        PROVE  TypeOK'
    <2>1. Offered(t) \in Records /\ Offered(t).key \in Keys /\ receipt[t] \in Reply
      BY <1>8, CallTypes, ReplyTypes DEF InsertRecord, WritePhase
    <2> QED
      BY <1>8, <1>t, <1>p, <2>1 DEF TypeOK, InsertRecord
  <1>9. ASSUME NEW t \in Threads, Get(t) \/ CountRecords(t) \/ SearchDone(t)
        PROVE  TypeOK'
    <2>1. PICK a \in Reply : Answer(t, a)
      BY <1>9, ReadAnswers
    <2> QED
      BY <1>9, <1>t, <1>p, <2>1 DEF TypeOK, Get, CountRecords, SearchDone
  <1>10. ASSUME NEW t \in Threads, SearchIndex(t)
         PROVE  TypeOK'
    <2>1. req[t].entry \in IndexKey
      BY <1>10, CallTypes, RequestTypes DEF SearchIndex, SearchRequest
    <2> QED
      BY <1>10, <1>t, <1>p, <2>1, PostingsTypes DEF TypeOK, SearchIndex
  <1>11. ASSUME NEW t \in Threads, FetchOne(t)
         PROVE  TypeOK'
    BY <1>11, <1>t DEF TypeOK, FetchOne
  <1>12. ASSUME NEW t \in Threads, Return(t)
         PROVE  TypeOK'
    BY <1>12, <1>t, <1>p DEF TypeOK, Return
  <1> QED
    BY <1>1, <1>2, <1>3, <1>4, <1>5, <1>6, <1>7, <1>8, <1>9, <1>10, <1>11, <1>12
    DEF Next, Serve, Put, Read

(* The guards.  A reader enters while no writer is in, a writer while      *)
(* nobody is.                                                              *)
LEMMA GuardsStep ==
  ASSUME IInv, Next
  PROVE  GuardsHeld'
  <1> USE DEF maps, guards, Goto, WritePhase, ReadPhase
  <1>t. TypeOK /\ GuardsHeld
    BY DEF IInv
  <1>1. ASSUME NEW t \in Threads, NEW q \in Requests, Invoke(t, q)
        PROVE  GuardsHeld'
    BY <1>1, <1>t DEF TypeOK, GuardsHeld, Invoke
  <1>2. ASSUME NEW t \in Threads,
               \/ RefuseMalformed(t) \/ RefuseMisrouted(t) \/ RefuseInvalid(t)
               \/ Admit(t) \/ Return(t)
        PROVE  GuardsHeld'
    BY <1>2, <1>t DEF TypeOK, GuardsHeld, RefuseMalformed, RefuseMisrouted,
                      RefuseInvalid, Admit, Return
  <1>3. ASSUME NEW t \in Threads, LockWrite(t) \/ UnlockWrite(t)
        PROVE  GuardsHeld'
    BY <1>3, <1>t, RelayStoreAssumption DEF TypeOK, GuardsHeld, LockWrite, UnlockWrite
  <1>4. ASSUME NEW t \in Threads, LockRead(t) \/ UnlockRead(t)
        PROVE  GuardsHeld'
    BY <1>4, <1>t, RelayStoreAssumption DEF TypeOK, GuardsHeld, LockRead, UnlockRead
  <1>5. ASSUME NEW t \in Threads,
               \/ RefuseStale(t) \/ AcceptWrite(t) \/ UnpostOne(t)
               \/ StartPosting(t) \/ PostOne(t) \/ InsertRecord(t)
        PROVE  GuardsHeld'
    BY <1>5, <1>t DEF TypeOK, GuardsHeld, RefuseStale, AcceptWrite, UnpostOne,
                      StartPosting, PostOne, InsertRecord
  <1>6. ASSUME NEW t \in Threads,
               \/ Get(t) \/ CountRecords(t) \/ SearchIndex(t) \/ FetchOne(t) \/ SearchDone(t)
        PROVE  GuardsHeld'
    BY <1>6, <1>t DEF TypeOK, GuardsHeld, Get, CountRecords, SearchIndex, FetchOne, SearchDone
  <1> QED
    BY <1>1, <1>2, <1>3, <1>4, <1>5, <1>6 DEF Next, Serve, Put, Read

(* What each phase knows of its request.                                   *)
LEMMA CallStep ==
  ASSUME IInv, Next
  PROVE  CallInPhase'
  <1> USE DEF maps, guards, locals, Goto, Answer, WritePhase, ReadPhase
  <1>t. TypeOK /\ CallInPhase
    BY DEF IInv
  <1>n. NoReply \notin Reply
    BY ReplyTypes
  <1>1. ASSUME NEW t \in Threads, NEW q \in Requests, Invoke(t, q)
        PROVE  CallInPhase'
    BY <1>1, <1>t, RequestTypes DEF TypeOK, CallInPhase, Invoke
  <1>2. ASSUME NEW t \in Threads,
               RefuseMalformed(t) \/ RefuseMisrouted(t) \/ RefuseInvalid(t)
        PROVE  CallInPhase'
    BY <1>2, <1>t, ReplyTypes
    DEF TypeOK, CallInPhase, RefuseMalformed, RefuseMisrouted, RefuseInvalid
  <1>3. ASSUME NEW t \in Threads, Admit(t)
        PROVE  CallInPhase'
    <2>1. req[t] \in PutRequest /\ Admitted(req[t])
      BY <1>3, <1>t DEF CallInPhase, Admit, Admitted, PutRequest
    <2> QED
      BY <1>3, <1>t, <2>1 DEF TypeOK, CallInPhase, Admit
  <1>4. ASSUME NEW t \in Threads,
               \/ LockWrite(t) \/ AcceptWrite(t) \/ UnpostOne(t) \/ StartPosting(t)
               \/ PostOne(t) \/ UnlockWrite(t)
               \/ LockRead(t) \/ FetchOne(t) \/ UnlockRead(t)
        PROVE  CallInPhase'
    BY <1>4, <1>t DEF TypeOK, CallInPhase, LockWrite, AcceptWrite, UnpostOne,
                      StartPosting, PostOne, UnlockWrite, LockRead, FetchOne, UnlockRead
  <1>5. ASSUME NEW t \in Threads, RefuseStale(t) \/ InsertRecord(t)
        PROVE  CallInPhase'
    <2>1. RefuseStale(t) => StaleWrite(Slot(t), Offered(t)) \in Reply
      BY CallTypes, ReplyTypes DEF RefuseStale, MayFill
    <2>2. InsertRecord(t) => receipt[t] \in Reply
      BY CallTypes, ReplyTypes DEF InsertRecord
    <2> QED
      BY <1>5, <1>t, <1>n, <2>1, <2>2 DEF TypeOK, CallInPhase, RefuseStale, InsertRecord
  <1>6. ASSUME NEW t \in Threads, Get(t) \/ CountRecords(t) \/ SearchDone(t)
        PROVE  CallInPhase'
    <2>1. PICK a \in Reply : Answer(t, a)
      BY <1>6, ReadAnswers
    <2> QED
      BY <1>6, <1>t, <1>n, <2>1
      DEF TypeOK, CallInPhase, Get, CountRecords, SearchDone
  <1>7. ASSUME NEW t \in Threads, SearchIndex(t)
        PROVE  CallInPhase'
    BY <1>7, <1>t, RequestTypes DEF TypeOK, CallInPhase, SearchIndex
  <1>8. ASSUME NEW t \in Threads, Return(t)
        PROVE  CallInPhase'
    BY <1>8, <1>t DEF TypeOK, CallInPhase, Return
  <1> QED
    BY <1>1, <1>2, <1>3, <1>4, <1>5, <1>6, <1>7, <1>8 DEF Next, Serve, Put, Read

(* Only the last step of an accepted put moves the records map, and only   *)
(* at its own key; the put still holds the write guard.                    *)
LEMMA RecordsStep ==
  ASSUME IInv, Next, records' # records
  PROVE  \E t \in Threads :
           /\ InsertRecord(t)
           /\ writer = t
           /\ readers = {}
           /\ MayFill(Offered(t), Slot(t))
           /\ records' = [records EXCEPT ![Offered(t).key] = Offered(t)]
  <1>1. PICK t \in Threads : InsertRecord(t)
    BY DEF Next, Serve, Put, Read, maps, Invoke, RefuseMalformed, RefuseMisrouted,
           RefuseInvalid, Admit, LockWrite, RefuseStale, AcceptWrite, UnpostOne,
           StartPosting, PostOne, UnlockWrite, LockRead, Get, CountRecords,
           SearchIndex, FetchOne, SearchDone, UnlockRead, Return
  <1>2. writer = t /\ readers = {}
    BY <1>1, RelayStoreAssumption DEF IInv, GuardsHeld, WritePhase, InsertRecord, Goto
  <1>3. MayFill(Offered(t), Slot(t))
    BY <1>1 DEF IInv, ReceiptHolds, InsertRecord, Goto
  <1> QED
    BY <1>1, <1>2, <1>3 DEF InsertRecord

(* A receipt is answered by the last step of an accepted put and then      *)
(* stands, with the request it answers, until the call returns.            *)
LEMMA ReceiptAnswers ==
  ASSUME IInv, Next, NEW t \in Threads, reply'[t] \in Receipt
  PROVE  \/ InsertRecord(t)
         \/ reply'[t] = reply[t] /\ req'[t] = req[t]
  <1> USE DEF Goto, Answer
  <1>t. TypeOK /\ CallInPhase
    BY DEF IInv
  <1>n. NoReply \notin Receipt
    BY ReplyTypes DEF Reply
  <1>1. ASSUME NEW u \in Threads, NEW q \in Requests, Invoke(u, q)
        PROVE  reply'[t] = reply[t] /\ req'[t] = req[t]
    BY <1>1, <1>t, <1>n DEF TypeOK, CallInPhase, Invoke
  <1>2. ASSUME NEW u \in Threads,
               RefuseMalformed(u) \/ RefuseMisrouted(u) \/ RefuseInvalid(u)
        PROVE  reply'[t] = reply[t] /\ req'[t] = req[t]
    BY <1>2, <1>t, ReplyTypes DEF TypeOK, RefuseMalformed, RefuseMisrouted, RefuseInvalid
  <1>3. ASSUME NEW u \in Threads, RefuseStale(u)
        PROVE  reply'[t] = reply[t] /\ req'[t] = req[t]
    <2>1. StaleWrite(Slot(u), Offered(u)) \notin Receipt
      BY <1>3, CallTypes, ReplyTypes DEF RefuseStale, MayFill, WritePhase
    <2> QED
      BY <1>3, <1>t, <2>1 DEF TypeOK, RefuseStale
  <1>4. ASSUME NEW u \in Threads, Get(u) \/ CountRecords(u) \/ SearchDone(u)
        PROVE  reply'[t] = reply[t] /\ req'[t] = req[t]
    <2>1. PICK a \in Reply \ Receipt : Answer(u, a)
      BY <1>4, ReadAnswers
    <2> QED
      BY <1>4, <1>t, <2>1 DEF TypeOK, Get, CountRecords, SearchDone
  <1>5. ASSUME NEW u \in Threads, InsertRecord(u)
        PROVE  \/ InsertRecord(t)
               \/ reply'[t] = reply[t] /\ req'[t] = req[t]
    BY <1>5, <1>t DEF TypeOK, InsertRecord
  <1>6. ASSUME NEW u \in Threads,
               \/ Admit(u) \/ LockWrite(u) \/ AcceptWrite(u) \/ UnpostOne(u)
               \/ StartPosting(u) \/ PostOne(u) \/ UnlockWrite(u)
               \/ LockRead(u) \/ SearchIndex(u) \/ FetchOne(u) \/ UnlockRead(u)
        PROVE  reply'[t] = reply[t] /\ req'[t] = req[t]
    BY <1>6 DEF Admit, LockWrite, AcceptWrite, UnpostOne, StartPosting, PostOne,
                UnlockWrite, LockRead, SearchIndex, FetchOne, UnlockRead
  <1>7. ASSUME NEW u \in Threads, Return(u)
        PROVE  reply'[t] = reply[t] /\ req'[t] = req[t]
    BY <1>7, <1>t, <1>n DEF TypeOK, Return
  <1> QED
    BY <1>1, <1>2, <1>3, <1>4, <1>5, <1>6, <1>7 DEF Next, Serve, Put, Read

LEMMA AdmittedStep ==
  ASSUME IInv, Next
  PROVE  OnlyAdmitted'
  <1>t. TypeOK /\ OnlyAdmitted
    BY DEF IInv
  <1>1. ASSUME NEW k \in Keys, records'[k] # NoRecord
        PROVE  records'[k].key = k /\ records'[k].signer \in AllowedSigners
    <2>1. CASE records'[k] = records[k]
      BY <1>1, <1>t, <2>1 DEF OnlyAdmitted
    <2>2. CASE records'[k] # records[k]
      <3>1. PICK t \in Threads :
              /\ InsertRecord(t)
              /\ records' = [records EXCEPT ![Offered(t).key] = Offered(t)]
        BY <2>2, RecordsStep
      <3>2. k = Offered(t).key /\ records'[k] = Offered(t)
        BY <2>2, <3>1, <1>t DEF TypeOK
      <3> QED
        BY <3>1, <3>2, CallTypes DEF InsertRecord, Goto, WritePhase
    <2> QED
      BY <2>1, <2>2
  <1>2. ASSUME NEW t \in Threads, reply'[t] \in Receipt
        PROVE  reply'[t].record.key = req'[t].route
    <2>1. CASE reply'[t] = reply[t] /\ req'[t] = req[t]
      BY <1>2, <2>1, <1>t DEF OnlyAdmitted
    <2>2. CASE InsertRecord(t)
      BY <2>2, <1>t, CallTypes DEF InsertRecord, Goto, WritePhase, TypeOK, Answer
    <2> QED
      BY <1>2, <2>1, <2>2, ReceiptAnswers
  <1> QED
    BY <1>1, <1>2 DEF OnlyAdmitted

(* While a put changes the index neither its request nor any record moves. *)
LEMMA WriterAlone ==
  ASSUME IInv, Next, NEW t \in Threads, pc'[t] \in WritePhase \ {"unlock_write"}
  PROVE  records' = records /\ req'[t] = req[t]
  <1> USE DEF Goto, WritePhase, ReadPhase
  <1>t. TypeOK /\ GuardsHeld
    BY DEF IInv
  <1>1. records' = records
    <2>1. SUFFICES ASSUME records' # records PROVE FALSE
      OBVIOUS
    <2>2. PICK u \in Threads : InsertRecord(u) /\ writer = u
      BY <2>1, RecordsStep
    <2>3. t # u /\ pc'[t] = pc[t]
      BY <2>2, <1>t DEF InsertRecord, TypeOK
    <2> QED
      BY <2>2, <2>3, <1>t DEF GuardsHeld
  <1>2. req'[t] = req[t]
    <2>1. \A u \in Threads, q \in Requests : Invoke(u, q) => req'[t] = req[t]
      BY <1>t DEF Invoke, TypeOK
    <2>2. \A u \in Threads : Return(u) => req'[t] = req[t]
      BY <1>t DEF Return, TypeOK
    <2> QED
      BY <2>1, <2>2
      DEF Next, Serve, Put, Read, RefuseMalformed, RefuseMisrouted,
          RefuseInvalid, Admit, LockWrite, RefuseStale, AcceptWrite, UnpostOne,
          StartPosting, PostOne, InsertRecord, UnlockWrite, LockRead, Get, CountRecords,
          SearchIndex, FetchOne, SearchDone, UnlockRead
  <1> QED
    BY <1>1, <1>2

LEMMA ReceiptStep ==
  ASSUME IInv, Next
  PROVE  ReceiptHolds'
  <1> USE DEF Goto, locals
  <1>t. TypeOK /\ ReceiptHolds
    BY DEF IInv
  <1> SUFFICES ASSUME NEW t \in Threads, pc'[t] \in {"unpost", "post"}
               PROVE  /\ MayFill(Offered(t), Slot(t))'
                      /\ receipt'[t] = ReceiptFor(Offered(t), Slot(t) = NoRecord)'
    BY DEF ReceiptHolds
  <1>1. records' = records /\ req'[t] = req[t]
    BY WriterAlone DEF WritePhase
  <1>2. Offered(t)' = Offered(t) /\ Slot(t)' = Slot(t)
    BY <1>1 DEF Offered, Slot
  <1>3. /\ MayFill(Offered(t), Slot(t))
        /\ receipt'[t] = ReceiptFor(Offered(t), Slot(t) = NoRecord)
    <2>1. CASE \E u \in Threads : AcceptWrite(u)
      BY <2>1, <1>t DEF AcceptWrite, TypeOK, ReceiptHolds
    <2>2. CASE \E u \in Threads : Return(u)
      BY <2>2, <1>t DEF Return, TypeOK, ReceiptHolds
    <2>3. CASE receipt' = receipt /\ pc[t] \in {"unpost", "post"}
      BY <2>3, <1>t DEF ReceiptHolds
    <2>4. \/ \E u \in Threads : AcceptWrite(u) \/ Return(u)
          \/ receipt' = receipt
      BY DEF Next, Serve, Put, Read, Invoke, RefuseMalformed, RefuseMisrouted,
             RefuseInvalid, Admit, LockWrite, RefuseStale, UnpostOne,
             StartPosting, PostOne, InsertRecord, UnlockWrite, LockRead, Get, CountRecords,
             SearchIndex, FetchOne, SearchDone, UnlockRead
    <2>5. \/ \E u \in Threads : AcceptWrite(u)
          \/ pc[t] \in {"unpost", "post"}
      BY <1>t DEF TypeOK, Next, Serve, Put, Read, Invoke, RefuseMalformed, RefuseMisrouted,
             RefuseInvalid, Admit, LockWrite, RefuseStale, UnpostOne,
             StartPosting, PostOne, InsertRecord, UnlockWrite, LockRead, Get, CountRecords,
             SearchIndex, FetchOne, SearchDone, UnlockRead, Return
    <2> QED
      BY <2>1, <2>2, <2>3, <2>4, <2>5
  <1> QED
    BY <1>2, <1>3 DEF MayFill, Advances, ReceiptFor

-----------------------------------------------------------------------------
(* PostedFor, once it is known who is writing: nobody, a put still         *)
(* removing entries, or a put adding them; before a step and after it.     *)
LEMMA PostedBefore ==
  ASSUME IInv, NEW k \in Keys, NEW x \in IndexKey
  PROVE  /\ (\A t \in Threads : pc[t] \notin {"unpost", "post"}) =>
              (PostedFor(k, x) <=> x \in EntriesAt(records[k]))
         /\ \A t \in Threads : pc[t] = "unpost" =>
              (PostedFor(k, x) <=> IF k = Offered(t).key THEN x \in unposted[t]
                                   ELSE x \in EntriesAt(records[k]))
         /\ \A t \in Threads : pc[t] = "post" =>
              (PostedFor(k, x) <=> IF k = Offered(t).key
                                   THEN x \in EntriesOf(Offered(t)) \ unposted[t]
                                   ELSE x \in EntriesAt(records[k]))
  <1>1. \A t, u \in Threads :
          pc[t] \in {"unpost", "post"} /\ pc[u] \in {"unpost", "post"} => t = u
    BY DEF IInv, GuardsHeld, WritePhase
  <1> QED
    BY <1>1 DEF PostedFor, Writing

LEMMA PostedAfter ==
  ASSUME GuardsHeld', NEW k \in Keys, NEW x \in IndexKey
  PROVE  /\ (\A t \in Threads : pc'[t] \notin {"unpost", "post"}) =>
              (PostedFor(k, x)' <=> x \in EntriesAt(records'[k]))
         /\ \A t \in Threads : pc'[t] = "unpost" =>
              (PostedFor(k, x)' <=> IF k = Offered(t)'.key THEN x \in unposted'[t]
                                    ELSE x \in EntriesAt(records'[k]))
         /\ \A t \in Threads : pc'[t] = "post" =>
              (PostedFor(k, x)' <=> IF k = Offered(t)'.key
                                    THEN x \in EntriesOf(Offered(t)') \ unposted'[t]
                                    ELSE x \in EntriesAt(records'[k]))
  <1>1. \A t, u \in Threads :
          pc'[t] \in {"unpost", "post"} /\ pc'[u] \in {"unpost", "post"} => t = u
    BY DEF GuardsHeld, WritePhase
  <1> QED
    BY <1>1 DEF PostedFor, Writing, EntriesOf, EntriesAt

(* One removal or insertion, seen through Postings.                        *)
LEMMA UnpostEffect ==
  ASSUME TypeOK, NEW y \in IndexKey, NEW key \in Keys, Unpost(y, key), index[y] # {}
  PROVE  /\ index'[y] # {}
         /\ \A k \in Keys : k \in Postings(y)' <=> k \in Postings(y) /\ k # key
         /\ \A x \in IndexKey \ {y} : index'[x] = index[x]
  <1>1. Postings(y) \in SUBSET Keys
    BY PostingsTypes
  <1>2. index'[y] = IF Postings(y) \subseteq {key} THEN NoEntry ELSE Postings(y) \ {key}
    BY DEF TypeOK, Unpost
  <1>3. Postings(y) \ {key} # NoEntry
    BY <1>1, RelayStoreAssumption
  <1>4. \A x \in IndexKey \ {y} : index'[x] = index[x]
    BY DEF TypeOK, Unpost
  <1>5. {} # NoEntry
    BY RelayStoreAssumption
  <1> QED
    BY <1>1, <1>2, <1>3, <1>4, <1>5 DEF Postings

LEMMA PostEffect ==
  ASSUME TypeOK, NEW y \in IndexKey, NEW key \in Keys, Post(y, key)
  PROVE  /\ index'[y] # {}
         /\ \A k \in Keys : k \in Postings(y)' <=> k \in Postings(y) \/ k = key
         /\ \A x \in IndexKey \ {y} : index'[x] = index[x]
  <1>1. Postings(y) \cup {key} \in SUBSET Keys
    BY PostingsTypes
  <1>2. index'[y] = Postings(y) \cup {key}
    BY DEF TypeOK, Post
  <1>3. Postings(y) \cup {key} # NoEntry
    BY <1>1, RelayStoreAssumption
  <1>4. \A x \in IndexKey \ {y} : index'[x] = index[x]
    BY DEF TypeOK, Post
  <1> QED
    BY <1>2, <1>3, <1>4 DEF Postings

LEMMA IndexStep ==
  ASSUME IInv, Next
  PROVE  IndexAtStep'
  <1> USE DEF Goto, maps, locals, WritePhase, ReadPhase
  <1>t. TypeOK /\ GuardsHeld /\ IndexAtStep
    BY DEF IInv
  <1>g. TypeOK' /\ GuardsHeld'
    BY TypeStep, GuardsStep
  <1>i. \A x \in IndexKey :
          index[x] # {} /\ \A k \in Keys : k \in Postings(x) <=> PostedFor(k, x)
    BY <1>t DEF IndexAtStep
  <1>1. ASSUME NEW t \in Threads, AcceptWrite(t)
        PROVE  IndexAtStep'
    <2>1. /\ index' = index /\ records' = records /\ Offered(t)' = Offered(t)
          /\ pc'[t] = "unpost" /\ unposted'[t] = EntriesAt(Slot(t))
      BY <1>1, <1>t DEF AcceptWrite, TypeOK, Offered
    <2>2. \A u \in Threads : pc[u] \notin {"unpost", "post"}
      BY <1>1, <1>t DEF AcceptWrite, GuardsHeld
    <2>3. \A k \in Keys, x \in IndexKey : PostedFor(k, x)' <=> PostedFor(k, x)
      BY <2>1, <2>2, <1>g, PostedBefore, PostedAfter DEF Slot
    <2> QED
      BY <1>i, <2>1, <2>3 DEF IndexAtStep, Postings
  <1>2. ASSUME NEW t \in Threads, UnpostOne(t)
        PROVE  IndexAtStep'
    <2>1. /\ pc' = pc /\ records' = records /\ Offered(t)' = Offered(t) /\ pc[t] = "unpost"
          /\ Offered(t).key \in Keys
      BY <1>2, CallTypes DEF UnpostOne, Offered
    <2>2. PICK y \in IndexKey :
            y \in unposted[t] /\ Unpost(y, Offered(t).key) /\ unposted'[t] = unposted[t] \ {y}
      BY <1>2, <1>t DEF UnpostOne, TypeOK
    <2>3. /\ index'[y] # {}
          /\ \A k \in Keys : k \in Postings(y)' <=> k \in Postings(y) /\ k # Offered(t).key
          /\ \A x \in IndexKey \ {y} : index'[x] = index[x]
      BY <2>1, <2>2, <1>t, <1>i, UnpostEffect
    <2>4. ASSUME NEW k \in Keys, NEW x \in IndexKey
          PROVE  PostedFor(k, x)' <=>
                   PostedFor(k, x) /\ ~ (x = y /\ k = Offered(t).key)
      BY <2>1, <2>2, <1>g, PostedBefore, PostedAfter
    <2> QED
      BY <1>i, <2>3, <2>4 DEF IndexAtStep, Postings
  <1>3. ASSUME NEW t \in Threads, StartPosting(t)
        PROVE  IndexAtStep'
    <2>1. /\ index' = index /\ records' = records /\ Offered(t)' = Offered(t)
          /\ pc[t] = "unpost" /\ unposted[t] = {}
          /\ pc'[t] = "post" /\ unposted'[t] = EntriesOf(Offered(t))
      BY <1>3, <1>t DEF StartPosting, TypeOK, Offered
    <2>2. \A k \in Keys, x \in IndexKey : PostedFor(k, x)' <=> PostedFor(k, x)
      BY <2>1, <1>g, PostedBefore, PostedAfter
    <2> QED
      BY <1>i, <2>1, <2>2 DEF IndexAtStep, Postings
  <1>4. ASSUME NEW t \in Threads, PostOne(t)
        PROVE  IndexAtStep'
    <2>1. /\ pc' = pc /\ records' = records /\ Offered(t)' = Offered(t) /\ pc[t] = "post"
          /\ Offered(t).key \in Keys
      BY <1>4, CallTypes DEF PostOne, Offered
    <2>2. PICK y \in IndexKey :
            y \in unposted[t] /\ Post(y, Offered(t).key) /\ unposted'[t] = unposted[t] \ {y}
      BY <1>4, <1>t DEF PostOne, TypeOK
    <2>3. unposted[t] \subseteq EntriesOf(Offered(t))
      BY <2>1 DEF IInv, PostsOwnEntries
    <2>4. /\ index'[y] # {}
          /\ \A k \in Keys : k \in Postings(y)' <=> k \in Postings(y) \/ k = Offered(t).key
          /\ \A x \in IndexKey \ {y} : index'[x] = index[x]
      BY <2>1, <2>2, <1>t, PostEffect
    <2>5. ASSUME NEW k \in Keys, NEW x \in IndexKey
          PROVE  PostedFor(k, x)' <=>
                   PostedFor(k, x) \/ (x = y /\ k = Offered(t).key)
      BY <2>1, <2>2, <2>3, <1>g, PostedBefore, PostedAfter
    <2> QED
      BY <1>i, <2>4, <2>5 DEF IndexAtStep, Postings
  <1>5. ASSUME NEW t \in Threads, InsertRecord(t)
        PROVE  IndexAtStep'
    <2>1. /\ index' = index /\ Offered(t) \in Records /\ Offered(t).key \in Keys
          /\ pc[t] = "post" /\ unposted[t] = {}
          /\ records' = [records EXCEPT ![Offered(t).key] = Offered(t)]
      BY <1>5, CallTypes DEF InsertRecord
    <2>2. \A u \in Threads : pc'[u] \notin {"unpost", "post"}
      BY <1>5, <1>t DEF InsertRecord, GuardsHeld, TypeOK
    <2>3. EntriesAt(Offered(t)) = EntriesOf(Offered(t))
      BY <2>1, RecordFields DEF EntriesAt
    <2>4. \A k \in Keys, x \in IndexKey : PostedFor(k, x)' <=> PostedFor(k, x)
      BY <2>1, <2>2, <2>3, <1>t, <1>g, PostedBefore, PostedAfter DEF TypeOK
    <2> QED
      BY <1>i, <2>1, <2>4 DEF IndexAtStep, Postings
  <1>6. ASSUME index' = index, records' = records, unposted' = unposted,
               \A u \in Threads :
                 /\ pc[u] \in {"unpost", "post"} => pc'[u] = pc[u] /\ req'[u] = req[u]
                 /\ pc'[u] \in {"unpost", "post"} => pc'[u] = pc[u]
        PROVE  IndexAtStep'
    <2>1. \A k \in Keys, x \in IndexKey : PostedFor(k, x)' <=> PostedFor(k, x)
      <3>1. \A u \in Threads, k \in Keys :
              /\ Writing(u, k, "unpost")' <=> Writing(u, k, "unpost")
              /\ Writing(u, k, "post")' <=> Writing(u, k, "post")
        BY <1>6 DEF Writing, Offered
      <3>2. \A u \in Threads, k \in Keys :
              Writing(u, k, "post") => Offered(u)' = Offered(u)
        BY <1>6 DEF Writing, Offered
      <3> QED
        BY <1>6, <3>1, <3>2 DEF PostedFor, EntriesAt, EntriesOf
    <2> QED
      BY <1>i, <1>6, <2>1 DEF IndexAtStep, Postings
  <1>7. ASSUME NEW t \in Threads, NEW q \in Requests, Invoke(t, q)
        PROVE  IndexAtStep'
    BY <1>6, <1>7, <1>t DEF Invoke, TypeOK
  <1>8. ASSUME NEW t \in Threads,
               \/ RefuseMalformed(t) \/ RefuseMisrouted(t) \/ RefuseInvalid(t)
               \/ Admit(t) \/ LockWrite(t) \/ RefuseStale(t) \/ UnlockWrite(t)
        PROVE  IndexAtStep'
    BY <1>6, <1>8, <1>t DEF TypeOK, RefuseMalformed, RefuseMisrouted, RefuseInvalid,
                            Admit, LockWrite, RefuseStale, UnlockWrite
  <1>9. ASSUME NEW t \in Threads,
               \/ LockRead(t) \/ Get(t) \/ CountRecords(t) \/ SearchIndex(t)
               \/ FetchOne(t) \/ SearchDone(t) \/ UnlockRead(t) \/ Return(t)
        PROVE  IndexAtStep'
    BY <1>6, <1>9, <1>t DEF TypeOK, LockRead, Get, CountRecords, SearchIndex,
                            FetchOne, SearchDone, UnlockRead, Return
  <1> QED
    BY <1>1, <1>2, <1>3, <1>4, <1>5, <1>7, <1>8, <1>9 DEF Next, Serve, Put, Read

LEMMA PostsOwnStep ==
  ASSUME IInv, Next
  PROVE  PostsOwnEntries'
  <1> USE DEF Goto, locals
  <1>t. TypeOK /\ PostsOwnEntries
    BY DEF IInv
  <1> SUFFICES ASSUME NEW t \in Threads, pc'[t] = "post"
               PROVE  unposted'[t] \subseteq EntriesOf(Offered(t)')
    BY DEF PostsOwnEntries, EntriesOf
  <1>1. Offered(t)' = Offered(t)
    BY WriterAlone DEF WritePhase, Offered
  <1>2. CASE StartPosting(t)
    BY <1>1, <1>2, <1>t DEF StartPosting, TypeOK
  <1>3. CASE pc[t] = "post" /\ unposted'[t] \subseteq unposted[t]
    BY <1>1, <1>3, <1>t DEF PostsOwnEntries
  <1>4. \/ StartPosting(t)
        \/ pc[t] = "post" /\ unposted'[t] \subseteq unposted[t]
    BY <1>t DEF TypeOK, Next, Serve, Put, Read, Invoke, RefuseMalformed, RefuseMisrouted,
           RefuseInvalid, Admit, LockWrite, RefuseStale, AcceptWrite, UnpostOne, StartPosting,
           PostOne, InsertRecord, UnlockWrite, LockRead, Get, CountRecords,
           SearchIndex, FetchOne, SearchDone, UnlockRead, Return
  <1> QED
    BY <1>2, <1>3, <1>4

-----------------------------------------------------------------------------
(* With no writer inside, the index is the inverse of the records.         *)
LEMMA IndexMirrors ==
  ASSUME IInv
  PROVE  IndexMirrorsRecords
  <1>1. SUFFICES ASSUME writer = NoThread, NEW x \in IndexKey
                 PROVE  /\ Postings(x) = {k \in Keys : x \in EntriesAt(records[k])}
                        /\ index[x] # {}
    BY DEF IndexMirrorsRecords
  <1>2. \A t \in Threads : pc[t] \notin {"unpost", "post"}
    BY <1>1, RelayStoreAssumption DEF IInv, GuardsHeld, WritePhase
  <1>3. \A k \in Keys : k \in Postings(x) <=> x \in EntriesAt(records[k])
    BY <1>2, PostedBefore DEF IInv, IndexAtStep
  <1>4. Postings(x) \in SUBSET Keys /\ index[x] # {}
    BY PostingsTypes DEF IInv, IndexAtStep
  <1> QED
    BY <1>3, <1>4

(* The records of the keys an index entry lists are the matching records.  *)
LEMMA MatchingRecords ==
  ASSUME IInv, writer = NoThread, NEW x \in IndexKey
  PROVE  /\ \A k \in Postings(x) : k \in Keys /\ records[k] # NoRecord
         /\ {records[k] : k \in Postings(x)} = Abstract!Matching(x)
  <1>1. Postings(x) = {k \in Keys : x \in EntriesAt(records[k])}
    BY IndexMirrors DEF IndexMirrorsRecords
  <1>2. \A k \in Keys : records[k] # NoRecord =>
          /\ records[k] \in Records
          /\ records[k].key = k
          /\ EntriesAt(records[k]) = EntriesOf(records[k])
    BY DEF IInv, TypeOK, OnlyAdmitted, EntriesAt
  <1>3. \A k \in Postings(x) : k \in Keys /\ records[k] # NoRecord
    BY <1>1 DEF EntriesAt
  <1>4. ASSUME NEW k \in Postings(x)
        PROVE  records[k] \in Abstract!Matching(x)
    BY <1>1, <1>2, <1>3 DEF Abstract!Matching, Abstract!EntriesOf, EntriesOf
  <1>5. ASSUME NEW r \in Abstract!Matching(x)
        PROVE  r.key \in Postings(x) /\ records[r.key] = r
    <2>1. r \in Records /\ records[r.key] = r /\ x \in EntriesOf(r)
      BY DEF Abstract!Matching, Abstract!EntriesOf, EntriesOf
    <2>2. r.key \in Keys /\ r # NoRecord
      BY <2>1, RecordFields
    <2> QED
      BY <2>1, <2>2, <1>1 DEF EntriesAt
  <1> QED
    BY <1>3, <1>4, <1>5

LEMMA FetchStep ==
  ASSUME IInv, Next
  PROVE  FetchesCurrent'
  <1> USE DEF Goto, locals
  <1>t. TypeOK /\ GuardsHeld /\ FetchesCurrent
    BY DEF IInv
  <1> SUFFICES ASSUME NEW t \in Threads, pc'[t] = "fetch"
               PROVE  /\ \A k \in matched'[t] : records'[k] # NoRecord
                      /\ found'[t] \cup {records'[k] : k \in matched'[t]}
                           = Abstract!Matching(req[t].entry)'
    BY DEF FetchesCurrent
  <1>1. \/ SearchIndex(t)
        \/ FetchOne(t)
        \/ pc[t] = "fetch" /\ UNCHANGED <<req[t], matched[t], found[t]>>
    BY <1>t DEF TypeOK, Next, Serve, Put, Read, Invoke, RefuseMalformed, RefuseMisrouted,
           RefuseInvalid, Admit, LockWrite, RefuseStale, AcceptWrite, UnpostOne, StartPosting,
           PostOne, InsertRecord, UnlockWrite, LockRead, Get, CountRecords,
           SearchIndex, FetchOne, SearchDone, UnlockRead, Return
  <1>2. writer = NoThread
    BY <1>1, <1>t DEF GuardsHeld, ReadPhase, SearchIndex, FetchOne, TypeOK
  <1>3. records' = records
    BY <1>2, RecordsStep, RelayStoreAssumption
  <1>m. \A x : Abstract!Matching(x)' = Abstract!Matching(x)
    BY <1>3 DEF Abstract!Matching, Abstract!EntriesOf
  <1>4. CASE SearchIndex(t)
    <2>1. /\ req'[t] = req[t]
          /\ matched'[t] = Postings(req[t].entry)
          /\ found'[t] = {}
      BY <1>4, <1>t DEF SearchIndex, TypeOK
    <2>2. req[t].entry \in IndexKey
      BY <1>4, CallTypes, RequestTypes DEF SearchIndex, SearchRequest
    <2> QED
      BY <1>2, <1>3, <1>m, <2>1, <2>2, MatchingRecords
  <1>5. CASE FetchOne(t)
    <2>1. PICK k \in matched[t] :
            /\ matched'[t] = matched[t] \ {k}
            /\ found'[t] = found[t] \cup ({records[k]} \ {NoRecord})
            /\ req'[t] = req[t]
      BY <1>5, <1>t DEF FetchOne, TypeOK
    <2>2. /\ \A j \in matched[t] : records[j] # NoRecord
          /\ found[t] \cup {records[j] : j \in matched[t]} = Abstract!Matching(req[t].entry)
      BY <1>5, <1>t DEF FetchOne, FetchesCurrent
    <2>3. found'[t] \cup {records[j] : j \in matched'[t]}
            = found[t] \cup {records[j] : j \in matched[t]}
      BY <2>1, <2>2
    <2> QED
      BY <1>3, <1>m, <2>1, <2>2, <2>3
  <1>6. CASE pc[t] = "fetch" /\ UNCHANGED <<req[t], matched[t], found[t]>>
    <2>1. /\ \A j \in matched[t] : records[j] # NoRecord
          /\ found[t] \cup {records[j] : j \in matched[t]} = Abstract!Matching(req[t].entry)
      BY <1>6, <1>t DEF FetchesCurrent
    <2> QED
      BY <1>3, <1>6, <1>m, <2>1
  <1> QED
    BY <1>1, <1>4, <1>5, <1>6

-----------------------------------------------------------------------------
LEMMA StutterInv ==
  ASSUME IInv, UNCHANGED vars
  PROVE  IInv'
  <1> USE DEF vars, maps, guards, locals
  <1>1. TypeOK' /\ GuardsHeld' /\ CallInPhase' /\ OnlyAdmitted'
    BY DEF IInv, TypeOK, GuardsHeld, CallInPhase, OnlyAdmitted
  <1>2. /\ \A t \in Threads : Offered(t)' = Offered(t) /\ Slot(t)' = Slot(t)
        /\ \A x \in IndexKey : Postings(x)' = Postings(x)
        /\ \A x : Abstract!Matching(x)' = Abstract!Matching(x)
    BY DEF Offered, Slot, Postings, Abstract!Matching, Abstract!EntriesOf
  <1>3. ReceiptHolds' /\ PostsOwnEntries' /\ FetchesCurrent'
    BY <1>2 DEF IInv, ReceiptHolds, PostsOwnEntries, FetchesCurrent, MayFill, Advances,
                ReceiptFor, EntriesOf
  <1>4. \A k \in Keys, x \in IndexKey : PostedFor(k, x)' <=> PostedFor(k, x)
    BY <1>2 DEF PostedFor, Writing, EntriesAt, EntriesOf
  <1>5. IndexAtStep'
    BY <1>2, <1>4 DEF IInv, IndexAtStep
  <1> QED
    BY <1>1, <1>3, <1>5 DEF IInv

(* The inductive invariant holds in every reachable state.                 *)
THEOREM Invariance == Spec => []IInv
  <1>1. IInv /\ [Next]_vars => IInv'
    <2>1. ASSUME IInv, Next PROVE IInv'
      BY <2>1, TypeStep, GuardsStep, CallStep, AdmittedStep, ReceiptStep, PostsOwnStep,
         IndexStep, FetchStep DEF IInv
    <2> QED
      BY <2>1, StutterInv
  <1> QED
    BY <1>1, InitInv, PTL DEF Spec

(* Every variable keeps its type, for any keys, records and threads.       *)
THEOREM TypeCorrect == Spec => []TypeOK
  <1>1. IInv => TypeOK
    BY DEF IInv
  <1> QED
    BY <1>1, Invariance, PTL

(* Only records the route and the signer policy admit are ever stored or   *)
(* acknowledged (Relay::put_encoded and MemoryStore::put).                 *)
THEOREM AdmittedOnly == Spec => []OnlyAdmitted
  <1>1. IInv => OnlyAdmitted
    BY DEF IInv
  <1> QED
    BY <1>1, Invariance, PTL

(* The secondary index never disagrees with the records between writes     *)
(* (the two loops of MemoryStore::put).                                    *)
THEOREM IndexCoherent == Spec => []IndexMirrorsRecords
  <1>1. IInv => IndexMirrorsRecords
    BY IndexMirrors
  <1> QED
    BY <1>1, Invariance, PTL

(* No interleaving of writers moves a stored record backwards or removes   *)
(* it (the stale-write check of MemoryStore::put under the write guard).   *)
THEOREM MonotonicWrites == Spec => WritesAdvance
  <1> DEFINE Later(k) ==
        /\ records'[k] # NoRecord
        /\ \/ records'[k].version > records[k].version
           \/ /\ records'[k].version = records[k].version
              /\ records'[k].manifest_revision > records[k].manifest_revision
  <1>1. ASSUME IInv, Next, NEW k \in Keys, records[k] # NoRecord, records'[k] # records[k]
        PROVE  Later(k)
    <2>1. PICK t \in Threads :
            /\ InsertRecord(t)
            /\ MayFill(Offered(t), Slot(t))
            /\ records' = [records EXCEPT ![Offered(t).key] = Offered(t)]
      BY <1>1, RecordsStep
    <2>2. /\ k = Offered(t).key
          /\ records'[k] = Offered(t)
          /\ Slot(t) = records[k]
      BY <1>1, <2>1 DEF IInv, TypeOK, Slot
    <2>3. Offered(t) # NoRecord
      BY <1>1, <2>1, CallTypes, RecordFields DEF InsertRecord, Goto, WritePhase
    <2> QED
      BY <1>1, <2>1, <2>2, <2>3 DEF MayFill, Advances
  <1>2. IInv /\ [Next]_vars =>
          [\A k \in Keys : records[k] # NoRecord /\ records'[k] # records[k] => Later(k)]_vars
    BY <1>1
  <1> QED
    BY <1>2, Invariance, PTL DEF Spec, WritesAdvance

-----------------------------------------------------------------------------
(* The refinement.  The abstract store reads the same records, requests    *)
(* and replies, so a step of the relay is simulated by itself.             *)

(* A call in any phase before its answer is pending.                       *)
LEMMA PendingCall ==
  ASSUME IInv, NEW t \in Threads,
         pc[t] \notin {"idle", "unlock_write", "unlock_read", "return"}
  PROVE  Abstract!Pending(t, req[t].op)
BY DEF IInv, CallInPhase, Abstract!Pending

(* The calls refused before any lock is taken.                             *)
LEMMA RefusalRefines ==
  ASSUME IInv, NEW t \in Threads,
         RefuseMalformed(t) \/ RefuseMisrouted(t) \/ RefuseInvalid(t)
  PROVE  Abstract!PutRefused(t)
  <1> USE DEF Goto, Answer, maps, Refuse, Abstract!Refuse
  <1>1. req[t] \in PutRequest /\ Abstract!Pending(t, req[t].op)
    BY PendingCall DEF IInv, CallInPhase, RefuseMalformed, RefuseMisrouted, RefuseInvalid
  <1>2. req[t].op = "put"
    BY <1>1 DEF PutRequest
  <1> QED
    BY <1>1, <1>2 DEF Abstract!PutRefused, Abstract!Answer, Abstract!RouteAgrees,
       Abstract!Validates, RouteAgrees, Validates,
       RefuseMalformed, RefuseMisrouted, RefuseInvalid

(* A put takes effect at its last map operation, or at the stale check.    *)
LEMMA PutRefines ==
  ASSUME IInv, NEW t \in Threads, RefuseStale(t) \/ InsertRecord(t)
  PROVE  Abstract!PutApplied(t)
  <1> USE DEF Goto, Answer, maps, WritePhase
  <1>1. /\ req[t] \in PutRequest
        /\ Admitted(req[t])
        /\ Abstract!Pending(t, req[t].op)
    BY PendingCall DEF IInv, CallInPhase, RefuseStale, InsertRecord
  <1>2. req[t].op = "put"
    BY <1>1 DEF PutRequest
  <1>3. /\ Offered(t) = req[t].bytes
        /\ Offered(t).key = req[t].route
        /\ Slot(t) = records[req[t].route]
    BY CallTypes DEF Offered, Slot, RefuseStale, InsertRecord
  <1>4. Abstract!Admitted(req[t])
    BY <1>1, RecordFields DEF Admitted, Abstract!Admitted, RouteAgrees, Validates,
       Abstract!RouteAgrees, Abstract!Validates
  <1>5. MayFill(Offered(t), Slot(t)) <=> Abstract!MayFill(req[t].bytes, records[req[t].route])
    BY <1>3 DEF MayFill, Abstract!MayFill, Advances, Abstract!Advances
  <1>6. CASE RefuseStale(t)
    BY <1>1, <1>2, <1>3, <1>4, <1>5, <1>6
    DEF RefuseStale, Abstract!PutApplied, Abstract!Answer, StaleWrite, Abstract!StaleWrite
  <1>7. CASE InsertRecord(t)
    <2>1. receipt[t] = Abstract!ReceiptFor(req[t].bytes, records[req[t].route] = NoRecord)
      BY <1>3, <1>7, CallTypes DEF InsertRecord, ReceiptFor, Abstract!ReceiptFor
    <2>2. MayFill(Offered(t), Slot(t))
      BY <1>7 DEF IInv, ReceiptHolds, InsertRecord
    <2> QED
      BY <1>1, <1>2, <1>3, <1>4, <1>5, <1>7, <2>1, <2>2
      DEF InsertRecord, Abstract!PutApplied, Abstract!Answer
  <1> QED
    BY <1>6, <1>7

(* A read takes effect when its answer is determined, under the guard.     *)
LEMMA ReadRefines ==
  ASSUME IInv, NEW t \in Threads
  PROVE  /\ Get(t) => Abstract!GetApplied(t)
         /\ CountRecords(t) => Abstract!LenApplied(t)
         /\ SearchDone(t) => Abstract!SearchApplied(t)
  <1> USE DEF Goto, Answer, maps
  <1>1. ASSUME Get(t) PROVE Abstract!GetApplied(t)
    BY <1>1, PendingCall DEF Get, Abstract!GetApplied, Abstract!Answer, Refuse, Abstract!Refuse
  <1>2. ASSUME CountRecords(t) PROVE Abstract!LenApplied(t)
    <2>1. \A S : Cardinality(S) = Abstract!Cardinality(S)
      BY DEF Cardinality, Abstract!Cardinality
    <2> QED
      BY <1>2, <2>1, PendingCall DEF CountRecords, Abstract!LenApplied, Abstract!Answer,
                                     Abstract!StoredKeys
  <1>3. ASSUME SearchDone(t) PROVE Abstract!SearchApplied(t)
    <2>1. req[t].op = "search" /\ Abstract!Pending(t, req[t].op)
      BY <1>3, PendingCall DEF IInv, CallInPhase, SearchRequest, SearchDone
    <2>2. found[t] = Abstract!Matching(req[t].entry)
      BY <1>3 DEF IInv, FetchesCurrent, SearchDone
    <2> QED
      BY <1>3, <2>1, <2>2 DEF SearchDone, Abstract!SearchApplied, Abstract!Answer
  <1> QED
    BY <1>1, <1>2, <1>3

LEMMA StepRefines ==
  ASSUME IInv, Next
  PROVE  Abstract!Next \/ UNCHANGED <<records, req, reply>>
  <1> USE DEF Goto, maps, Answer
  <1>1. ASSUME NEW t \in Threads, NEW q \in Requests, Invoke(t, q)
        PROVE  Abstract!Next
    BY <1>1 DEF IInv, CallInPhase, Invoke, Abstract!Invoke, Abstract!Next
  <1>2. ASSUME NEW t \in Threads,
               RefuseMalformed(t) \/ RefuseMisrouted(t) \/ RefuseInvalid(t)
        PROVE  Abstract!Next
    BY <1>2, RefusalRefines DEF Abstract!Next
  <1>3. ASSUME NEW t \in Threads, RefuseStale(t) \/ InsertRecord(t)
        PROVE  Abstract!Next
    BY <1>3, PutRefines DEF Abstract!Next
  <1>4. ASSUME NEW t \in Threads, Get(t) \/ CountRecords(t) \/ SearchDone(t)
        PROVE  Abstract!Next
    BY <1>4, ReadRefines DEF Abstract!Next
  <1>5. ASSUME NEW t \in Threads, Return(t)
        PROVE  Abstract!Next
    BY <1>5 DEF IInv, CallInPhase, Return, Abstract!Return, Abstract!Next
  <1>6. ASSUME NEW t \in Threads,
               \/ Admit(t) \/ LockWrite(t) \/ AcceptWrite(t) \/ UnpostOne(t)
               \/ StartPosting(t) \/ PostOne(t) \/ UnlockWrite(t)
               \/ LockRead(t) \/ SearchIndex(t) \/ FetchOne(t) \/ UnlockRead(t)
        PROVE  UNCHANGED <<records, req, reply>>
    BY <1>6 DEF Admit, LockWrite, AcceptWrite, UnpostOne, StartPosting, PostOne,
                UnlockWrite, LockRead, SearchIndex, FetchOne, UnlockRead
  <1> QED
    BY <1>1, <1>2, <1>3, <1>4, <1>5, <1>6 DEF Next, Serve, Put, Read

(* The relay with its lock, its index and its many small steps answers     *)
(* every call as the atomic map does.                                      *)
THEOREM Refinement == Spec => ImplementsAtomicStore
  <1>1. Init => Abstract!Init
    BY DEF Init, Abstract!Init
  <1>2. IInv /\ [Next]_vars => [Abstract!Next]_Abstract!absVars
    BY StepRefines DEF vars, maps, Abstract!absVars
  <1> QED
    BY <1>1, <1>2, Invariance, PTL DEF Spec, ImplementsAtomicStore, Abstract!Spec
=============================================================================

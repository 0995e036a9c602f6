---------------------------- MODULE RelayedChain ----------------------------
(***************************************************************************)
(* The devices, readers and checkpoints of FreshnessChain around an honest *)
(* relay of RelayData.  The relay keeps one record per key and serves that *)
(* one; a device extends a record it fetched, which may be outdated by     *)
(* then, and repeats a write until it hears an answer: requests and        *)
(* replies are lost, delayed and handled twice.                            *)
(***************************************************************************)
EXTENDS FreshnessChain

CONSTANTS
  Readers,        (* the clients that keep a checkpoint                      *)
  NoRecord        (* an empty slot, no record fetched, no write pending      *)

VARIABLES
  stored,    (* the relay's slot for each key                              *)
  held,      (* auxiliary: the records a slot has ever held                *)
  basis,     (* the record each device fetched last                        *)
  pending,   (* the write each device has no answer to yet                 *)
  requests   (* the writes sent to the relay                                *)

relayed == <<vars, stored, held, basis, pending, requests>>

Objects == { x.key : x \in Contexts }

(* What the relay reads of a record; it allows the pinned signer alone.    *)
View(r) ==
  [key |-> r.context.key, version |-> r.context.version,
   manifest_revision |-> r.manifest_revision, indexes |-> {}, signer |-> r.signer]

Relay == INSTANCE RelayData WITH
           Keys <- Objects, Tenants <- {Pinned}, TenantOf <- [k \in Objects |-> Pinned],
           Tokens <- {}, AllowedSigners <- {Pinned}, Records <- {View(r) : r \in made},
           Requests <- {}, Garbage <- NoRecord, NoRequest <- NoRecord, NoReply <- NoRecord

ASSUME RelayedAssumption ==
  /\ Readers \subseteq Clients
  /\ NoRecord \notin RecordType
  /\ NoRecord \notin Relay!RecordType

RelayedTypeOK ==
  /\ TypeOK
  /\ stored \in [Objects -> made \cup {NoRecord}]
  /\ held \in SUBSET made
  /\ basis \in [Devices -> held \cup {NoRecord}]
  /\ pending \in [Devices -> made \cup {NoRecord}]
  /\ requests \in SUBSET made

RelayedInit ==
  /\ Init
  /\ stored = [k \in Objects |-> NoRecord]
  /\ held = {}
  /\ basis = [d \in Devices |-> NoRecord]
  /\ pending = [d \in Devices |-> NoRecord]
  /\ requests = {}

-----------------------------------------------------------------------------
Fetch(d, k) ==
  /\ stored[k] # NoRecord
  /\ basis' = [basis EXCEPT ![d] = stored[k]]
  /\ UNCHANGED <<vars, stored, held, pending, requests>>

(* Mutant: the device builds on its own write before the relay took it.    *)
WriteOnOwnWrite(d) ==
  /\ pending[d] = NoRecord
  /\ \/ \E x \in Contexts, rs \in RecipientSets : Seal(d, x, rs)
     \/ basis[d] # NoRecord /\ \E c \in Clients : GrantRecipient(d, basis[d], c)
  /\ pending' = [pending EXCEPT ![d] = CHOOSE r \in made' : r \notin made]
  /\ basis' = [basis EXCEPT ![d] = CHOOSE r \in made' : r \notin made]
  /\ UNCHANGED <<stored, held, requests>>

(* The device's next write: a genesis record, or one that extends what it  *)
(* fetched.                                                                *)
Write(d) ==
  /\ pending[d] = NoRecord
  /\ \/ \E x \in Contexts, rs \in RecipientSets : Seal(d, x, rs)
     \/ /\ basis[d] # NoRecord
        /\ \/ \E c \in Clients : GrantRecipient(d, basis[d], c)
           \/ \E x \in Contexts, rs \in RecipientSets : Rekey(d, basis[d], x, rs)
  /\ pending' = [pending EXCEPT ![d] = CHOOSE r \in made' : r \notin made]
  /\ UNCHANGED <<stored, held, basis, requests>>

(* The first attempt, or another one after the call timed out.             *)
Send(d) ==
  /\ pending[d] # NoRecord
  /\ requests' = requests \cup {pending[d]}
  /\ UNCHANGED <<vars, stored, held, basis, pending>>

(* put: the record takes the slot, or the answer is StaleWrite or a        *)
(* refused signer.                                                         *)
SlotView(k) == IF stored[k] = NoRecord THEN NoRecord ELSE View(stored[k])

(* Mutant: the put does not look at what the slot holds.                   *)
FillsAnyTime(r) == Relay!Validates(View(r))

Fills(r) == Relay!Validates(View(r)) /\ Relay!MayFill(View(r), SlotView(r.context.key))

Put(r) ==
  IF Fills(r) THEN /\ stored' = [stored EXCEPT ![r.context.key] = r]
                   /\ held' = held \cup {r}
              ELSE UNCHANGED <<stored, held>>

(* A request is handled, soon, late, more than once or never; its answer   *)
(* reaches the device or is lost.                                          *)
Handle(r) ==
  /\ Put(r)
  /\ pending' \in {pending, [d \in Devices |-> IF pending[d] = r THEN NoRecord ELSE pending[d]]}
  /\ UNCHANGED <<vars, basis, requests>>

(* Mutant: a reader without a link to the served record starts over at it. *)
FollowAnything(c, k) ==
  /\ \/ Advance(c, stored[k])
     \/ /\ Validates(stored[k], Pinned)
        /\ head' = [head EXCEPT ![c] = FromValidated(stored[k])]
        /\ trail' = [trail EXCEPT ![c] = {stored[k].id}]
        /\ UNCHANGED <<made, past, opened>>
  /\ UNCHANGED <<stored, held, basis, pending, requests>>

(* A reader gets the slot's record and moves its checkpoint to it.         *)
Follow(c, k) ==
  /\ Start(c, stored[k]) \/ Advance(c, stored[k])
  /\ UNCHANGED <<stored, held, basis, pending, requests>>

Read(c, k) ==
  /\ OpenAtHead(c, stored[k])
  /\ UNCHANGED <<stored, held, basis, pending, requests>>

ForgetHead(c) ==
  /\ LoseHead(c)
  /\ UNCHANGED <<stored, held, basis, pending, requests>>

RelayedNext ==
  \/ \E d \in Devices :
       \/ \E k \in Objects : Fetch(d, k)
       \/ Write(d)
       \/ Send(d)
  \/ \E r \in requests : Handle(r)
  \/ \E c \in Readers :
       \/ \E k \in Objects : stored[k] # NoRecord /\ (Follow(c, k) \/ Read(c, k))
       \/ ForgetHead(c)

RelayedSpec == RelayedInit /\ [][RelayedNext]_relayed

-----------------------------------------------------------------------------
(* The system with an honest relay is one behaviour of the chain under a   *)
(* relay that may answer with any signed record, so what holds there holds *)
(* here: retries and outdated fetches add nothing to what the readers face.*)
(* Spec is FreshnessChain's, of the variables it shares with this module.  *)
ImplementsChain == Spec

(* Of devices that race to grant access one wins, however old their        *)
(* fetches and requests are: a grant that takes the slot links to exactly  *)
(* the record that was there (StaleWrite on an equal revision).  It is not *)
(* so of rekey: see StrandedUntilRekeyed.                                  *)
GrantOf(r, p) == r.previous = p.id /\ r.context = p.context

GrantsExtendTheSlot ==
  [][\A k \in Objects, p \in made :
       stored'[k] # stored[k] /\ GrantOf(stored'[k], p) => p = stored[k]]_relayed

(* A write whose answer was lost may be sent again without harm: a record  *)
(* takes the slot once, and one that was replaced never returns.           *)
RetriesAreHarmless ==
  [][\A k \in Objects : stored'[k] # stored[k] => stored'[k] \notin held]_relayed

(* A checkpoint that can neither verify the served record nor advance to   *)
(* it has missed a link the relay no longer keeps.                         *)
Stranded(c, k) ==
  /\ stored[k] # NoRecord
  /\ head[c] # NoHead
  /\ head[c].context.key = k
  /\ ~ ExactHead(head[c], stored[k])
  /\ ~ AdvancesHead(head[c], stored[k])

(* Only one thing brings such a reader back with its checkpoint: a device  *)
(* that had fetched the reader's own record rekeys it, over the heads of   *)
(* what was written since.  No grant does (advance takes one link at a     *)
(* time and put keeps the newest record only).                             *)
StrandedUntilRekeyed ==
  [][\A c \in Clients, k \in Objects :
       Stranded(c, k) /\ ~ Stranded(c, k)' =>
         \/ head'[c] = NoHead
         \/ /\ stored'[k].previous = head[c].manifest_hash
            /\ stored'[k].context.version > head[c].context.version]_relayed
=============================================================================

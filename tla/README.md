# A TLA+ verification development for blindplane

blindplane keeps sealed records on a relay that holds no keys. This directory
models the parts of it whose correctness depends on order, interleaving and
boundaries, checks them with TLC on small instances and proves the main results
with TLAPS for all instances. Paths below are relative to `src/crates/`.

## 1. The system

| Component | State it keeps | Operations | Interacts with |
|---|---|---|---|
| Relay store (`blindplane-relay/src/store.rs`) | two maps under one `RwLock`: records by key, and a secondary index from `(tenant, label, key_epoch, token)` to keys | `put`, `get`, `search`, `len` | called by every server thread |
| Relay front (`relay.rs`) | the validation policy | `put_encoded`, `get_encoded`, `search_encoded` | decodes and checks the route, then the store |
| HTTP adapter (`blindplane-blazingly`) | a shared `Relay` | four routes | base64/hex codecs, the relay front |
| Sealing (`blindplane-core/src/sealing.rs`) | none; produces signed records | `seal`, `open*`, `grant_recipient`, `rekey` | key derivation, HPKE, wire records |
| Batch sealing (`batch.rs`) | result slots, one output per thread | `seal_batch` | `seal`, from scoped threads |
| Freshness checkpoints (`blindplane-wire/src/head.rs`) | a `FreshnessHead` per client and record | `start`, `advance`, `verify_current*` | `open_at_head*` |
| Record validation (`record.rs`, `policy.rs`) | none | `validate*`, `signing_bytes`, `manifest_hash` | every ingress: relay, open, grant, rekey |
| Wire encoding (`encode.rs`) | a cursor | `encode`, `decode` | relay front |
| Key derivation, identities, blind indexes (`derive.rs`, `identity.rs`, `indexes.rs`) | key material | wrap, unwrap, derive, tokens | sealing |
| Message key (`blindplane-crypto/src/simple`) | a 32-byte key | `encrypt`, `decrypt` | AEAD suites |
| AEAD suites (`aead`) | none | `seal`, `open`, in place or not | ciphers |
| Password front (`simple/password.rs`) | rows the caller stores | `hash_password`, `verify_password`, `Key::from_password` | Argon2id |
| Hashers (`sha2`, `poly1305`, `argon2/blake2b.rs`) | a partial block, a count | `update`, `finalize` | KDF, AEADs, signatures |
| Stream ciphers, AES-GCM (`chacha`, `aes`) | counters, an accumulator | keystream, fused seal and open on several CPU paths | AEAD suites |
| KDF, Argon2id (`kdf.rs`, `argon2`) | a one-byte counter; memory blocks | extract, expand; fill, H' | HPKE, envelopes, passwords |
| Randomness (`rand.rs`) | the buffer being filled | `fill`, `secret_32` | every key and nonce |
| Curves (`field`, `scalar`, `montgomery.rs`, `edwards`) | limbs, points, tables | arithmetic, X25519, sign, verify, prepared keys | HPKE, record signatures |
| HPKE (`hpke`) | none; a key schedule per message | seal and open, base and auth mode | envelopes |
| Secret memory (`util.rs`) | secrets | erasure, constant-time comparison | everything above |
| Command line, benchmarks, research notes | none | demonstrations and measurements | the library |

What is hard here, and what makes each part correct:

* **Store.** Validation happens before the lock, the version check after it;
  the index and the record change in several map operations. Correct means:
  each call appears to happen at one instant, writes only advance, the index
  mirrors the records, and nobody waits for ever.
* **Chains and checkpoints.** There is no coordination between the devices that
  sign: two may extend the same record. The relay may replay anything that was
  ever signed. Correct means: author-side checks and reader-side checks agree
  on what a successor is, a client that keeps its checkpoint never goes back,
  clients on different branches of a fork never meet again, a revoked client
  stays out, and all of this up to the largest revision.
* **Batch sealing.** Threads, chunk offsets, a short last chunk, failing items.
  Correct means: the right result in every slot, once, and the call returns.
* **Message key.** The layout is recovered from one byte of the message.
  Correct means: nothing but the genuine message opens, and it does open.
* **Records and codecs.** Two ways to validate, two places that state the same
  limits, a nested cursor. Correct means: one encoding per record, what
  validates decodes, and a status tells what happened.
* **Primitives.** Partial blocks and counters at their boundaries, and the same
  function written twice or three times for different CPUs, where a register
  read one group too early shows for long messages only. Correct means: any cut
  of the input gives the one-shot result, and every path the portable one.
* **Curves.** Limbs that are never fully reduced, quotients that may be short,
  deferred swaps, carries across words, one inversion for a whole table.
  Correct means: the numbers and points of the mathematics, one verdict per
  signature whichever way it is verified.
* **Envelopes.** Sender and receiver derive one schedule in two places from
  different secrets; the server hands out keys and stores records. Correct
  means: what opens was sealed to this device, in this context, by this sender.

`PROJECT.json` lists every component with its status, and under `hazards` every
place where something can go wrong that a test would hardly reach.

## 2. Modules

### Relay

`RelayData` has the values: a record is its key, version, manifest revision,
index tokens and signer. `manifest_hash` covers every signed byte and the
signature, so a record stands for its own hash and a receipt carries the record.
The helpers there (`Advances`, `MayFill`, `EntriesOf`, `RouteAgrees`,
`Validates`) are the conditions of `put` and `put_encoded`.

`RelayStore` has the threads. Variables `records` and `index` are the fields of
`StoreInner`; `writer` and `readers` are the guard; `pc`, `req`, `reply`,
`receipt`, `unposted`, `matched`, `found` are a thread's position and locals.
One action is one map operation or lock operation:

| Action | Code |
|---|---|
| `RefuseMalformed`, `RefuseMisrouted`, `RefuseInvalid`, `Admit` | `relay.rs:33-42`, `store.rs:53`, before the lock |
| `LockWrite`, `RefuseStale`, `AcceptWrite` | `store.rs:55-83` |
| `UnpostOne`, `StartPosting`, `PostOne`, `InsertRecord`, `UnlockWrite` | `store.rs:85-118` |
| `LockRead`, `Get`, `CountRecords`, `SearchIndex`, `FetchOne`, `SearchDone`, `UnlockRead` | `store.rs:121-165` |

The order in which a loop visits index entries or keys is left open: the result
is a set, and the real order (by position, by `BTreeSet`) is one of those tried.
`decode` and `validate` read only the request and the fixed policy, so they
are conditions, not steps of their own. A poisoned lock is left out: nothing in
a critical section panics.

`AtomicStore` is the abstract specification: a plain map, no index, no lock, and
each request takes effect in one step between `Invoke` and `Return`.
`RelayStore!ImplementsAtomicStore` is `AtomicStore!Spec` under the identity
mapping of `records`, `req` and `reply`: the insertion of the record is the
instant of a put, and the step that builds the answer that of a read.

### Signed chains and checkpoints

`FreshnessChain` has the devices that sign and the clients that read. `made` is
every record ever signed; because the relay is not trusted here, a fetched
record is any member of it, so replay, delay, reordering and showing different
clients different branches are all covered without a relay variable. Records
are named by numbers in place of manifest hashes (fresh HPKE keys and nonces
make hashes distinct), 0 being the all-zero hash. Signatures and envelopes are
perfect: only `SignerOf[d]` signs as a device does, and only a named recipient
finds an envelope.

| Action | Code |
|---|---|
| `Seal`, `GrantRecipient`, `Rekey` | `sealing.rs:19-82`, `172-212`, `220-257`, each the whole function |
| `Start`, `Advance` | `head.rs:37-40`, `77-94` |
| `OpenAtHead` | `sealing.rs:144-165` with `head.rs:43-74` |
| `LoseHead` | the client's storage: a new device, a lost vault |

`past`, `trail` and `opened` are auxiliary: the ancestors of a record, the
records a checkpoint stood at, the last record opened. They are written only,
and no guard reads them. In OpenAtHead a failed open changes nothing and is not
an action.

### Batch sealing

`SealBatch` is `seal_batch`: `Begin` chooses the sequential path or threads,
`Spawn` cuts chunks as `items.chunks(chunk_size)` does, `SealNext(c)` is a
thread sealing its next item, `Join` waits for the next thread in spawn order
and places its results, `Collect` unwraps the slots, and goes to `"panicked"` if
one is empty. The batch length, the cores and the items that `seal` refuses are
chosen in `Init`. One outcome stands for one call of `seal`.

### Message key

`MessageKey` is `simple::Key`. A message is its length, the two bytes that
`decrypt` looks at (offsets 12 and 24) and what the AEAD under it can open.
`Damage` is external: storage cuts a message or changes bytes of it. Machines
differ in whether they have AES instructions.

### Records and their encoding

`RecordRules` has the operators: `Limits` is `validate_limits` as a list of
checks of which the first that fails is the answer; `Structure`, `Validate` and
`ValidatePinned` are the three paths over it, with a Boolean for "the signature
is genuine"; `Preflight`, `Built`, `SealVerdict` and `GrantVerdict` are what
`seal` and `grant_recipient` refuse and build. Identifiers are short sequences,
so they have lengths and an order; sorting is by rank, each entry at the number
of those that precede it. `RulesAssumption` says what the limits and fixed
lengths are; their values are scaled down.

`WireCodec` has the encoding. A number or a 32-byte array is one atom, a byte
string its length followed by its atoms, and the context is nested as one such
string, as `signing_bytes` does it. `Parse` runs a cursor over the fields in
`decode`'s order; what recurses over a record's data is a recursive function.
The actions: `Craft` (an author with other software signs any
record), `Seal` and `GrantRecipient` (refusals included), `Damage` (external:
the transport cuts off, changes, inserts or removes an atom) and `Receive`
(`decode`). `GrantRecipient` is given records the library built, whose envelopes
therefore open.

### The chain around the relay

`RelayedChain` extends `FreshnessChain` with the slot rule of `RelayData`
(`Relay!MayFill`, `Relay!Validates` on what the relay sees of a record).
`stored` is the relay's slot, `basis` what a device fetched last, `pending` the
write it has no answer to, `requests` the writes in flight. `Write` is `seal`,
`grant_recipient` or `rekey` on the fetched record, outdated or not; a request
may be handled late, twice or never, and a device sends its write again until
an answer reaches it. Readers follow what the slot holds. `ImplementsChain` is
the specification of `FreshnessChain` itself, under an untrusted relay and of the
same variables: an honest relay is a special case, so everything proved there
carries over.

### Envelopes and HPKE

`HpkeTerms` derives terms for bytes: a Diffie-Hellman value is the unordered pair
of its secrets, a hash or a labeled derivation the tuple of what went into it,
so two derivations agree exactly when they got the same input in the same
order. `Hpke` seals and opens with it in base and auth mode (`hpke/*.rs`).
`Envelopes` is who can read a record: key pairs generated and restored, two of
them under one id and epoch if need be, descriptors handed out by `recipient()` or
made from a key the server offers by `from_verified_key`, pins, `wrap_dek` and
`unwrap_dek`, object keys and commitment, and records put together from parts of
several (`derive.rs`, `identity.rs`, `sealing.rs:106-138`).

### The HTTP adapter

`HttpAdapter` decodes the texts of a request four characters at a time, calls the
relay and encodes the reply, one group per step (`routes.rs`, `codec.rs`). The
relay's answer is `Verdict`, in `put_encoded`'s order: decode, compare the route,
validate, then compare version and revision with the record held. Bytes are
narrower; padding, foreign characters and the case of hexadecimal digits are kept.
A tenant has one record, which stands for its key.

### Primitives

| Module | What it models | Abstracted |
|---|---|---|
| `OneShot` | the promise of a streaming hash: the function of all input, once | |
| `ShaBuffer` | `update` and `finalize` of SHA-256 and SHA-512, whose padding goes through `update` | block lengths; the state is the list of blocks compressed |
| `ShaRounds` | both compression functions, the portable rounds beside the vector code with its rotating registers | word width; constants and sigma functions are parameters |
| `Poly1305` | `absorb`, `update`, `pad_to_block`, `finalize` | a limb is two units of input (units of 32 bits in the source, of 4 in the run, where the modulus is 2^18 - 5) |
| `Blake2b` | `update` and `finalize`, the last block held back | compression is a name |
| `MixRounds` | ChaCha20, HChaCha20, BLAKE2b and Argon2's permutation, at full width | the order of the mixes is left open |
| `KeystreamPaths`, `Keystream` | portable and vector keystream, one generator over several calls | a block is named by its counter |
| `Aead` | `seal_in_place` and `open_in_place` of three suites on two builds, with the groups, tails, counters, erasure and early returns | a word is the set of what was XORed into it; a tag names what it authenticates |
| `Ghash` | Karatsuba products, grouped reduction, powers of H | a narrower field |
| `Hkdf` | HMAC, extract, expand with its counter | a digest is named by its input |
| `Argon2id` | `H0`, passes, slices, address blocks, `reference_index`, H' | block contents are any words |
| `PasswordHash` | rows, costs, parsing, verification, vault keys across releases, rows edited part by part | Argon2id is a name |
| `Rand` | `fill` with its chunks and fallback, `secret_32` | a byte is named by its source |

### Curves

| Module | What it models | Abstracted |
|---|---|---|
| `Field` | limbs, weak reduction, carries, encoding (`field/*.rs`) | five limbs modulo Radix^5 - Fold; inversion is the power it computes |
| `ScalarReduce` | Barrett reduction, sums and products, canonical encodings | words of base W |
| `Ladder` | clamping, the ladder with its deferred swap, the refusal of small orders | a point is a multiple of the peer's |
| `EdwardsMul` | radix-16 digits, non-adjacent forms across words, the three ways to multiply | a point is a pair of coefficients |
| `EdwardsPoint` | the coordinate systems, their formulas, decompression, the table with one inversion | a curve modulo a small prime |
| `Signatures` | `sign`, `verify_strict`, `PreparedVerifier` | the group Z/8Q; the two hashes are any functions |

## 3. What is checked

| Run | Module, cfg | What it shows | Distinct states |
|---|---|---|---|
| `relay_store` | `MCRelayStore` | only admitted records are held, the index mirrors them, writes advance, every call returns, and the store implements `AtomicStore` | 226,215 |
| `relay_manifest_monotonic` | `MCRelayStore`, `MCRelayManifest.cfg` | violation, see section 5 | |
| `freshness_chain` | `MCFreshnessChain` | revisions count links, successors can be followed, forks never join, the revoked stay out, opening goes forward | 219,573 |
| `access_change_payload` | `MCFreshnessChain`, `MCFreshnessPayload.cfg` | violation, see section 5 | |
| `relayed_chain` | `MCRelayedChain` | the chain around an honest relay implements the chain; grants extend the slot, retries are harmless, only a rekey reaches a stranded reader | 77,737 |
| `message_key` | `MessageKey`, `MCMessageKey.cfg` | only genuine messages open, and all do but for the clash of section 5 | 17,633 |
| `message_key_round_trip` | `MessageKey`, `MCMessageKeyRoundTrip.cfg` | violation, see section 5 | |
| `seal_batch` | `SealBatch`, `MCSealBatch.cfg` | order, completeness, single writing and termination | 65,384 |
| `wire_codec` | `MCWireCodec` | one encoding per record, only what was signed is accepted, what validates decodes, nobody is named twice, own records validate, the two paths agree | 48,074 |
| `aead_erase` | `Aead`, `MCAeadErase.cfg` | violation, see section 5 | |
| `primitives` | `MCPrimitives` | the primitives of section 2, see below | 68,127 |
| `operations` | `MCOperations` | curves, signatures, HPKE, envelopes and the HTTP adapter, see below | 774,458 |

**The two benches.** The primitives share no state, so one run checks many of
them: in `MCPrimitives` and `MCOperations` a state is one unit at work,
`unit` says which, and `s1`, `s2`, .. are substituted for that unit's variables;
slots it does not take hold nothing. `MCPrimitives` extends `MCSecrets`, which
has the primitives that seal, derive and draw secrets (passwords, HKDF,
keystream, AEADs, randomness) and the streaming hashers, and whose
specifications `SecretsSpec` and `HashersSpec` have those at work alone; rounds,
Argon2id and GHASH are added in `MCPrimitives`.
(`Rand` and `ScalarReduce` are extended and keep their own variables.) Each bench
property is a conjunction over units of properties that the unit's own module
defines, by the same names:

* `HashersImplementOneShot`: every step of the streaming SHA-2, Poly1305 and
  BLAKE2b hashers is a step of `OneShot`.
* `FastPathsAreExact`: vector rounds and portable rounds, commuting mixes and
  the source's test vectors, GHASH in groups, Poly1305's limbs.
* `ArgonWalksItsMemory`, `KeystreamRepeatsByTurns`, `OpensWhatWasSealed`,
  `DerivationsAreStable` (passwords and HKDF), `OnlyFreshBytes` (randomness),
  `CallsReturn` (liveness of padding, H' and `secret_32`).
* `StandsForNumber` (scalars), `ArithmeticIsExact` (field, ladder, recodings and
  scalar multiplication), `PointsAreExact` (points and tables),
  `OneVerdictPerSignature`, `OpensForItsPartiesOnly` (HPKE and envelopes),
  `RoutesTellTheEffect`.

Each property of a passing run has a mutant in `PROJECT.json`: a plausible wrong
version of one definition (kept beside the right one, marked `Mutant`) under
which TLC finds the property violated.

**Bounds.** *Relay*: three threads and three requests, so that two writers and a
reader meet, or a write is overtaken twice; three keys in two tenants, so that
tokens are shared within a tenant and must not be across tenants; for the first
key every kind of successor (grant, rekey, fresh seal of the next version,
untrusted signer). A longer run repeats these meetings, because a finished call
leaves nothing behind but the two maps, and those reach all combinations of the
records of a key within three writes. The proofs of section 4 have no bound.
*Chains*: the largest u64 is 3 and there are four records, so that a chain
reaches the largest revision and a further grant is tried; two genesis
records, two branches of a fork, and a second client who signs under a key
nobody pins. *Chain around the relay*: two devices of one author, whose writes
race, one reader, three versions and three records, so that a reader misses a
link and is reached again. *Message key*: one stored message; the byte values
are the three codes and one that is none; lengths cover each comparison of
`decrypt` and `open`. *Batch*: up to seven items and four cores reach a short
last chunk (7 over 4), fewer chunks than workers (5 over 4, 6 over 4) and the
sequential path. *Records*: identifiers, epochs, revisions, nonces, payloads,
envelopes and indexes on both sides of each limit, in every order and with
duplicates, under a default and a tighter policy (two entries to a list; that no
two that are not neighbours are alike either is what section 4 proves); bytes are damaged twice, so
that a length and what it counts can change together. *Primitives*: messages
of two and a half blocks in any pieces, texts that end inside and at the end of
every group size of every path and past a turn of a counter of sixteen values,
counters that start just below their limit,
HKDF outputs to one block past the limit, memory sizes on both sides of the
rounding and output lengths at which H' gains a digest. *Curves*: primes and
orders small enough to enumerate yet with the features that matter: a modulus
of the form Radix^5 - Fold, an order that needs both of Barrett's subtractions,
points of every small order, scalars whose windows cross a word. `hpke` and
`envelopes`: two parties who may each be sender or recipient, the server's own
key, two records, two contexts. *HTTP*: each record's base64 cut at any place, so
that padding comes before the end, with one character changed or left out.

**Deadlock** is not checked where the modelled program may stop: the clients
have sent all their requests, all records that the bound allows are signed, the
batch has returned, a primitive has given its result.

**Fairness.** `relay_store` assumes weak fairness of each thread's steps
inside a call: the operating system keeps scheduling a runnable thread. Clients
need not call. `std::sync::RwLock` documents no priority between readers and
writers, so no strong fairness is assumed; `EveryCallReturns` is therefore
claimed only for finitely many requests (`MaxRequests`), where a waiting writer
cannot be overtaken for ever. `seal_batch` assumes weak fairness of the caller
and of every spawned thread, for the same reason. In `primitives` a call to
`finalize`, to Argon2id or to `secret_32` that was begun goes on; they are
sequential code. Nothing forces a caller to call `finalize`.

## 4. What is proved

`RelayStoreProofs`, `RelayedChainProofs`, `WireCodecProofs`, `OperationsProofs`,
`SecretsProofs`, `HashersProofs` and the last parts of `SealBatch` and
`MessageKey` prove, for every value of the constants that meets the named
assumptions (which type the constants, keep the sentinels apart, and otherwise are
named below). `MCOperations` and `MCSecrets` declare what their theorems speak of
as constants, so that they are not about the benches' small values.
`SecretsProofs` is about `SecretsSpec` and `HashersProofs` about `HashersSpec`; in
the run another primitive may be at work, of which those properties say nothing:

* **Relay.** `Invariance`, `TypeCorrect`, `AdmittedOnly`, `IndexCoherent`,
  `MonotonicWrites`, `Refinement`. `IndexMirrorsRecords` is not inductive: it
  says nothing while a put is running. `IInv` adds who holds which guard
  (`GuardsHeld`), what a thread knows at each phase (`CallInPhase`), that the
  receipt still describes the slot (`ReceiptHolds`), and for every step of put
  the exact contents of the index: the old entries not yet removed, or the new
  ones already posted (`IndexAtStep`, `PostsOwnEntries`). `FetchesCurrent`
  says that what a search has fetched and what it will fetch are together the
  records that carry the token now, which makes its last step the abstract
  search. `Refinement` has one step per action, to a step or a stutter of
  `AtomicStore`.
* **Chains.** In `RelayedChainProofs`, of `FreshnessChain`: `Invariance`,
  `TypeCorrect`, `RevisionExact`, `ChainFollowable`, `ForkConsistency`,
  `Revocation`, `NoRollback`. The invariant: records are
  numbered as hashes name them (`Numbered`); every record is a genesis or
  extends another by exactly what one link may change (`Linked`); the ancestors
  of a record form one line (`Descent`); a checkpoint stands at a signed record
  whose ancestors include its trail (`HeadsStand`). Fork consistency follows
  because equal checkpoints stand at the same record, whose ancestors are
  comparable; no rollback because a trail lies on one line.
* **Batch.** `Invariance`, `TypeCorrect`, `InputOrder`, `NoPanic`, `WriteOnce`.
  The invariant: a thread has collected its own chunk's results in order, and
  exactly the slots below the next join's offset are filled. Offsets step by
  the chunk size, so the joins cover the batch.
* **Chain around the relay.** `RelayedInvariance`, `RelayedTypeCorrect`,
  `Refinement`, `RetriesHarmless`, `GrantsExtend`, `OnlyRekeyUnstrands`. The invariant is that of the chain with
  `Places` (what is stored, fetched and pending was signed), `SlotsAscend` (a
  slot holds the newest record it ever held, and no two of those are level),
  `BuiltOnHeld` (every record but a genesis extends one that a slot has held)
  and `HeadsHeld` (checkpoints stand at such records). A grant keeps its base's version and adds one to its revision,
  so it only fills a slot that still holds its base: of racing grants one wins.
* **Message key.** `TypeCorrect`, `OnlyGenuine`, `OnlyClashesFail`, from
  `WellMade`: what is stored was encrypted by some machine, or damaged.
* **Scalars.** `ScalarsStandForNumbers` and `TwoSubtractionsSuffice`: Barrett's
  quotient is short by two at most (`QuotientBounds`), so the remainder is
  below 3L and fits the words kept, for every word base above 2 and every
  order of three to four words (`WordsAssumption`).
* **Field.** `LimbsInvariance`, `LimbsStaySmall`, `NothingOverflows` and
  `FieldStandsForNumbers`. Limbs stay below Radix + 1024 whatever is chained, and
  so no sum, difference or product leaves its word. `FieldInv` adds the number:
  each register's limbs spell, up to a multiple of p = Radix^5 - Fold, the number
  kept beside it (`Stands`), which is inductive where `EncodesNumber` is not: that
  compares two encodings and says nothing of the limbs. A pass of carries keeps
  the number because what leaves the top weighs Radix^5 and comes back times Fold
  (`WeakReduceKeeps`, `CarryKeeps`); the five rows of a product are summed from
  the top limb down, each time moving the sum one limb up (`NextRow`,
  `ProductIs`); a difference adds 2p (`DifferenceIs`). After a last pass the number
  is below Radix^5 + Radix^4, so that subtracting p once is enough and `to_bytes`'
  q says when (`OneBytesEncoding`). The bench checks one small radix; the theorems
  hold for every radix above 2^23 with the source's other sizes (`Sizes`), the
  real 2^51 included.
* **Ladder.** `LadderMultiplies`, by `LadderInv`: with the pair put right by the
  swap still due, the first point is the peer's point times the bits read so
  far, the second one more (`OneRung`, `NeighboursDiffer`). The property bounds
  neither point and so is not inductive. That peers of small order and no others are refused
  needs that the clamped secret is eight times a number below 2^(Bits - 3), no
  multiple of a large odd divisor (`SmallOrdersAnnihilate`). `LadderAssumption`:
  an order divides 8 or has an odd divisor of at least 2^(Bits - 4), as the orders
  of the curve and its twist have one above 2^252.
* **Scalar multiplication.** `WaysMultiply`, by `MulInv`: while a form is made, its
  digits spell the scalar's bits below `pos` and the window's carry is what is
  missing (`SkipKeeps`, `EmitKeeps`); a carry can never be left at the end
  (`LastWindow`), since a scalar has its top three bits free. In a loop from the
  top the accumulator, times its weight, and what the digits still to come spell
  make the scalar; in the loop from the bottom it is what those read spell. `Recursion` gives the powers and the
  digit sums their equations for every length, without an induction over an
  operator. `MultiplesAssumption`: words of nibbles, scalars of some words with
  three bits free, windows of at least two bits that end in the next word; the
  scalars' sets are arbitrary.
  `ArithmeticHolds` joins field, ladder and scalar multiplication.
* **Signatures.** `VerdictsAgree`, by `SignatureInv`: what is signed was made by
  `Sign`, a prepared key was made from the key it is used for, and each
  verdict there is, strict or prepared, is that of the same key, message and
  signature. With what sign made, both sides of the equation are the same
  multiple of the base point (`SignedVerifies`, in the group of 8Q, whose
  multiples of Base have one residue modulo Q each); and two second halves
  below Q with one R differ by no multiple of Q but zero (`OneSecondHalf`). `SigningAssumption`:
  any odd order above one (that it is a prime is not used), any nonce and
  challenge functions.
* **HPKE.** `EnvelopesOpenForTheirParties`, by `HpkeInv`: every payload is what
  `Sealed` says of its call, and an answer what opening it gives. Both sides
  arrive at the same secrets (`SidesAgree`); the other direction is that a
  key determines all that went into it, through the schedule, the labeled
  derivations and the sender that may be absent (`KeyDetermines`,
  `SharedDetermines`, `ExpandDetermines`). It rests on each concatenation being
  readable in one way (`Cancel`): the fields before the caller's have one
  length. `SealingAssumption`: no two ephemerals are alike, and an info is a
  byte string of any length.
* **Envelopes.** The same theorem, by `EnvelopeInv`: devices are assembled from
  a secret, a recipient's key is one whose fingerprint is pinned, a record
  is what `seal` made with its number's secret, and an answer what opening the
  parts gave. `UnwrapIs` says that an envelope yields its object secret to the
  same id, epoch and secret in the same context, and an error to all else;
  since an object secret is one record's, a payload or a commitment of
  another record fails under it. `DevicesAssumption`: the server holds no
  device's secret.
* **Passwords and HKDF.** `DerivationsStable`. For passwords the invariant
  (`PasswordInv`) is that a stored row is what its password, its salt and the
  costs of its day give, whatever the release is by now (`KeptRow`), that the
  salt and hash of an edited row are parts of stored ones, noise or other text,
  and that an answer is the one its row or vault gives. A row edited in this way
  restates a stored one or verifies nothing, since a hash names all it was
  made from. `ReleasesAssumption`: any releases, with at least 8 blocks and one
  pass. For HKDF (`KdfInv`) the part of the buffer already written is the
  beginning of RFC 5869's chain of blocks (`IsChain`, `KdfAt`), and the
  counter's byte has not come round, since longer buffers are refused before
  the first block. The chain is a function whose existence for every length is
  proved (`ChainExists`). `KdfAssumption`: a hash is not longer than a block.
* **Keystream.** `RepeatsByTurns`. For every call length the portable loop and the
  vector path with its groups of eight, of four and its tail give the same
  words and leave the counter at the next block (`PortableIs`, `SamePaths`). In a
  text of any length two words take the same word of the keystream exactly when
  whole turns of the counter lie between them (`UsedByTurns`), and a word
  takes one of the block that makes the authentication key exactly in the last
  block of a turn (`ReservedByTurns`). So up to 2^32 - 1 blocks nothing is used
  twice; nothing in the code keeps a text that short (section 5).
* **AEADs.** `SealedOpens`, for all three suites, every pair of builds, texts
  and associated data of any length. `AeadInv` follows the phases: while sealing,
  the words before the offset took their keystream once and the others not, and
  the transcript is the associated data padded and those words (`Sealing`). A
  buffer that arrives as it was sealed has the expected tag (`Open`); one that was
  altered has another, because what a tag is made over determines both lengths
  and the text (`BoundBinds`, `CutsDiffer`, `AlteredDiffers`). Passes of
  any width give back the text (`TextReturns`).
* **Randomness.** `RandInvariance` and `FreshOnly`: the part of the buffer worked
  through comes from one source, whatever the chunk and buffer lengths and
  wherever a call fails. `SecretsFresh` says it of the bench, and `SecretsHold`
  joins the five invariants.
* **Hashers.** `HashersHold`, `AccumulatorBounded` and `HashersRefine`, for every
  message and cut of it into calls, every block length, length field and width of
  a unit. The invariant (`HashersInv`) is that the state stands for the whole
  blocks of the message so far, and the buffer holds its tail. For SHA-2
  (`ShaInv`) the padding is the message, its end mark and some zeros, and since
  `finalize` stops at the first count of zeros that leaves room for the length
  field, that count is the one of the standard, whichever block it ends in. For
  BLAKE2b (`BlakeInv`) the last block is held back while more may come, however
  full. For Poly1305 (`PolyInv`) the limbs stand for Horner's value modulo p: the
  carries of adding a block, multiplying and folding (`WithBlock`, `Products`,
  `Fold`) are followed through both words, and since the clamp bounds the products
  none is lost (`AccumulatorBounded`); after the last block one subtraction of p
  settles the value. `HashersAssumption`: a message's bits fit the counter, the
  length field fits a block, a unit's values are a multiple of four, keys are
  clamped.
* **Records and encoding.** `IInvHolds`, and all six properties of the run:
  `ReencodingAgrees`, `AcceptedIsSigned`, `ValidSurvives`,
  `AcceptedIsUnambiguous`, `RefusesOnlyInputs`, `PathsAgree`. The reader is
  *sound*: from whatever input, what it takes for a field, an element, a list
  and at last a record is what writing that record gives. It is *complete*: it
  takes all that writing a record within its limits gives. Lists are by induction on
  their length, done as a least counterexample. The first gives that a
  message decodes to one record only and a signature covers what was decoded;
  with the second, `decode` refuses no valid record. That validation leaves no
  recipient, token or label twice follows from the order of neighbours, which
  is transitive; that what `seal` builds passes it, from sorting by rank being
  a permutation in order. `IInv` is `NothingYet` (no verdict before a
  message), `OnTheWay` and `Answered` (what a signature in the message was made
  over, damaged or not, and what `decode` made of it), and `OwnWithinLimits`
  (every record the library built decodes), which no single step shows.
  `RulesAssumption` and `WireAssumption` type the limits; `LengthAssumption`
  says that the context fits the bound `take_bytes` puts on it (section 5).

`TypeOK` and `IInv` of a module with proofs are proved only; the runs spend
their time on what follows from them and on what is not proved.

Only model-checked: liveness (`EveryCallReturns`, `BatchReturns`, `CallsReturn`),
which is out of the prover's reach; of the first bench, Argon2id's walk over its
memory (`ArgonWalksItsMemory`) and `FastPathsAreExact` but for its part about
Poly1305, which is `AccumulatorBounded`; of the second, `PointsAreExact`, which
needs the group law of the curve (that addition is associative follows for no
reason these provers find), and the adapter's `RoutesTellTheEffect`.

Assumed throughout: signatures, hashes, HPKE and AEADs are perfect. A forged
signature or a hash collision is not a step of any model.

## 5. Where the code and its documentation disagree

* **A message its own key refuses.** `Key::decrypt` tries the AES-256-GCM layout
  first and leaves with its error (`blindplane-crypto/src/simple/key.rs:86`). On
  a CPU without AES instructions `encrypt` uses XChaCha20-Poly1305, whose 24-byte
  random nonce covers offset 12: when that byte is 1, the message is taken for
  AES-GCM and refused, one message in 256. `RoundTrip` states "Decrypt
  something produced by `Key::encrypt`" and fails;
  `OpensUnlessNonceClashes` shows that this byte is the only cause.
* **Rekeying re-encrypts.** `README.md:37-39` says of `grant_recipient` and
  `rekey` that neither touches the payload ciphertext; `rekey` opens the payload
  and seals it again (`sealing.rs:240-248`). `PayloadUntouched` fails.
* **The manifest revision can go back at the relay.** `record.rs:21` calls it
  monotonic. It is along a chain (`RevisionCountsLinks`), but the relay compares
  revisions only between equal versions (`store.rs:65-67`), and a fresh `seal` of
  the next version starts at 1. `ManifestMonotonic` fails. No checkpoint that
  followed the old chain can advance to such a record.

* **What a failed open leaves.** `aead/mod.rs:141` says that on failure the buffer
  is zeroed. `open_in_place` returns before the erasure when the nonce has a
  wrong length or the CPU lacks AES (`aead/mod.rs:151`); what is left is
  ciphertext, never text (`OpensWhatWasSealed`). `ErasedOnFailure` fails.

Limits the models make visible, which the documentation admits, implies or does
not mention, and no run states:

* Clients that never compare checkpoints are not told of a fork (the README
  says so; `ForksNeverJoin` is what they do get). A relay that keeps only the
  latest record cannot bring a client that is two links behind up to date, since
  `advance` takes one link (`StrandedUntilRekeyed`).
* A rekey made from an outdated fetch has a later version and so replaces grants
  that came meanwhile; readers at those grants are off its chain. Grants made from
  an outdated fetch lose.
* `take_bytes` bounds the nested context by 4096 bytes or the ciphertext limit,
  so that under a policy of one's own with very long identifiers and small
  ciphertexts a record can validate and not decode (`LengthAssumption` excludes
  it; the default limits are far from it).
* No suite limits a message's length: `MessageTooLong` (`aead/mod.rs:27`) is
  never returned, and a 32-bit counter comes round after 2^32 blocks. The first
  word that meets an earlier use is then one of the block that makes the tag's
  key or mask: `KeystreamRepeatsByTurns` says exactly which words meet. The
  models have the counter of a release build; with overflow checks the sums
  `counter + 1` .. `counter + 7` inside a group of AES-GCM
  (`aes/arm/seal_open.rs:56-62`) panic where a group straddles the turn.
* `key.rs:54` says a message is 28 bytes longer than its text; it is 29 with a
  12-byte nonce and 41 with a 24-byte one, the layout code included.
* Base64 with padding in the middle decodes, although `codec.rs:27` promises
  `None` for anything malformed; a text that is proper base64 decodes rightly
  (`RoutesTellTheEffect`).
* `aead_id` gives ChaCha20-Poly1305 and XChaCha20-Poly1305 the same id, 3, and
  an HPKE context with the 12-byte base nonce never seals or opens under
  XChaCha20. Neither is used so.
* A vault key follows the release's default costs: a release that raises them
  gives the same password another key (`DerivationsAreStable` has the exact
  condition).

## 6. Not modelled

* AES's rounds and key schedule: single instructions of the CPU, and no table or
  portable version in the code to compare them with. `Aead` and `Ghash` model
  what is built around them.
* The contents of an Argon2id block, so the row and column order of its
  compression; the permutation itself is in `MixRounds`.
* The addition chains of field inversion and square roots, taken as the powers
  they compute; `derive_key_pair`, which only the test vectors of HPKE use.
* That a volatile write survives the compiler and a comparison takes constant
  time: below the level of a state machine. Erasure is modelled where an
  outcome depends on it.
* Errors that no input causes: failing randomness, key derivation, payload
  encryption and HPKE in `seal`, `grant_recipient` and `rekey`
  (`sealing.rs:49-62`). `SealVerdict` and `GrantVerdict` are the refusals of
  inputs; `ManifestRevisionOverflow` (`sealing.rs:200`) is in `FreshnessChain`.
* In `HpkeTerms`: `Unsupported` for AES-256-GCM on a CPU without AES
  (`hpke/seal.rs:91`, `hpke/open.rs:93`; the check itself is in `Aead`), and public
  keys that X25519 reads alike though their bytes differ (bit 255, values of p and
  above): a key has one spelling. The check that an unwrapped key has 32 bytes
  (`derive.rs:69-72`): an object secret is a term, and what opens is one.
* How much memory or time a call takes, among them the costs a stored password
  row may ask `verify_password` for.
* The computation of blind-index tokens from labels and values (`indexes.rs`):
  tokens are opaque to the relay and the search.
* The command line, benchmarks and research notes: they call the library in
  sequence on values of their own, or are not linked into it.

## 7. Plan

Done: the relay, the chains, their composition with lost and repeated requests,
batches, the message key, records and encoding; all primitives' buffers, paths
and counters; curves, HPKE, envelopes, passwords and the HTTP adapter; proofs
in eight modules.

What would add most from here:

1. `Envelopes` beside `RelayedChain`: that the secret a reader holds along its
   chain is the one its envelope carries, under a server that swaps parts.
2. `RoutesTellTheEffect` for any byte width.

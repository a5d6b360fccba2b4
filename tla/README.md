# Attestly in TLA+

A verification development of the Attestly repository: models of its
components in TLA+, runs of the model checker TLC on small instances, and
proofs checked by TLAPS for every instance. Paths below are relative to the
repository; `agents/` is `crates/attestly-agents/src/`, `core/` is
`crates/attestly-core/src/`, `cloud/` is `services/attestly-cloud/src/` and
`sdk/` is `python/attestly-langgraph/attestly/langgraph/`.

`PROJECT.json` has the details: which lines each definition models, the runs,
for each property a mutant of the model that violates it, the findings and the
hazards with the properties that cover them.

## 1. The system

Attestly has agents sign what they produce. A *worker* computes and signs an
attestation; one or more *verifiers* judge it and sign theirs; a *dispatcher*
drives such a run and writes everything to logs; a *batcher* seals attestations
in Merkle batches in SQLite, from which an auditor can check inclusion. A cloud
service ingests attestations of SDK clients, stores, searches, shares, bills and
expires them.

| Component | State | Operations | Interacts with |
|---|---|---|---|
| Batcher (`agents/batcher.rs`) | channel of 64 commands, buffer, age of its oldest entry, interval | `start`, `submit`, `flush_now`, `shutdown`, drop; count, age and shutdown triggers | callers through the channel and oneshots; storage |
| SQLite storage (`core/storage.rs`) | tables `attestations`, `batches`, `proofs` | `insert_attestation`, `insert_batch_with_proofs`, `get_*`, `verify_attestation_inclusion` | batcher writes, auditors read |
| Merkle tree (`core/merkle.rs`) | the tree of one batch | `build_tree`, `inclusion_proof`, `verify_inclusion` | batcher builds, auditors verify |
| JSONL logs (`core/attestation.rs`, `core/execution.rs`) | two append-only files | `append_*`, `load_*`, the join of records and attestations | every run appends; readers load |
| Dispatchers (`agents/dispatcher.rs`, `agents/parallel.rs`) | one run: stage, attestations, status | `run`, `finalize_failure` | agents, logs, batcher |
| Agents (`agents/worker.rs`, `verifier.rs`, `tools.rs`, `kyc_agents.rs`) | none beyond a key | `run`; `calculate`, `kyc_decide` | called by dispatchers |
| Signing, identity (`core/signing.rs`, `core/identity.rs`) | a key file | sign, verify; `load_or_create`, `save` | other processes on the same file |
| Cloud ingest, search (`cloud/handlers/attestations.rs`, `cloud/store/`) | attestation rows, usage | POST, GET, search, tamper check | SDK sinks retry; blob store; billing |
| Blob store (`cloud/blob/`) | content-addressed files | `put`, `get` | ingest |
| Billing and webhooks (`cloud/handlers/billing.rs`, `cloud/stripe.rs`) | accounts, keys, watermark | webhook events, usage push | Stripe (external) |
| Retention, share links (`cloud/sweeper.rs`, `cloud/handlers/share_links.rs`) | expiries, links | sweep, create, view | ingest, accounts |
| Accounts, sign-up (`cloud/auth.rs`, `cloud/handlers/quickstart.rs`) | accounts, API keys | sign up, authenticate, revoke | billing |
| Telemetry (`sdk/telemetry.py`, `cloud/handlers/telemetry.rs`) | counters of a day | record, send | one thread per process |
| Python SDK (`sdk/sinks.py`, `sdk/wrapper.py`), bindings (`crates/attestly-python/`) | the wrapped graph, a sink | `attest`, calls of nodes, `emit` | cloud ingest, JSONL files |

What is hard in it:

* **Batcher.** One task serves many callers over a bounded channel; three
  triggers flush the same buffer; a flush empties the buffer *before* the
  transaction can fail; callers are cancelled at await points; a crash loses what
  is in memory. Right means: an accepted attestation is in one place until its
  fate is settled, sealed batches are complete and immutable, `flush_now` is a
  barrier, the age bound holds whatever arrives, and nobody finds it closed.
* **Storage.** Inserts into three tables in one transaction, with
  `INSERT OR IGNORE` in one and a plain `INSERT` in the others. Right means: no
  batch is partial, and what an audit says of a sealed attestation follows from the
row that its id had before.
* **Merkle.** Positions are recovered from an index and a count only, with lone
  nodes promoted. Right means: a proof convinces of its leaf, and of no other.
* **Logs.** An append is two writes; appends overlap, stop short, or die. Right
  means: damage is local and what could be loaded stays loadable.
* **Dispatchers.** Concurrent verifiers that fail, hang or disagree, two logs and
  a batcher written one after the other, any step of which may fail, be cancelled
  or be the last before a crash. Right means: a record names only what is in the
  log, only what is durable is forwarded, no positive verdict over a dissenter,
  the caller is told what the log says, and every run ends.
* **Cloud.** Every handler is a sequence of statements with no transaction around
  them: retries of requests that were applied, partial failures between blob, row
  and count, webhooks lost, repeated and out of order, periods billed twice or
  never, sweeps working on snapshots, pages and links read while rows go. Right
  means: a row has its blob, usage counts each attestation once, a walk through
  the pages misses nothing, nobody reads another account's receipts, an account
  has one owner, and two stores, the one that is tested and the one that runs,
  answer alike but for exceptions that can be named.
* **Identity.** Processes that share a directory and find no key in it. Right
  means: an identity, once there, is not replaced by one that comes later.
* **SDK.** A graph's nodes run in parallel, each twice when there is a verifier,
  and the sink may fail between two receipts of one call; a telemetry thread
  wakes up by the hour while the counts of a day come and go.

## 2. Modules

| Module | Models | Role |
|---|---|---|
| `Storage` | `core/storage.rs` | tables and the operations on them, as action formulas and operators |
| `Batcher` | `agents/batcher.rs` | EXTENDS `Storage`: callers, channel, task, crash, restart |
| `SealedLog` | (abstract) | what batching promises; `Batcher` implements it |
| `Merkle` | `core/merkle.rs` | the three operations, step by step; rs_merkle is external |
| `JsonlLog` | `core/attestation.rs`, `core/execution.rs` | one append-only file with its writers and its reader |
| `Dispatcher` | `agents/dispatcher.rs`, `agents/parallel.rs` | concurrent runs over two instances of `JsonlLog` and a batcher |
| `CloudTypes` | `cloud/store/mod.rs`, `migrations/` | the rows of the tables |
| `PgDb`, `MemDb` | `cloud/store/postgres.rs`, `memory.rs` | each operation of the trait `Db` as an operator on tables |
| `Stores` | the two side by side | EXTENDS `PgDb`, with `MemDb` as the instance `Mem`: every call made to both, they answer alike |
| `CloudTables` | | EXTENDS `PgDb`: the tables and the clock that the handlers share |
| `Blobs` | `cloud/blob/filesystem.rs` | files, the shared temporary name, truncation and rename |
| `Ingest` | `sdk/sinks.py`, `cloud/handlers/attestations.rs` | `CloudSink.emit` with its retries, and `ingest` |
| `Readers` | `cloud/handlers/attestations.rs`, `share_links.rs`, `account.rs` | search, `get_one`, export, share links |
| `Retention` | `cloud/sweeper.rs` | passes of the sweeper |
| `Accounts` | `cloud/auth.rs`, `cloud/handlers/quickstart.rs`, `account.rs` | sign-up, authentication, keys |
| `Billing` | `cloud/handlers/billing.rs`, `cloud/stripe.rs` | webhook and `bill_period`; Stripe is external |
| `Cloud` | the service | composes the six above over one database; its properties |
| `Identity` | `core/identity.rs` | `load_or_create` by racing processes |
| `Telemetry` | `sdk/telemetry.py`, `cloud/handlers/telemetry.rs` | counters, the thread, the install id, the row of a day |
| `Calculator` | `agents/tools.rs`, `worker.rs` | the parser and the text of its answer, and the grammar as a reference |
| `Agents` | `agents/worker.rs`, `verifier.rs`, `kyc_agents.rs`, `core/attestation.rs`, `core/signing.rs` | what is signed and judged |
| `Nodes` | `sdk/wrapper.py` | `attest`, calls and replays of nodes, their receipts |
| `MCBatcher`, `MCJsonlLog`, `MCDispatcher`, `MCCloud`, `MCNodes` | | constants, symmetry and scenes for TLC |
| `MCPipeline` | | `Dispatcher`, `Batcher` and a `JsonlLog` in one run, each by itself: they share nothing but what `Dispatcher` assumes of the Batcher |
| `MCParts` | | `Stores`, `Identity`, `Telemetry`, `Calculator`, `Agents`, `Nodes` and `Merkle` in one run: they share nothing, and a behaviour is of one of them |
| `BatcherProofs`, `DispatcherProofs` | | theorems about `Batcher` and its storage, the dispatchers |
| `PartProofs` | | theorems about `JsonlLog`, `Identity`, `Telemetry` and `Nodes` |
| `AlgorithmProofs` | | theorems about `Merkle`, `Agents` and `Calculator` |
| `StoresProofs` | | the theorem about `Stores`: the two stores agree |
| `CloudTableProofs`, `CloudProofs`, `CloudRowProofs` | | lemmas about the operators of `PgDb`; theorems about `Cloud`: accounts, keys and bills; attestations, blobs, usage and pages |

**Storage.** `rows`, `batchOf`, `proofs`, `batches` are the primary keys and
columns the code reads back. An attestation is all of its fields; its id is one
of them (`IdOf`), so that two attestations may have one id and differ, and `rows`
has, for each id, the attestation that is kept under it. `INSERT OR IGNORE` keeps
the one that is there, while the leaf and the proof of a batch are those of the
attestation that was submitted. `CommitBatch` is `insert_batch_with_proofs` when
it commits; its precondition `NoKeyCollision` is the primary keys of `batches`
and `proofs`: the attestations table takes duplicates (`INSERT OR IGNORE`), the
proofs table does not. `RollbackBatch` is every failing path. Hashes are ideal:
a root is the sequence of its leaves, a path is a tree and a position.
What justifies this is `FoldIsReplacement` of `Merkle`, for the real construction of paths.

**Batcher.** `SubmitCall`/`SubmitSend`/`SubmitCancel` split a call at its
await; `FlushCall`/`FlushSend`/`FlushCancel`, `ShutdownCall`/`ShutdownSend`
and `DropHandle` likewise. `Borrowed` is what the Rust borrow checker enforces:
`shutdown` and drop consume the handle, so they wait for nothing but cannot
happen while another call borrows it. Each arm of the `select!` is an action:
`BufferSubmission` or `CountTrigger`, `HandleFlush`, `HandleShutdown`,
`HandleDisconnect`, and `AgeTrigger` or `IdleTick` for the interval that
`Second` makes due. `Flush` is the function `flush` with its real order: take
the buffer, clear the age, then commit or fail. `elapsed` counts whole seconds;
because the clock is read within a second of the tick, both outcomes are allowed
at exactly `MaxBatchAge`. `Crash` and `Restart` are the process;
`RecordUnbatched` is another connection to the file. `stage`, `ahead` and
`waited` are history for the properties.

**Merkle.** `HashLayer` and `GatherHash` are what the code relies on in
rs_merkle; `BuildLevel` is one turn of the loop of `build_proof_path`, which
sees only an index and a count; `FoldNode` is one turn of `verify_inclusion`.
A hash is a term, so that equal hashes mean equal preimages. `RootOf` is the
reference: the root of a sequence by halves, the left one the largest power of two
below its length, with no levels and no promotion.

**JsonlLog.** `WriteRecord` and `WriteNewline` are the two `write_all` calls of
an append; `FailRecord` leaves nothing or a cut record in the file (cut inside a
UTF-8 character or not), `FailNewline` a record without newline. `Loaded` is
`load_attestations`: a record loads if it has its line to itself, and a line
that is not UTF-8 fails the load (`line?`). A process that dies is an append
that fails.

**Dispatcher.** One run is a program counter that follows `run`: worker,
append, verifiers, appends, judgement, append of the record, submissions. `n`
verifiers are `ParallelDispatcher::run`; one is `Dispatcher::run`, whose code
differs in nothing the model shows. `VerifierFails` is `try_join_all` giving up
on the first error or timeout and dropping what the others had produced.
`LoseAttestation`/`LoseExecution` are the I/O errors, `Cancel` the caller that
drops the future where it suspends, `Die` the process. The code between two
awaits is synchronous, but each append is two steps and a death may fall between
any two.

**The stores.** An attestation is its content, from which id, agent and customer
are functions, so that two contents may carry one id. Accounts, keys and links
are named by their position in the order of creation, which is how random ids
are told apart. A statement that PostgreSQL may answer in several ways (no `ORDER
BY`, or one with ties) is an operator that returns the *set* of its answers; 0 is
"no such row". `Stores` makes each call to both and compares the tables, the
answers, every lookup, every walk through pages and every question of the telemetry
dashboard (`ConversionReady`, with its defaults and clamped limits). No call is left
out. Each store is called with the ids it gave itself: `twin` is history, and names for
each account of PgDb the one of MemDb that the same call created. Where the two
differ, `StoresAgree` says how, as exceptions from what they share:

* a link that is revoked already, and an email that is taken already, for which MemDb
  answers yes and PgDb no (`AnswersAgree`, of the last call in `said`);
* the accounts that MemDb then holds twice (`Repeats`), which lookups by email do not
  find, and lookups by customer may;
* a page of a search that is asked for with a cursor when the table has changed since
  (`TheSamePages`): the pages are the same exactly when the number of rows that
  MemDb skips is the number of rows that PgDb's cursor has passed; otherwise
  MemDb repeats or omits rows, or panics, as `filtered[start..end]` does beyond
  the end (after which its mutex is poisoned and it refuses every call; no behaviour
  goes on from there, as reads are not steps);
* the order of keys, and the order of rows of one instant in an export.

**Cloud.** One step per statement; between two of them any other actor steps,
the request is dropped (`Fail`, `SignupFails`, `CallFails`, `HookFails`,
`BillFails`) or the process dies, which for a handler is the same. `Ingest` is
the client too: `TryAgain` may find its first request over, dropped, or still
under way. `Blobs` names a file by the request that created it, so that a
`create` that truncates a file somebody else has open is visible.
`Sweeping` has the pass on the list of accounts as it was; `Readers` lists first
and fetches then. `Billing!Verify` is `webhook::verify` with its window and its
several signatures (an ideal HMAC is the secret that made it); a refused delivery
changes nothing and is repeated. `Billing!Deliver` posts an event until its answer arrives, and
perhaps again; `Remembered` is what Stripe does with an idempotency key for a
day. `suspect`, `effect`, `filed`, `swept`, `charges`, `marked`, `start`, `dead` and
`failed` are history for the properties. `filed` is the `received_at` with which a
request inserted its row, and `swept` how many rows of each account and day are gone;
it begins with what makes the usage that the service finds agree with its rows.
`charges` is what Stripe has: each with the period, the total and the units of the
call that made it and the usage there was when that call began. `marked` is each time
an account was marked as billed, with the same of its call and when that call posted;
it begins with the days to which the accounts found are billed. `start` loses a row that is deleted between two pages, which
a walk need not show though the row were posted again.

**Identity.** `Load`, `WriteTmp`, `RenameTmp`, `SetOwnerOnly` are the system calls
of `load_or_create` and `save`; a call names the key it generates. `rivals` is
history: who was creating an identity too when a call got its key.

**Telemetry.** `Wake`, `TakeLock`, `LoadInstallId`, `TruncateFile`,
`WriteInstallId`, `Post` are the thread; `Holds` is the lock that
`RecordAttestation` waits for. `ReadDay` is the part of `record_attestation` before
the lock: calls on several threads (`recording`, by the day they read) count in any
order, so that one that read yesterday may take the counter back to it. The program
may switch telemetry off and on at any time, so that each `is_enabled()` is free to
answer either way. The row is `PgDb!UpsertTelemetryEvent`.

**Calculator, Agents.** An expression is a sequence of tokens; the recursive
descent of `mod eval` is compared with the grammar of its comment, by splitting a
sequence at every operator. Both are tables instead of recursive operators, so that
they can be proved about. `Parser(e)` has, for each position, what `factor` makes
of the tokens from there on and what the loops of `term` and `expr` do when they
are there with a value `acc`; it is read at later positions only. `Grammar(e)` has the
values of each stretch of tokens as a factor, a product and a sum, from those of
shorter ones. A value is a sign and an exact fraction, so that `-0`
is there and rounding is not. A signature is its key and what it covers, a hash is
what was hashed; `Damage` changes any field of a stored record, or an output with
its hash. Timestamps are left out of the record.

**Nodes.** A node's function is pure, or counts its calls in memory of its own, or
returns that memory itself. `Invoke` and `Replay` are the two calls that the
wrapper makes, `EmitWorker` and `EmitVerifier` the two receipts, each of which may
fail after it has landed. `unwrapped` is what the memory would be without the
wrapper.

## 3. What the runs check

| Run | Instance | Shows |
|---|---|---|
| `batcher_safety` | 3 submissions of 2 ids, two of them of one id with different contents, another connection that records any attestation, 1 flush_now, shutdown/drop, channel of 2, batches of 2, failing transactions, 1 crash (1.44 million states) | `StorageConsistent`, `AuditsAgree`, `NothingVanishes`, `SealedIffBatched`, `SizesBounded`, `FlushBarrier`, `NeverClosedUnderACaller`, `SealedForever`, and that the service implements `SealedLog` |
| `pipeline` | each of four parts by itself, see below (264 thousand states) | of the dispatchers `RecordsBacked`, `ForwardedDurable`, `VerdictUnanimous`, `OutcomeTold`, `CleanRunsRejoin`, `EveryRunEnds`; of the Batcher `AgeBound`, `EverySubmissionSettles`, `EveryFlushAnswered`, `TaskExits`; of a log `OneFailureCostsOneRecord`, `LoadedStaysLoaded` |
| `batcher_duplicate` | no crash, no failing storage | **violated**: `OnlyShutdownLoses` |
| `jsonl_overlap` | 3 records, 2 at once | **violated**: `EachLineOneRecord` |
| `dispatcher_persist` | a run of 2 verifiers | **violated**: `EveryProducedPersisted` |
| `dispatcher_forward` | runs of 1 verifier | **violated**: `EveryProducedForwarded` |
| `cloud` | eleven scenes of two accounts and five contents of three ids, each with the actors it is about (462 thousand states) | types, `StoredWhole`, `UsageAccounted`, `WalkComplete`, `PagesSound`, `SignupsOwn`, `CheckoutsProvision`, `OverageCharged`, `RetentionKept`, `KeysGuarded` |
| `blob_half` | the scene `Racing`: posts of one content | **violated**: `NoHalfBlob` |
| `usage_missed` | the scene `Racing` | **violated**: `NothingMissed` |
| `charged_twice` | the scene `Owing`: two calls of `bill_period`, the clock | **violated**: `ChargedOnce` |
| `parts` | each of seven parts by itself, see below (1.25 million states) | `StoresAgree`, `IdentityConverges`, `ReportsOneDay`, `CalculatorRight`, `VerdictsRight`, `ReceiptsSound`, `HashesAligned`, `ProofsConvince`, `FoldIsReplacement` |
| `graph_preserved` | two calls of a node that counts, with a verifier | **violated**: `GraphPreserved` |

**Bounds, and why they are enough.** Batcher: with three submissions of two
ids and batches of two there is a duplicate inside a batch, a duplicate
of a sealed id, an innocent attestation beside either, and a remainder
after the count trigger (two batch ids, as two ids cannot be sealed in more); the two attestations of one id are submitted, and recorded by
another connection, in every order, so that the row of an id may be of the one while
the other is sealed; one flush_now has submissions before and behind it. The
history `waited` saturates at `WaitedCap`, above everything `AgeBound` compares
with. The proofs below remove all of these bounds for the safety properties.
Merkle: nine leaves have every parity on the two lowest levels, promotions on
one, two and three levels in a row (9 promotes its last leaf three times), and
the next size repeats the pattern one level up; two leaf values give equal and
different claims at every index.

*Pipeline* (`MCPipeline`) is one run for three modules, as each instance is small: a
behaviour is of one part, and the variables of the others keep their initial values.
`verifiers` is a run of two verifiers with a batcher beside one with none and without
a batcher, `runs` two runs of one verifier each (`Sized`): two verifiers have an
agreement, a dissent and one that is late, and the second run puts other records and
torn lines between those of the first. `MaxOverlap` is 1 there, so that appends of
the two runs take turns, as they do on a single-threaded runtime; what overlapping
ones do to one another is the subject of `log`: five records, one of them forged, two
appends at once, which is enough for two failures with a record before, between and
after them. The valid records are interchangeable, so that it looks only at the behaviours that
begin them in order (`InOrder`). `batcher` has two submissions, a flush_now, a channel of one place, a count trigger
out of reach, so that only the tick can flush, and transactions that may fail.

*Cloud*, whose actors are far too many for one instance, is a set of scenes
(`MCCloud`), and a behaviour begins with one of them; each puts side by side the
actors that can disturb one another, and leaves out those that cannot:

| Scene | Actors | What it puts to the test |
|---|---|---|
| `Racing` | two clients with one content, the first of which may post twice | overlapping puts, duplicate inserts, usage counted once |
| `Colliding` | clients of two accounts with two contents of one id, and one forged | the row that is there already |
| `Outliving` | a client that retries, the sweeper, the clock; its content in the table and about to expire | a row that goes between the insert and the count, or between two posts |
| `Expiring` | a client, the pages of a search, the sweeper, the clock | cursors over a table that grows and shrinks |
| `Showing` | a reader, an owner who revokes, the sweeper, the clock; one blob rotted | links, exports and rows that go meanwhile |
| `Sharing` | a maker of links, the sweeper, the clock | ids checked one by one |
| `Joining` | two sign-ups and a checkout with one email | one account, one owner |
| `Ordering` | two checkouts, a subscription event, another event | webhooks repeated, lost and out of order |
| `Keeping` | two callers with keys, a sign-up | a key revoked during a request |
| `Owing` | two calls of `bill_period`, the clock | overlapping periods, the idempotency key and when Stripe forgets it |
| `Metering` | two calls of `bill_period`, a client | usage that grows while it is billed |

Other bounds of it: `MaxTime` 5 ticks, two to a day (retention of a team is one
day, of an enterprise two; enough for a row to fall out of date in the middle of
a pass, and for Stripe to forget a key); `MaxErrors` 1 (a pass that fails begins
again: one failure shows what the second would); `MaxDeliveries` 2; `MaxLinks` 1;
`PageLimit` 1 and `ShareLimit` 2, so that every list has a next page.
*Parts*: two rows of each table, three of accounts and of attestations (`MaxRows`), enough for an
email that is taken beside one that is not, and for two rows of one id, of one owner and of one day beside one that is not; three calls of
`load_or_create` (a rival of a rival); two processes and two days of telemetry,
with one attestation a day each (`MaxDay`, `MaxMade`), so that one day's may be counted after
the next one's, of which only one process emits on the second day (`OneLateEmitter`: a sum over
two days needs one process, a sum over two processes one day); every expression of up to
five tokens, or with `(3-2)` in the place of a token (`Pieces`, `MaxPieces`), which
has every pair of operators side by side, signs, parentheses and zero divisors;
tasks with equal, different, rounded and no answers; four calls of three nodes,
two of them of one node. In a month of the cloud there is one day (`MonthLength`).

**Fairness.** `Batcher!Fairness`: `select!` picks at random among its ready
branches, so neither the channel nor the tick starves; the interval fires; a send
waiting for room gets it in turn (tokio's channel is fair). No caller has to
call or to finish anything and no transaction has to succeed.
`DispatcherFairSpec`: timers fire, synchronous code goes on, the batcher drains
its channel (which is `EverySubmissionSettles`). No agent has to answer.
`PipelineSpec` restates both, each for its own part of the run.
`CloudSpec`: weak fairness of `Sweeping` alone, a loop that the runtime resumes
for ever. No client has to come or to wait, no event has to be delivered, and the
clock may stand still.

**Deadlock** is not checked in any run: each system may rightly stop, after
shutdown, at the end of a proof, when every run has returned, or when every client
has gone.

## 4. What is proved

For every value of the constants that satisfies `StorageAssumption` and
`BatcherAssumption` (which say only that kinds of values are distinct and bounds
are naturals; TLC evaluates both on every run), with any number of callers,
attestations, batches, crashes and any capacity:

| Theorem | Property |
|---|---|
| `BatcherTypes` | `BatcherTypeOK` |
| `BatchesNeverPartial` | `StorageConsistent` |
| `AuditsRight` | `AuditsAgree` (of attestations that share ids with others, too) |
| `BatchesImmutable` | `SealedForever` |
| `AcceptedIsSomewhere` | `NothingVanishes` |
| `NobodyFindsItClosed` | `NeverClosedUnderACaller` |
| `SizesAlwaysBounded`, `AgesAlwaysBounded` | `SizesBounded`, `AgeBound` |
| `SealedMeansBatched` | `SealedIffBatched` |
| `FlushIsABarrier` | `FlushBarrier` |
| `BatcherImplementsSealedLog` | `ImplementsSealedLog` |

From `JsonlAssumption` and `DispatcherAssumption` (a finite set of runs, bounds
that are naturals, verdicts that are pairs of Booleans), with any number of
records, runs, verifiers and overlapping appends:

| Theorem | Property |
|---|---|
| `JsonlTypes` | `JsonlTypeOK` |
| `DamageIsLocal` | `LoadedStaysLoaded` |
| `DispatcherTypes` | `DispatcherTypeOK` |
| `RecordsAreBacked` | `RecordsBacked` |
| `ForwardedIsDurable` | `ForwardedDurable` |
| `VerdictIsUnanimous` | `VerdictUnanimous` |
| `OutcomeIsTold` | `OutcomeTold` |
| `DamageIsBounded` | `OneFailureCostsOneRecord` |
| `CleanRunsAlwaysRejoin` | `CleanRunsRejoin` |

From `IdentityAssumption` (the keys of calls, an earlier key and no key are
different), with any number of calls and deaths:

| Theorem | Property |
|---|---|
| `IdentityTypes` | `IdentityTypeOK` |
| `IdentityConvergence` | `IdentityConverges` |

From `TelemetryAssumption` (the bounds are naturals and no install id is none of
the processes), with any number of processes, days and attestations, and from
`NodesAssumption`, with any number of nodes, of calls in parallel and of failures
of the sink:

| Theorem | Property |
|---|---|
| `ReportsAreOfOneDay` | `ReportsOneDay` |
| `ReceiptsAreSound` | `ReceiptsSound` |

From `MerkleAssumption` (the bound on the leaves is a natural), for a tree of any number
of leaves, any values of them, any claim and every index; from nothing, for any tasks,
payloads and thresholds of the rules; and from `CalculatorAssumption` (a numeral that can be
read is a natural, and none is an operator or the end of the input), for expressions of any length:

| Theorem | Property |
|---|---|
| `HashesAreAligned` | `HashesAligned` |
| `ProofsAreConvincing` | `ProofsConvince` |
| `FoldReplacesLeaf` | `FoldIsReplacement` |
| `VerdictsAreRight` | `VerdictsRight` |
| `CalculatesRight` | `CalculatedRight`, of every sequence of tokens |
| `CalculatorIsRight` | `CalculatorRight` |

From `ScenesAssumption` (the tables that the service finds are what the schema and
the handlers keep them: unique emails, key hashes and ids, counts above 0, keys of
accounts that are there), `CloudTypesAssumption`, `BlobsAssumption`,
`IngestAssumption`, `RetentionAssumption`, `ReadersAssumption`, `BillingAssumption`
and `CloudAssumption` (names that must differ do, a client tries at least once, bounds
are naturals), with any number of requests of every kind, for any such tables:

| Theorem | Property |
|---|---|
| `SignupsHaveTheirOwn` | `SignupsOwn` |
| `KeysAreGuarded` | `KeysGuarded` |
| `CheckoutsAreProvided` | `CheckoutsProvision` |
| `OverageIsCharged` | `OverageCharged` |
| `ReceiptsCanBeRead` | `StoredWhole` |
| `UsageIsAccounted` | `UsageAccounted` |
| `WalksAreComplete` | `WalkComplete` |
| `PagesAreSound` | `PagesSound` |
| `RetentionIsAwaited` | `NoneTooSoon`, the half of `RetentionKept` that is not liveness |
| `CloudTypesHold` | `CloudTypeOK` |

From `CloudTypesAssumption` and `StoresAssumption` (times are naturals, days and
counts numbers, `None` is not a number, `Owners` is a list, `MaxLimit` is at least 1), for
tables of any size:

| Theorem | Property |
|---|---|
| `StoresAlwaysAgree` | `StoresAgree` |

The argument for the Batcher is in layers, each an inductive invariant relative to the ones
before it:

1. The first lemmas of `BatcherProofs` prove, of the two inserts alone, that they preserve
   `StorageConsistent`: a commit writes batch, links and proofs of one sequence,
   and `NoKeyCollision` keeps it from touching what is linked already.
   `ConsistentAudits` derives from it what an audit says: `true` just when the row of
   the id is genuine and is the leaf that its proof was cut for (`Leaf`). With the
   submission that was sealed as that leaf (4), this is `AuditsAgree`. Every step
   is then shown to be an insert, a commit or nothing (`StorageStep`), so the Batcher
   inherits both, and `SealedForever`.
2. `ChannelInv` strengthens `NothingVanishes`, which is not inductive by
   itself: flush commands in the channel belong to calls that are in progress or
   abandoned (`FlushesQueued`), `Shutdown` is the last command there ever is
   (`ShutdownLast`) because the handle is consumed only when nobody borrows it
   (`ConsumedUnborrowed`), and a killed task holds nothing (`KilledEmpty`). From
   `ShutdownLast` follows that an exiting task leaves no command behind.
3. `AgeInv` relates `elapsed` to `waited`: the oldest entry has waited longest,
   and `elapsed` is at least what any entry waited, so the tick that finds the
   bound reached finds it for all.
4. `SealedIffBatched` follows from 1 and 2: a commit seals precisely the
   submissions of the buffer, whose ids are distinct by `NoKeyCollision`.
   `SealedLeaves`, its other half in `SealedInv`, says that the leaf of a sealed
   submission is the attestation it carried, whichever row has its id.
5. `BarrierInv` says, for each flush_now in progress, that what was accepted
   before it was called stands before its command in the channel, or is in the
   buffer, or is settled; so the flush that answers it empties the rest.
6. The last part of `BatcherProofs` maps each step: sends to `Accept`, commits to `Seal`,
   failures, discards and crashes to `Lose`, the rest to stutters. The bound on
   `Seal` is `SizesBounded` and its fresh ids are `StorageConsistent`.

`PartProofs` begins with the log: the file only grows (`StepAppends`), and a chunk that has a line
to itself, with its newline behind it, has it still when more follows
(`OwnLineStays`). `OneFailureCostsOneRecord` counts, and a count is not inductive by
itself. `DamageInv` counts the leftovers of failures in the file, cut chunks and whole
records that their append then failed on: never more than the appends that failed
(`CountInv`). A record is in the file once and from its first write on
(`PlacesInv`), and only a leftover shares a line with a record that no append
overlapped, behind which nothing but a newline or a cut chunk follows (`SidesInv`).
So a record that does not load has a leftover beside it (`Spoiler`), and no leftover
spoils two: an injection from the spoiled records into the leftovers bounds the
first number by the second, and that by the failures.

`DispatcherProofs`: `DispatcherInv` is the type invariant and, for each run,
`AttestationsInv` (how far its appends have come at each point: those before
the cursor acknowledged, those after it not begun, every verifier answered
before a second append), `RecordInv` (what the record may say from the moment the
run concludes, when none of the four properties speaks yet) and `ForwardInv` (the
cursor counts what was forwarded). None of the properties is inductive without
it: that a Complete record is backed is decided at `judge`, long before it is
written. The type invariant itself needs it: without all the answers there is
no verdict to record. `OthersStay` shows that a step of one run
changes nothing the invariant says of another, though they share both logs,
so that each step has one lemma about its own run. `CleanRunsRejoin` needs one
fact of each log that none of these has: as long as no append to it failed
or overlapped another, it ends with a newline, or with the one record that is being
appended, and each acknowledged record has a line of its own (`CleanLog`, of which
`CleanInv` is the instance for each log). With `RecordInv`, every line of a join is
then there to be read.

The rest of `PartProofs` has three arguments. `IdentityConverges` is not inductive, because the next rename
replaces the file under every caller that has a key. `IdentityInv` adds
`LateRivals` (whoever is still creating an identity is a rival of every caller that
has a key) and `NobodyBeforeTheFile` (nobody has a key before the file is there),
which holds because only a missing file lets a call begin to create one, and a
file that is there stays. `WholeBeforeRename` is why no call leaves a damaged file.
`TelemetryInv` says of the counter of a process and of the
payload of its thread what `ReportsOneDay` says of the rows: the count travels from
one to the next, days may pass between, and a record that has read the day may wait for
the lock until another has counted on the next. A report is sent only with an install
id, which a process never changes, so that a row that is right stays right
(`RowsStay`). `NodesInv` gives each call, for each of its steps, the receipts it has
in the sink by then: at most the worker's before its second output, and a
verifier's only over a worker's (`WorkerOK`, `VerifierOK`); `OutputsOK` relates the
outputs of a call to the memory of its node, from which follows whether the two are
the same. The sink only grows and each step touches one call.

`AlgorithmProofs`, of the tree: at the end of the path `HashesAligned` compares three numbers that
come from two walks, rs_merkle's from leaf to root with the tree in its hands and
`build_proof_path`'s with a count. `MerkleInv` ties both to the layers:
`GatheredOK` says that the hashes are those of the siblings that exist, level by
level (`Count(k)` of them up to level k), `PathOK` that the walk is at one of the
levels with the index and the size of that level (`AtLevel`), and that it has
consumed the hashes of those below it. `FoldOK` says that the fold holds the node of
that level if the claim is the leaf; for another claim the injectivity of the hash
gives a different root. The argument needs no bound on the leaves and no induction
over the tree: the walk is the induction.

`FoldIsReplacement` compares the fold of *any* claim with `RootOf`, which knows of no
levels, and so needs what the builder does to be tied to the reference first.
`LayerRoot` says that a layer and the layer above it have one root: halves at a power of two
stay halves when each is halved (`Perfect`, `Powers`), by strong induction on the
length. `PutAbove` says that putting a node into a layer puts its parent into the layer
above. Hence the inductive invariant `FoldedRoot`: the running hash, put where the walk is
on its level, makes the root of the batch with the claim put at the index. `Concat` keeps
it because a sibling there is the sibling of the walk (`RootUp`), and a promotion changes nothing
(`RootPromoted`); on the last level what is put is the root.

Of the agents: `AgentsInv` says that a record in circulation is one that a Worker or
Python code signed, or that record damaged in one place, and that the Verifier's is
the judgement of the record and task that it was asked about. `DamageShows` is the
step that matters: no change of a field, and no change of an output together with its
hash, leaves a record that verifies, because each of them is under the signature
(`Covered`) and a hash is of one preimage.

Of the calculator: a recursive function is a table that is read at smaller
arguments, and each table must first be shown to exist (`ParserExists`,
`GrammarExists`, from `EntrySame` and `RowSame`: an entry depends on later positions
only, a row on shorter stretches only). Then:

* `AllComplete`, by induction on the length of a stretch: what the grammar derives the parser
  finds. The sum of the stretch before an operator is where the loop stands when it gets to that
  operator, with the value of the stretch as its `acc`; it has not taken less, because
  a product ends only before what is neither `*` nor `/`.
* `AllSound`, by induction from the last position backwards: whatever the parser finds
  is a value that the grammar gives to the tokens it has taken. A loop that goes on
  joins what it has read with the next operand as the grammar does (`Joined`), and
  is then the same loop at a later position.

Together they say more than that the two agree: the grammar gives no
sequence two values, because the parser gives it one. The inductions are over sets of numbers
(`AllNaturals`, from the well-foundedness of `<`), as the rule for predicates cannot be
instantiated here.

`CloudTableProofs` are lemmas about the operators of `PgDb`: that each statement
keeps what `AccountsOK`, `KeysOK`, `LinksOK`, `RowsOK` and `UsageOK` say, that an upsert
of usage adds one to one sum, that a page of a search is the first of the matching
rows in order. A sum over a function is proved through the set of its units
(`SumIsUnits`), and an order of rows through the rank of each (`SortedFacts`), both by
taking the least counterexample, as no induction rule can be instantiated here.

`StoresProofs` keeps the two stores side by side, through any calls: `StoresInv` says
that the tables are the same, but for the order of the attestations and for the
accounts, that every column the calls read is there, and that no two rows of
attestations share an id. The accounts of PgDb are those of MemDb that `twin` names, in
their order, and each other one of MemDb came after one with the same email, which is
the one that both find by it (`Twinned`). One lemma for each call (`...OnBoth`) shows
that it leaves them so and is answered alike, or differently just where `AnswersAgree`
says so; one for each table shows that the lookups are. Three of those are not a matter
of unfolding definitions:

* Lists that each store sorts in its own way: a set has one list that ascends by a
  strict order (`SortedOnce`), so that the two are equal where their order is total.
  Where rows share an instant it is not, and the lists have the same times at the
  same places, because both have as many rows up to each time.
* A search that goes on from a cursor, whatever was inserted and deleted since the
  cursor was made. MemDb's counts the rows before the page; PgDb's is a row, and the
  rows it has passed are the first `Passed` of the list of those found now, whether or
  not it is itself still there (`CursorPasses`). So the two pages are the same if the
  two numbers are (`PagesAgree`), and only then, as long as there is a row left to
  show (`PagesDiffer`).
* The loudest installs: PgDb may answer with any list of the first rows by its order, and the
  one that MemDb sorts is among them (`TopAgrees`).

`CloudProofs` and `CloudRowProofs` begin with `TablesInv`, the tables as their
schema has them, and `TablesGrow` (tables of accounts and keys only grow, and no
update changes an email, a password, a retention or the owner of a key), shown for
each statement once. Every other invariant is about the requests of one kind and
rests on it:

* `SignupsInv`: the account of a sign-up has its password from the moment the
  sign-up knows it. As each sign-up has a password of its own, two with one account
  would be one.
* `KeysInv`: no two keys have one hash, and an event or a sign-up that has yet to
  issue its key has issued none. Without that the second statement of the
  extractor, which looks a hash up, could find another key than the one that the
  first had matched.
* `ProvisionInv`: a delivery that was acknowledged went through all its steps, and
  one that is at some step has made what the steps before it make. The account and
  its customer stay; the key may be missing, and `ExcusesStay` says that what
  excuses it does not go away.
* `ChargeInv`: the total that a call of `bill_period` has added up lies between the usage
  of its period when the call began and that of now, as usage only grows (`TotalOK`);
  what it charges are the units that cover the excess of that total over what the plan
  includes (`ChargeOK`); and it marks an account only with such a charge at Stripe, its own
  or one of its key less than a day old, or with nothing to charge (`MarkOK`, `CallOK`).
  Charges of one key are a day apart because `Remembered` answers for that long.
* `BlobInv`: `FilesApart` (a file is at most at one path, that of its content, so
  that truncating a temporary file harms nothing that is stored), `OneWriter` (as
  long as two puts of a content have not overlapped, the one under way has the
  temporary file to itself, and has filled it when it is about to rename it) and
  `RowsStored` (a request that is about to insert has its blob in place).
  `StoredWhole` is not inductive without them: it says nothing of a blob whose row is
  yet to come.
* `EffectInv` and `UsageInv`: what a request has done at each of its steps, and that,
  for each account and day, usage and the rows it lacks balance with the rows, the
  deleted rows and the counts in excess; every insert, count and delete moves one unit
  from one term to another. A count goes to the day of the row that the SELECT finds
  (`at`), an insert to that of the row inserted (`filed`): where they differ, the unit
  is lacking on one day and in excess on the other (`Supplanted`).
* `SweepInv`: the list of a pass is the beginning of the table of accounts, with the
  same retention, and the pass began no later than now. No request changes a plan
  (`set_account_plan` has no caller but a test), which is what
  `RetentionIsAwaited` rests on: an upgrade during a pass would be followed by
  deletes with the old retention.
* `WalkInv`: what was seen descends to the cursor, and every row of `start` that is
  newer than the cursor has been seen.
* `StatesInv`: what `CloudTypeOK` says beyond the others: a put that is about to write
  or to rename has a file open, no client makes more attempts than it may, no event
  is delivered more often than the bound, and no request is at a point that is not
  in the code.
* `PagesInv`: what a reader has yet to fetch is of the account it reads for and named
  by its link. A page that was fetched is of rows that may be gone since.

Two of these properties were wrong as they were first stated, and the proofs showed it. A walk
was to show every row that was there at its first and its last page; a row that is
deleted and posted again at the same instant, behind the cursor, is missed. And a
checkout was to find a key on its account; one that finds an account without any,
from before the service started, makes none (`WasKeyless`).

**Only model-checked.** Liveness (`EverySubmissionSettles`,
`EveryFlushAnswered`, `TaskExits`, `EveryRunEnds`, the second half of
`RetentionKept`), which is out of the prover's reach; `NoHalfBlob`, `NothingMissed`,
`ChargedOnce` and the properties of the other runs that expect a violation, as the
code violates them.

## 5. Findings

1. **A duplicate loses innocent attestations** (`batcher_duplicate`).
   `agents/batcher.rs:29` and `docs/ARCHITECTURE.md` say that submitting the
   same attestation twice is harmless, and that only a shutdown below
   `min_batch_size` loses an attestation. The insert into `proofs` is not
   `OR IGNORE`: the transaction of the whole flush fails, and the buffer is
   already empty.
2. **Overlapping appends spoil each other** (`jsonl_overlap`). Two writers of one
   log can both return Ok and leave both records on one line, which the reader
   skips. Every run of every dispatcher on one path is such a writer.
3. **Attestations that were produced are dropped** (`dispatcher_persist`).
   `agents/parallel.rs:158` says every produced attestation is persisted; when one
   verifier fails, those of the others are not.
4. **Failed runs are not forwarded** (`dispatcher_forward`).
   `agents/dispatcher.rs:137` says every attestation produced is forwarded to
   the batcher; a run whose verifier stage fails forwards nothing, though the
   worker's attestation is in the log.
5. **Two puts of one content can leave half a blob** (`blob_half`). The comment at
   `cloud/blob/filesystem.rs:55` says that the rename keeps half a blob from the
   canonical path. The temporary name is the same for both puts and `File::create`
   truncates: one renames what the other has just emptied, and if that other is
   dropped the half stays. Every later put finds the file and acknowledges it;
   reads answer 422. `StoredWhole` is what remains true.
6. **A verifier changes what a graph computes** (`graph_preserved`).
   `wrapper.py:7` and the SDK's README (line 50) say that wrapped and unwrapped
   runs are identical; with a verifier each node's function is called twice, and
   whatever it keeps outside of its input is changed twice.

7. **Usage can be missed** (`usage_missed`). `services/attestly-cloud/README.md:102-104`
   says that usage is populated on every successful ingest and that nothing is missed.
   The count is a statement of its own after the insert: a request that ends between the
   two leaves a row that the retry finds, so that the post is acknowledged and never
   counted. `UsageAccounted` says, for each account and day, that nothing else is
   missing.
8. **A retry can charge twice** (`charged_twice`). `handlers/billing.rs:18-19` and
   `292-293` say that a retry does not double-charge and that the call is idempotent on
   account and end of period. A call that fails between Stripe's answer and the mark
   leaves that to the idempotency key alone, which Stripe forgets after a day: a retry
   that comes later is a second charge. `OverageCharged` is what remains: charges of one
   key are a day apart, and each is for the units that its period owed.
9. **The two stores differ** (`parts`, in the exceptions of `StoresAgree`).
   `store/memory.rs:3-4` says that they must agree on observable behaviour. Revoking a
   share link again is a success for the store of the tests, and 404 for PostgreSQL's;
   creating an account whose email is taken succeeds in the one and fails in the other;
   and a cursor of the former, an index, repeats or omits rows if the table changes
   between two pages, and panics beyond its end.

Met while modelling, where no sentence of the repository says otherwise; the
models have each of these as an outcome:

* Usage of a day that was billed already is never billed.
* An account whose webhook or sign-up failed between the insert and the key has no
  key, and no retry makes one (`CheckoutsProvision` excuses it). The webhook does
  not lower-case the email (`billing.rs:203`), the sign-up does
  (`quickstart.rs:54`). An event that arrives before its checkout is answered with
  200 and lost; an older one overwrites a newer subscription.
* The idempotency key of a usage record is account and end of period: a second
  charge for it within a day, whatever its beginning or units, is answered with the
  first (`OverageCharged` lets a mark rest on it). Periods that overlap are charged
  for the days they share twice. All accounts report to one subscription item
  (`stripe.rs:209`).
* A share link names ids: an id that expired and is posted again, with another
  content, is shown again.
* A verifier does not compare the task of the record with its own: agreement means
  equal answers.
* A sink that fails makes a node fail that had succeeded. The worker's output is
  kept by reference while the replay runs, so of a node that returns shared memory
  the two always agree. What `deepcopy` refuses is replayed as its `repr`. After
  `attest`, `add_node` raises for what it took before and finds nothing to call in.
* Telemetry: a process that has emitted nothing today reports the last day it did;
  a failed POST is not repeated; a thread that wakes up while telemetry is disabled
  ends for good; two first processes may each write an install id.

## 6. Not modelled, and the plan

Done, in the order of the plan: storage and batcher with their refinement, Merkle,
the log, the dispatchers; then the cloud service with both stores, the identity
store, telemetry, the agents and the SDK. Every invariant and every action property that
a passing run checks is a theorem, and so is the refinement of `SealedLog`. What is left is
liveness, which stays with TLC.

Left out for good, and why:

* Pages in HTML, wiring of the processes, health answers, seed data: they call
  operations that are modelled, and the rest is text.
* `create_checkout_session` changes no state of the service: Stripe answers with a
  link. The HMAC of a webhook (whose header, window and answers are modelled), Argon2, Ed25519 and SHA-256 are taken as ideal.
* The in-memory blob store of the tests, which is one map.
* The rendering of the telemetry dashboard.
* The Python bindings other than `sign_attestation` and `verify_attestation`: they
  convert objects and keep no state.
* Floating point beyond signed fractions: rounding, infinities and NaN. The January
  edge of `resolve_period`: months are numbered.
* Formats: JSON, canonical bytes, timestamps in attestations.

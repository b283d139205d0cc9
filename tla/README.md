# Verification of fenced

fenced is a demonstration of agent memory that can be corrected and erased: a
web page drives five steps over an HTTP API, the API runs each step in a worker
process, the worker keeps everything in CockroachDB and calls Amazon Bedrock.
Around it the repository keeps the boundaries it was grown from (C01 to C07),
each as a service with an in-memory adapter and, mostly, a migration; and the
scripts that build, check and operate it.

The directory holds TLA+ modules of these parts, TLC configurations that check
them on small instances, theorems that TLAPS checks for every value of the
constants, and `PROJECT.json`, which maps every definition to the lines it
models and lists the hazards, findings and theorems.

    tlc -workers 2 -config HackathonLive.cfg MCHackathonLive
    tlapm HackathonLiveProofs.tla

## 1. The system

### Parts and their state

| Part | Source | State | Operations that change it |
|---|---|---|---|
| Page | `apps/web/src/main.tsx`, `api.ts` | position, history, error, busy flag | the buttons; the runners for all steps, the rest, the proofs; a 20 s abort |
| HTTP boundary | `apps/api/src/index.ts` | none; the cookie lives in the browser | binds a step to a fresh or to the cookie's session, sets the cookie, turns outcomes into status codes |
| Supervisor | `apps/api/src/image-entry.ts` | one child process per request | starts it, kills it after 20 s, on too much output or a pipe error |
| Orchestrator | `packages/application/src/hackathon-live.ts` | that of the one request it serves | five steps: start, ask_before, correct, ask_after, latest_receipt |
| Store | `packages/adapters-local/src/hackathon-crdb.ts`, migrations 0008, 0009 | session tokens, reservations, usage, effects, facts, receipts, the operator's switch | one SERIALIZABLE transaction per call |
| Bedrock ports | `packages/adapters-local/src/h4-bedrock-ports.ts` | at most one transmission each | embed (Titan), generate (Nova); never retried |
| Outbox, inbox (C07) | `local-c07-outbox-repository.ts`, `c07-outbox-inbox.ts`, migration 0006 | messages, deliveries with leases, a queue, receipts, dead letters | publish, claim, record, acknowledge, retry |
| Recall ledger (H1, H2) | `h1-recall-ledger.ts` and its adapters, migration 0007 | facts by revision, propagations, receipts | teach, correct, retract, ask |
| Tenant context (C02) | `tenant-context.ts`, `local-tenant-authority-fixture.ts` | issued contexts, used identifiers, the authority plane and its generation | issue, validate; every change of the plane |
| Authentication (C01) | `authentication.ts`, `local-cognito-shaped-verifier.ts` | issued principals, memberships and services; the authority's records | authenticate, resolve, validate; revoke, reactivate, renumber |
| Event revisions (C06) | `event-ledger.ts`, `local-c06-event-repository.ts`, migration 0005 | a store per scope with two indexes | request a revision |
| Tenant reads (C03, C04) | `database-tenant-isolation.ts`, `local-c04-database.ts`, migrations 0001 to 0003 | rows of a fixture or of any reader | load, read |
| Payload storage (C05) | migration 0004 | key anchors and erasable material | insert, erase |
| Local fixture (B04) | `local-synthetic-fixture.ts` | queue, state rows, idempotency keys, clock, generation | enqueue, claim, acknowledge, write, advance, reset |
| Contracts | `packages/contracts` | none; what is in the catalogue | admit schemas and profiles, validate messages and receipts, supersede |
| Migration scripts | `scripts/h2-crdb-*.mjs`, `verify-c03…c06`, `verify-h2`, `verify-hackathon-live` | the database's schema, canary rows, files | apply, resume, probe, clean up, verify |
| Evidence and provenance | `safe-evidence-writer.mjs`, `generate-b03-local-evidence.mjs`, `verify-supply-chain.mjs`, `verify-cleanroom.mjs` | files and what of them is synced | create once, finalize, verify |
| Operation lock | `scripts/repository-operation-lock.mjs` | a directory and a token file | acquire, release |
| Agent and receipt tools (H2, H3, H5); foundation, domain, policy, worker; source and dependency checkers | | none that outlives a call | not modelled, see section 6 |

### How they interact

A click sends a step and the page awaits it; the API awaits the child; the
child awaits one store or provider call at a time. Nothing but the store is
shared between two requests, and the store is shared by all of them. The page
may give up on a request while its child goes on, two tabs may use one cookie,
and a child may be killed between any two of its calls. The C0x services are
synchronous: what interleaves there is callbacks (a call asks its tenant
context again before it writes, and the ports of the context service may call
back into it), time, and clients that come back late with an old ticket. The
scripts meet other people: a second operator, an editor of the files, a
connection of a run that died, a power failure.

### What is hard about it

* **One reservation pays for one set of provider calls**, although a step may be
  requested twice, side by side, by a child that dies, or whose COMMIT answer
  was lost. The repair is to refuse rather than to repeat, so the danger on the
  other side is a session that is stuck.
* **A receipt is written from a snapshot read several calls earlier.** A
  correction in between must make it fail.
* **Leases end by time**, while their holder still has the ticket.
* **A tenant context rests on several reads** of a plane that changes between
  them.
* **Nothing in the recall SQL looks at a row count**: only the keys of the tables
  stop a stale correction.
* **A page learns of a failure through one status code.**
* **A decision that comes late** (the transmission policy's, a second look at a
  context) meets a caller that has gone on.
* **Migrations run outside transactions**, and a cut one is resumed by what the
  schema shows of it.
* **A receipt says one fact in up to six places**, and sixty rules compare them in
  pairs; some pairs are compared only through a third place, and two not at all.
* **Files are checked, and read again later**, by tools that take no lock.

`hazards` in `PROJECT.json` has them one by one, each at its line.

### What makes each part correct

Store and orchestrator: what is sent was paid for; answers shown are durable and
unique; a correction is atomic; receipts are grounded in the memory of the
instant they are written. Page: it lists the beat in order, out of one session,
and is never stuck. Request process: it is answered, and then nothing of it runs.
Transmission: it leaves once, under a decision of its own. Outbox: one running
lease, no acknowledgement without a receipt, no message lost or buried early.
Recall ledger: compare-and-set, total erasure, no disclosure across tiers. Tenant
context: one use of an identifier, one generation for a decision, no revival.
Authentication: what was refused stays refused. Event revisions: an append-only
log. Reads: in scope at the moment of disclosure. Fixture: each message in one
place. Contracts: a valid message means one thing. Migrations: executed in order
and reported as applied only when they are. Evidence: durable, and true of what
it describes. Lock: exclusion, and nobody's lock removed but one's own.

## 2. Modules

| Module | Models | Relation to others |
|---|---|---|
| `HackathonCrdb` | the tables and transactions of the live store, as an outcome and an effect each | extended by HackathonLive |
| `HackathonLive` | the orchestrator's steps, call by call, in workers that may be killed | implements `AnswerLedger` |
| `AnswerLedger` | what the demonstration promises: a memory seeded and corrected once, one recorded answer per question | abstract |
| `DemoSession` | page, cookie, HTTP boundary and, in two halves, the steps behind them | its server abstracts HackathonLive and implements `AnswerLedger` |
| `OutboxContract` | what a leased queue promises | abstract |
| `LocalOutbox`, `SqlOutbox` | the in-memory repository, the functions of migration 0006 | both implement OutboxContract |
| `RecallLedger` | compare-and-set memory with a propagation log | abstract |
| `RecallFacts` | facts, revisions and drafts, common to both stores | extended by both |
| `LocalRecall`, `SqlRecall` | service over the in-memory repository; SQL plans over their tables | SqlRecall implements RecallLedger |
| `RecallParity` | both given the same commands | composes LocalRecall and SqlRecall; they hold the same facts |
| `TenantContext` | issue and validate over a changing authority plane | stands alone |
| `Authentication` | sign-in, memberships and services over a changing authority | stands alone |
| `RequestLog` | what event revision requests promise: an append-only log | abstract |
| `EventRevisions` | the service over the in-memory repository, requests nested in its callback | implements RequestLog |
| `TenantReads` | the isolation service over the local database or any reader | stands alone |
| `TenantTables` | the keys and checks of migrations 0001 to 0005 | stands alone |
| `BedrockTransmission` | a pair of ports, their policy, timers and late decisions | details the one-step call of HackathonLive |
| `RequestProcess` | one request's process group and its supervisor | details `Kill` of HackathonLive |
| `SyntheticFixture` | the local harness: queue, state, reset | stands alone |
| `SchemaPack` | `h2-crdb-migrate`: 0001 to 0007 statement by statement | stands alone |
| `LiveMigrations` | the tools of 0008 to 0011 | goes on where SchemaPack ends |
| `LiveProbe` | the probe of a contended correction on the visitors' database | stands alone |
| `MigrationVerifier` | the verifiers of single migrations, over changing files | stands alone |
| `EvidenceWriter` | a create-once file, power failures included | stands alone |
| `LocalEvidence` | the finalizer that replaces four files and describes them | its create-once file is EvidenceWriter's, in one step |
| `ProvenanceRecord` | the record of the tree: created once, verified | stands alone |
| `ContractSchemas` | admission of schemas, validation under a budget, supersession | stands alone |
| `ContractProfile` | the tables of the semantic profile and the messages under them | stands alone |
| `ReceiptSemantics` | the rules on receipts | stands alone |
| `OperationLock` | the lock of the scripts | stands alone |

`MCHackathonLive` and `MCDemoSession` hold the instances of one module each;
`RecallParity` is checked as it is. `MCOutbox`, `MCAccess`, `MCServing` and
`MCTooling` put several components into one run: a variable (`focus`, or `tool`)
chosen in the initial state says which of them the behaviour is of, and the
variables of the others never change. `MCTooling` extends `OperationLock` and
instantiates the seven modules from `SchemaPack` to `ProvenanceRecord` and the three
of the contracts. Nothing is composed by that; the components of such a run do not
interact. `*Proofs` modules hold the theorems of the modules they extend
(`OutboxProofs` extends `MCOutbox`, where the two forms get their names;
`ToolingProofs` and `ContractProofs` extend `MCTooling`).
Operators commented "Mutant" are wrong versions of the definition that follows
them, the bug the property next to it in `PROJECT.json` (`mutants`) is sensitive
to; no action uses them.

### From code to actions

**HackathonCrdb.** A store call runs `scoped`: BEGIN, set the session's scope,
the statements, COMMIT. CockroachDB makes it one atomic step; so for each call
the module has `XxxOutcome` (the early returns, in the code's order) and
`XxxEffect` (the writes). `reserved`, `used`, `done`, `active`, `retracted` and
`receipts` are the rows of the tables of the same purpose. Revisions of the three
demonstration facts are the only facts. `clock` gives `CURRENT_TIMESTAMP`, which
is the *start* of the finalizing transaction.

**HackathonLive.** `worker[w].pc` names the call worker w is about to make.
`Reply(outcome)` is how a call may end for its caller: committed and answered;
COMMIT failed, applied or not, "unknown"; failed, "denied"; or the worker was
killed while the call was in flight. A provider call is sent and then answered,
or its answer lost; `Refused` is a denial before anything was sent. `Kill` is the
supervisor's SIGKILL. `titanSent`, `novaSent` and `answers` are history.

**DemoSession.** `tab` is React state, `call` the awaited request (`busyRef`),
`orphans` what the server still runs for nobody. A request is served in two
halves, admission and work, because the reservation survives whatever happens to
the work. A fault in a half answers `denied`, `unknown` or `child_exit`, its rows
written or not.

**LocalOutbox.** A call is one step; `ClaimDenied` is the claim whose second look
at the context fails after the entry left the queue. `tickets` keeps everything a
claim ever returned, and clients use it at any time. The `deliveries`, the queue
and the dead-letter list keep the code's order.

**SqlOutbox.** One step per security-definer function. `fence_token` is random in
the database and fresh in the model.

**TenantContext.** A call is a frame of a stack and each port's answer a step;
between two steps the plane may change or a further call may start on top.
A generation is a position in `planes`, the history of the plane, because the
code compares generations by identity and never by content.

**LocalRecall, SqlRecall.** Of an embedding only its similarity to the question
is kept. The SQL transaction commits iff the keys and checks of the tables hold:
`Commits`, `HasRow`, `References`, `KeyFree` are those constraints.

**SyntheticFixture.** The clock is relative (`left` of a lease), so time does not
end in the model. `handles` keeps every handle.

**OperationLock.** One action per file system call; `ClearLock` is the person who
removes a leftover lock, as the documentation asks, `CarefulOperator` saying
whether they check that its maker is gone.

**Authentication.** A call reads the authority once and then nothing, so it is one
step; the authority changes between any two. A principal stands for every object
made from its token. `refused` is history: what was denied for a reason that lies
with the authority.

**EventRevisions.** `calls` is a stack: between the two looks at the context the
port runs code of its own, which may ask for a further revision or let a context
lapse. The repository keeps the code's two indexes, each a list.

**TenantReads, TenantTables.** `Begin`, the reader's answer and `Disclose` are three
steps, with `Expire` between any of them; `Foreign` is a reader that may answer
anything. A statement of TenantTables commits iff the keys, checks and foreign
keys of the migrations hold; nothing in the repository writes these tables, so
the writer is anyone.

**BedrockTransmission.** A transmission asks its policy, is sent and is answered, and
a timer runs from the question on. The policy may answer what this repository's
own does, or repeat a decision, answer late or grant one for too long.

**RequestProcess.** `group` is the process group, `pipe` and `errors` are what the
event loop has yet to deliver, `watch` is the supervisor's closure. `OnClose`
waits until nobody holds the standard output, as "close" does.

**SchemaPack, LiveMigrations.** A statement is its position; `Repeatable` ones may be
executed again, the others fail on what is there. `Stop` and `Cut` end a run at a
statement, executed or not. What the tool reads of the schema before it goes on
(`Matches`, `Shows`) is the set of statements that leave a trace it looks at.

**LiveProbe.** A transaction is a step. `orphans` are corrections still in flight
after the run that sent them ended.

**MigrationVerifier.** `Reads`, `Lists`, `Looks`, `Guarded`, `Relooks` and `Rechecks`
say of each script what it reads and how often it looks; one set of actions serves
all seven. Anyone rewrites, replaces or links a file between two calls.

**EvidenceWriter, LocalEvidence, ProvenanceRecord.** `onDisk` and `kept` are what was
synced; `PowerLoss` goes back to it or not, name by name. A run of
ProvenanceRecord is a list of calls (`Script`), each of which goes on or fails;
`Stop` ends it anywhere, in the middle of its write too. Parts of the tree have
versions, and `Edit` may put one back.

**ContractSchemas, ContractProfile, ReceiptSemantics.** The keywords of the restricted
schema language are the cases of `Inspected`, which is given what `inspect` finds of
the definitions (`of`): an admitted catalogue is not circular and has two definitions,
so two rounds of it are the recursion of the code. The walk that rejects circular
definitions (`Visit`) is a recursive function of what is in front of it, active and
complete. The reference definition (`Conforms`) has no budget. A text may hold a
member twice. A
candidate profile differs from the reviewed one in the table of one family. A
receipt is the reviewed one changed in one respect or two: the fact that is told
differently in each place, the stage with its evidence, the keys and times, or two of
its names that are one (of a receipt that has a request body, so that all eleven
identities are there). The facts are those of the schema, `VerifierFacts` among them.

## 3. Runs

`PROJECT.json` lists every run with its properties and one sentence each. Here:
what they are for and why their bounds are enough. `CHECK_DEADLOCK FALSE` stands
where a bound of the model (clock, claims, tokens, changes, minted sessions) ends
a behaviour, and where the system may really be done; the other runs, which are
those of HackathonLive, check for deadlock.

**hackathon_live** (1 session, 2 workers). Sessions share nothing but the usage
and the switch, so one session shows everything about ordering and receipts. Two
workers give every race of two transactions and, as they come back idle after
any step, any number of requests one after another. The caps are those of one
session, so that they bind. The operator's switch, expiry of the token and every
kind of reply are included. It checks the spending, durability and grounding
properties, and that the whole implements `AnswerLedger`.

**hackathon_quota** (3 sessions, 2 slots, 7 Titan calls, 1 Nova call). One
session needs 6 Titan and 2 Nova calls, so every cap is met halfway through a
step of some session.

**ask_after_stale, retries_past_max**: findings, section 5.

**applied_is_complete, null_before_dispatch**: findings, section 5.

**outbox.** The in-memory form: 4 drafts, 2 consumers, 4 claims, leases of 2 ticks,
clock to 4, 2 attempts. The drafts have two revisions of one message, a fork of
the second, and another message under an operation already used; a lease may
lapse and be taken over twice. Two attempts (three in the code, and in
**retries_past_max**) reach the dead letter with the fewest claims. The SQL form
has two rows and both lease lengths 1 and 2, with the three attempts of the
migration. Both are checked against the same contract.

**access.** Tenant context with two focuses. Nesting (2 services, depth 2, room for
2 contexts, no changes): identifiers that collide in one and in two places,
repeat, and are equal to each other. Plane (depth 1, 2 changes, principal and
system): a change and a change back between any two reads. Authentication: server
times 1 and 3 with a skew of 1, so that a token is late within the skew, within its
life and after it; 2 memberships, 2 epochs and 2 changes of the authority, as a
revocation and its reversal need. Reads: rows of two tenants and two purposes
that share their keys; three disclosures, to see one row twice under two
purposes. Tables: two purposes and two scopes of a key, a retention limit of 2.
Requests: 2 scopes of 2 entries, both reached, and one request nested in another.

**demo** (up to 3 sessions and 2 faults with one tab, 2 sessions and 1 fault with
two): a fault may be a lost reply, a failed or killed half, an expiry, a pause or
a reload. Two faults let a retry fail again.

**serving.** The page with a patient visitor (one tab, 3 sessions, 2 faults); one
process with an output limit of 2 chunks, so that a worker prints a whole result
or one chunk too many; 2 transmissions, 3 decisions, a lifetime of 2 and patience
of 1 over 3 ticks, so that a decision may outlive the timer, expire and be
repeated; and the fixture (3 message ids, 2 attempts, second acknowledgement lost;
2 state keys, 3 tokens; 1 reset): two smaller ids keep a large one waiting, which
is what starvation would need; a token can be used for the same key, for another
and again after a reset.

**recall** (2 facts, 3 revisions, 2 receipts, topK 1, similarity -1): the last
revision is the bound 2^64 - 1 of the code, met after two corrections. The
similarity is below the 0 of an erased embedding, so that an erased fact takes
the one place of an active one.

**tooling.** The lock: 3 runs, 6 locks ever made, so that every pair of runs has a
third to disturb it, and locks are left, cleared and made anew. The migrations: all
127 and 145 statements, two operators, on a service that refuses 0006's writing
routines. The probe: two operators with one nonce, 2 connections, 2 corrections left
behind, one visitor. Evidence: 3 attempts at one revision; 2 finalizers and 2 edits;
two runs that create the record, or one that creates and one that verifies it, and
2 changes by others, as a change and a change back need. Verifiers: 2 changes of the files.
Contracts: two definitions, texts of two levels, a budget of 12 nodes and a share
of 3, which some texts exhaust; 3 codes; instants 0 and 1, which decide every
comparison of two times. Operators and writers are alike, hence the symmetry.

### Fairness

Fairness is stated for **serving** alone (`MCServing`), by component.

* `InFixtureFairness`: the driver has a scope, goes on claiming and goes on
  advancing the clock. The fixture has no thread of its own; without a driver
  nothing happens, and nobody is asked to acknowledge.
* `OnPageFairness`: a request is served or given up (both sides have a
  20 s timer), the page handles an answer (the event loop), the visitor presses
  the primary button, a pause ends; and strongly, the visitor restarts when the
  page advises it. Faults are finitely many. Strong fairness is needed because a
  visitor who keeps pressing retry disables the restart again and again.
* `InProcessFairness`: the event loop delivers an error, a chunk, the timer and the
  end of the stream. Of the processes nothing is assumed but that a killed group is
  gone: the worker may hang.

The other specifications are safety only.

### What the runs showed

* A step never sends more than it paid for, with any races, kills and lost
  replies; answers are durable and one per question; receipts are grounded.
* The queue, inbox and dead letters of the outbox are consistent, except that a
  claim refused at its second look drops its entry from the queue for ever. The
  message stays pending and unqueued, which `OutboxInv` allows by its condition on
  `revoked`. Nothing in the repository promises otherwise.
* The keys of migration 0007 are enough for compare-and-set, although the plans
  never look at a row count.
* With one tab, whatever happens, the page never mixes two sessions and never
  passes over an unfinished correction. With two tabs it can show steps of
  another session: the cookie moved. The properties without `alone` in them still
  hold then.
* The visitor is never stuck who follows the page's advice to restart; one who
  follows the advice to retry may be.
* A request is answered although its worker hangs, floods its output or outlives
  its launcher, and then nothing of it runs; a late decision lets nothing out.
* A membership that was once refused stays refused, although the credential is
  reactivated or the epoch set back: the authority's revision only grows.
* Requests nested in the repository's own callback leave the log that single
  requests would.
* The migration tools go on from a cut run without repeating or skipping a
  statement, two operators at once included. But "applied" may be said of a
  database that lacks the end of 0008 (section 5).
* A probe's canary is not resurrected by a correction that was still in flight.
* A verifier's pass is about bytes that stood at the path at the last look, where
  the script looks again. H2's and the live one do not.
* The record of the tree is true when it is verified on a tree at rest. One that
  is *created* while the tree is edited may not be: subjects are read again after
  their pins were checked, and only a later `--verify` notices. A run that is cut
  off leaves the record torn under its final name, and the revision is burned; if
  the power failed before the directory was synced, it may be free again.
* A message found valid conforms to its schema, whichever of two equal members a
  reader takes. A receipt found valid tells every fact the same in all places that
  repeat it, except the verifier policy and the projection rule (section 5, item 12).

## 4. Proofs

A theorem holds for every value of the constants that satisfies the assumptions of
its module, which are named in brackets below, and of nothing else. They say that
bounds are numbers, that records have their fields and, twice, that a set is finite
where the code walks all of it: the facts a repository holds (`RecallAssumption`)
and the grants an authority records (`AuthAssumption`). Where an assumption is a
definition instead of an ASSUME, as in modules that share a run, the theorem names
it.

Almost no invariant below is inductive as the runs check it. What had to be added
is what each paragraph tells, because it is the reason why the code is right.

**HackathonLiveProofs** (`CapAssumption`), in three layers.

* *Spending*: `TypeCorrect`, `SpendingSafe`. A worker about to send says nothing in
  `ProviderWithinReservation` about who else may send. `SpendingInv` adds that a
  worker past its reservation holds the step alone (`SoleHolder`: a reservation is
  granted once, a repeated one answers "replayed", and only a granted one leads to
  `embed`), that it counts its own calls, and that pcs fit their steps.
* *Caps*: `CapsHold`, `SpendingCovered`. Sessions are counted and usage is compared in
  the transaction that inserts, so it is enough that the live sessions are finitely
  many, which every step preserves. Over all sessions together, usage is the sum of
  what each reservation was charged (`ChargedInv`), and what a step sent is at most its
  charge (`SpendingInv`). The sums are folds over sets; that adding to one value adds
  to the sum, and that larger values have a larger sum, is proved for any finite set
  (`SumAdds`, `SumMonotone`). `SpendingCovered` supposes finitely many sessions, as
  their digests have 256 bits.
* *Memory*: `MemoryConsistent`, `Grounded`, `LedgerImplemented`. `MemoryInv` has a
  part for each actor. `Story` is what the rows of a session tell (which facts are
  active after which step). `ReceiptInv` says a receipt names facts that were
  seeded, the corrected one only after the correction. `WorkerInv` says what a
  worker's snapshot still means when it comes back with it several calls later:
  facts it saw are there or were retracted, never anything else, so the check of
  the finalizing transaction decides all. From `IInv`, the three layers together,
  every step of store and workers is a step of `AnswerLedger` or a stutter.

**AccessProofs**, in five parts.

* *Tenant context* (`TenantAssumption`, `AuthorityAssumption`): `UsedOnce`,
  `WithinBound`, `OneGeneration`, `Never`. `IInv` says of every frame (`FrameOK`):
  as long as the generation it captured is the current one, what it has read so far
  holds in that generation, and once the recheck passed, it does for ever
  (generations never change, new ones are appended). That is why one comparison at
  the end is enough, however the reads and the changes interleave.
* *Tables* (`TablesAssumption`): `TablesSound`, statement by statement.
* *Authentication* (`AuthAssumption`): `RefusalsLast`. `AuthInv` ties every
  membership handed out to the revision it was resolved at (`StillVouched`) and every
  refusal to a revision or epoch the authority has passed (`Refused`); the
  authority's revision only grows.
* *Reads*: `ReadsStayInScope`. What is disclosed was compared with the scope of the
  context that asked, whatever the reader answered.
* *Event revisions* (`RequestsAssumption`): `RequestsKept`, which is both the
  agreement of the two indexes and the refinement of `RequestLog`. `RequestsInv`
  says that the two lists of a store are equal position by position (`Twins`) and
  that no two stores have one key.

**ServingProofs** (`ProcessAssumption`, `BedrockAssumption`, `FixtureAssumption`).
`AnswersEndTheRequest`: a killed group is gone and failed, and an exit code of 0
with nothing failed is that of a worker that was done (`ProcessInv`).
`DecidedOnce`: only a consumed decision lets a request out, and what left is never
denied afterwards (`BedrockInv`). `QueueCorrect`, `OnlyTheHolder`: each identifier is
in one of queue, dead letters and acknowledgements (`OnePlace`), and the revisions
of a key are those of the tokens that wrote it (`Histories`).

**OutboxProofs** (`SqlOutboxAssumption`, `OutboxAssumption`). `SqlDelivered`,
`OutboxConsistent` and `SettledForGood`, and that both forms implement
`OutboxContract`: `SqlKeepsContract`, `LocalKeepsContract`. Both rest on what a receipt
says about the delivery it belongs to: no later attempt than the delivery's, and of
the same attempt the same consumer and fence. The in-memory form also needs the
queue to hold deliveries without repetition; its walk of a Map in append order is
a bijection that `SortByPlace` constructs without recursion.

**RecallProofs** (`RecallAssumption`, `LocalRecallAssumption`). `StoresSound`,
`StoresAgree`, `LedgerKept`. `ParityInv` relates every row to the version with its
number: a stale correction would have to insert a revision that `OneRowPerKey`
forbids, so the keys commit what the compare-and-set admits and nothing else.

**DemoProofs** (`DemoAssumption`). `PageSound`, `OneStory`, `ServerKeepsLedger`. What the page lists is stored
when it is listed, and has to stay as it was told; an answer of `ask_before` that is
written a second time would change it. `DemoInv` says why it is not: of a start, and of
a worker that holds the reservation of a question, a session has one at a time
(`Exclusive`), and a question that is being worked on has no answer yet (`RequestOK`).
It also ties each awaited request to the place the beat has come to (`Fits`): the
history and the position, which are advanced separately, so stay in step. For
`OneStory`, which needs a tab to exist, `Continues` ties the awaited request's session
to the history, which only a restart leaves, and clears; and `CorrectedFirst` says that
an `ask_after` of this one tab, or what a lost one left running, was asked of a
corrected session. `ServerKeepsLedger` is the refinement of `AnswerLedger` by the two
halves of a request, in any number of tabs: memory is the revision that a session's
marks imply, and every stored answer may be shown to whoever asks again. It needs
`SeededFirst`, that no request but a start reaches a session before its facts are
stored (the cookie is set by a start that succeeded, and an orphan keeps its session),
and from `RequestOK` that a question being worked on has no answer. No run has it as a
property: that the full orchestrator implements the same ledger is checked
(`ImplementsLedger`) and proved (`LedgerImplemented`).

**ToolingProofs** (`LockAssumption`, `ToolsAssumption`), a part for each script. The
steps of the others leave its variables alone.

* *Lock*: `Exclusive`, `OwnRemoval`, under `CarefulOperator`. `LockInv`: the run
  between making and removing made the directory that is there. Without the
  assumption both fail.
* *Schema pack*: `PackInOrder`. `PackIInv` says that a run which executes a statement
  has everything before it that is not deferred, and that a checkpoint taken for
  done is one whose last statement was looked at.
* *Live migrations*: `LiveInOrder`. Statement 134 is one that only one operator can
  execute; `LiveIInv` says that at most one is beyond it or was told that he applied
  0008 (`Past`).
* *Probe*: `RemovedForGood`. An orphaned correction that finds no canary makes none
  (`ProbeIInv`), so it may arrive when it likes.
* *Verifiers*: `PassedSound`. The versions of a path only grow (`VersionsGrow`), and
  while a path keeps the version seen before the read, what was read is what stands
  there (`Held`); so two looks that agree enclose a read of the file that was there.
  `LookedAgain` carries this to the second round of the scripts that have one. Of a
  script that does not look again, the theorem tells what it read, not what stood.
* *Evidence writer*: `EvidenceSound`. What is linked was synced before
  (`AttemptOK`, `TargetOK`), and a noted attempt is on disk and in the directory both
  (`NotedOK`), so no failure of power makes room for a second one.
* *Finalizer*: `ProvenanceSound`. Nobody begins once a file was touched, so all who
  touched one captured the same inputs (`TouchedIsLatest`); `FilesOK` says whose
  hand each file shows.
* *Record of the tree*: `VerifiedSound`, `CreatedSound`. A recorder's file changes
  only while it is empty (`WritesOnce`), and what an audit has compared stays so as
  long as the tree is at rest (`StillSo`). That a record reported as created is whole
  and under its name holds only up to a number of interferences: a file opened in
  another directory goes unnoticed if the two directories change places before each
  look at them. `Turns` counts those changes along the run, `Enough` says how many
  it must have been, and the least that suffices is seven. TLC finds such a
  behaviour with `MaxEdits = 7`; so the bound in `CreatedSound` is the true one, and
  `EvidenceSoundThroughout`, the invariant that the run checks, has `MaxEdits < 7`
  as its hypothesis.

**ContractProofs** (`ContractsAssumption`). What is accepted was looked at once, so the
invariants are slight (what was admitted, answered "valid" or found coherent passed
its check); the proofs are of the rules.

* *Receipts*: `ReceiptsWhole`. Of the facts that two places repeat, those of the
  logical receipt are compared with it by every place, and the others with the version
  tuple (`OneStory`), but for `VerifierFacts`; that these must be excepted is proved
  too, as a receipt that tells two of them passes every rule (`VerifierUncompared`).
  Stage, row, evidence and tuple bound the dispatch from four sides, and
  `NothingHidden` needs all four.
* *Profile*: half of `OneMeaning`. An accepted table of codes divides all of them
  between the verdicts, an accepted table of outcomes gives each one code
  (`DividingTable`, `GivingTable`), which is both that a message has one reading and
  that no code is without a message (`ReadOnce`, `AllUsed`).
* *Schemas*: the other half. `SettlesOne` is what the depth-first walk keeps: what is
  complete refers only to what is complete, and never to what is active; so a walk to
  the end has sorted the definitions (`NotCyclic`), and none is circular. For such a
  catalogue two rounds of `Meaning` are a fixed point (`MeaningSettles`).
  `InspectedSound` goes through the keywords: running out of budget only ever refuses,
  and a list longer than what is looked at is longer than any admitted bound. Only for
  `oneOf` is a refusal of one alternative not enough, as it may be the budget's; there
  the property supposes that no value fits both (`Discriminated`). Texts without a
  repeated name have one value for both readers (`OneValue`).

Where these proofs need induction, over the numbers a walk has left, the items of a
list or the members of a sum, it is made of the set of numbers for which the claim
holds, which by the library's theorem on least elements is all of them (`Least`); and
a recursive function is replaced by the equation that defines it once a function that
satisfies it has been constructed (`VisitExists`, `TurnExists`, `SumExists`).

Only model-checked: liveness (`PageFinishes`, `RequestAnswered`, `MessagesSettle`),
which is out of the prover's reach. That two rounds of `Inspected` are the recursion
of the code is by inspection; two definitions are a bound of the model, not a constant
of the theorems, and so are the shapes and the texts of `ContractSchemas` and the
changed receipts of `ReceiptSemantics`.

## 5. Disagreements between code and documentation

Four are runs that TLC finds violated, with the quoted line in `PROJECT.json`:

1. `ask_after` may be answered from the uncorrected revision: it is admitted once
   `correct` is *reserved* (`ask_after_stale`).
2. A message whose leases lapse is claimed past the maximum of attempts; only an
   explicit retry counts (`retries_past_max`).
3. A database may be called applied without the last eleven statements of 0008,
   which leave no trace where the tool looks (`applied_is_complete`).
4. A receipt of an attempt that was never dispatched is valid with a dispatched
   tuple (`null_before_dispatch`).

Others follow from the same models and are recorded here without a run:

5. `latest_receipt` may return the receipt of `ask_before`: it returns the one
   whose transaction began last (`Latest` of HackathonCrdb), while
   `apps/web/src/main.tsx:24` says it is the receipt of `ask_after`.
6. README.md:202 of the repository calls the quota a rolling 24-hour window;
   migration 0009 windows the sessions and still sums every Titan and Nova call.
7. A lock cleared under a working run and taken again is removed by the first
   run: release compares the token and then removes by path in two further calls
   (`RemovesOnlyItsOwn` fails when `CarefulOperator` is FALSE), while
   `docs/architecture/workspace-boundaries.md:154` says a replaced lock is never
   deleted.
8. "Network connection lost. Retry." (`api.ts:162`): the retry of a `correct`
   never succeeds.
9. "paused by the operator" (`api.ts:164`) is what 503 says of every unknown
   outcome; a pause is answered 403.
10. "Session expired or missing" (`api.ts:160`) is what 403 says of every denied
   one.
11. The SQL select is said to match the local adapter
   (`h2-crdb-sql-recall-ledger.ts:160`); with a small topK they disclose different
   facts, as retracted facts take up places in one and not in the other.

One more is no disagreement, as nothing in the repository asks for it, but a reader of
an accepted receipt should know it:

12. The logical receipt names its verifier policy (`verifier_policy_id`) and the
    version of its projection rule (`projection_hint`); its version tuple names both
    again (`verifier_policy_version`). `inspectReceiptSemantics` compares neither, and
    the valid receipt of `tests/contracts/contracts.test.ts` has two verifier policies
    (lines 242 and 326). `TellsOneStory` excepts them.

## 6. Plan

Order of the work, the most important behaviour first:

1. *Done*: store, orchestrator, AnswerLedger; spending proved.
2. *Done*: outbox in both forms against one contract; the operation lock, proved;
   fixture; tenant context, proved; page and boundary; recall ledger in both
   forms.
3. *Done*: authentication, event revisions, tenant reads and tables; the
   transmission and the process of a request; migrations, probe and verifiers;
   evidence and provenance; contracts.
4. Next: the refinement of `DemoSession`'s server by `HackathonLive`, with several
   workers; the CI inventory of `verify-supply-chain` (a supervised child between
   two looks at what it runs), the output cleaner and the public export, all over
   paths that change between two calls.
5. *Done*: theorems for every safety invariant and action property of the runs, and
   the refinements (`LedgerImplemented`, `LedgerKept`, `RequestsKept`, the two of
   `OutboxContract`, and `ServerKeepsLedger`, which goes beyond the runs).
6. Next: with item 4, the theorem that `HackathonLive` implements the server of
   `DemoSession`; the contracts for any number of definitions.

### Not modelled, and why

`components` in `PROJECT.json` has every part with a reason. In short: parsing and
shape validation of inputs (each call either fails before it changes anything or
goes on with a value of the modelled set); formats of strings, the syntax of JSON
and the guards against objects that are not plain data; rendering; SQL privileges
in the live store, since a model of one tenant and purpose has nobody to keep
out; the proofs step and `h2-crdb-live-attest`, which only read; the generated
schema catalogue, which is data; the agent, dataset and receipt tools of H2, H3 and
H5, which keep nothing between two calls or refuse every call; the foundation,
domain, policy and worker packages, which are types, a guarded parser and stubs;
the rules of the checkers of sources, manifests and dependencies, which are
conditions on the contents of files read once; `safeWriteEvidence`, which nothing
calls; and infrastructure templates.

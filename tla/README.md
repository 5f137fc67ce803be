# Run Phantom in TLA+

This directory holds a TLA+ model of the parts of Run Phantom where money,
privacy, evidence and concurrency meet, the TLC configurations that check it on
small instances, and proofs, checked by TLAPS, that the central safety properties
hold for every instance. Paths are relative to `src/` of the repository's package;
`comparison*.ts` and `spend-ledger.ts` are in `prompts/`.

Run Phantom is a local debugger for AI-agent runs: one daemon per machine (Bun,
TypeScript, one SQLite database) that receives telemetry, stores runs, serves a
UI, and acts on the user's behalf: it sends saved prompts to model providers,
evaluates runs, imports evidence, verifies a web application through a browser.
Team mode runs the same stores in a shared service with accounts and roles.

## Inventory

| Component | State | Operations | What is hard | Modelled |
|---|---|---|---|---|
| Comparison ledger (`comparison-store.ts`, `comparison-storage.ts`, `spend-ledger.ts`) | two tables, operations and attempts; generation counters per scope | submit, start, finish, cancel, clear, terminatePending, recover; triggers on prompt, scope and operation rows | money is held, charged and measured by different transactions; content is removed under running work | yes, proved |
| Comparison coordinator, owner lease, runtime (`comparison.ts`, `comparison-owner.ts`, `comparison-runtime.ts`, `coding-hooks/owner.ts`) | pending entries, dispatch slots, scheduled operations, timer; an exclusive kernel port | submit, pump, provider continuations, poll, cancel, clear, close, recovery | await points, late answers, crashes, lost leases, two limits in two places | yes, proved but for liveness |
| Comparison protocol, providers, routes | none | parse, price, send one request | timeouts and aborts | as the environment of the coordinator |
| Prompt registry (`prompts/registry.ts`) | prompts, revisions, generation | create, revise, delete, clear | removal under comparisons | removal only |
| Evaluation jobs, datasets, experiments (`evaluations/service.ts`, `store.ts`) | dataset revisions, experiments, active jobs | import, update, start, run, cancel, reset, recover | compare-and-swap progress across awaits; two daemons over one database | yes, proved |
| Review queues (`review-queues/`) | queues, items, mutation and promotion receipts | create, intake, draft, reopen, decide, remove, promote | late and repeated requests; sources that return | yes, proved in part |
| Evidence import (`evaluations/evidence-*.ts`) | jobs, sets, payloads, a worker process | reserve, import, cancel, retain, purge | reservations, late workers, fences | yes, proved but for liveness |
| Dataset execution (`evaluations/execution-*.ts`, `executor.ts`) | receipts, attempts, content; dispatch permits | admit, begin, publish, cancel, recover, clear | same money rules; retries; callbacks that outlive their abort | no, not wired into the program |
| Verification (`verification/`) | sessions, commands, event ring; in the page queues and observers | pair, command, record, act, assert, run a flow | correlation, timeouts, bounded buffers, losses | bridge, service and page runtime; not recordings and automation |
| Ingestion, runs, notes (`db.ts`, `annotations.ts`, `ingest.ts`, `server.ts`) | runs, spans, notes, an identity map in memory | ingest, live events, annotate, import, delete, clear | telemetry that is late, repeated or rolled back; notes without a foreign key | writes of runs and notes, notes proved |
| Replay (`replay.ts`, `replay-map.ts`) | placeholder runs, waiting requests | start, poll, promote, fail | the answer is found by identity while others run, clients leave, runs are deleted | yes |
| Team service (`team/`) | accounts, projects, memberships, checks, audit | sessions, roles, ingestion, search | roles change under open work | roles, project and run deletion |
| Coding hooks (`coding-hooks/`) | installations with their private files and lock files, sessions and observations, a controller with few places | install, uninstall, activate, transport, admit, publish, clear | one callback is three requests with a file read between them; management stops at every file it touches; revocation comes before all of it | the Claude platform, proved |
| Search, pricing, claims, chat sessions, installers, UI | projections of runs | query, render | mostly data conversion and I/O | no |

Interactions: HTTP handlers call a coordinator or a store directly; every store
operation is one immediate SQLite transaction; the coordinators call the store
before a provider request or a worker and again in its continuation; stores of
other components change rows the comparison triggers react to; another process
may hold the database when this one's lease is gone.

What makes each part correct, in a sentence:

- comparison ledger: no provider costs more than its ceiling until it reports an
  overage, started work is never refunded, removed content never returns;
- comparison coordinator: an attempt is sent at most once and only after it was
  charged, nothing is published under a lapsed authority, what was accepted is
  settled;
- evidence import: an operation key appends at most one revision, quotas hold
  with their reservations, a removal or a clear is final for everything below it;
- evaluation jobs: a row records the checks that were made, a decision is final,
  nothing active is without a job that will decide it;
- review queues: what is promoted is what was approved, once, and no revision
  comes back under a source that was removed and captured again;
- verification: a passing verdict is true of the document it names, and whoever
  takes a session's lock gives it back;
- captured runs and replays: a replay is completed by a trace of its own, no note
  is lost or left on a run its author never saw;
- prompt registry and dataset execution: versions and generations fence every late
  write;
- coding hooks: revoked capture records nothing, evidence is not taken back, an active
  policy has its credential;
- Team service: a role change takes effect in every transaction after it.

## Modules

| Module | Stands for |
|---|---|
| `SpendPromise` | abstract: one account per attempt, ceilings, no refunds |
| `ComparisonLedger` | the tables and transactions of `ComparisonStore`, their triggers, and what other stores do to the same rows |
| `ComparisonCoordinator` | daemons (memory, event loop, kernel lease) over one `ComparisonLedger` |
| `ComparisonLedgerProofs` | theorems about `ComparisonLedger` |
| `CoordinatorProofs` | theorems about `ComparisonCoordinator`, on those of the ledger |
| `EvidenceHistory` | abstract: operations decided once, lines of revisions, removals that close what is open |
| `EvidenceStore` | the tables and transactions of `evaluations/evidence-store.ts` |
| `EvidenceImport` | `EvidenceImportService`, its supervisor and `TeamEvidence` over one `EvidenceStore` |
| `EvidenceStoreProofs` | theorems about `EvidenceStore`, with step lemmas that serve the imports too |
| `EvidenceImportProofs` | theorems about `EvidenceImport` |
| `EventRing` | `verification/ring-buffer.ts`, as operators |
| `VerificationBridge` | one session of `verification/bridge.ts`, its sockets, and the page's half in `verification/browser/` |
| `VerificationService` | `verification/service.ts` over that session: actions, assertions, flows, the check loop |
| `VerificationProofs` | theorems about `VerificationService` |
| `Datasets` | datasets and their revisions |
| `ReviewQueue` | `review-queues/store.ts` over `Datasets` |
| `EvaluationJobs` | `evaluations/service.ts` and the experiments of `evaluations/store.ts` |
| `EvaluationWorkspace` | the two together in one database, with Clear workspace |
| `EvaluationProofs` | theorems about `EvaluationWorkspace` |
| `RunCapture` | runs, spans, notes and the identity map |
| `Replays` | `replay.ts` over `RunCapture` |
| `ReplaysProofs` | theorems about `Replays` |
| `HookStore` | the tables and transactions of the coding hooks and the triggers of `drizzle/0010_coding_hooks.sql` |
| `CodingHooks` | callbacks, the controller, Clear, shutdown, crash and restart over one `HookStore` |
| `HookManagement` | installation, removal and activation of context v2 through the daemon |
| `HooksProofs` | theorems about `HookManagement`, that is the hooks as a whole |
| `MC...` | small instances |

`ComparisonCoordinator` EXTENDS `ComparisonLedger`, `EvidenceImport` EXTENDS
`EvidenceStore`, `VerificationService` EXTENDS `VerificationBridge` and `Replays`
EXTENDS `RunCapture`: a step of the service is a turn of the event loop that
contains the transactions (or the handlers) it runs. `EvaluationWorkspace` EXTENDS
`ReviewQueue` and `EvaluationJobs`, which share `Datasets`. `HookManagement` EXTENDS
`CodingHooks`, which EXTENDS `HookStore`. `PromiseKept` and
`HistoryKept` instantiate the abstract modules under a refinement mapping.

Four modules have a `scenario`: a record of bounds chosen at the start and never
changed (which documents raise errors, which batches are sent, how many daemons
start). It makes an instance the union of a few small ones and not their product.
Properties do not read it, but for one flag: `stopped`, set when the hooks' daemon has
ended.

### ComparisonLedger

`head` is `prompt_comparisons`, `row` is `prompt_comparison_attempts` (a row is
"absent" until its operation is stored), `scope` holds the generations that fence
access, the acting member's role and the live prompts, `owner` is the lease. Each
action is one method of `ComparisonStore` that writes: `Submit`, `Start` with
`StartRefused`, `FinishCompleted` and `FinishFailed`, `Cancel`, `Clear`,
`TerminatePending`, `RecoverPending`; a transaction that throws changes nothing
and is no step. The triggers of `comparison-storage.ts` are `Tombstone`, part of
every action that fires them (`Clear`, `DeletePrompt`, `ClearPrompts`,
`DestroyScope`, a publication that does not fit). Time is `DeadlinePasses`.

Abstractions. Compiled prompts, outputs and rates are present or gone; usage is an
amount, unpriced, or more than a charge can hold, with a flag for exceeded token
ceilings; request digests are requests. What retained bytes leave for an answer is
the choice `Room`. One member acts in a scope. The configured ceiling is constant.
`finish` may also throw when even the tombstoned operation does not fit; that step
changes nothing and is left out. `destroy` happens only through the project
deletion trigger.

### ComparisonCoordinator

A daemon's `pending`, `slots`, `scheduled` and `timer` are the fields of
`ComparisonCoordinator`; `turn` says what the loop is in the middle of. Inside a
turn no other callback of that daemon runs, but another process may act on the
database ("external changes", `comparison.ts:61`), so the transactions of one turn
are separate steps and `Surroundings` may come between them. A provider request is
a slot in state "sent" that settles with an answer, a refusal or an error; `sent`
counts what each provider received. `Crash` and `LoseLease` may come at any time;
`Recover` is the startup of `comparison-runtime.ts`.

Left out: the limit of 1000 scheduled operations (`comparison.ts:22`), the owner's
busy answer (the pump compares the same number before it dispatches), waiting for
idle.

### EvidenceStore

A completed job owns what it published, so `job` stands for jobs, sets, artifacts,
blobs and payloads; a set is named by the job of its first revision. `blob`,
`payload` and `revisionData` are bytes held, and the sums of
`heldNormalizedEvidenceBytes` and of the raw quota are the numbers of bytes held.
Each transaction of `EvidenceStore` that writes is an action. The publication token
of a job changes exactly when the job ends without publishing and job ids are
random, so the token is left out: its comparison is the job being stored and
pending. Inventories, finding tables and digests are left out. `anchor` are the
runs reports are attached to and `DeleteRun` is `TeamStore.deleteRun` with
`assertRunInactive`.

### EvidenceImport

An `entry` is one receipt of `EvidenceImportService`; `line` is the order in which the
`Set` of entries is iterated; `pumping` is the loop of `#pump`, during which nothing
else in the process runs. `Stages` follow the promises a receipt waits for: its frame
header, its slot (`ready`), its sources, its worker, or the catch clause that comes
next. The supervisor's own queue is always empty, because the service has at most as
many active receipts as the supervisor has workers. A worker is an answer or a failure
that comes at any time. `sweep` is a clear or a run deletion waiting for receipts;
once its receipts are over it goes on before a new one enters (`Enters`), as the
continuation of its promise does before another request is a callback. `Shutdown` is
`TeamEvidence.close`, `Restart` its constructor.

Left out: frames and their digests, `initialize` (a no-op after the constructor's
recovery), a reparse that is refused or joins a stored operation (over in one
turn, it changes nothing), timings, and the local server's variant of run deletion,
which does not look at the imports again after invalidating them.

### VerificationBridge, EventRing and VerificationService

`sess` is one `VerificationSession`: every handler of the bridge is a function of
this record (`Loss`, `Invalidate`, `Pair`, `Accept`), and its promise is `reply`. A
connection is one WebSocket with the document that opened it: `sock` is the daemon's
end, `page` the runtime of `verification/browser/`, `up` and `down` the two ordered
directions between them. A page captures before the daemon is ready (`early`),
answers a command with all its frames at once or dies in the middle, and may leave
at any time. A socket that the daemon terminates stays "closing" until its close
event, and frames that were read before still reach `Frame`, where the comparison of
socket and generation rejects them. `caller` is the one call that holds the
session's lock and what it awaits; the promise of a command and the continuation
that awaits it are separate steps, so frames may come between.

The properties compare the daemon's verdict with `page` and `history`, which the
daemon does not see: what the documents captured, and what was delivered.

`EventRing` is the bounded buffer with its binary search (`LowerBound`, a recursive
function of the record of its two ends); the search is right because stamps grow with
the index (`Sorted`), which `WindowComplete` states and the proof shows. What a check
observed is the set of events of its window, which their stamps order.

Abstractions. `tick()` is `max(Date.now(), cursor + 1)`; only its order is kept. A
command's id is the cursor at which it was issued, as unique as the UUID. The quiet
interval is a boolean that time sets and activity clears. The byte and age limits of
the ring evict the number `pressed` of old events at a push. Predicates are one of
each kind: absence (no console error), presence with attribution (a network
response) and a relative change (two readings around a click). Left out: several
sessions and their limits, credentials, source provenance, semantic trees, response
bodies, performance marks, redaction, state, element and signal predicates (they
read in the loop, by the same command), snapshots, repairs, and the age of relative
readings.

### Datasets, ReviewQueue, EvaluationJobs, EvaluationWorkspace

`dataset` holds every dataset's revisions, `issued` the UUIDs that were drawn.
`ReviewQueue` has an action for every operation that writes a queue, an item or a
receipt; an item is named by its queue and its source, so that an item that is
removed and captured again is the same name with a new row, which is what late
requests are about. Promotion appends a revision, marks the items and writes the
receipt in one step, as in `promoteApprovedReviewItems`. `DropDataset` and
`DeleteSource` include the cascades.

`experiment` is the table, shared by every daemon over the database; `job` is the
entry of `EvaluationService`'s map with the state of its `run()`; `daemons` lists the
daemons in the order they started. The loop of `run()` is cut at its waits: the timer
(`Begin`), the judge's answer (`JudgeEnds`), `setImmediate` (`Continue`). A write of
progress is accepted only while the row is active (`Accepted`), else the job ends.
`Break` is an exception in the loop, and of its handler; `Clear` is
`POST /api/clear`, whose database part may fail after the jobs were dropped. Either
leaves active rows without a job until a cancellation or the next boot (`stranded`).

Abstractions. An editor lists cases of the latest revision in any order and may add
one, which is what `freezeCases` makes of a draft. A case is its identity with the
kinds of its rules (decided by code, by a judge, or unmatched), a draft is a value of
`Drafts`, of which those in `Complete` may be approved. Requests that are refused or
repeat what was done change nothing and are no steps. Byte budgets, times, texts,
schemas and the aggregation of trials are left out. What an evidence import holds is
the arbitrary set `held`. Reviews of experiments, comparison of experiments and the
calls to a judge are not modelled. A cancelled or interrupted experiment whose checks
were all recorded keeps its verdict, which the code allows and `ExperimentsHonest`
does too.

### RunCapture and Replays

`run`, `spans` and `note` are three tables, `map` is `replay-map.ts` in the order of
insertion. A batch is a sequence of traces with the identities their attributes give;
`IngestTraces` is the whole transaction, `IngestFails` its rollback, which leaves the
entries of the map behind (`server.ts`). `Born` counts how often a run was
created, so that properties can tell the run an author saw from a later one of the
same id. A `task` is one replay request between two of its waits; finding its agent,
asking it and polling are separate phases, and the client may disconnect in each.
`Promote` is `promoteLocalReplayRun`: notes are handed over before the placeholder's
rows go.

Agents are honest: `Carries` says which replay a trace is the work of, and a batch of
that trace names this replay by its span attributes, by its event id, or not at all,
in any order and more than once (`CarriesAssumption`). A trace file names any run, a
placeholder's too, and gives it any metadata, which `importTrace` writes back: a file can
dress a run as a replay, as the export of one does (`tests/trace-portability.test.ts`).
`RestoredRow` is what it leaves, an event id that an old file does not name included; of
the event id only, a file says what a batch of that trace would. `restored` is history: it
marks a row whose event id or metadata are a file's, until a replay writes its own. The
map after a batch is a recursive function of how many of its traces were tagged
(`MapAfter`). `MaxEntries` is 1, so the map evicts. Left out:
payloads, names, times, pricing, the rows of live events (a live event creates or
updates its run), demonstration traces, search and listing. Evidence imports attached
to a run are the arbitrary set `held`, and the waits of `DELETE /api/runs` are the
guard of `Erase`. `adoptRunByEventId`, `upsertEventSpan` and
`findRecentRunByEventName` are not called by the program. No liveness is claimed:
the request to the agent has no timeout of the program's own.

### HookStore, CodingHooks and HookManagement

`row` is `coding_hook_installations`, `session` and `tool` the rows of one session per
registered root and of one tool in it, `owner` the owner row with `ownerActive()`.
Random generations and tokens are numbers drawn from `fresh`. A transcript is the
sequence of the tool's results in an incarnation, success, failure or "unknown" where the
record does not say whether it is an error (`claude.ts:361`); a cursor counts its lines. A
hook event says that the tool is pending or how it ended, "interrupted" included. Under
full capture an observation has a body, or none when it is beyond a limit (`:392`, `:399`).

A callback is a process: it reads the private file, asks for the transport, reads the
file again, is admitted, reads the transcript, publishes. Each request is given a place
by `Handle`, served as one transaction, and may end at any time before that on either
side. `Merged` is what both protocols make of an observation over a retained one, and
`Observed` what a callback makes of one hook event and the lines it read.
`ctl` is the sequence of controllers the daemon had: Clear replaces the last one after
waiting for its work and for the management requests it found.

A management request (`mgr`) is cut at its awaits: the lock file, the settings, the
private file, the drain of the controller; an install that finds the owner revoked
disables the row, writes the disabled file and lets the lock go in three steps. `lock[i]` is the `.lock` file, taken with
O_EXCL and found busy, not waited for. Any await may fail, which is `Abandoned`,
`InstallFails` or `ActivateFails`. A credential is `old` once its installation was
disabled or fenced or the owner's generation moved, although the private file or a
callback's memory still has it; only the properties read the mark.

The code does some things here that no property forbids and a reader may not expect:

- A later result that does not say whether it is an error replaces an outcome, or a
  retained conflict, by "unknown", since "unknown" is neither pending nor terminal
  (`store.ts:258`, `context-store.ts:71`), and the next outcome then stands alone, although
  conflicts "remain visible" (`docs/claude-hooks.md:90`). And an observation whose
  body is beyond a limit erases the body that full capture retained (`store.ts:260` keeps
  it under metadata only). `EvidenceKept` allows these two and nothing else.
- A removal rotates the row's credential before it compares the private file with it
  (`management.ts:198`, `:216`), so the file stays with its dead credential.
- A transition that fails or finds the database busy leaves the controller paused
  until the next Clear or restart; a repeated activation that finds the catalogs
  changed already returns "unchanged" and does not resume it (`management.ts:102`).
- A callback whose first admission comes after a Clear, under a token that is still
  valid, creates an empty session with its run: an admission of context v2 compares no
  owner generation (`context-store.ts:32`). Its publication is refused.
- A crash while a lock file is held leaves management of that installation busy until
  the file is removed by hand (`management.ts:69`).
- A Clear that fails leaves `clearingHooks` set (`server.ts:1861`), and two at once
  each make a controller, of which the second replaces the first without draining it.
- A daemon that ends between the commit of a transition and its files leaves an active
  row with a disabled file (`management.ts:126`); `ActiveHasCapability` allows exactly
  this, after a daemon ended.

Left out: the Cursor and Codex platforms, agents' own transcripts, prompts, assistants,
usage, session closure, projections and their witnesses, quotas, settings files (a
failure stands for what they refuse), unregistering one workspace of several, doctor,
Windows, management by a command while no daemon runs, and a database that is busy
while a failure is being written down.

## What is checked

Deadlock checking is off only where an instance legitimately stops (every
operation decided, a model bound reached); the evidence imports run with it.

| Run | Question | Instance |
|---|---|---|
| `ledger` | Do holds, charges, ceilings, the fuse and the abstract promise survive every order of transactions; does removal take content and authority, and nothing else? | two scenarios: 2 operations of up to 2 targets over 2 providers, ceilings 3 and 1, one lease; or 1 operation of 2 targets, 2 prompts, 2 generations, 2 leases, changing roles, before its deadline and within its reservations |
| `coordinator` | Is a request sent once, after its charge, although daemons crash, lose leases and take over; is the queue sound and nothing published under a lapsed authority? | two scenarios: 2 daemons with one target per operation and one disturbance at a time, or 1 daemon with two targets per operation; 2 operations, one slot |
| `coordinator_live` | Is what a daemon accepted settled? | 1 daemon, 2 operations, one slot |
| `coordinator_deadline` | Does every attempt end at its deadline? (No, see below.) | 1 daemon, 2 operations of 2 targets, 2 prompts |
| `evidence_store` | Do quotas hold with reservations, and does the store keep `EvidenceHistory`? | 3 jobs, 3 keys, 2 kinds of reports, 1 active, 2 queued, 2 generations, all roles |
| `evidence_import` | Do memory and table agree, is no reservation orphaned, nothing published from removed bytes, cleared under a live receipt, or attached to a deleted run? | 2 jobs, 2 keys, 2 receipts, 1 active, 2 clears or deletions that may overlap, crash and restart |
| `evidence_live` | Does every receipt end, and every clear or deletion that awaits one? | 2 receipts, 2 jobs, 1 key, sessions may end |
| `evidence_revoked` | Does the end of a receipt release its reservation? (Not when the session is gone, see below.) | an editor, 2 receipts, sessions may end |
| `verification` | Is a passing verdict true of the document, does every command have one owner, is the lock given back? | 6 scenarios: up to 2 documents, 2 errors, 2 requests, 3 calls, a ring of 4 events |
| `evaluation_workspace` | Are promotions exact, results honest and final, active rows owned, revisions never reused? | 7 scenarios: 2 dataset ids, 1 queue, 2 sources, up to 7 revisions of a review, 3 experiments (2 active, 2 kept) of 2 checks, 2 daemons |
| `coding_hooks` | Does nothing revoked capture, is evidence kept, has an active policy its credential? | 11 scenarios: up to 3 callbacks over one place and one in the queue, 2 installations, 2 management requests, 2 Clears, one failure, crash and restart |
| `captures` | Is a replay completed by its own trace, and every note kept? | 6 scenarios: 4 traces, 2 replays, 2 spans, 2 notes, 4 trace files over runs, a placeholder and no event, a map of 1 entry |

Why these bounds are enough to be interesting: two operations of two targets are the
least with which cancelling one operation can disturb another, a budget can refuse
half of what is asked, and an overage of one attempt can meet a queued one; one slot
makes every second start wait; the second lease is the one that finds the first
one's rows; the second generation is what a stale fence fails against. For
evidence, three jobs are the least for a first revision, a second one and a rival;
one active and two queued make both limits bite; quotas of two raw and five
normalized bytes with reservations of one and two are full before the jobs run out.
An instance of `EvidenceImport` with three receipts, three jobs and two active slots
(1.6 million states) showed nothing the small one does not. `MaxOwners`,
`MaxDisturbances` and `MaxGeneration` are the model bounds; the last is
`Number.MAX_SAFE_INTEGER` in the code, where a clear is refused, and the refusal is
modelled.

For verification, two documents are what a stale socket or a stale turn needs, two
requests let one outlive the action of the other, and a ring of four evicts within
three calls. For evaluations, two drafts (one complete), two mutation ids and two
promotion keys let a request repeat or arrive after another; two sources let a
promotion name one item that is ready and one that is not; a second daemon is the one
that recovers, or overlaps with, the first; with two active and two kept of three
experiments both limits refuse or evict. For captures, two traces of one replay
compete, one of another replay evicts its entry, and one of no replay is the run that
must never be taken; the second life of a run is the one a stale note would be left
on. For the hooks, two callbacks are what an overtaken batch needs and three fill the
places; two lines let a result that says nothing follow one that did; two installations share a root or do not; two management requests meet at one
lock file or nest two in the order of a plan. In each of these runs every disjunct of
the next-state relation is taken.

Symmetry is used in safety runs only. Type invariants are checked where they are not
implied by other properties of the same run (`QueueSound` contains the shape of the
coordinator's entries and slots, `SlotsAgree` that of the receipts' line).

### Fairness

In `ComparisonCoordinator`, startup recovers, a begun turn ends and an armed
timer fires (weak fairness: nothing else in the process can run before them, or
they stay due), and a provider request settles, because its own deadline aborts it
(strong fairness: its continuation is due again and again but other turns come
between).

In `EvidenceImport`, the rest of a pump runs (weak); the timer of a receipt,
the end of a worker (killed after `MAX_SOURCE_MS` at the latest, `evidence-supervisor.ts:144`),
the catch clause of a rejected receipt, the continuation of a granted reparse and of
a drained sweep run although other callbacks come between (strong). Nothing is
assumed about clients: an upload may stall for ever, and `ReceiptsEnd` depends on
the timer alone.

In `VerificationService`, the timeout of a command, the check's deadline and the
caller's continuations happen (weak fairness: they are timers and resumed promises,
and stay due). Pages, sockets and the readers of their frames promise nothing, so
`LockReleased` holds because every await of the lock's holder has a timer.

### Where code and documentation disagree

- `coordinator_deadline`: `docs/model-comparisons.md` gives every attempt a thirty
  second deadline from admission. `ComparisonCoordinator.submit` stores the receipt
  before the queue in memory is compared with its limit. After a prompt deletion
  the two queues disagree until the next poll, and a submit in between is stored and
  then refused: its attempts keep their holds, nobody has them in memory, and only a
  retry of the same key or a restart ends them.
- `evidence_revoked`: `docs/evidence-import.md` says abort, malformed bytes and
  timeout release the reservation. They do so by `EvidenceStore.fail` under the
  session that began the import. When that session has ended, or its member lost the
  editor role, `fail` throws; the receipt is released all the same, and the row stays
  queued or running, with its reservation and one of the two running slots of the
  whole service, until another member cancels it, the scope is cleared or the
  service restarts. Nothing else on this instance orphans a row: `ReservationsOwned` holds
  where members keep their roles.

## What is proved

`ComparisonLedgerProofs` proves, for every set of operations, positions, scopes and
providers, every ceiling and every limit (assuming the finiteness and limit
assumptions at the head of `ComparisonLedger`, and nothing about requests beyond
their shape):

| Theorem | Property |
|---|---|
| `TypeCorrect` | `TypeOK` |
| `AccountingHolds` | `AccountingShape` |
| `BudgetCeilingHolds` | `BudgetCeiling` |
| `DispatchBoundHolds` | `DispatchBound`: running attempts within the slots, queued operations within the queue (not among the runs' properties) |
| `NoRefundHolds` | `NoRefund` |
| `OverageFuseHolds` | `OverageFuse` |
| `FinalAccountingHolds` | `FinalAccounting` |
| `ContentRemovedHolds` | `ContentRemoved` |
| `PromiseHolds` | `PromiseKept`: `ComparisonLedger` implements `SpendPromise` |

The argument. The inductive invariant is

    LedgerInv == TypeOK /\ AccountingShape /\ RowsMatchHeads

`AccountingShape` alone is not inductive: that `submit` inserts rows where none are
needs `RowsMatchHeads` (an operation that is not stored has no rows). Every
transaction moves each row in one of a few ways (`Moved`: opened, refused, released,
charged, settled, erased, or unchanged); lemma `Steps` shows, action by action, that
a step either submits one operation and leaves the other rows alone, or advances
rows. `AccountingHolds`, `FinalAccountingHolds`, `NoRefundHolds` and the refinement
then argue about moves of a single row and no longer about actions.

The sum of money is the number of units it consists of: `CommittedUnits(p)` is the
set of pairs of an attempt and an `i` up to its hold plus charge, and `Exposure` its
cardinality. A row that advances without a breach commits a subset of the units it
committed (`AdvancedCommits`), so the exposure does not grow; a submit adds at most
the requested units, which the guard of `submit` has room for
(`SubmitWithinCeiling`). Breaches persist, so the theorem holds until the first one.
`DispatchBoundHolds` counts rows and operations in the same way. For the refinement,
`AccountFields` reads an account off a row and each move of a row is a step of
`SpendPromise` or a stutter.

The other theorems are about the evaluation workspace and replays, for every set of
identities, every scenario and every limit:

| Theorem | Module | Property |
|---|---|---|
| `RowsAreHonest` | `EvaluationProofs` | `ExperimentsHonest` |
| `ActiveRowsAreOwned` | `EvaluationProofs` | `ActiveIsOwned` |
| `DecidedIsFinal` | `EvaluationProofs` | `TerminalIsFinal` |
| `RevisionsAreNeverReused` | `EvaluationProofs` | `RevisionsNeverReused` |
| `PromotionsAreExact` | `EvaluationProofs` | `PromotionExact` |
| `NotesAreKept` | `ReplaysProofs` | `NotesKept` |
| `StitchIsExact` | `ReplaysProofs` | `StitchExact` |

`EvaluationProofs` needs the invariant `JobsInv`: types, and for each experiment
`Sound` (the row is exactly what its job has recorded, as long as the job may still
write; a judge was asked about at most one check more than the row has, in order;
what is decided no longer depends on the job) and `Owned` (an active row that no
failure stranded belongs to a valid job of the daemon that serves, if it is up). A
daemon that was replaced has valid jobs as well: what keeps them from writing is that
the boot decided their rows, and rows are never active again. That is `Sound`'s
clause about jobs of earlier daemons, and why `ActiveIsOwned` alone is not inductive.

`RevisionsInv` bounds the history `taken`: the revisions a source
has had in a queue that exists are below `next_ordinal`, none is above its item's
current one, and the id of a queue that is gone is never drawn again. Hence a new
intake, which starts at `next_ordinal`, and every mutation, which adds one, are new.

`PromotionInv`, on top of it, is about what outlives a promotion. A receipt names a
revision that exists and what that revision added (`ReceiptSound`), which later
revisions leave alone; a promoted item names a dataset whose id was drawn, so that if
the dataset goes, no other ever has its name (`ItemSound`: without it an item could
come to name a revision of a dataset created later). An approved item still has
the draft that was approved, as nothing edits it before it is reopened. There are
finitely many items under review, each having come by one intake, hence a promotion adds
one case for each item it names, in some order. The one assumption it adds to those of
the models is that an imported case list is a list.

`NotesInv` of `ReplaysProofs` says that every note is attached (its run is stored, in
the life the note remembers, with the note's span) and that only a request that is
over has a final run. Each step keeps it and moves no other note, which is the action
property.

`StitchExact` is not inductive: it says nothing of the two places a replay looks for its
trace in. `StitchInv` adds them. The map holds identities only, pairs of a trace and the
replay it is the work of (`Identity`), and a stored trace has no event id but its own
replay's (`TraceSound`); a placeholder has an error only if its replay ended without a
run (`PlaceholderSound`). A row that a file restored is exempt in both, as in the
property: it may be dressed as any replay, and a file may bring a placeholder back after
its replay was completed. What a file cannot do is complete a replay: `final` names a
trace of the replay's own whatever was imported. That a batch, or the part of a batch that was tagged before its
transaction failed, leaves nothing else in the map is `MapHoldsIdentities`, by
induction on how many of its traces were tagged. The induction is by a least
counterexample (`Least`, from `WFMin`), as the library's induction theorems take the
predicate as a parameter; the same argument shows that the recursive function exists.
What agents put in their spans (`CarriesAssumption`) is all it assumes beside the shapes.

### The evidence store and the imports

`EvidenceStoreProofs` and `EvidenceImportProofs` assume what the two models assume of
their constants, and every run evaluates: there are finitely many jobs, a report says how
much of it is retained, limits are natural numbers and the reservation for a normalized
report is positive, actors start with a known role and role changes give one, and `None`
is no job, request, attachment or record.

| Theorem | Module | Property |
|---|---|---|
| `StoreTypeCorrect` | `EvidenceStoreProofs` | types of the store alone |
| `ReservationsHold` | `EvidenceStoreProofs` | `ReservedWhilePending` |
| `QuotasHold` | `EvidenceStoreProofs` | `QuotaHeld` |
| `AnchorsHold` | `EvidenceStoreProofs` | `AnchoredWork` |
| `HistoryHolds` | `EvidenceStoreProofs` | `HistoryKept`: `EvidenceStore` implements `EvidenceHistory` |
| `RevisionsFollow` | `EvidenceStoreProofs` | the revisions of a set are 1, 2, 3, ... |
| `ImportTypeCorrect` | `EvidenceImportProofs` | types of the service over the store |
| `ImportHoldsQuotas`, `ImportKeepsAnchors`, `ImportKeepsHistory` | `EvidenceImportProofs` | `QuotaHeld`, `AnchoredWork`, `HistoryKept` under the service |
| `SlotsAlwaysAgree` | `EvidenceImportProofs` | `SlotsAgree` |
| `RetainedAlways` | `EvidenceImportProofs` | `RetainedWhenReparsed` |
| `ClearsWhenQuiet` | `EvidenceImportProofs` | `ClearedWhenQuiet` |
| `ReservationsAlwaysOwned` | `EvidenceImportProofs` | `ReservationsOwned`, where every role a member may be given can import |

The store's lemmas are about `StoreMoves`, a step that may end any set of pending
jobs at once: the store's own actions are such steps, and so is every turn of the
service, which is how one set of lemmas serves both specifications. `Follows` says
what a step does to one job. A byte is a unit, a pair of a job and a number up to
what the job is charged with, and `RawHeld` and `NormalizedHeld` are sets of units:
a step that admits no job charges no new unit, a step that does adds what the guard
has room for. The refinement and the numbering of revisions need `HistoryInv`
(a job is of the current generation of its scope, and the job whose set it revises
is stored, completed and a first revision).

For the service, `ImportInv` adds that the line holds the busy receipts, each once,
that a receipt's job is of its scope and draft, and that two receipts never own one
job. Three properties need more. `RetainedAlways` needs that a working reparse found
its source and that the source is a revision of that scope (`Sourced`).
`ClearsWhenQuiet` needs that a draining clear awaits exactly the receipts of its
scope, and that the scope is blocked while it awaits any (`AllQuieting`); with two
overlapping clears this fails unless a drained clear comes before new receipts enter,
which is what the promise continuations of the code do and the model now says.
`ReservationsAlwaysOwned` needs that whoever has a receipt may still import
(`Importers`). Its hypothesis is not decoration: the run `evidence_revoked` shows the
property false without it.

### The coordinator

| Theorem | Property |
|---|---|
| `LedgerImplemented` | `CoordinatorSpec => Spec`: daemons use the ledger only as it allows |
| `QueueSoundHolds` | `QueueSound` |
| `SentOnceHolds` | `SentOnceAndCharged` |
| `RunningIsOwnedHolds` | `RunningIsOwned` |
| `PublishedUnderAuthorityHolds` | `PublishedUnderAuthority` |
| `FrozenPromptHolds` (`ComparisonLedgerProofs`) | `FrozenPromptLives` |

By `LedgerImplemented` every theorem about `ComparisonLedger` holds of the daemons.
The other theorems start from `Base`, the ledger's invariant with the types of a
daemon's memory and `Memory` (queue, slots and scheduled operations within their
limits, no attempt twice). That a receipt's entries are a sequence without repetition
is the lemma `AscendingSorts`, which needs a proof that a finite set of numbers has an
ascending enumeration (by rank; no induction). It assumes that positions are
numbers (`PositionAssumption`).

`SentOnceHolds`: most steps are `Calm` (no status becomes "running"), and the one that
starts an attempt is the one that charges it. `RunningIsOwnedHolds` needs `Leases`:
no two daemons were born under one lease, so that only one can have the authority to
settle a row. `PublishedUnderAuthorityHolds` needs `FencesMatch`: the generations an
entry remembers are those of its operation, which never change; the store compares
the operation's with the scope's, and so vouches for the entry's.
`FrozenPromptHolds` needs the action lemma `RegistryMoves`: what leaves a registry takes
its operations with it.

### The coding hooks

For every set of installations, roots, callbacks and management requests, every
limit and every scenario whose rows have credentials of their own
(`ScenarioAssumption`):

| Theorem | Property |
|---|---|
| `HooksTypeCorrect` | types of the whole |
| `EvidenceIsKept` | `EvidenceKept` |
| `RevokedNeverCaptures` | `RevokedCapturesNothing` |
| `ActiveHasItsCapability` | `ActiveHasCapability` |

The first three rest on `CaptureInv`, the last on `HooksInv`, which adds four parts to it.
Every step moves rows and owner in one of three ways
(`StoreMoves`: as it was, disabled under values drawn in this step, or only
another state), so generations are drawn once and no two rows share one
(`GenerationsDrawn`). A credential, in a file, a callback or a management request, is
`Sound`: it names a generation that no other row has, and if it is marked old, its
row or its owner has moved on. Since generations never come back, soundness is stable,
and a publication, which compares both generations, refuses what is old: that is
`RevokedNeverCaptures`. Credentials travel (`Carried`): from the file to a callback, to
its next requests, from a manager to the file; each is sound because where it came
from was. An activation writes files in the order of its plan, and which generation it
writes to which depends on how far it is (`PlansFollowed`).

`EvidenceIsKept` needs two more parts. `SessionsInOrder`: a session that published nothing has
no tool, offsets are of transcripts, and an unknown phase comes from a line of one
(`InOrder`), which is why an outcome gives way to it only further on in the transcript.
`RepliesInOrder`: a callback works under one
mode, that of every row with its generation (`UnderMode`); otherwise a body read in full
could be published after the policy became metadata, and one captured in full be
dropped by a batch that was read under metadata and published under full. A generation is of one policy because a change of policy draws a new one.

`ActiveHasItsCapability` is about two pieces of state that no transaction spans, the row and
the private file. `LocksHeld`: the requests that are between taking and releasing the lock
file of an installation (`Leased`) hold it, and there is one of them. What a request has no
lease of it leaves alone (`LeaseGuards`): it may disable the row, but neither enables it
nor writes its file. So what a request learned under its lock stays true until it acts on
it (`ManagersKnow`): an installer that sees an active row sees the row it read or the one
it prepared; an activation finds that its rows were redrawn past the generations of its
plan, that the files it disabled are disabled, and that a row which became active did so
by its commit. With it, `FilesServe` is kept: the file of an active row serves it, or is
disabled while an activation is between its commit and that file or takes it back
(`Revives`), or after the owner was revoked or a daemon ended. `Ended` says that a process
that is gone has set `stopped`. The part that no test shows is a Clear or a crash
between the commit and the files, and an activation that fails while another
request waits for its locks.

### The verification service

For every number of connections, events, readings, calls and tokens, and every limit of
the ring, assuming only `BridgeAssumption` and `RingAssumption` (there is a connection, limits
are natural numbers, the ring has room for an event, 0 is no value of a reading):

| Theorem | Property |
|---|---|
| `OneTurnHolds` | `OneTurn` |
| `CausalPassHolds` | `CausalPass` |
| `BinarySearch` | what `LowerBound` returns, for every ring in order |
| `PushHolds` | what `Push` keeps of a ring in order, whatever it evicts |
| `WindowCompleteHolds` | `WindowComplete` |
| `AttributedPassHolds` | `AttributedPass` |
| `QuietPassHolds` | `QuietPass` |
| `AbsencePassHolds` | `AbsencePass` |

`OneTurn` says of a wire only that its frames of a command carry the id of the pending
one, and that is not inductive: the result of a command could be followed by more of
it, and once the result is taken nothing is pending any more. `TurnInv` adds what the
order of frames is. `Owned`: a pending command belongs to a caller that awaits it, on a
socket that is open. `Wires`: before its hello a socket carries no frame of a command
in either direction; after it, at most one command is on the way down, nothing of a
command follows its result on the way up, and a command is either still on the way
down or already answering (`Ordered`). Each step that ends a command in another way,
by a timeout, a closed socket, a new pairing or the end of the session, also closes the
socket or takes it from the session, so that what is still under way is never read.

`CausalPassHolds` follows a reading from the page to the verdict (`ReadInv`). `Heard`:
the readings in the daemon and those still on their way are all of the turn that the
pending command has in its page, and the command is unread as long as it is on the way
down. `Held`: a turn of the session in which a value changed is one of the page that is
connected. `Late`: a relative change is decided in the round that sees it, hence what
an expired check reports (`latest`) is never an earlier pass. The callers' steps move a
session in one of three ways (`Moves`: ask, release, go on), and the invariants are
argued about those.

`BinarySearch` is a recursive function shown right by a least counterexample: among the
numbers that are the width of a search that goes wrong there is no least (`Least`).
`PushHolds` says what a push does to a ring in order (`RingSound`): it `Grows`, that is,
what was live is live or its stamp is at most `lastLoss`, and nothing else is added but
the event. `WindowCompleteHolds` follows: `RingInv` and `WindowInv`, that as long as no
capture was lost the delivered frames and the ring's events match but for what the
ring noted (`Matches`), so a window the ring calls complete has all of them.

`AttributedPassHolds` is about which action a network event is given. `Books` says that
a page numbers its requests, each once, and that a frame on the wire or waiting in the
page is backed by one of them (`Backed`): what names a request has its number and its
action, and an answer is of a request that is over. `SessionBooks` says the same of what
the daemon keeps, as long as it is of the document that is connected, which every loss
of authority clears. A passing verdict reads an answer off the ring; the books trace it
to the request.

`QuietPassHolds` and `AbsencePassHolds` are about what the daemon cannot see yet. Their
invariants say of each document where what it did is: an open request is pending in the
session, or its start is on the way up, or it still waits for the hello in the page
(`QuietInv`); an error is known to the daemon (live in the ring, noted as lost, or the
capture is marked lost), or on the way up under the action that the boundary before it
will give it (`Raises`), or still in the page (`AbsentInv`). What the page had done when it
answered is, in addition, ahead of its result on the wire (`StartsFirst`, `RaisedFirst`):
when the result is taken, it has arrived. That is why a check that goes past its fresh
read (`Reached`: its socket is still open and of its generation) and finds the ring
silent is right about the page. Every step is one of few as far as a document's wire
is concerned (`Acts`, `Cuts`, `Greets`, `AcceptsAs`, `Lasts`), and each invariant has a
lemma for each of them.

### Only model-checked

Every invariant, action property and refinement that a passing run checks has its
theorem. Liveness (`EntriesSettle`, `ReceiptsEnd`, `LockReleased`) stays with TLC: it rests
on fairness, and so on ENABLED, which the prover does not reason about.

## Plan

In this order; each item is a module, its instance and its properties.

1. Done: `ComparisonLedger` with `SpendPromise`, its proofs, `ComparisonCoordinator`.
2. Done: `EvidenceStore` with `EvidenceHistory`, `EvidenceImport`.
3. Done: the verification bridge, its ring, the page runtime and the service.
4. Done: datasets, review queues and evaluation jobs in one workspace, with proofs.
5. Done: captured runs, notes and replays, with proofs.
6. Done: the coding hooks of the Claude platform, their controller and management.
7. Prompt registry: drafts and revisions beside the removals the ledger has.
8. Dataset execution: the store of frozen executions (receipts, reservations, two
   dispatch slots, retries, recovery) over an abstract budget. The component is not
   wired into the daemon yet, its tests are the only client.
9. Done: proofs for `EvidenceStore`, `EvidenceImport`, `ComparisonCoordinator` and the
   coding hooks.
10. Done: proofs of `PromotionExact`, `StitchExact` and every invariant of the verification
   service.

## What is not modelled

Pricing, claims, run search and search workers, agent definitions, chat sessions and
MCP, installers, the local CLI and the UI: conversions of data, single-step stores and
I/O, with little state that a model checker would find more in than a test.
Verification recordings and browser automation: files and external processes around
the session that is modelled. The components of items 7 and 8 of the plan are not
modelled yet. Within the modelled components the parts left out are named above.

# Diana: TLA+ models and proofs of the accounting backend

Diana takes supplier and customer invoices from the Romanian e-invoicing service
(ANAF SPV), associates each with a contract, checks it commercially, classifies
its lines into accounts (with rules, knowledge and an AI proposal), lets an
accountant decide what the machine may not, and exports the result to SAGA.
The backend is a Go modular monolith over PostgreSQL with Asynq/Redis workers
(`src/backend`); this directory holds the TLA+ modules of its core, the TLC
configurations that check them and the TLAPS proofs about them.

All paths below are relative to `src/backend/internal/` unless they start with
`Docs/`, `cmd/` or `migrations/`.

## 1. Inventory

The parts, the state each keeps, its operations, what is hard about it and what
makes it correct.

| Part | State | Operations | Hard behaviour | What must hold |
|---|---|---|---|---|
| Transactional outbox and dispatcher (`platform/postgres/outbox.go`, `workerruntime/dispatcher.go`, `publisher.go`) | `outbox_entries`: status, claim owner, attempts, times; Redis jobs | Claim a batch, publish, mark dispatched, release with backoff, mark failed | crash between publish and mark, lease expiry under a slow batch, lost answers, competing dispatchers | nothing is lost, duplicates are bounded, a settled row is final, claims are fenced, every row settles |
| Invoice pipeline (`invoicing/`, `platform/postgres/store.go`, `workerruntime/job.go`) | invoice status, revision, SAGA status; audit keys; outbox rows | ingest, one automatic transition per job, call of matcher / commercial validation / classification / export, SAGA failure | duplicate and late jobs, crash before the acknowledgement, human commands racing with jobs | only edges of the state machine, a runnable invoice always has a live job, a terminal invoice never moves |
| Validation tasks (`validationtasks/`, `platform/postgres/task_store.go`) | one row per human decision, status and revision | create with the blocking transition, request, waive, resolve | double submission, stale forms, a task left by a superseded blocker | at most one active task, and exactly while the invoice waits for it |
| Contract matching and resume (`contracts/`, `platform/postgres/contract_store.go`, `contract_delete.go`) | contracts, match runs and candidates, associations | match, fan-out of an available contract, confirm, archive, delete a mistaken upload | decisions computed outside the transaction that applies them, concurrent contracts, partial fan-out | no invoice moves backward, an association has evidence, a blocked invoice is resumed |
| Contract ingestion (`contractingestion/`, `platform/postgres/contract_ingestion.go`, `contract_dossier.go`, `contract_clause_review.go`) | source documents, extraction attempts, proposals, dossiers | upload, extract (AI), confirm, activate, announce, retry, discard, review clauses | a lease that ends under a slow worker, forms older than the document, a confirmation in three transactions | one contract from one review of the latest proposal, one open attempt at most, a confirmed contract is announced |
| Commercial validation (`commercialvalidation/`, `platform/postgres/commercial_validation.go`) | runs, findings, aliases, facts, review task | evaluate, save run, wait, rerun, accept an exception | inputs that change between the statements of a load and the save; commands on an older run | the invoice advances only when the latest run has no unresolved finding; a rerun sees the correction; one active review |
| Classification (`classification/`, `platform/postgres/classification_*.go`) | runs, line rows, review task | apply a run, block, review a line, approve all, reanalyse | partial reviews racing with approve-all, reanalysis under a running AI job | READY_FOR_SAGA only when every current line is decided |
| Accounting analysis (`accountinganalysis/`, `platform/postgres/accounting_analysis.go`, `workerruntime/accounting_analysis.go`) | AI analysis runs | request, ensure automatic, complete, skip, fail, open manual review | late answers, non-atomic hand-off after the classification commit, exhausted retries | a run closes once, a late answer changes nothing current, no invoice waits for nobody |
| SAGA export (`saga/`, `platform/postgres/saga_export.go`) | attempts, SAGA status | readiness, generate, save attempt, confirm import, fail | file generated twice, confirmation of a superseded attempt | EXPORTED only by a confirmed, generated attempt of that invoice |
| SPV synchronisation (`spv/`, `platform/postgres/spv_store.go`, `workerruntime/spv.go`) | connections with encrypted tokens, documents and their claims, sync cursors | authorise, refresh, discover, claim and download a document, ingest | tokens refreshed while the accountant disconnects, claims that outlive their owner or the reverse, given-up jobs | a disconnect is final, each message becomes at most one invoice, no document is left behind |
| Ingestion and deduplication (`invoicing/identity.go`, `Store.IngestInvoice`) | SPV and canonical business identities | ingest, replay, mark duplicate | check-then-insert of two workers | one canonical invoice per business identity |
| Clients and readiness (`clients/`, `platform/postgres/client_management.go`) | client, profile, readiness | create, update, check | revision races | readiness agrees with the profile |
| Rules and approved knowledge (`rules/`, `platform/postgres/rule_store.go`, `approved_knowledge.go`) | rule versions, learned mappings | suggest, approve, revoke | approval of a superseded suggestion | at most one active mapping per scope |
| Authentication (`authentication/`) | users, sessions, login failures | login, logout, authorise | session expiry | no request is served under an expired session |
| LLM usage (`llmusage/`) | append-only usage rows, prices | record, aggregate | best effort | each call is priced once |
| Legislation, accounting catalogue, HTTP server, configuration, observability, Gemini transport | reference data, request routing | load, serve, measure | none of their own | read-only for the core, or pure input and output |

How they interact. Every state change of an invoice is one PostgreSQL transaction
that compares and sets (status, revision), writes its audit row under an
idempotency key and, when work must go on, one outbox row. The dispatcher turns the
row into an Asynq job; a worker reloads the invoice and runs the next step: a
transition, or the matcher, the commercial validator, the classifier or the exporter,
each of which loads its input outside the transaction that later applies its result.
Commands of the accountant arrive by HTTP in the API process and race with the
workers on the same rows. The AI analysis is a second job kind that is enqueued
directly, after the classification has committed. A new contract starts a fan-out
over the invoices it may unblock.

## 2. Plan

Modules in order of importance to the system. Each has constants with named assumptions and
no RECURSIVE operator, so that it can be proved about.

| Order | Module | Abstract specification | Theorems | State |
|---|---|---|---|---|
| 1 | `Outbox` | `Handoff` (at-least-once hand-off) | type, delivery, duplicates, finality, fencing, refinement | checked, proved |
| 2 | `ContractMatching` | `InvoiceLifecycle` | type, tasks, evidence, monotonicity, complete fan-outs but for requests, refinement | checked, proved |
| 3 | `InvoicePipeline` | `InvoiceLifecycle` (with `StateMachine`, the table of `invoicing/state_machine.go`) | type, continuation, statuses, export confirmed, artifact, irrevocable, refinement | checked, proved |
| 4 | `ClassificationWorkflow` (classification, review, analysis, reanalysis) | `InvoiceLifecycle` | type, review has its task, ready is final, decided stays decided, an analysis ends once, classified is attended, refinement | checked, proved |
| 5 | `SpvIngestion` (connections, documents, claims, identities, duplicates) | `Deliveries` (one fate for each message) | type, canonical invoice, disconnect, settled documents, refinement | checked, proved |
| 6 | `CommercialValidation` (runs and review) | `InvoiceLifecycle` | type, basis, task, freshness, no validation forgotten, refinement | checked, proved |
| 7 | `ContractIngestion` (attempts, leases, confirmation, activation) | none; attempts and contract of one review | type, attempts, one reviewed contract, no extraction forgotten but given-up ones | checked, proved |
| 8 | Engine of the commercial validation; snapshot composition | reference definitions | none: functions of data | open |
| 9 | Rules and approved knowledge; clients; sessions | none | at most one active mapping per scope | open |

`InvoicePipeline` takes the outcomes of matching, validation and classification as choices
(`Decisions`, `Classifications`, `HumanStep`). All four workflow modules implement the same
`InvoiceLifecycle`, so that the stretches agree on what may happen to an invoice. Worth stating
next is the finer mapping, in which the stretch of one invoice in `ContractMatching` (and in
`CommercialValidation` and `ClassificationWorkflow`) implements that stretch of
`InvoicePipeline` with its jobs.

## 3. Modules and code

Every transaction of the code is one action: it locks or compares what it read, and its
writes appear together. What a process reads outside a transaction and uses later is kept
in a variable of its own (`batch`, `work`, `items`, `busy`, `proc`, `form`), so that anything
may happen in between. A job of Asynq is delivered at least once.

The `MC` modules give the constants of an instance. Definitions marked `mutant` in a module
are variants of the definition beside them with a plausible mistake in it; nothing uses them:
they record which mistake each property would find.

**`Outbox`**, with the abstract **`Handoff`**. `row` is `outbox_entries`; time is abstract,
`ripe` says that `available_at` or the lease of the row has passed. `batch`, `cur` and
`answer` are the memory of one call of `DispatchBatch`: the entries claimed with the
`Attempts` read, the entry being published and what the publisher returned. `jobs` counts
the copies Redis accepted. Actions: `Create` (a business transaction), `Claim`, `Publish`
(accepted or not, and the answer may be lost), `MarkDispatched`, `MarkFailed`,
`ReleaseClaim`, `SettleError` (the settling statement fails), `Crash`, `Ripen` and
`SlowBatch` (a lease that runs out under a running batch). `OwnerOf` maps a dispatcher to
its owner text `hostname:pid`, which two containers may share.

**`ContractMatching`**. For each invoice `status`, the two tasks it may wait for
(`missing`, `confirm`), the candidates, the association and its matching job; for each
contract `life` and where its activation event is. `work` is what a worker holds: the
contracts it loaded, and whether it has passed the compare-and-set of its transaction,
which is split in two (`MatchCheck`/`ApplyMatchDecision`, `ResumeCheck`/`ApplyResumeDecision`)
because PostgreSQL's READ COMMITTED lets other transactions commit between the re-read of
the candidates and the inserts; `Locked` is the row lock it holds meanwhile. The task of the
invoice is not locked: a resume keeps the state it read (`task`), a request updates the task
between the halves and makes the second one conflict (`TaskMoved`), which the loop takes for
dealt with; a waiver deadlocks with the resume, and the database aborts one of them. The
fan-out of an available contract lists the blocked invoices, resumes them one at a time and starts again
from the beginning when it is retried. The accountant waives, requests, confirms, archives
and deletes. `owed` and `asked` are history that only the properties read: who waited for a
contract when it was announced or listed, and who of them had requested it. What the documents say,
direction and fit (`Kinds`: the dates, currencies and
identifiers the policies compare), is a member of `Cases` chosen at the start.

**`InvoicePipeline`**. One invoice: `status`, `rev` and `saga`. A job is named by the revision
its transaction gave the invoice; `queued` jobs are still to be delivered, `archived` ones
were given up. `used` holds the command keys (job and purpose) of jobs that may come again.
`items` are the invoices as workers loaded them: a worker acts on the copy (`Process`),
finds it stale (`Stale`), or exports (`ExportLoad`, `SaveAttempt`, `RecordSagaFailure`).
`generated`, `failed`, `confirmed` and `latest` are the SAGA attempts by revision.
`handler` is the request that runs the second half of a reanalysis, `orphan` one whose
process died. All commands of the accountant that move the invoice are actions. A job
handled may stay queued (`End`): that is the worker that dies between commit and
acknowledgement as well as the outbox that publishes twice, and it is counted with the other
faults by `MaxFaults`.

**`ClassificationWorkflow`**. One invoice with automatic analysis enabled: its `status`, its
current `run`, the `rows` of that run (source and review state), one `task` per run, the
`analysis` runs by command key, their `jobs`, and `busy`, a job being executed with the
dimensions it asks about (`ask`) and whether it was stale when it loaded them. `proc` holds
the calls of `WorkflowService.Request` in progress by their stage: prepare, publish, open a
manual review, or record that publishing failed. Each is a transaction or a call of its own
that may fail. What the policy decides for a row is a choice (`PolicyRows`). The lines of the
invoice and the budgets of a behaviour are a member of `Cases`. A review approves or corrects:
the third answer, REJECT, is a transaction that the database always refuses (section 8).

**`SpvIngestion`**. One client and its connection: `conn` is the `spv_connections` row with
what ANAF thinks of its tokens (`fresh`: the access token lives, `accepted`: the refresh token
would be taken); every token change bumps the revision, so a copy of the credentials is named
by the revision it was read at. `doc` is `spv_source_documents` with its claim (`owner`) and
whether lease or retry delay has passed (`due`); `invoice` what each delivery became. `work`
is what a worker or the synchronisation holds between statements: the stage it is in, the
documents, the revision of its credentials, the answer of the canonical lookup. Actions: the
scheduler's `SyncStart`, `List`, `Publish`; the token path `Refresh`, `SaveTokens`,
`MarkExpired`, `Rejected`; a job's `Claim`, `StoreRaw`, `Lookup`, `Insert`, `MarkProcessed`,
`MarkSourceFailed`; `Disconnect` and `Reauthorise`; expiries, crashes and transient errors.
Taken from outside the code: a message stays in the listing window (72 hours) for one more
synchronisation. The claim owner is the process (`host:pid`), which its goroutines share: in
the instance each worker is a process of its own, which the timeouts justify (a job is cut
off after 2 minutes, a claim ends after 10), and the one theorem that needs it says so.

**`CommercialValidation`**. One invoice under validation, with a contract, waived without one,
or issued (`kind`). `inputs` counts the versions of what the engine reads (active snapshot,
variables, aliases, dates); `LoadInput` reads them in separate statements (`LoadInvoice`,
`ReadInput`, one source at a time), so that a verdict may mix versions. The engine is a choice
of the blocking findings that the kind and the snapshot allow (`Blocking`). `SaveRun` compares
the invoice alone. `runs` and `task` are by job; `last` is the run created last, which assumes
that the clocks that write `created_at` agree. Commands: `WaitForCorrection`, `Rerun`,
`AcceptException`, `ChangeInput`. A job may crash, be archived or be delivered again.

**`ContractIngestion`**. One uploaded document: its status, discard mark, revision, latest
attempt, lease (`leased`: EXTRACTING for less than three minutes) and the `attempts`.
`BeginExtraction` is one step because it compares the revision it read; a delivery may also
end before it commits (`BeginFails`), and the last such delivery archives the job with the
document still UPLOADED. A worker ends with
`CompleteExtraction`, `FailExtraction` (not retried, retried once, or retried as the queue
says) or `Overtaken`. `form` is an accountant's confirmation between its three transactions:
`ConfirmDocument`, `ActivateConfirmedContract` (the dossier), `Announce`; a request that dies
between two of them is sent again (`Replay`) or not, and the job of the announcement
(`ProcessNotice`) runs beside it.

**`StateMachine`** and the abstract **`InvoiceLifecycle`**. `Definitions` is the transition
table of `invoicing/state_machine.go`, `Blockers` says which task type waits in which status,
`Awaitable` which tasks may be put to wait. The code consults the table for the transitions of
`ProcessContinuation` (`invoicing/pipeline.go:146`) and for the waiver
(`platform/postgres/task_store.go:303`); all the other transactions write `pipeline_status`
themselves, under guards of their own. Three of them make moves the table does not have:
`Corrections` lists those (a contract found for a waiting invoice that needs confirmation, a
commercial rerun, a reanalysis). In `InvoiceLifecycle` the status and the tasks of an invoice
change in one step, along `Definitions` or `Corrections`, a task may be put to wait and nothing
else happens. The mappings: `ContractMatching` shows its two task rows, `CommercialValidation`
all active tasks of its invoice (one of an older run as a task no status has), `ClassificationWorkflow` the open task of the current run in
AWAITING_REVIEW (elsewhere the run `classification_superseded` finds an open task where there
should be none), and `InvoicePipeline`, which has no tasks, those of its status.
What follows for anything that implements the lifecycle is proved in `InvoiceLifecycleProofs`.

**`Deliveries`** is the abstract life of the messages from ANAF. Each meets a fate,
CANONICAL, DUPLICATE (only beside a canonical invoice of its identity) or REFUSED, which never
changes once it is met, and it is closed once. A message both refused and invoiced would
show two fates, which `Deliveries` never has. `SpvIngestion` maps to it by the invoice a
message has and by its document's status; claims, leases, downloads, retries and tokens are
steps that change nothing there.

How they compose. `Handoff` is what the other modules take of the outbox: a row written by a
transaction becomes a job delivered at least once. `ContractMatching`, `CommercialValidation`
and `ClassificationWorkflow` are the stretches of `InvoicePipeline` that are one decision
there; `ContractIngestion` ends in the activation event with which the fan-out of
`ContractMatching` begins; `SpvIngestion` ends with the canonical invoice with which
`InvoicePipeline` begins.

## 4. Runs

| Run | Bounds | What it shows |
|---|---|---|
| `outbox` | 2 rows, 2 dispatchers with distinct owner texts, batches of 2, 2 attempts, 2 faults; fair | no continuation is lost and duplicates never exceed the claims counted; a settled row is final; a claim lost is not used; every row settles; the outbox implements `Handoff` |
| `matching` | a received and an issued invoice, with a second contract in another currency or expired; two received invoices that wait for one contract, which is in another currency for one of them; 2 contracts; 1 crash or duplicated event; fair | an invoice waits exactly while its task is active; no decision is undone; associations have evidence; a fan-out ends, and has then dealt with every invoice that waited when its contract was announced, except one whose contract was requested meanwhile; status and tasks implement `InvoiceLifecycle` |
| `matching_lost` (violated) | 2 received invoices, 2 contracts, no faults | a contract announced while the invoice is being matched is missed |
| `matching_deleted` (violated) | the same | a contract in use is deleted as a mistaken upload |
| `pipeline` | 1 worker, 1 reanalysis or rerun, 1 fault (redelivery, crash, archived job, killed request); fair | the continuation is never lost; EXPORTED stands on exactly one confirmed artifact; an export leaves the human something to decide on and cannot be taken back; automatic statuses come to rest; the moves of all jobs and commands implement `InvoiceLifecycle` |
| `classification` | 1 row to decide with a reanalysis, a request and a fault; 2 rows with a fault and either; fair | review has its task; ready means decided; what is decided stays decided; an analysis ends once; without that fault the accountant gets the invoice, and until then somebody attends to it; status and review task implement `InvoiceLifecycle` |
| `classification_stuck` (violated) | 1 row, 1 fault; fair | one error between two commits leaves the invoice in CLASSIFIED |
| `classification_superseded` (violated) | 1 row, 1 reanalysis | a task opens for the run being superseded |
| `spv` | 2 deliveries of one business invoice, the second good or malformed; 2 worker processes and the synchronisation; 1 disconnect or reauthorisation; 1 fault; fair | a disconnect holds against every refresh under way; every delivery settles while the connection can import; every message has one fate (`Deliveries`) |
| `spv_revoked` (violated) | the same | a refused refresh overwrites REVOKED |
| `commercial` | 2 workers, 1 finding and coverage, 1 change, 1 rerun, 1 fault; all three kinds; fair | a validated invoice rests on its latest run; one active review; a rerun sees the correction; a validation ends; until then a job of its revision exists; status and task implement `InvoiceLifecycle` |
| `ingestion` | 2 workers, 2 accountants, 1 extraction asked again, 2 faults; fair | attempts and document agree; a contract is what one accountant reviewed; an extraction due or under way ends, and is not forgotten before, unless its job is given up; a contract is announced |

Why the bounds are enough to be interesting. The races of the outbox need two dispatchers,
one lease lost and a row that is claimed again: two attempts and two faults give the chains
crash, claim, late settlement. Contract matching needs a second contract that appears, is
archived or deleted in between; two received invoices, in one case of `matching` and
in the violated runs, add a partial fan-out. In the pipeline a job is late or doubled once and the invoice goes back once (a
reanalysis or a commercial rerun): every stale copy in the code is stale by one of these.
Two workers with both are beyond the time of a run; the theorems of section 6 hold for any
number of workers, loops and faults, and the liveness is checked for one worker only. In
classification two runs make one of them superseded, an automatic and a requested analysis
can be active on the same run, and two rows tell a partial decision from a complete one. In
SPV two deliveries are what the unique index on the business identity is for, and one fault
suffices to lose a claim. One command of the accountant lets a refresh meet a disconnect; that
any later disconnect, after reauthorisations, holds against it too is `DisconnectIsFinal`, proved
for any number of commands. A commercial correction is stale when it falls between two
statements of a load that a rerun overtakes: one change, one rerun, two workers. A contract
document meets late workers when a lease has ended under one (first fault) and its job comes
again (second).

Deadlock is not checked: an invoice or a document rests when it waits for a human or is done,
and the bounded counters stop the models as well.

## 5. Fairness

- `Outbox`: weak fairness of `Claim`, of `Publish` and of settling for each dispatcher
  (`Dispatcher.Run` loops on a ticker until shutdown and the container is restarted), and of
  the passing of a lease or a backoff (`Ripen`). Crashes and lost answers have none: they
  are bounded by `MaxFaults`, and `EverySettles` holds for any finite number of them in the
  instance. A row may also settle as FAILED.
- `ContractMatching`: weak fairness of the steps of every fan-out, since Asynq delivers and
  retries it. Matching jobs have none.
- `InvoicePipeline`: some queued job is loaded, some loaded job goes on, a running reanalysis
  request goes on.
- `ClassificationWorkflow`: the pipeline job is retried, a call of `Request` that runs goes
  on, an analysis job is delivered and an attempt ends within its timeout. It may end in a
  failure every time: no good answer of the provider is assumed.
- `SpvIngestion`: the scheduler ticks and a synchronisation goes on, a queued job is taken and
  goes on, leases and retry delays end. Nothing says that a refresh succeeds.
- `CommercialValidation`: a queued job is taken, a worker goes on.
- `ContractIngestion`: a queued job that may begin does, a worker's attempt ends (its job
  times out after two minutes), a lease passes, the announcement is processed. The deliveries
  that fail before their attempt begins are bounded with the other faults.

Nothing is assumed of humans: every liveness property ends in a status that waits for one.

## 6. Proofs

Every safety property of a passing run is a theorem, for every value of the constants. Some
properties are theorems only, because a run checks a stronger one: `DispatchedWasDelivered` and
`SettledRowsFinal` (of the state of a row) follow from `ImplementsHandoff`; `BlockedByItsTask`,
`ReviewHasItsTask`, `ReviewHasTask` and `ExportIrrevocable` (of the status) from
`ImplementsLifecycle`; `OneCanonicalInvoice` and `SettledAgreesWithInvoice` from
`ImplementsDeliveries`. `SagaAgrees` is proved and not run. The
proofs assume the named assumptions only: bounds are natural numbers (`BoundsAssumption`,
`BudgetAssumption`), an owner text is not NULL (`OwnerAssumption`), `Cases` are of their type
(`CasesAssumption`), names do not collide (`IdAssumption`, `NamesAssumption`,
`CoverageAssumption`, `DocsAssumption`). A theorem that needs more states it: distinct owner
texts in `Fencing`, `SettledAgree` and the `Refinement` of `SpvIngestion`, a finite set of dispatchers in `DuplicatesBounded`.
Each is an inductive invariant shown for Init and for every action; the invariants were model-
checked first. Where a property needs more than the invariant that is already proved, a second
invariant is put on top of it and shown inductive with the first as a hypothesis.

| Module | Invariant beside the properties | Why it is needed |
|---|---|---|
| `OutboxProofs` | `LocalInv`; `HeldCurrent`; `Unpublished`, `Budget` | a settling statement tests only the owner, so that a settled row was delivered rests on what the dispatcher's memory implies; fencing on the claim a holder has being the present one; the bound on duplicates on the claims not yet published |
| `InvoicePipelineProofs` | `Copies`, `Keys`, `Requests`; `Exports` | when a job is acknowledged it must not be the one the invoice waits for: a worker with the current revision has the current status, a command key is older than the invoice, a prepared revision that is current waits for classification; what may be confirmed rests on attempts, queue and revision together |
| `ContractMatchingProofs` | `WorkOK`, `Locks`, `Sound` | a decision is inserted some steps after its compare-and-set: the row lock keeps the status that was compared and keeps others out |
| the same, on top | `FanOuts` | an invoice a fan-out has passed is dealt with for good, or was requested after the listing: what the worker has read of the contracts stays true or the contract is gone, a task that moved was open and is waiting now, and a retry starts from the list again |
| `ClassificationWorkflowProofs` | `Fresh` | the task that routes to review must not have been resolved before: a run to come has none |
| the same, on top | `Future`, `Waiting` | a classified invoice without a fault has rows to ask about, and whoever holds its analysis holds a running one that is not stale; runs to come have none |
| `CommercialValidationProofs` | `Shapes`, `Sound`; `Counted` | what a worker has read so far is not older than the question while its revision is the invoice's; revisions count the reruns |
| the same, on top | `Ordered` | a job acknowledged as stale was of an older revision: jobs and rows are never ahead of the invoice, and one under validation has the row of its revision |
| `ContractIngestionProofs` | `Shapes`, `Forms` | a form whose revision is still the document's belongs to a document not discarded since, and a replay follows a contract |
| the same, on top | `Idle` | a worker without an extraction holds no job, so that the last request, once asked, is held by nobody while the document waits |
| `SpvIngestionProofs` | `Shapes`, `Revisions`, `Sourced`, `Guarded` | a duplicate must have its canonical invoice when it is written; a refresh that ends after a disconnect must not meet the revision it read; a permanent failure must not meet an invoice made under another's claim |

`Fencing` and `SettledAgree` are false when two processes share an owner text. For the outbox
the code accepts that, because consumers are idempotent.

The refinements. `Refinement` of `OutboxProofs` maps every step of the outbox to a step of
`Handoff` or to a stutter. In `InvoicePipelineProofs`, `ContractMatchingProofs`,
`CommercialValidationProofs` and `ClassificationWorkflowProofs` it shows `ImplementsLifecycle`:
the guards of the transactions, taken together with the invariants, enforce the transition
table that most of them never read, and the task goes with the status. The invariants say that
the tasks shown are those of the status (`BlockedByItsTask`, `ReviewHasItsTask`,
`ReviewHasTask`); in `InvoicePipeline` the compare-and-set alone suffices. A command that puts
a task to wait is the `Await` of the lifecycle. In `SpvIngestionProofs` it shows
`ImplementsDeliveries`: the insertion is the `Import`, which chooses between CANONICAL and
DUPLICATE by the invoices of that moment although the lookup was earlier (`Sourced`), ending a
claim is `Close` or `Refuse` (`Guarded`), and everything else stutters.

`InvoiceLifecycleProofs` draws the consequences once for all four modules: the active tasks of
an invoice are those of its status (`TasksFollowStatus`), the table has no circle, so that only
a correction takes an invoice back (`OnlyCorrectionsGoBack`, by a depth that every entry of the
table increases), and EXPORTING is left for EXPORTED only (`ExportsAreIrrevocable`). They are
theorems about the lifecycle; no run checks them, because the runs check that the modules
implement it.

## 7. Only model-checked

The liveness properties `EverySettles`, `FanOutEnds`, `EveryRunRests`,
`AnalysisHandsOver`, `EveryDeliverySettled`, `ValidationEnds` and `IngestionEnds`: fairness is
beyond the proof system used here. The proved invariants behind them say how far safety goes:
while a validation, an extraction or an analysis has not ended, somebody still has its job
(`ValidationHasJob`, `ExtractionNotForgotten`, `ClassifiedIsAttended`), and a fan-out that is done
left nobody out but an invoice whose contract was requested meanwhile (`FanOutMissesNone`); that
the one who has the job gets on with it is fairness.

## 8. Where the code and its documents disagree

Five runs end in a counterexample; PROJECT.json quotes the sentences they contradict.

1. `matching_lost`: `MatchInvoice` loads the contracts, and the transaction that blocks the
   invoice re-reads only the candidates found. A contract announced in between lists no blocked
   invoice yet; nothing looks again.
2. `matching_deleted`: `DeleteMistakenContract` checks for uses, and a match transaction
   re-reads the contract without a lock before it inserts a candidate.
3. `classification_stuck`: the AI analysis is requested after the commit that leaves the
   invoice to it; the retry of the job is a no-op in CLASSIFIED.
4. `classification_superseded`: while a reanalysis is prepared the old run is still current,
   and an analysis that ends then opens its task; the new run cannot open its own.
5. `spv_revoked`: `MarkSyncFinished` writes EXPIRED whatever the revision is by now, over a
   disconnect or a new authorisation.

Others were met while modelling; the models do what the code does, and no run checks the
document's sentence.

- A resume resolves the missing-contract task under the revision it read
  (`platform/postgres/contract_store.go:449`, `:559-564`), and a request updates that task
  without a lock on the invoice (`platform/postgres/task_store.go:205-215`). When the request
  commits in between, the conflict is reported as a stale no-op (`contracts/service.go:250-252`)
  and the fan-out ends done with the invoice waiting beside its compatible contract;
  `Docs/MISSING_CONTRACT_RESUME.md:28-36` has OPEN and WAITING candidates alike resumed.
  `FanOutMissesNone` therefore excepts the invoices requested after the listing; a waiver or
  another contract of the parties gets such an invoice out.
- A pipeline job carries no revision, so an old job redelivered does the work of the present
  status and the newer job becomes the no-op (`invoicing/pipeline.go:195-204`;
  `Docs/BACKEND_MODULE_7.md:44` has it the other way round): nothing is done twice.
- `SaveAttempt` (`platform/postgres/saga_export.go:310`) does not look at the invoice, so a
  delivery that loaded it before the confirmation may store a later attempt of an EXPORTED
  invoice, which the screens then show.
- A review may answer REJECT (`classification/service.go:241`,
  `platform/postgres/classification_store.go:536-540`;
  `Docs/AUTOMATIC_ACCOUNTING_ANALYSIS.md:29` and `:313` name the state and the action). The
  update clears the effective value, and `line_classifications_review_shape`
  (`migrations/000014_accounting_domain_v2.sql:49-53`) asks every row that is not PENDING for
  one; `migrations/000028_unified_accounting_contract.sql:19-21` adds REJECTED to the other
  constraint only. The transaction fails each time, so no row of the model is rejected.
- A document processed while ANAF refuses the refresh fails permanently
  (`spv/service.go:166`), although only the connection needs the accountant
  (`Docs/BACKEND_ANAF_SPV.md:96-100`).
- A base contract is confirmed in one transaction and its dossier made in another
  (`contractingestion/service.go:477`); when the request dies between them the announcement
  may run before the dossier exists, and only a repeated request makes it.
  `Docs/CONTRACT_COMMERCIAL_VALIDATION.md:49` has the confirmation create both. A validation
  then finds no snapshot and asks the accountant, who reruns it.
- Two repeated requests at once both find the document not yet in the dossier
  (`platform/postgres/contract_dossier.go:46-58` reads that before it locks the dossier), so
  that a second snapshot version may be composed, against the comment in line 22. The
  contents of snapshots are not modelled.
- The retries of an extraction job end before the lease: with `WORKER_MAX_RETRY` 8 the delays
  of `cmd/worker/main.go:196` add up to about 96 seconds, less than the three minutes of
  `contract_ingestion.go:150`. After a result that could not be recorded every retry may find
  the document busy and the job is archived with the document EXTRACTING, where only a discard
  helps; `Docs/CONTRACT_INGESTION_AI.md:74` has a replacement attempt start. `IngestionEnds`
  therefore excepts `GivenUp`.
- A job whose attempts all fail before `BeginExtraction` commits is archived with the document
  UPLOADED. `RetryExtraction` (`contract_ingestion.go:504`) accepts failed and reviewable
  documents only, so that again nothing but a discard, or the operator who requeues the job,
  helps. `Docs/CONTRACT_INGESTION_AI.md:76` leaves archived jobs to "operational remediation";
  `ExtractionNotForgotten` and `IngestionEnds` except them.

## 9. Not modelled

Contents of invoices and contracts, parsing, XML, prompts and texts; the rules, the mapping,
the matching policies and the engine's arithmetic beyond the outcomes their callers tell
apart; metrics and logging. An attempt of a job that ends in a retryable error before its
first commit changes nothing and is taken as not yet begun, unless it is the job's last: the
step that gives a job up is always an action (`BeginFails`, `Refuse`, `Crash`, `LoseWorker` and
their like). The activation of an
account-mapping or a learned mapping by a review is left to the rules. Invoices classified
before accounting domain version 2 are left out, and so are the deduplication of contract
uploads, the composition of snapshots and the later review of clauses. Clients, rules,
knowledge, sessions, LLM metering and reference data are revision-checked rows or append-only
tables of one transaction per command; the models take what they say as a choice. The HTTP
layer, configuration, the provider's transport, command-line tools and the web front end have
no state of their own that the workflow depends on.

Most lines of the repository are generated by ent (`src/backend/ent`) or belong to the web
front end and the importers; the workflow modelled here is the part with concurrent writers,
and its lines are a small share of the whole.

-------------------------- MODULE InvoicePipeline --------------------------
(***************************************************************************)
(* One invoice on its way through the pipeline (internal/invoicing,        *)
(* ApplyTransition and RecordSagaFailure in internal/platform/postgres,    *)
(* internal/workerruntime/job.go, internal/saga).  Every transaction that  *)
(* changes the invoice compares and sets (status, revision); one that      *)
(* leaves it in a status a worker can advance also writes an outbox row.   *)
(* The outbox and Asynq deliver the row's job at least once (see Handoff): *)
(* a job is delivered again after it was handled, late, or dropped into    *)
(* the archive when its retries are exhausted.  Invoices share no state    *)
(* in these steps, so one is enough.                                       *)
(*                                                                         *)
(* A job is named by the revision its transaction gave the invoice: a      *)
(* transaction writes at most one row and revisions are never reused.      *)
(* Matching, commercial validation, classification and review are whole    *)
(* decisions here; ContractMatching and ClassificationWorkflow have their  *)
(* steps.                                                                  *)
(***************************************************************************)
EXTENDS Naturals, FiniteSets, StateMachine

CONSTANTS MaxWorkers,       \* WORKER_CONCURRENCY
          MaxLoops,         \* bound: commercial reruns and reanalyses
          MaxFaults         \* bound: deliveries of a job that was already handled, worker
                            \* and API crashes, and archived jobs, all together

ASSUME BoundsAssumption == MaxWorkers \in Nat /\ MaxLoops \in Nat /\ MaxFaults \in Nat

VARIABLES status,     \* invoices.pipeline_status
          rev,        \* invoices.revision
          saga,       \* invoices.saga_status
          queued,     \* jobs the outbox or the queue still has to deliver
          archived,   \* jobs given up: retries exhausted or permanent error
          used,       \* <<job, purpose>>: the committed command keys of these jobs
          items,      \* what running workers hold: the invoice as they loaded it
          generated, failed, confirmed,   \* SAGA attempts, by invoice revision
          latest,     \* revision of the attempt that completed last, 0 if none
          handler,    \* prepared revision a reanalysis request still works on, or 0
          orphan,     \* prepared revision of a request whose process died, or 0
          loops, redeliveries, faults

invoiceVars == <<status, rev, saga>>
jobVars == <<queued, archived, used, items>>
attemptVars == <<generated, failed, confirmed, latest>>
budgetVars == <<loops, redeliveries, faults>>
vars == <<invoiceVars, jobVars, attemptVars, handler, orphan, budgetVars>>

----------------------------------------------------------------------------
(* The state machine.                                                      *)

Automatic == {"DOWNLOADED", "ARCHIVED", "MATCHING", "DEDUPE_CHECKED", "HEADER_READ", "LINES_READ",
              "COMMERCIAL_VALIDATING", "COMMERCIALLY_VALIDATED", "READY_FOR_SAGA"}
Blocked == {"AWAITING_CONTRACT", "AWAITING_MATCH_CONFIRM", "AWAITING_COMMERCIAL_REVIEW",
            "CLASSIFIED", "AWAITING_REVIEW"}
Terminal == {"DUPLICATE", "EXPORTED"}
Statuses == Automatic \cup Blocked \cup Terminal \cup {"EXPORTING"}

\* A decision: the new status, how many revisions the transaction takes to get
\* there, and whether it writes an outbox row.
To(s) == [to |-> s, by |-> 1, continue |-> TRUE]
Block(s) == [to |-> s, by |-> 1, continue |-> FALSE]
Classify(s, c) == [to |-> s, by |-> 2, continue |-> c]

\* What ApplyClassification (through CLASSIFIED) and ApplyClassificationBlock decide.
\* mutant: an invoice that needs no review is routed without its outbox row
ClassificationsNoRow == {Classify("READY_FOR_SAGA", FALSE), Classify("AWAITING_REVIEW", FALSE),
                         Classify("CLASSIFIED", TRUE), Block("AWAITING_REVIEW")}
Classifications == {Classify("READY_FOR_SAGA", TRUE), Classify("AWAITING_REVIEW", FALSE),
                    Classify("CLASSIFIED", TRUE), Block("AWAITING_REVIEW")}

\* What a job may decide on an invoice it loaded in status s.
Decisions(s) ==
    CASE s = "DOWNLOADED" -> {To("ARCHIVED")}
      [] s = "ARCHIVED" -> {To("MATCHING")}
      [] s = "MATCHING" -> {To("DEDUPE_CHECKED"), Block("AWAITING_CONTRACT"),
                            Block("AWAITING_MATCH_CONFIRM")}
      [] s = "DEDUPE_CHECKED" -> {To("HEADER_READ")}
      [] s = "HEADER_READ" -> {To("LINES_READ")}
      [] s = "LINES_READ" -> {To("COMMERCIAL_VALIDATING")}
      [] s = "COMMERCIAL_VALIDATING" -> {To("COMMERCIALLY_VALIDATED"),
                                         Block("AWAITING_COMMERCIAL_REVIEW")}
      [] s = "COMMERCIALLY_VALIDATED" -> Classifications
      [] s = "READY_FOR_SAGA" -> {To("EXPORTING")}
      [] OTHER -> {}

\* The suffix of the command key, one per kind of work of a job.
Purpose(s) == CASE s = "MATCHING" -> "contract-match"
                [] s = "COMMERCIAL_VALIDATING" -> "commercial-validation"
                [] s = "COMMERCIALLY_VALIDATED" -> "classification"
                [] OTHER -> "transition"

\* mutant: the pipeline status is stored as it is
SagaCopiesStatus(s) == IF s \in {"READY_FOR_SAGA", "EXPORTING", "EXPORTED"} THEN s ELSE saga

\* ApplyTransition sets the SAGA status with the status.
SagaAfter(s) == CASE s = "READY_FOR_SAGA" -> "READY"
                  [] s = "EXPORTING" -> "EXPORTING"
                  [] s = "EXPORTED" -> "EXPORTED"
                  [] OTHER -> saga

----------------------------------------------------------------------------
\* Ingestion commits the invoice, and its first outbox row unless it is a duplicate.
Init == /\ status \in {"DOWNLOADED", "DUPLICATE"}
        /\ rev = 1
        /\ saga = "NOT_READY"
        /\ queued = IF status = "DOWNLOADED" THEN {1} ELSE {}
        /\ archived = {} /\ used = {} /\ items = {}
        /\ generated = {} /\ failed = {} /\ confirmed = {} /\ latest = 0
        /\ handler = 0 /\ orphan = 0
        /\ loops = 0 /\ redeliveries = 0 /\ faults = 0

Budget == faults + redeliveries < MaxFaults
Fault == Budget /\ faults' = faults + 1
Loop == loops < MaxLoops /\ loops' = loops + 1

\* The invoice row of a transaction, and its outbox row if there is one.
Change(d) == /\ status' = d.to
             /\ rev' = rev + d.by
             /\ saga' = SagaAfter(d.to)
Rows(d) == IF d.continue THEN {rev + d.by} ELSE {}

(* ProcessContinuation. *)

\* The worker's delivery of w's job ends, with the outbox rows `new' and the command
\* keys `keys' of its last transaction.  The job leaves the queue for good, and its
\* keys with it; or it stays to be delivered again: the worker died between commit and
\* acknowledgement, or the outbox published the row a second time.
End(w, new, keys) ==
    /\ items' = items \ {w}
    /\ \/ /\ queued' = (queued \ {w.job}) \cup new
          /\ used' = {u \in used : u[1] # w.job}
          /\ UNCHANGED redeliveries
       \/ /\ Budget
          /\ redeliveries' = redeliveries + 1
          /\ queued' = queued \cup new
          /\ used' = used \cup keys

Ack(w) == End(w, {}, {})

Goes(w, s) == /\ items' = (items \ {w}) \cup {[w EXCEPT !.stage = s]}
              /\ UNCHANGED <<queued, used, redeliveries>>

\* The job reloads the invoice, whatever its revision is by now; a status no
\* worker advances is a stale no-op.
Load(j) ==
    LET w == [job |-> j, status |-> status, rev |-> rev, stage |-> "loaded"] IN
    /\ j \in queued
    /\ \A v \in items : v.job # j
    /\ Cardinality(items) < MaxWorkers
    /\ IF status \in Automatic \cup {"EXPORTING"}
       THEN items' = items \cup {w} /\ UNCHANGED <<queued, used, redeliveries>>
       ELSE Ack(w)
    /\ UNCHANGED <<invoiceVars, archived, attemptVars, handler, orphan, loops, faults>>

Key(w) == <<w.job, Purpose(w.status)>>

\* mutant: the compare-and-set does not compare the status and the revision
CurrentAlways(w) == w \in items
Current(w) == status = w.status /\ rev = w.rev

\* ApplyTransition, or the transaction of the step's own component.
Process(w) ==
    /\ w.stage = "loaded" /\ w.status \in Automatic
    /\ Key(w) \notin used
    /\ Current(w)
    /\ \E d \in Decisions(w.status) :
          /\ Change(d)
          /\ End(w, Rows(d), {Key(w)})
    /\ UNCHANGED <<archived, attemptVars, handler, orphan, loops, faults>>

\* The command is already committed, or ErrConflict: acknowledged as a no-op.
Stale(w) ==
    /\ w.stage = "loaded" /\ w.status \in Automatic
    /\ Key(w) \in used \/ ~Current(w)
    /\ Ack(w)
    /\ UNCHANGED <<invoiceVars, archived, attemptVars, handler, orphan, loops, faults>>

(* FileExporter.Export. *)

\* LoadExportInput and FindAttempt.  Readiness is evaluated again on the current
\* client settings, which may have changed since the last delivery.
ExportLoad(w) ==
    /\ w.stage = "loaded" /\ w.status = "EXPORTING"
    /\ \/ Goes(w, "failing")                          \* not ready, or the revision has moved
       \/ rev = w.rev /\ rev \in generated /\ Ack(w)
       \/ rev = w.rev /\ rev \in failed /\ Goes(w, "failing")
       \/ rev = w.rev /\ rev \notin generated \cup failed /\ Goes(w, "exporting")
    /\ UNCHANGED <<invoiceVars, archived, attemptVars, handler, orphan, loops, faults>>

\* mutant: a stored failure counts as handled
SaveAttemptAcksFailure(w) ==
    /\ w.stage = "exporting"
    /\ w.rev \notin generated \cup failed
    /\ latest' = w.rev
    /\ \/ generated' = generated \cup {w.rev} /\ UNCHANGED failed
       \/ failed' = failed \cup {w.rev} /\ UNCHANGED generated
    /\ Ack(w)
    /\ UNCHANGED <<invoiceVars, archived, confirmed, handler, orphan, loops, faults>>

\* generate and SaveAttempt: an attempt of the same revision that is already stored
\* wins over the one just generated.  The completion time is taken before the save, by
\* the worker's own clock: an attempt saved later is not always the latest.
SaveAttempt(w) ==
    /\ w.stage = "exporting"
    /\ \/ w.rev \in generated /\ Ack(w) /\ UNCHANGED attemptVars
       \/ w.rev \in failed /\ Goes(w, "failing") /\ UNCHANGED attemptVars
       \/ /\ w.rev \notin generated \cup failed
          /\ latest' \in {w.rev, latest} \ {0}
          /\ \/ generated' = generated \cup {w.rev} /\ Ack(w) /\ UNCHANGED failed
             \/ failed' = failed \cup {w.rev} /\ Goes(w, "failing") /\ UNCHANGED generated
          /\ UNCHANGED confirmed
    /\ UNCHANGED <<invoiceVars, archived, handler, orphan, loops, faults>>

\* A permanent export error; the invoice stays EXPORTING and no job follows.
RecordSagaFailure(w) ==
    /\ w.stage = "failing"
    /\ IF <<w.job, "failure">> \in used \/ ~Current(w)
       THEN UNCHANGED invoiceVars /\ Ack(w)
       ELSE /\ saga' = "FAILED"
            /\ rev' = rev + 1
            /\ End(w, {}, {<<w.job, "failure">>})
            /\ UNCHANGED status
    /\ UNCHANGED <<archived, attemptVars, handler, orphan, loops, faults>>

(* The other actors; their transactions check status and revision, too. *)

Advance(from, d) ==
    /\ status = from
    /\ Change(d)
    /\ queued' = queued \cup Rows(d)
    /\ UNCHANGED <<archived, used, items, attemptVars, handler, orphan, redeliveries, faults>>

Waive == Advance("AWAITING_CONTRACT", To("DEDUPE_CHECKED")) /\ UNCHANGED loops
Resume == /\ \/ Advance("AWAITING_CONTRACT", To("DEDUPE_CHECKED"))
             \/ Advance("AWAITING_CONTRACT", Block("AWAITING_MATCH_CONFIRM"))
          /\ UNCHANGED loops
ConfirmMatch == Advance("AWAITING_MATCH_CONFIRM", To("DEDUPE_CHECKED")) /\ UNCHANGED loops
AcceptException ==
    Advance("AWAITING_COMMERCIAL_REVIEW", To("COMMERCIALLY_VALIDATED")) /\ UNCHANGED loops
RerunValidation == Advance("AWAITING_COMMERCIAL_REVIEW", To("COMMERCIAL_VALIDATING")) /\ Loop
AnalysisToReview == Advance("CLASSIFIED", Block("AWAITING_REVIEW")) /\ UNCHANGED loops
CompleteReview == Advance("AWAITING_REVIEW", To("READY_FOR_SAGA")) /\ UNCHANGED loops

\* mutant: the SAGA status is not reset
PrepareKeepsSaga ==
    /\ status \in {"CLASSIFIED", "AWAITING_REVIEW", "READY_FOR_SAGA"}
    /\ status' = "COMMERCIALLY_VALIDATED"
    /\ rev' = rev + 1
    /\ handler' = rev + 1
    /\ Loop
    /\ UNCHANGED <<saga, jobVars, attemptVars, orphan, redeliveries, faults>>

\* mutant: an export that has started is not looked at
PrepareDuringExport ==
    /\ status \in {"CLASSIFIED", "AWAITING_REVIEW", "READY_FOR_SAGA", "EXPORTING"}
    /\ status' = "COMMERCIALLY_VALIDATED"
    /\ rev' = rev + 1
    /\ saga' = "NOT_READY"
    /\ handler' = rev + 1
    /\ Loop
    /\ UNCHANGED <<jobVars, attemptVars, orphan, redeliveries, faults>>

\* Reanalyze, first transaction: no outbox row, the request itself goes on.  One
\* request at a time (bound).
PrepareReanalysis ==
    /\ handler = 0
    /\ status \in {"CLASSIFIED", "AWAITING_REVIEW", "READY_FOR_SAGA"}
    /\ status' = "COMMERCIALLY_VALIDATED"
    /\ rev' = rev + 1
    /\ saga' = "NOT_READY"
    /\ handler' = rev + 1
    /\ Loop
    /\ UNCHANGED <<jobVars, attemptVars, orphan, redeliveries, faults>>

\* mutant: the request is not processed on
RunReanalysisDropped ==
    /\ handler # 0
    /\ handler' = 0
    /\ UNCHANGED <<invoiceVars, jobVars, attemptVars, orphan, budgetVars>>

\* Reanalyze, second transaction: ProcessInvoice at the prepared revision.
RunReanalysis ==
    /\ handler # 0
    /\ handler' = 0
    /\ IF status = "COMMERCIALLY_VALIDATED" /\ rev = handler
       THEN \E d \in Classifications : Change(d) /\ queued' = queued \cup Rows(d)
       ELSE UNCHANGED <<invoiceVars, queued>>
    /\ UNCHANGED <<archived, used, items, attemptVars, orphan, budgetVars>>

\* mutant: a failed attempt is confirmed, too
ConfirmAnyAttempt ==
    /\ latest # 0
    /\ Advance("EXPORTING", Block("EXPORTED"))
    /\ UNCHANGED loops

\* ConfirmSagaImport: the human names the latest attempt, which must be GENERATED.
ConfirmSagaImport ==
    /\ status = "EXPORTING"
    /\ latest \in generated \ confirmed
    /\ Change(Block("EXPORTED"))
    /\ confirmed' = confirmed \cup {latest}
    /\ UNCHANGED <<jobVars, generated, failed, latest, handler, orphan, budgetVars>>

(* Faults. *)

\* A worker dies between two of its transactions: the job is retried.
Crash(w) == /\ Fault
            /\ items' = items \ {w}
            /\ UNCHANGED <<invoiceVars, queued, archived, used, attemptVars, handler, orphan,
                           loops, redeliveries>>

\* permanent(err), or the last retry failed.
Archive(j) == /\ Fault
              /\ j \in queued
              /\ queued' = queued \ {j}
              /\ archived' = archived \cup {j}
              /\ used' = {u \in used : u[1] # j}
              /\ items' = {w \in items : w.job # j}
              /\ UNCHANGED <<invoiceVars, attemptVars, handler, orphan, loops, redeliveries>>

\* The API process dies between the two transactions of Reanalyze.
LoseReanalysis == /\ handler # 0
                  /\ Fault
                  /\ handler' = 0
                  /\ orphan' = handler
                  /\ UNCHANGED <<invoiceVars, jobVars, attemptVars, loops, redeliveries>>

\* The same request with the same Idempotency-Key: the prepared revision is replayed.
RetryReanalysis == /\ orphan # 0
                   /\ handler = 0
                   /\ handler' = orphan
                   /\ orphan' = 0
                   /\ UNCHANGED <<invoiceVars, jobVars, attemptVars, budgetVars>>

----------------------------------------------------------------------------
WorkerStep(w) == Process(w) \/ Stale(w) \/ ExportLoad(w) \/ SaveAttempt(w) \/ RecordSagaFailure(w)
HumanStep == \/ Waive \/ Resume \/ ConfirmMatch \/ AcceptException \/ RerunValidation
             \/ CompleteReview \/ PrepareReanalysis \/ RetryReanalysis \/ ConfirmSagaImport

Next == \/ \E j \in queued : Load(j) \/ Archive(j)
        \/ \E w \in items : WorkerStep(w) \/ Crash(w)
        \/ HumanStep \/ AnalysisToReview \/ RunReanalysis \/ LoseReanalysis

Spec == Init /\ [][Next]_vars

\* Workers poll the queue and finish what they load; the request handler of a
\* reanalysis runs on.  Nobody makes the accountant act.
FairSpec == /\ Spec
            /\ WF_vars(\E j \in queued : Load(j))
            /\ WF_vars(\E w \in items : WorkerStep(w))
            /\ WF_vars(RunReanalysis)

----------------------------------------------------------------------------
(* Correctness.                                                            *)

Items == [job : Nat, status : Automatic \cup {"EXPORTING"}, rev : Nat,
          stage : {"loaded", "exporting", "failing"}]
Purposes == {"transition", "contract-match", "commercial-validation", "classification", "failure"}

\* Every variable has its type; no job and no loaded invoice is from the future.
TypeOK == /\ status \in Statuses
          /\ rev \in Nat \ {0}
          /\ saga \in {"NOT_READY", "READY", "EXPORTING", "EXPORTED", "FAILED"}
          /\ queued \subseteq 1 .. rev /\ archived \subseteq 1 .. rev
          /\ used \subseteq (Nat \X Purposes)
          /\ items \subseteq Items
          /\ \A w \in items : 1 <= w.job /\ w.job <= w.rev /\ w.rev <= rev
          /\ generated \subseteq 1 .. rev /\ failed \subseteq 1 .. rev /\ confirmed \subseteq 1 .. rev
          /\ latest \in 0 .. rev /\ handler \in 0 .. rev /\ orphan \in 0 .. rev
          /\ loops \in Nat /\ redeliveries \in Nat /\ faults \in Nat

\* An invoice in a status that only a worker can advance has its continuation: the
\* job of the transaction that brought it there is still to be delivered or visibly
\* archived, or a reanalysis request holds it.  Duplicate, late and crashed
\* deliveries, and every human command in between, never lose the last one; only a
\* reanalysis whose process died is left to nobody.
RunnableHasJob ==
    status \in Automatic => \/ rev \in queued \cup archived
                            \/ rev = handler
                            \/ rev = orphan

\* The SAGA status the client screens show agrees with the pipeline status, through
\* reanalysis, failed exports and late jobs.
SagaAgrees == /\ saga = "READY" <=> status = "READY_FOR_SAGA"
              /\ saga \in {"EXPORTING", "FAILED"} <=> status = "EXPORTING"
              /\ saga = "EXPORTED" <=> status = "EXPORTED"

\* EXPORTED means that a human confirmed one generated artifact (SAGA_EXPORT_UX.md):
\* exactly one attempt is confirmed, it was GENERATED, and only then is it EXPORTED.
ExportedWasConfirmed == /\ confirmed # {} <=> status = "EXPORTED"
                        /\ confirmed \subseteq generated
                        /\ Cardinality(confirmed) <= 1

\* When the job of an export is acknowledged, the human has something to decide on:
\* an artifact of the current revision, the latest one, or a recorded failure.
ExportWaitsForHuman ==
    status = "EXPORTING" /\ saga = "EXPORTING" /\ rev \notin queued \cup archived
        => rev \in generated /\ latest = rev

\* Once the export has started nothing takes the invoice back, and a terminal invoice
\* never moves: neither a reanalysis, nor a late job, nor a second confirmation.
ExportIrrevocable ==
    [][/\ status = "EXPORTING" => status' \in {"EXPORTING", "EXPORTED"}
       /\ status \in Terminal => UNCHANGED invoiceVars]_vars

\* An invoice a worker can advance does not stay there, as long as its job is not
\* archived and its reanalysis request not killed.
EveryRunRests ==
    status \in Automatic ~> status \notin Automatic \/ archived # {} \/ orphan # 0

\* However jobs are repeated, delayed or race with the accountant, the invoice moves
\* along the declared transitions: the guards of all the actors together enforce the
\* table that only ApplyTransition consults.
TheInvoice == {"invoice"}
Life == INSTANCE InvoiceLifecycle WITH
            Invoices <- TheInvoice, Starts <- {"DOWNLOADED", "DUPLICATE"},
            status <- [i \in TheInvoice |-> status], active <- [i \in TheInvoice |-> TasksOf(status)]
ImplementsLifecycle == Life!Spec
=============================================================================

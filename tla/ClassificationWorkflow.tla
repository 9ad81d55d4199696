----------------------- MODULE ClassificationWorkflow -----------------------
(***************************************************************************)
(* The classification of one invoice with automatic AI analysis enabled    *)
(* (internal/classification, internal/accountinganalysis, and their store  *)
(* in internal/platform/postgres).  A classification run decides every     *)
(* line dimension by rule or leaves it for review; dimensions without a    *)
(* match are first sent to the AI provider by an Asynq job while the       *)
(* invoice rests in CLASSIFIED, and one validation task per run is opened  *)
(* when the analysis ends.  Meanwhile the accountant may review, request   *)
(* another analysis or reanalyse the whole invoice, which starts a new run *)
(* while jobs of the old one are still queued or being answered.           *)
(*                                                                         *)
(* Invoices share nothing here, so one is enough, and only the rows of its *)
(* current run are kept: no statement reads or changes older ones to an    *)
(* effect.  A transaction is one step: it locks or compares what it read.  *)
(* An attempt of a job that ends in a retryable error changes nothing and  *)
(* is the same as an attempt not yet begun; the last one is Fail.          *)
(***************************************************************************)
EXTENDS Naturals, StateMachine

CONSTANTS Dims,         \* (line, dimension) pairs
          MaxLoops,     \* bound: reanalyses
          MaxRequests,  \* bound: analyses requested, or reanalyses repeated, by a human
          MaxFaults,    \* bound: processes and attempts that die, see LoseProcess, LoseWorker
          Cases         \* invoices, each with its own bounds, see CasesAssumption

ASSUME BoundsAssumption == MaxLoops \in Nat /\ MaxRequests \in Nat /\ MaxFaults \in Nat
ASSUME CasesAssumption ==
    Cases \subseteq [lines : SUBSET Dims \ {{}}, loops : 0..MaxLoops, requests : 0..MaxRequests,
                    faults : 0..MaxFaults]

VARIABLES case,      \* the invoice, a member of Cases; it never changes
          status,    \* invoices.pipeline_status
          run,       \* invoices.current_classification_run_id, 0 before the first
          rows,      \* line_classifications of the current run
          task,      \* the CLASSIFICATION task of each run
          analysis,  \* accounting_analysis_runs, by command key
          jobs,      \* analysis jobs queued in Asynq
          archived,  \* analysis jobs Asynq gave up; they keep their task id
          busy,      \* jobs being executed, with what the worker loaded
          proc,      \* calls of WorkflowService.Request in progress
          loops, requests, faults

invoiceVars == <<status, run, rows>>
analysisVars == <<analysis, jobs, archived, busy>>
budgetVars == <<case, loops, requests, faults>>
vars == <<invoiceVars, task, analysisVars, proc, budgetVars>>

Lines == case.lines   \* its (line, dimension) pairs
Runs == 1..(MaxLoops + 1)
\* Command keys: automatic:classification:<command of the run>, then the human ones.
Ids == 1..(MaxLoops + 1 + MaxRequests)
IsAutomatic(a) == a \in Runs

Statuses == {"COMMERCIALLY_VALIDATED", "CLASSIFIED", "AWAITING_REVIEW", "READY_FOR_SAGA", "EXPORTING"}

\* RULE: rule, direction or learned mapping, with a value.  CONFLICT: AMBIGUOUS because
\* approved knowledge disagrees.  NO_MATCH stands for the other AMBIGUOUS as well.
\* ACCEPTED stands for CORRECTED.  No row is REJECTED: line_classifications_review_shape
\* asks every row that is not pending for a value, so that transaction fails.
Row == [source : {"RULE", "NO_MATCH", "CONFLICT", "PROPOSAL"},
        review : {"PENDING", "ACCEPTED"}]
Absent == [source |-> "NONE", review |-> "NONE"]   \* a blocked run has no rows
Unresolved == {"NO_MATCH", "CONFLICT"}

\* What the policy, the account mappings and the approved knowledge may decide.
PolicyRows == [source : {"RULE", "NO_MATCH", "CONFLICT"}, review : {"PENDING"}]
              \cup [source : {"RULE"}, review : {"ACCEPTED"}]

\* ResolveClassification
Resolve(r) == IF r.review = "ACCEPTED" THEN "FINAL"
              ELSE IF r.source \in {"PROPOSAL", "RULE"} THEN "NEEDS_REVIEW"
              ELSE "NEEDS_AI"

Complete(rs) == \A d \in Lines : Resolve(rs[d]) = "FINAL"
NeedAI == {d \in Lines : Resolve(rows[d]) = "NEEDS_AI"}

OpenTasks == {r \in Runs : task[r] = "OPEN"}
\* validation_tasks_one_active_per_invoice and validation_tasks_classification_run_active
MayInsertTask(r) == OpenTasks = {} /\ task[r] = "none"
InsertTask(r) == task' = [task EXCEPT ![r] = "OPEN"]
ResolveTasks == task' = [r \in Runs |-> IF task[r] = "OPEN" THEN "RESOLVED" ELSE task[r]]

----------------------------------------------------------------------------
Init == /\ case \in Cases
        /\ status = "COMMERCIALLY_VALIDATED"
        /\ run = 0
        /\ rows = [d \in Lines |-> Absent]
        /\ task = [r \in Runs |-> "none"]
        /\ analysis = [a \in Ids |-> [status |-> "none", run |-> 0]]
        /\ jobs = {} /\ archived = {} /\ busy = {} /\ proc = {}
        /\ loops = 0 /\ requests = 0 /\ faults = 0

----------------------------------------------------------------------------
(* Classification: the pipeline job, or the request that reanalyses.       *)

\* Result.NeedsAI leaves knowledge conflicts to the human.
DeferReviewForAI(rs) == \E d \in Lines : rs[d] = [source |-> "NO_MATCH", review |-> "PENDING"]

\* ApplyClassification.  Without pending rows the readiness evaluation may still block.
\* The insertion of the task fails, and the transaction with it, while another is open.
ApplyClassification(rs) ==
    /\ status = "COMMERCIALLY_VALIDATED" /\ run + 1 \in Runs
    /\ run' = run + 1
    /\ rows' = rs
    /\ \/ /\ DeferReviewForAI(rs)
          /\ status' = "CLASSIFIED"
          /\ proc' = proc \cup {[id |-> run + 1, stage |-> "prepare"]}
          /\ UNCHANGED task
       \/ /\ ~DeferReviewForAI(rs)
          /\ status' = "AWAITING_REVIEW"
          /\ MayInsertTask(run + 1) /\ InsertTask(run + 1)
          /\ UNCHANGED proc
       \/ /\ \A d \in Lines : rs[d].review = "ACCEPTED"
          /\ status' = "READY_FOR_SAGA"
          /\ UNCHANGED <<task, proc>>
    /\ UNCHANGED <<analysisVars, budgetVars>>

\* A fiscal profile that is missing or invalid: a run without rows.
ApplyClassificationBlock ==
    /\ status = "COMMERCIALLY_VALIDATED" /\ run + 1 \in Runs
    /\ run' = run + 1
    /\ rows' = [d \in Lines |-> Absent]
    /\ status' = "AWAITING_REVIEW"
    /\ MayInsertTask(run + 1) /\ InsertTask(run + 1)
    /\ UNCHANGED <<analysisVars, proc, budgetVars>>

\* ProcessInvoice: a policy error or a rolled back transaction changes nothing.
ProcessInvoice == \/ \E rs \in [Lines -> PolicyRows] : ApplyClassification(rs)
                  \/ ApplyClassificationBlock

----------------------------------------------------------------------------
(* The end of an analysis: ensureAccountingReviewTx, the last statement of *)
(* CompleteAnalysis and FailAnalysis.                                      *)

\* It only acts for the current run; rs are the rows of that run.
Relevant(a, rs) == analysis[a].run = run /\ ~Complete(rs)

\* A task that cannot be inserted and does not exist for this run is an error
\* (no row to select), and everything the transaction did is undone.
ReviewConflict(a, rs) == Relevant(a, rs) /\ task[run] = "none" /\ OpenTasks # {}

EnsureReview(a, rs) ==
    /\ ~ReviewConflict(a, rs)
    /\ IF Relevant(a, rs) /\ task[run] = "none" THEN InsertTask(run) ELSE UNCHANGED task
    /\ status' = CASE status = "CLASSIFIED" /\ Relevant(a, rs) -> "AWAITING_REVIEW"
                   [] status = "CLASSIFIED" /\ analysis[a].run = run /\ Complete(rs) -> "READY_FOR_SAGA"
                   [] OTHER -> status

End(a, s) == analysis' = [analysis EXCEPT ![a].status = s]

\* FailAnalysis, without the queue's side.
\* mutant: the failure is recorded, nobody is asked to review
FailSilently(a) == /\ IF analysis[a].status = "RUNNING" THEN End(a, "FAILED") ELSE UNCHANGED analysis
                   /\ UNCHANGED <<status, task>>
FailAnalysis(a) == \/ /\ analysis[a].status = "RUNNING" /\ EnsureReview(a, rows)
                      /\ End(a, "FAILED")
                   \/ /\ analysis[a].status # "RUNNING" \/ ReviewConflict(a, rows)
                      /\ UNCHANGED <<analysis, status, task>>

----------------------------------------------------------------------------
(* WorkflowService.Request and EnsureAutomatic, in the process that        *)
(* classified or in an API request.                                        *)

Leave(p) == proc' = proc \ {p}
Move(p, s) == proc' = (proc \ {p}) \cup {[p EXCEPT !.stage = s]}

\* PrepareAnalysis.  The run is the invoice's current one, whoever asks.
Prepare(p) ==
    /\ p.stage = "prepare"
    /\ \/ /\ analysis[p.id].status = "RUNNING" /\ Move(p, "publish")
          /\ UNCHANGED analysis
       \/ /\ analysis[p.id].status \notin {"none", "RUNNING"} \/ (analysis[p.id].status = "none" /\ NeedAI = {})
          /\ Leave(p) /\ UNCHANGED analysis
       \/ /\ analysis[p.id].status = "none" /\ NeedAI # {}
          /\ analysis' = [analysis EXCEPT ![p.id] = [status |-> "RUNNING", run |-> run]]
          /\ Move(p, "publish")
       \* no legislation, no direction, an account of the profile is not postable
       \/ /\ analysis[p.id].status = "none"
          /\ IF IsAutomatic(p.id) THEN Move(p, "manual") ELSE Leave(p)
          /\ UNCHANGED analysis
    /\ UNCHANGED <<invoiceVars, task, jobs, archived, busy, budgetVars>>

\* An open task of another run keeps the new one out, and the activity event that
\* refers to it fails.
\* mutant: the event is dropped instead, and the invoice moved without a task
OpenManualReviewAnyway(p) ==
    /\ p.stage = "manual" /\ Leave(p)
    /\ status' = IF status = "CLASSIFIED" THEN "AWAITING_REVIEW" ELSE status
    /\ IF status = "CLASSIFIED" /\ MayInsertTask(run) THEN InsertTask(run) ELSE UNCHANGED task
    /\ UNCHANGED <<run, rows, analysisVars, budgetVars>>
OpenManualReview(p) ==
    /\ p.stage = "manual" /\ Leave(p)
    /\ \/ /\ status = "CLASSIFIED" /\ MayInsertTask(run)
          /\ status' = "AWAITING_REVIEW" /\ InsertTask(run)
       \/ /\ status # "CLASSIFIED" \/ ~MayInsertTask(run)
          /\ UNCHANGED <<status, task>>
    /\ UNCHANGED <<run, rows, analysisVars, budgetVars>>

\* mutant: the error of the queue is dropped
PublishUnchecked(p) ==
    /\ p.stage = "publish" /\ Leave(p)
    /\ jobs' \in {jobs, jobs \cup ({p.id} \ archived)}
    /\ UNCHANGED <<invoiceVars, task, analysis, archived, busy, budgetVars>>
\* PublishAccountingAnalysis: a task id Asynq still holds, archived included, is a
\* success; an error may come after the job was accepted.
Publish(p) ==
    /\ p.stage = "publish"
    /\ \/ Leave(p) /\ jobs' = jobs \cup ({p.id} \ archived)
       \/ Move(p, "unpublished") /\ jobs' \in {jobs, jobs \cup ({p.id} \ archived)}
    /\ UNCHANGED <<invoiceVars, task, analysis, archived, busy, budgetVars>>

FailUnpublished(p) ==
    /\ p.stage = "unpublished"
    /\ FailAnalysis(p.id)
    /\ Leave(p)
    /\ UNCHANGED <<run, rows, jobs, archived, busy, budgetVars>>

Request(p) == Prepare(p) \/ OpenManualReview(p) \/ Publish(p) \/ FailUnpublished(p)

----------------------------------------------------------------------------
(* The worker: AccountingAnalysisHandler and WorkflowService.Process.      *)

\* LoadAnalysisExecution; an analysis that is over is acknowledged.
Load(a) ==
    /\ a \in jobs /\ \A b \in busy : b.id # a
    /\ \/ /\ analysis[a].status = "RUNNING"
          /\ busy' = busy \cup {[id |-> a, stale |-> analysis[a].run # run, ask |-> NeedAI]}
          /\ UNCHANGED jobs
       \/ /\ analysis[a].status # "RUNNING"
          /\ jobs' = jobs \ {a}
          /\ UNCHANGED busy
    /\ UNCHANGED <<invoiceVars, task, analysis, archived, proc, budgetVars>>

Ack(b) == busy' = busy \ {b} /\ jobs' = jobs \ {b.id}

\* mutant: the reason is stored as the status
SkipStoresReason(b) ==
    /\ b.stale \/ b.ask = {}
    /\ IF analysis[b.id].status = "RUNNING"
       THEN End(b.id, IF b.stale THEN "SUPERSEDED_CLASSIFICATION_RUN" ELSE "NO_UNRESOLVED_DIMENSIONS")
       ELSE UNCHANGED analysis
    /\ Ack(b)
    /\ UNCHANGED <<invoiceVars, task, archived, proc, budgetVars>>
\* SkipAnalysis
Skip(b) ==
    /\ b.stale \/ b.ask = {}
    /\ IF analysis[b.id].status = "RUNNING"
       THEN End(b.id, IF b.stale THEN "SUPERSEDED" ELSE "NOT_NEEDED")
       ELSE UNCHANGED analysis
    /\ Ack(b)
    /\ UNCHANGED <<invoiceVars, task, archived, proc, budgetVars>>

\* The rows an answer for the dimensions in ds may be written to.
\* mutant: the effective value is not looked at
AnsweredAnyValue(a, ds) == {d \in ds : analysis[a].run = run /\ rows[d].source \in Unresolved}
Answered(a, ds) == {d \in ds : /\ analysis[a].run = run
                               /\ rows[d].source \in Unresolved
                               /\ rows[d].review # "ACCEPTED"}

WithProposals(ds) == [d \in Lines |-> IF d \in ds THEN [source |-> "PROPOSAL", review |-> "PENDING"]
                                     ELSE rows[d]]

\* CompleteAnalysis, with decisions for some of the dimensions that were asked.
\* mutant: the update of the analysis is not conditional on RUNNING
CompleteAlways(b) ==
    /\ ~b.stale /\ b.ask # {}
    /\ \E ds \in SUBSET b.ask :
          /\ rows' = WithProposals(Answered(b.id, ds))
          /\ EnsureReview(b.id, rows')
          /\ End(b.id, "DONE")
    /\ Ack(b)
    /\ UNCHANGED <<run, archived, proc, budgetVars>>
CompleteAnalysis(b) ==
    /\ ~b.stale /\ b.ask # {}
    /\ \/ \E ds \in SUBSET b.ask :
             /\ analysis[b.id].status = "RUNNING"
             /\ rows' = WithProposals(Answered(b.id, ds))
             /\ EnsureReview(b.id, rows')
             /\ End(b.id, "DONE")
       \/ /\ analysis[b.id].status # "RUNNING"
          /\ UNCHANGED <<status, rows, task, analysis>>
    /\ Ack(b)
    /\ UNCHANGED <<run, archived, proc, budgetVars>>

\* A permanent error, or the last of the retries: with an open task of another run this
\* fails as well, and Asynq archives the job.
Fail(b) ==
    /\ ~b.stale /\ b.ask # {}
    /\ FailAnalysis(b.id)
    /\ Ack(b)
    /\ archived' = IF ReviewConflict(b.id, rows) /\ analysis[b.id].status = "RUNNING"
                   THEN archived \cup {b.id} ELSE archived
    /\ UNCHANGED <<run, rows, proc, budgetVars>>

Work(b) == Skip(b) \/ CompleteAnalysis(b) \/ Fail(b)

----------------------------------------------------------------------------
(* The accountant.                                                         *)

\* A new analysis, also for an invoice that is reviewed or exported.
HumanRequest ==
    /\ requests < case.requests /\ run > 0
    /\ requests' = requests + 1
    /\ proc' = proc \cup {[id |-> MaxLoops + 1 + requests', stage |-> "prepare"]}
    /\ UNCHANGED <<invoiceVars, task, analysisVars, case, loops, faults>>

\* A reanalysis request sent again with its key: the run is committed, the analysis is
\* ensured again.  The first run has no such request: its job is a no-op once CLASSIFIED.
RepeatReanalysis ==
    /\ requests < case.requests
    /\ requests' = requests + 1
    /\ \E r \in 2..run : proc' = proc \cup {[id |-> r, stage |-> "prepare"]}
    /\ UNCHANGED <<invoiceVars, task, analysisVars, case, loops, faults>>

\* mutant: a row that has no proposal is not counted as remaining
FinishWithoutProposals(rs) ==
    \/ /\ \A d \in Lines : rs[d].review = "ACCEPTED" \/ rs[d].source \in Unresolved
       /\ status = "AWAITING_REVIEW"
       /\ status' = "READY_FOR_SAGA" /\ ResolveTasks
    \/ UNCHANGED <<status, task>>
\* The readiness evaluation may hold back a complete invoice.
Finish(rs) == \/ /\ Complete(rs) /\ status = "AWAITING_REVIEW"
                 /\ status' = "READY_FOR_SAGA" /\ ResolveTasks
              \/ UNCHANGED <<status, task>>

\* ReviewClassification approves or corrects a row, decided before or not, under any open
\* task of the invoice.
ReviewClassification(d) ==
    /\ status = "AWAITING_REVIEW" /\ OpenTasks # {} /\ rows[d] # Absent
    /\ rows' = [rows EXCEPT ![d].review = "ACCEPTED"]
    /\ Finish(rows')
    /\ UNCHANGED <<run, analysisVars, proc, budgetVars>>

\* The pending rows with a proposed value; those in ds passed validation.  The status
\* of the invoice matters only when it is completed.
ApproveAll(ds) ==
    /\ run > 0 /\ task[run] = "OPEN" /\ ds # {}
    /\ \A d \in ds : rows[d].review = "PENDING" /\ rows[d].source \in {"RULE", "PROPOSAL"}
    /\ rows' = [d \in Lines |-> IF d \in ds THEN [rows[d] EXCEPT !.review = "ACCEPTED"] ELSE rows[d]]
    /\ Finish(rows')
    /\ UNCHANGED <<run, analysisVars, proc, budgetVars>>

\* PrepareClassificationReanalysis: the run stays current until the next one commits.
PrepareReanalysis ==
    /\ loops < case.loops
    /\ status \in {"CLASSIFIED", "AWAITING_REVIEW", "READY_FOR_SAGA"}
    /\ status' = "COMMERCIALLY_VALIDATED"
    /\ ResolveTasks
    /\ loops' = loops + 1
    /\ UNCHANGED <<run, rows, analysisVars, proc, case, requests, faults>>

\* The continuation of a ready invoice; the export is InvoicePipeline's.
Export ==
    /\ status = "READY_FOR_SAGA"
    /\ status' = "EXPORTING"
    /\ UNCHANGED <<run, rows, task, analysisVars, proc, budgetVars>>

Human == \/ HumanRequest \/ RepeatReanalysis \/ PrepareReanalysis
         \/ \E d \in Lines : ReviewClassification(d)
         \/ \E ds \in SUBSET Lines : ApproveAll(ds)

----------------------------------------------------------------------------
(* Faults.                                                                 *)

Fault == faults < case.faults /\ faults' = faults + 1

\* The process dies between two transactions, or one of its calls fails with an error
\* that is left to a retry of the pipeline job.
LoseProcess(p) ==
    /\ Fault /\ Leave(p)
    /\ UNCHANGED <<invoiceVars, task, analysisVars, case, loops, requests>>

\* A worker dies with the job; on the last attempt Asynq archives it.
LoseWorker(b) ==
    /\ Fault /\ busy' = busy \ {b}
    /\ \/ jobs' = jobs \ {b.id} /\ archived' = archived \cup {b.id}
       \/ UNCHANGED <<jobs, archived>>
    /\ UNCHANGED <<invoiceVars, task, analysis, proc, case, loops, requests>>

Next == \/ ProcessInvoice
        \/ \E p \in proc : Request(p) \/ LoseProcess(p)
        \/ \E a \in Ids : Load(a)
        \/ \E b \in busy : Work(b) \/ LoseWorker(b)
        \/ Human
        \/ Export

Spec == Init /\ [][Next]_vars

\* Pipeline jobs are retried, a process that runs goes on, Asynq delivers and every
\* attempt ends within its timeout.  Nothing is assumed of humans or of a good answer.
FairSpec == /\ Spec
            /\ WF_vars(ProcessInvoice)
            /\ WF_vars(\E p \in proc : Request(p))
            /\ \A a \in Ids : /\ WF_vars(Load(a))
                              /\ WF_vars(\E b \in busy : b.id = a /\ Work(b))

----------------------------------------------------------------------------
\* Every variable has its values; a worker and a process hold known analyses.
TypeOK ==
    /\ status \in Statuses
    /\ run \in 0..(MaxLoops + 1)
    /\ rows \in [Lines -> Row \cup {Absent}]
    /\ task \in [Runs -> {"none", "OPEN", "RESOLVED"}]
    /\ analysis \in [Ids -> [status : {"none", "RUNNING", "DONE", "FAILED", "SUPERSEDED", "NOT_NEEDED"},
                             run : 0..(MaxLoops + 1)]]
    /\ jobs \subseteq Ids /\ archived \subseteq Ids
    /\ busy \subseteq [id : Ids, stale : BOOLEAN, ask : SUBSET Lines]
    /\ proc \subseteq [id : Ids, stage : {"prepare", "publish", "manual", "unpublished"}]
    /\ case \in Cases
    /\ loops \in 0..MaxLoops /\ requests \in 0..MaxRequests /\ faults \in 0..MaxFaults

\* An invoice that waits for review has the open task of its current run, whichever of
\* the five transactions that route to AWAITING_REVIEW brought it there and whatever
\* analyses end afterwards (ReviewClassification and ApproveAll find it by that task).
ReviewHasTask == status = "AWAITING_REVIEW" => task[run] = "OPEN"

\* An invoice that is ready or exporting has a final decision on every dimension of its
\* current run and no open task for it, although answers of its analyses may still arrive
\* (IsAccountingClassificationComplete is the only way in, evaluated in four places).
ReadyIsFinal == status \in {"READY_FOR_SAGA", "EXPORTING"} => Complete(rows) /\ task[run] # "OPEN"

\* What is decided in the current run stays decided, as it was found, however late an
\* answer arrives and whatever else is reviewed or approved (the filters of the UPDATE in
\* CompleteAnalysis).
AcceptedStays ==
    [][\A d \in Lines : run' = run /\ rows[d].review = "ACCEPTED" => rows'[d] = rows[d]]_vars

\* An analysis ends once: a publisher that records a failure and the worker that got the
\* job all the same, or a second worker, do not overwrite each other's outcome.
AnalysisEndsOnce ==
    [][\A a \in Ids : analysis[a].status \notin {"none", "RUNNING"} => analysis'[a] = analysis[a]]_vars

\* An invoice that rests in CLASSIFIED is attended to: a request for the analysis of its
\* run is under way, or that analysis runs for it and Asynq has the job; with the same
\* exceptions as AnalysisHandsOver, which rests on it.
ClassifiedIsAttended ==
    status = "CLASSIFIED" /\ faults = 0 /\ OpenTasks = {} =>
        \/ \E p \in proc : p.id = run
        \/ analysis[run] = [status |-> "RUNNING", run |-> run] /\ run \in jobs

\* An invoice that waits for the AI is handed to the accountant, whether the provider
\* answers, fails or was never asked; except after a fault, and while a task of a
\* superseded run is open (see SupersededStaysClosed).
AnalysisHandsOver ==
    (status = "CLASSIFIED" /\ faults = 0) ~> (status # "CLASSIFIED" \/ OpenTasks # {} \/ faults > 0)

\* The same without the exceptions: "Gemini cannot leave the invoice blocked in RUNNING".
ClassifiedMovesOn == (status = "CLASSIFIED") ~> (status # "CLASSIFIED")

\* Reanalysis marks the task of the run it supersedes as superseded: until the new run
\* decides, the invoice has no open task.
SupersededStaysClosed == status = "COMMERCIALLY_VALIDATED" => OpenTasks = {}

\* The abstract life of the invoice: policy, AI and accountant move it along the declared
\* transitions, and into AWAITING_REVIEW and out of it with the task of its run.  In other
\* statuses a task of a superseded run may be open (see SupersededStaysClosed): there the
\* life of the invoice does not look at tasks.
TheInvoice == {"invoice"}
Life == INSTANCE InvoiceLifecycle WITH
            Invoices <- TheInvoice, Starts <- {"COMMERCIALLY_VALIDATED"}, status <- [i \in TheInvoice |-> status],
            active <- [i \in TheInvoice |-> IF status = "AWAITING_REVIEW"
                                     THEN {Task("CLASSIFICATION", task[r]) : r \in OpenTasks \cap {run}} ELSE {}]
ImplementsLifecycle == Life!Spec
=============================================================================

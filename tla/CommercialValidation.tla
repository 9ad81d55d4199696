------------------------- MODULE CommercialValidation -------------------------
(***************************************************************************)
(* The commercial validation of one invoice against its contract           *)
(* (internal/commercialvalidation and commercial_validation.go of the      *)
(* store).  A continuation job that finds the invoice COMMERCIAL_VALIDATING*)
(* loads the invoice, the active snapshot of the contract, its variables,  *)
(* the confirmed aliases and the recorded dates in separate statements,    *)
(* lets the engine decide, and saves the run in one transaction.  A run    *)
(* with blocking findings waits for the accountant, who corrects what the  *)
(* engine reads, accepts exceptions, or asks for another run.              *)
(*                                                                         *)
(* The inputs are versions: a change of one is a new version.  The engine  *)
(* is a function of what it reads, and which findings block is left open.  *)
(* A job is named by the revision its transaction gave the invoice, as in  *)
(* InvoicePipeline, and delivered at least once; the run of a job is named *)
(* by the job.  The clocks that order runs (created_at) agree.             *)
(***************************************************************************)
EXTENDS Naturals, Sequences, StateMachine

CONSTANTS Workers,
          Findings,     \* what may block an invoice, beside missing coverage
          MaxReruns,    \* bound: reruns asked by the accountant
          MaxChanges,   \* bound: changes of the inputs
          MaxFaults     \* bound: crashes, and deliveries of a job already handled

ASSUME BoundsAssumption == MaxReruns \in Nat /\ MaxChanges \in Nat /\ MaxFaults \in Nat
ASSUME CoverageAssumption == "coverage" \notin Findings

VARIABLES kind,      \* with a contract, waived without one, or issued; never changes
          status,    \* invoices.pipeline_status
          rev,       \* invoices.revision, counted from the first validation
          inputs,    \* the version of each input; terms 0: no active snapshot
          asked,     \* the inputs when this validation was asked for; only properties use it
          runs,      \* invoice_commercial_validation_runs, by job
          last,      \* the run created last, or 0
          task,      \* the COMMERCIAL_REVIEW task of each run
          rows,      \* the outbox rows that ask for a validation, 0 the one before
          queued, archived,   \* of their jobs: to be delivered; given up
          work,      \* what each worker holds
          reruns, changes, faults

jobVars == <<rows, queued, archived, work>>
reviewVars == <<runs, last, task>>
budgetVars == <<reruns, changes, faults>>
vars == <<kind, status, rev, inputs, asked, reviewVars, jobVars, budgetVars>>

\* The statements of LoadInput, in their order.
Sources == <<"terms", "variables", "aliases", "dates">>
Source == {Sources[n] : n \in DOMAIN Sources}

\* Job 0 brought the invoice here and is handled; 1 and those of the reruns validate.
Jobs == 0 .. 2 * MaxReruns + 1
NoRun == [saved |-> FALSE, rev |-> 0, seen |-> <<>>, blocking |-> {}, excepted |-> {}]
NoWork == [stage |-> "idle", job |-> 0, rev |-> 0, read |-> 0, seen |-> <<>>]

\* Engine.Validate: the findings that are not CONFORM.
Blocking(seen) ==
    CASE kind = "issued" -> {{}}
      [] kind = "waived" -> SUBSET Findings
      [] kind = "contract" /\ seen["terms"] = 0 -> {fs \cup {"coverage"} : fs \in SUBSET Findings}
      [] kind = "contract" /\ seen["terms"] # 0 -> SUBSET (Findings \cup {"coverage"})

Active == {j \in Jobs : task[j] \in {"OPEN", "WAITING"}}
ResolveTasksOpen == task' = [j \in Jobs |-> IF task[j] = "OPEN" THEN "RESOLVED" ELSE task[j]]   \* mutant
ResolveTasks == task' = [j \in Jobs |-> IF j \in Active THEN "RESOLVED" ELSE task[j]]

----------------------------------------------------------------------------
Init == /\ kind \in {"contract", "waived", "issued"}
        /\ status = "COMMERCIAL_VALIDATING" /\ rev = 1
        /\ \E t \in {0, 1} : inputs = [s \in Source |-> IF s = "terms" THEN t ELSE 0]
        /\ asked = inputs
        /\ runs = [j \in Jobs |-> NoRun] /\ last = 0
        /\ task = [j \in Jobs |-> "none"]
        /\ rows = {0, 1} /\ queued = {1} /\ archived = {}
        /\ work = [w \in Workers |-> NoWork]
        /\ reruns = 0 /\ changes = 0 /\ faults = 0

Fault == faults < MaxFaults /\ faults' = faults + 1

----------------------------------------------------------------------------
(* The continuation job.                                                   *)

Stop(w) == work' = [work EXCEPT ![w] = NoWork]

\* ProcessContinuation loads the invoice; in another status the job is not ours.
Take(w, j) ==
    /\ work[w].stage = "idle" /\ j \in queued
    /\ queued' = queued \ {j}
    /\ IF status = "COMMERCIAL_VALIDATING"
       THEN work' = [work EXCEPT ![w] = [stage |-> "load", job |-> j, rev |-> rev, read |-> 0, seen |-> <<>>]]
       ELSE UNCHANGED work
    /\ UNCHANGED <<kind, status, rev, inputs, asked, reviewVars, rows, archived, budgetVars>>

\* LoadInput reads the invoice again; with another revision the job is over.
LoadInvoice(w) ==
    /\ work[w].stage = "load"
    /\ IF work[w].rev = rev THEN work' = [work EXCEPT ![w].stage = "read"] ELSE Stop(w)
    /\ UNCHANGED <<kind, status, rev, inputs, asked, reviewVars, rows, queued, archived, budgetVars>>

\* ErrNoSnapshot ends LoadInput: the engine gets the invoice alone.
NoSnapshot == kind = "waived" \/ inputs["terms"] = 0
ReadInput(w) ==
    /\ work[w].stage = "read"
    /\ LET n == work[w].read + 1
           s == Sources[n]
           over == n = Len(Sources) \/ (s = "terms" /\ NoSnapshot)
           seen == [x \in DOMAIN work[w].seen \cup {s} |-> IF x = s THEN inputs[s] ELSE work[w].seen[x]]
       IN work' = [work EXCEPT ![w] = [stage |-> IF over THEN "save" ELSE "read", job |-> work[w].job,
                                       rev |-> work[w].rev, read |-> n, seen |-> seen]]
    /\ UNCHANGED <<kind, status, rev, inputs, asked, reviewVars, rows, queued, archived, budgetVars>>

CurrentStatus(w) == status = "COMMERCIAL_VALIDATING"   \* mutant: no revision compared
\* The invoice is still as the worker loaded it.
Current(w) == status = "COMMERCIAL_VALIDATING" /\ rev = work[w].rev

\* SaveRun, the invoice locked.  A saved run or a moved invoice is a stale job: success.
SaveRun(w) ==
    /\ work[w].stage = "save"
    /\ LET j == work[w].job IN
       IF runs[j].saved \/ ~Current(w) THEN UNCHANGED <<status, rev, reviewVars>>
       ELSE \E blocking \in Blocking(work[w].seen) :
          /\ runs' = [runs EXCEPT ![j] = [saved |-> TRUE, rev |-> work[w].rev, seen |-> work[w].seen,
                                          blocking |-> blocking, excepted |-> {}]]
          /\ last' = j
          /\ rev' = rev + 1
          /\ \/ /\ blocking = {}
                /\ status' = "COMMERCIALLY_VALIDATED"
                /\ UNCHANGED task
             \/ /\ blocking # {}
                /\ status' = "AWAITING_COMMERCIAL_REVIEW"
                /\ Active = {}         \* validation_tasks_one_active_per_invoice
                /\ task' = [task EXCEPT ![j] = "OPEN"]
    /\ Stop(w)
    /\ UNCHANGED <<kind, inputs, asked, rows, queued, archived, budgetVars>>

Process(w) == LoadInvoice(w) \/ ReadInput(w) \/ SaveRun(w)

\* The worker dies or a statement fails: a retry, or the last one.
Crash(w) ==
    /\ Fault
    /\ work[w].stage # "idle"
    /\ Stop(w)
    /\ \/ queued' = queued \cup {work[w].job} /\ UNCHANGED archived
       \/ archived' = archived \cup {work[w].job} /\ UNCHANGED queued
    /\ UNCHANGED <<kind, status, rev, inputs, asked, reviewVars, rows, reruns, changes>>

\* A job is delivered again, also while it is being processed.
Redeliver(j) ==
    /\ Fault
    /\ j \in rows \ (queued \cup archived)
    /\ queued' = queued \cup {j}
    /\ UNCHANGED <<kind, status, rev, inputs, asked, reviewVars, rows, archived, work, reruns, changes>>

----------------------------------------------------------------------------
(* The accountant.                                                         *)

\* PutVariable, ConfirmAlias and RevokeAlias need a dossier; a snapshot is activated by
\* a confirmed document or a reviewed clause; PutInvoiceDateFact only needs the invoice.
ChangeInput(s) ==
    /\ changes < MaxChanges /\ changes' = changes + 1
    /\ s = "dates" \/ kind # "waived"
    /\ s \in {"terms", "dates"} \/ inputs["terms"] # 0
    /\ inputs' = [inputs EXCEPT ![s] = @ + 1]
    /\ UNCHANGED <<kind, status, rev, asked, reviewVars, jobVars, reruns, faults>>

\* The run a resolution names must be the latest.
AnyRun(r) == runs[r].saved   \* mutant
Latest(r) == runs[r].saved /\ r = last

\* Resolve: the form has the current revision (another is refused) and names run r.
UnderReview(r) == status = "AWAITING_COMMERCIAL_REVIEW" /\ Latest(r)

WaitForCorrection(r) ==
    /\ UnderReview(r)
    /\ \E j \in Jobs : task[j] = "OPEN" /\ task' = [task EXCEPT ![j] = "WAITING"]
    /\ UNCHANGED <<kind, status, rev, inputs, asked, runs, last, jobVars, budgetVars>>

\* mutant: the outbox row is forgotten
RerunNoRow(r) ==
    /\ reruns < MaxReruns /\ reruns' = reruns + 1
    /\ UnderReview(r)
    /\ status' = "COMMERCIAL_VALIDATING" /\ rev' = rev + 1
    /\ asked' = inputs
    /\ ResolveTasks
    /\ UNCHANGED <<kind, inputs, runs, last, jobVars, changes, faults>>
Rerun(r) ==
    /\ reruns < MaxReruns /\ reruns' = reruns + 1
    /\ UnderReview(r)
    /\ status' = "COMMERCIAL_VALIDATING" /\ rev' = rev + 1
    /\ asked' = inputs
    /\ ResolveTasks
    /\ rows' = rows \cup {rev + 1} /\ queued' = queued \cup {rev + 1}
    /\ UNCHANGED <<kind, inputs, runs, last, archived, work, changes, faults>>

\* A finding is excepted once; with the last blocking one the invoice goes on.
\* mutant: a finding that conforms may be excepted as well
ExceptableAny(r) == (Findings \cup {"coverage"}) \ runs[r].excepted
Exceptable(r) == runs[r].blocking \ runs[r].excepted

AcceptException(r, f) ==
    /\ UnderReview(r)
    /\ f \in Exceptable(r)
    /\ runs' = [runs EXCEPT ![r].excepted = @ \cup {f}]
    /\ IF runs[r].blocking \subseteq runs'[r].excepted
       THEN status' = "COMMERCIALLY_VALIDATED" /\ rev' = rev + 1 /\ ResolveTasks
       ELSE UNCHANGED <<status, rev, task>>
    /\ UNCHANGED <<kind, inputs, asked, last, jobVars, budgetVars>>

Accountant == \/ \E s \in Source : ChangeInput(s)
              \/ \E r \in Jobs : \/ WaitForCorrection(r) \/ Rerun(r)
                                 \/ \E f \in Findings \cup {"coverage"} : AcceptException(r, f)

----------------------------------------------------------------------------
Next == \/ \E w \in Workers : Process(w) \/ Crash(w) \/ \E j \in Jobs : Take(w, j)
        \/ \E j \in Jobs : Redeliver(j)
        \/ Accountant

Spec == Init /\ [][Next]_vars

\* Jobs are delivered and their attempts end.  Nothing is assumed of the accountant.
FairSpec == /\ Spec
            /\ WF_vars(\E w \in Workers, j \in Jobs : Take(w, j))
            /\ \A w \in Workers : WF_vars(Process(w))
----------------------------------------------------------------------------
(* Properties.                                                             *)

\* Exceptions are to findings that block, and a worker reads the sources in their order.
TypeOK ==
    /\ kind \in {"contract", "waived", "issued"}
    /\ status \in {"COMMERCIAL_VALIDATING", "AWAITING_COMMERCIAL_REVIEW", "COMMERCIALLY_VALIDATED"}
    /\ rev \in Nat
    /\ inputs \in [Source -> Nat] /\ asked \in [Source -> Nat]
    /\ \A j \in Jobs : /\ runs[j].blocking \subseteq Findings \cup {"coverage"}
                       /\ runs[j].excepted \subseteq runs[j].blocking
                       /\ runs[j].rev < rev
    /\ last \in Jobs
    /\ task \in [Jobs -> {"none", "OPEN", "WAITING", "RESOLVED"}]
    /\ rows \subseteq Jobs /\ queued \subseteq rows /\ archived \subseteq rows
    /\ \A w \in Workers : /\ work[w].stage \in {"idle", "load", "read", "save"}
                          /\ work[w].job \in Jobs /\ work[w].rev <= rev
                          /\ DOMAIN work[w].seen = {Sources[n] : n \in 1 .. work[w].read}

\* Only the findings of the latest run decide: a validated invoice has none that blocks
\* and is not excepted, whichever runs, forms and late jobs there were before.
ValidatedHasBasis ==
    status = "COMMERCIALLY_VALIDATED" => runs[last].saved /\ runs[last].blocking = runs[last].excepted

\* An invoice under review has one active task, that of its latest run, and another has
\* none, through waits, exceptions and reruns (one active task per invoice).
ReviewHasItsTask ==
    Active = IF status = "AWAITING_COMMERCIAL_REVIEW" THEN {last} ELSE {}

\* A run that answers a rerun read every input after the accountant asked for it: a slow
\* worker cannot bring in a verdict on what was corrected since.
CorrectionsAreSeen ==
    status # "COMMERCIAL_VALIDATING" =>
        \A s \in DOMAIN runs[last].seen : runs[last].seen[s] >= asked[s]

\* A validation is never forgotten: the job of the revision it was asked at is waiting or
\* given up, or a worker holds it with the invoice as it is.  Whatever is acknowledged as
\* stale, refused or saved under an older job on the way, that one is not.
ValidationHasJob ==
    status = "COMMERCIAL_VALIDATING" =>
        \/ rev \in queued \cup archived
        \/ \E w \in Workers : work[w].stage # "idle" /\ work[w].job = rev /\ work[w].rev = rev

\* A validation ends, unless the job of the revision it was asked at was given up: a job
\* acknowledged as stale leaves another one that does the work.
ValidationEnds ==
    status = "COMMERCIAL_VALIDATING" ~> (status # "COMMERCIAL_VALIDATING" \/ rev \in archived)

\* The abstract life of the invoice: runs, waits, exceptions and reruns move it along the
\* declared transitions, its task with it, and a task put to wait is never opened again.
\* A task of another run than the latest is shown as one the life of an invoice has not.
TheInvoice == {"invoice"}
ActiveTasks == {Task(IF j = last THEN "COMMERCIAL_REVIEW" ELSE "SUPERSEDED", task[j]) : j \in Active}
Life == INSTANCE InvoiceLifecycle WITH
            Invoices <- TheInvoice, Starts <- {"COMMERCIAL_VALIDATING"},
            status <- [i \in TheInvoice |-> status], active <- [i \in TheInvoice |-> ActiveTasks]
ImplementsLifecycle == Life!Spec
=============================================================================

--------------------------- MODULE ContractIngestion ---------------------------
(***************************************************************************)
(* One uploaded contract document, from its extraction to the contract     *)
(* (internal/contractingestion, contract_ingestion.go of the store and the *)
(* handlers of workerruntime/contract_extraction.go).                      *)
(*                                                                         *)
(* An extraction job claims the document for three minutes under a new     *)
(* attempt, asks the provider, and records the result only if the document *)
(* is still under that attempt.  The accountant reviews a proposal in a    *)
(* form that carries the document's revision, and confirms it: one         *)
(* transaction makes the contract and the row that announces it, a second  *)
(* one its dossier, a third announces it again.                            *)
(*                                                                         *)
(* BeginExtraction reads the document and compares its revision when it    *)
(* writes, so it is one step; the answers to the reviews and the content   *)
(* of proposals are choices.  What announcing does is ContractMatching.    *)
(***************************************************************************)
EXTENDS Naturals

CONSTANTS Workers, Accountants,
          MaxRetries,   \* bound: extractions asked again by an accountant
          MaxFaults     \* bound: crashes, errors, transient failures, late or repeated deliveries

ASSUME BoundsAssumption == MaxRetries \in Nat /\ MaxFaults \in Nat
ASSUME NamesAssumption == "none" \notin Accountants

VARIABLES status, discarded, rev,   \* contract_source_documents
          latest,                   \* its latest_extraction_id, 0 when none
          leased,                   \* EXTRACTING for less than three minutes
          attempts,                 \* contract_extraction_attempts, by number
          contract, dossier,        \* the confirmation, the dossier it activated
          announced,                \* CONTRACT_AVAILABLE_FOR_MATCHING was recorded
          rows,                     \* outbox rows that ask for an extraction, by revision
          queued, retried, archived,\* their jobs: to deliver; failed before; given up
          notice,                   \* the CONTRACT_ACTIVATION_REQUESTED job
          work, form,               \* what each worker and each confirmation holds
          retries, faults

docVars == <<status, discarded, rev, latest, leased, attempts>>
contractVars == <<contract, dossier, announced, notice>>
jobVars == <<rows, queued, retried, archived>>
budgetVars == <<retries, faults>>
vars == <<docVars, contractVars, jobVars, work, form, budgetVars>>

\* Enough for every delivery: each job twice, and once more per fault.
Attempts == 1 .. 2 * (MaxRetries + 1) + MaxFaults
NoWork == [stage |-> "idle", job |-> 0, attempt |-> 0]
NoForm == [stage |-> "idle", rev |-> 0, attempt |-> 0, role |-> "BASE_CONTRACT"]
NoContract == [attempt |-> 0, by |-> "none", role |-> "BASE_CONTRACT"]

----------------------------------------------------------------------------
\* CreateDocument: the document and the row that asks for its extraction.
Init == /\ status = "UPLOADED" /\ discarded = FALSE /\ rev = 1
        /\ latest = 0 /\ leased = FALSE
        /\ attempts = [a \in Attempts |-> "none"]
        /\ contract = NoContract /\ dossier = FALSE /\ announced = FALSE /\ notice = "none"
        /\ rows = {1} /\ queued = {1} /\ retried = {} /\ archived = {}
        /\ work = [w \in Workers |-> NoWork] /\ form = [h \in Accountants |-> NoForm]
        /\ retries = 0 /\ faults = 0

Fault == faults < MaxFaults /\ faults' = faults + 1

----------------------------------------------------------------------------
(* Extraction.                                                             *)

\* The handler returns an error: a retry, or the last one.
RetryOrGiveUp(j) == \/ queued' = queued \cup {j} /\ retried' = retried \cup {j} /\ UNCHANGED archived
                    \/ archived' = archived \cup {j} /\ queued' = queued \ {j} /\ UNCHANGED retried

Stop(w) == work' = [work EXCEPT ![w] = NoWork]

\* BeginExtraction of a document that has its proposal: nothing to do.
Skip(j) ==
    /\ j \in queued
    /\ status \in {"READY_FOR_REVIEW", "CONFIRMED"}
    /\ queued' = queued \ {j}
    /\ UNCHANGED <<docVars, contractVars, rows, retried, archived, work, form, budgetVars>>

\* The delivery ends before BeginExtraction commits: an error of the database, a worker
\* that dies, or the revision it read overtaken by a discard.  The document stays as it is.
BeginFails(j) ==
    /\ Fault
    /\ j \in queued
    /\ RetryOrGiveUp(j)
    /\ UNCHANGED <<docVars, contractVars, rows, work, form, retries>>

\* ErrExtractionBusy of a lease that has not ended.  The retries of a job take less than
\* the lease, so any may be the last.
BusyAlways == status = "EXTRACTING"   \* mutant: the lease never ends
Busy == status = "EXTRACTING" /\ leased

Refuse(j) ==
    /\ j \in queued
    /\ Busy
    /\ RetryOrGiveUp(j)
    /\ UNCHANGED <<docVars, contractVars, rows, work, form, budgetVars>>

\* mutants: the attempt whose lease ended is left open; no row for the new one
ClaimedOnly(a) == [attempts EXCEPT ![a] = "STARTED"]
ClaimedNoRow(a) == attempts
\* A new attempt takes the document over, a discarded one too; the attempt whose lease
\* ended is closed.
Claimed(a) == [b \in Attempts |-> IF b = a THEN "STARTED"
                                  ELSE IF b = latest /\ status = "EXTRACTING" /\ attempts[b] = "STARTED"
                                       THEN "FAILED" ELSE attempts[b]]

BeginExtraction(w, j) ==
    /\ work[w].stage = "idle" /\ j \in queued
    /\ status \in {"UPLOADED", "EXTRACTION_FAILED", "EXTRACTING"} /\ ~Busy
    /\ latest + 1 \in Attempts
    /\ queued' = queued \ {j}
    /\ attempts' = Claimed(latest + 1) /\ latest' = latest + 1
    /\ status' = "EXTRACTING" /\ leased' = TRUE /\ rev' = rev + 1
    /\ work' = [work EXCEPT ![w] = [stage |-> "extract", job |-> j, attempt |-> latest + 1]]
    /\ UNCHANGED <<discarded, contractVars, rows, retried, archived, form, budgetVars>>

\* The attempt is open and the document still under it.
Owns(w) == /\ attempts[work[w].attempt] = "STARTED"
           /\ latest = work[w].attempt /\ status = "EXTRACTING"

End(w, outcome, s) ==
    /\ attempts' = [attempts EXCEPT ![work[w].attempt] = outcome]
    /\ status' = s /\ leased' = FALSE /\ rev' = rev + 1
    /\ Stop(w)
    /\ UNCHANGED <<discarded, latest, contractVars, rows, form, retries>>

CompleteExtraction(w) ==
    /\ work[w].stage = "extract" /\ Owns(w)
    /\ End(w, "SUCCEEDED", "READY_FOR_REVIEW")
    /\ UNCHANGED <<queued, retried, archived, faults>>

\* FailExtraction, and whether its category is retried: never, once, or as the queue says.
FailExtraction(w) ==
    /\ work[w].stage = "extract" /\ Owns(w)
    /\ End(w, "FAILED", "EXTRACTION_FAILED")
    /\ LET j == work[w].job IN
       \/ UNCHANGED <<queued, retried, archived, faults>>
       \/ /\ j \notin retried
          /\ queued' = queued \cup {j} /\ retried' = retried \cup {j}
          /\ UNCHANGED <<archived, faults>>
       \/ Fault /\ RetryOrGiveUp(j)

\* Either one finds the document under another attempt: rolled back, an error.
Overtaken(w) ==
    /\ work[w].stage = "extract" /\ ~Owns(w)
    /\ Stop(w)
    /\ RetryOrGiveUp(work[w].job)
    /\ UNCHANGED <<docVars, contractVars, rows, form, budgetVars>>

Extract(w) == CompleteExtraction(w) \/ FailExtraction(w) \/ Overtaken(w)

\* mutant: the job is taken for done
LoseWorkerAndJob(w) ==
    /\ Fault
    /\ work[w].stage = "extract"
    /\ Stop(w)
    /\ UNCHANGED <<docVars, contractVars, jobVars, form, retries>>
\* The process dies under its attempt, or nothing of what it did could be recorded.
LoseWorker(w) ==
    /\ Fault
    /\ work[w].stage = "extract"
    /\ Stop(w)
    /\ RetryOrGiveUp(work[w].job)
    /\ UNCHANGED <<docVars, contractVars, rows, form, retries>>

Redeliver(j) ==
    /\ Fault
    /\ j \in rows \ (queued \cup archived)
    /\ queued' = queued \cup {j}
    /\ UNCHANGED <<docVars, contractVars, rows, retried, archived, work, form, retries>>

\* Three minutes pass; the job of a live worker is cut off before, unless it is late.
Held == \E w \in Workers : work[w].attempt = latest
LeaseEnds == /\ leased /\ leased' = FALSE
             /\ UNCHANGED <<status, discarded, rev, latest, attempts, contractVars, jobVars, work, form, retries>>
ExpireLease == LeaseEnds /\ ~Held /\ UNCHANGED faults
Overrun == LeaseEnds /\ Held /\ Fault

----------------------------------------------------------------------------
(* The accountant.  Only documents that are not discarded are shown.       *)

RetryExtraction ==
    /\ retries < MaxRetries /\ retries' = retries + 1
    /\ ~discarded /\ status \in {"EXTRACTION_FAILED", "READY_FOR_REVIEW"}
    /\ status' = "UPLOADED" /\ rev' = rev + 1
    /\ rows' = rows \cup {rev + 1} /\ queued' = queued \cup {rev + 1}
    /\ UNCHANGED <<discarded, latest, leased, attempts, contractVars, retried, archived, work, form, faults>>

\* mutant: the revision stays
DiscardKeepsRevision ==
    /\ ~discarded /\ status # "CONFIRMED"
    /\ discarded' = TRUE
    /\ leased' = (status = "EXTRACTING")
    /\ UNCHANGED <<status, rev, latest, attempts, contractVars, jobVars, work, form, budgetVars>>
\* It writes updated_at, from which the lease of an extraction counts.
DiscardDocument ==
    /\ ~discarded /\ status # "CONFIRMED"
    /\ discarded' = TRUE /\ rev' = rev + 1
    /\ leased' = (status = "EXTRACTING")
    /\ UNCHANGED <<status, latest, attempts, contractVars, jobVars, work, form, budgetVars>>

At(h, stage) == form' = [form EXCEPT ![h].stage = stage]

OpenForm(h) ==
    /\ form[h].stage = "idle"
    /\ status = "READY_FOR_REVIEW" /\ ~discarded
    /\ \E role \in {"BASE_CONTRACT", "ANNEX"} :
          form' = [form EXCEPT ![h] = [stage |-> "open", rev |-> rev, attempt |-> latest, role |-> role]]
    /\ UNCHANGED <<docVars, contractVars, jobVars, work, budgetVars>>

\* Confirm: GetDocument does not find a discarded document.
Submit(h) ==
    /\ form[h].stage = "open"
    /\ At(h, IF discarded THEN "idle" ELSE "confirm")
    /\ UNCHANGED <<docVars, contractVars, jobVars, work, budgetVars>>

Reviewable(h) == /\ status = "READY_FOR_REVIEW" /\ rev = form[h].rev
                 /\ latest = form[h].attempt /\ attempts[latest] = "SUCCEEDED"

\* ConfirmDocument of what was reviewed, unless the reference is taken or, for an annex, unknown.
ConfirmDocument(h) ==
    /\ form[h].stage = "confirm" /\ Reviewable(h)
    /\ \/ /\ status' = "CONFIRMED" /\ rev' = rev + 1
          /\ contract' = [attempt |-> latest, by |-> h, role |-> form[h].role]
          /\ notice' = IF form[h].role = "BASE_CONTRACT" THEN "queued" ELSE "none"
          /\ At(h, "activate")
       \/ At(h, "open") /\ UNCHANGED <<status, rev, contract, notice>>
    /\ UNCHANGED <<discarded, latest, leased, attempts, dossier, announced, jobVars, work, budgetVars>>

\* The same command again is answered with its contract; another one conflicts.
Replay(h) ==
    /\ form[h].stage = "confirm" /\ ~Reviewable(h)
    /\ At(h, IF contract.by = h THEN "activate" ELSE "idle")
    /\ UNCHANGED <<docVars, contractVars, jobVars, work, budgetVars>>

ActivateConfirmedContract(h) ==
    /\ form[h].stage = "activate"
    /\ dossier' = TRUE
    /\ At(h, "announce")
    /\ UNCHANGED <<docVars, contract, announced, notice, jobVars, work, budgetVars>>

Announce(h) ==
    /\ form[h].stage = "announce"
    /\ announced' = TRUE
    /\ At(h, "idle")
    /\ UNCHANGED <<docVars, contract, dossier, notice, jobVars, work, budgetVars>>

Confirm(h) == ConfirmDocument(h) \/ Replay(h) \/ ActivateConfirmedContract(h) \/ Announce(h)

\* The request dies between its transactions; the accountant sends it again, or does not.
LoseRequest(h) ==
    /\ Fault
    /\ form[h].stage \in {"confirm", "activate", "announce"}
    /\ At(h, "open") \/ At(h, "idle")
    /\ UNCHANGED <<docVars, contractVars, jobVars, work, retries>>

\* The job of the announcement, under the key the request uses; given up after errors.
ProcessNotice ==
    /\ notice = "queued"
    /\ \/ announced' = TRUE /\ notice' = "done" /\ UNCHANGED faults
       \/ Fault /\ notice' = "archived" /\ UNCHANGED announced
    /\ UNCHANGED <<docVars, contract, dossier, jobVars, work, form, retries>>

----------------------------------------------------------------------------
Next == \/ \E j \in rows : Skip(j) \/ BeginFails(j) \/ Refuse(j) \/ Redeliver(j)
        \/ \E w \in Workers : Extract(w) \/ LoseWorker(w) \/ \E j \in rows : BeginExtraction(w, j)
        \/ ExpireLease \/ Overrun
        \/ RetryExtraction \/ DiscardDocument
        \/ \E h \in Accountants : OpenForm(h) \/ Submit(h) \/ Confirm(h) \/ LoseRequest(h)
        \/ ProcessNotice

Spec == Init /\ [][Next]_vars

\* Jobs are delivered and end, and time passes.  Nothing is assumed of the accountants.
FairSpec == /\ Spec
            /\ WF_vars(\E w \in Workers, j \in rows : BeginExtraction(w, j))
            /\ \A w \in Workers : WF_vars(Extract(w))
            /\ WF_vars(ExpireLease)
            /\ WF_vars(ProcessNotice)
----------------------------------------------------------------------------
(* Properties.                                                             *)

\* Attempts are numbered as they start, the lease is of an extraction, and a revision
\* a form or a job carries is one the document had.
TypeOK ==
    /\ status \in {"UPLOADED", "EXTRACTING", "READY_FOR_REVIEW", "EXTRACTION_FAILED", "CONFIRMED"}
    /\ discarded \in BOOLEAN /\ rev \in Nat /\ latest \in Attempts \cup {0}
    /\ leased => status = "EXTRACTING"
    /\ attempts \in [Attempts -> {"none", "STARTED", "SUCCEEDED", "FAILED"}]
    /\ \A a \in Attempts : attempts[a] = "none" <=> a > latest
    /\ dossier \in BOOLEAN /\ announced \in BOOLEAN
    /\ notice \in {"none", "queued", "done", "archived"}
    /\ rows \subseteq 1 .. rev /\ queued \subseteq rows /\ archived \subseteq rows
    /\ \A w \in Workers : work[w].stage = "extract" => work[w].attempt \in 1 .. latest /\ work[w].job \in rows
    /\ \A h \in Accountants : form[h].rev <= rev /\ form[h].attempt <= latest

\* The history of attempts tells what the document shows: the only open attempt is the
\* one it is under, and what may be reviewed or was confirmed comes from its latest
\* attempt, whatever late workers, expired leases and repeated jobs did in between.
AttemptsFollowDocument ==
    /\ \A a \in Attempts : attempts[a] = "STARTED" <=> status = "EXTRACTING" /\ a = latest
    /\ status \in {"READY_FOR_REVIEW", "CONFIRMED"} => latest # 0 /\ attempts[latest] = "SUCCEEDED"
    /\ status = "EXTRACTION_FAILED" => latest # 0 /\ attempts[latest] = "FAILED"

\* A contract is what one accountant reviewed: the document is confirmed, was not
\* discarded before, and its latest proposal is the one of the form (one contract from
\* two reviews, a discard or a new extraction between form and confirmation).
ConfirmedAsReviewed ==
    /\ status = "CONFIRMED" <=> contract # NoContract
    /\ status = "CONFIRMED" => /\ ~discarded
                               /\ contract.attempt = latest
                               /\ rev = form[contract.by].rev + 1 \/ form[contract.by].stage = "idle"
    /\ dossier => status = "CONFIRMED"
    /\ announced => status = "CONFIRMED"

\* A document that waits for its extraction has the job of its last request to deliver,
\* which no attempt under way can take along when it fails, unless that job was given up
\* before it began; one under extraction has its worker, a job that will take it over, or
\* one that was given up.
LastRequest == CHOOSE j \in rows : \A k \in rows : k <= j
ExtractionNotForgotten ==
    /\ status = "UPLOADED" => \/ LastRequest \in queued /\ \A w \in Workers : work[w].job # LastRequest
                              \/ LastRequest \in archived
    /\ status = "EXTRACTING" => \/ \E w \in Workers : work[w].stage = "extract" /\ work[w].attempt = latest
                               \/ queued \cup archived # {}

\* What waits for its extraction or is under it comes out of it, unless the jobs were
\* given up; and a contract is announced even when the request that made it died after
\* its transaction.
GivenUp == archived # {} /\ queued = {} /\ \A w \in Workers : work[w].stage = "idle"
IngestionEnds ==
    /\ status \in {"UPLOADED", "EXTRACTING"} ~> (status \notin {"UPLOADED", "EXTRACTING"} \/ GivenUp)
    /\ notice = "queued" ~> announced \/ notice = "archived"
=============================================================================

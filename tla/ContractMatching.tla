-------------------------- MODULE ContractMatching --------------------------
(***************************************************************************)
(* Association of invoices with contracts (internal/contracts,             *)
(* internal/platform/postgres/contract_store.go, contract_delete.go): the  *)
(* matching step of the pipeline, the fan-out that a newly available       *)
(* contract starts over the invoices blocked for a missing contract, and   *)
(* the accountant's commands.  A job is run by a worker in steps: it loads *)
(* its input outside any transaction, then opens a transaction that        *)
(* compares and sets the invoice row and re-reads the candidate contracts, *)
(* then inserts its rows and commits.                                      *)
(*                                                                         *)
(* In this stretch of the pipeline every status change bumps the revision  *)
(* and no status comes back, so comparing (status, revision) is comparing  *)
(* the status; a contract's revision changes only when it leaves ACTIVE.   *)
(***************************************************************************)
EXTENDS Naturals, FiniteSets, StateMachine

CONSTANTS Invoices, Contracts,
          NoContract, NoInvoice,
          Cases,          \* what the documents may say, see CasesAssumption
          MaxFaults       \* bound: crashes (each followed by a retry) and duplicated
                          \* CONTRACT_AVAILABLE deliveries

Kinds == {"other", "expired", "compatible", "incompatible"}

\* "other": another supplier or client; "expired": the issue day is outside the
\* effective period; "compatible"/"incompatible": same or other currency.
ASSUME CasesAssumption ==
    Cases \subseteq [outgoing : SUBSET Invoices, kind : [Invoices -> [Contracts -> Kinds]]]
ASSUME IdAssumption == /\ NoContract \notin Contracts /\ NoInvoice \notin Invoices
                       /\ Invoices \cap Contracts = {}
ASSUME BudgetAssumption == MaxFaults \in Nat

VARIABLES docs,     \* what the documents say: a member of Cases, it never changes
          life,     \* contracts.lifecycle_state; DELETED is ARCHIVED as a mistaken upload
          event,    \* where the contract's activation and availability jobs are
          status,   \* invoices.pipeline_status
          missing,  \* status of the MISSING_CONTRACT task
          confirm,  \* status of the CONTRACT_MATCH task
          cands,    \* contract_match_candidates of the run behind that task
          recorded, \* <<i, c>>: some match run of i recorded candidate c
          assoc,    \* invoice_contract_associations
          resumed,  \* <<c, i>>: the resume command of c for i has committed
          mjob,     \* the INVOICE_CONTINUE job of an invoice in MATCHING
          work,     \* per job: what its worker holds in memory
          owed,     \* history, for the properties: the invoices that waited for a contract
                    \* when it was announced or its fan-out began
          faults

vars == <<docs, life, event, status, missing, confirm, cands, recorded, assoc, resumed,
          mjob, work, owed, faults>>

Outgoing == docs.outgoing   \* the invoices the client issued
Kind == docs.kind           \* how contract c fits invoice i

Jobs == Invoices \cup Contracts   \* i: matching of i;  c: fan-out of c
Stages == {"idle", "listed", "loaded", "checked"}
NoWork == [stage |-> "idle", inv |-> NoInvoice, seen |-> {}, task |-> "none",
           asked |-> {}, todo |-> {}, again |-> FALSE]

----------------------------------------------------------------------------
(* The matching policies.                                                  *)

\* LoadMatchingInput: the ACTIVE contracts of the counterparty.
Discovered(i) == {c \in Contracts : life[c] = "ACTIVE" /\ Kind[i][c] # "other"}

Candidates(i, seen) ==
    IF i \in Outgoing THEN {c \in seen : Kind[i][c] # "expired"} ELSE seen

\* BaselinePolicy.Evaluate and OutgoingContextPolicy.Evaluate.
Outcome(i, seen) ==
    LET S == Candidates(i, seen) IN
    IF S = {} THEN "NO_MATCH"
    ELSE IF \E c \in S : Kind[i][c] = "expired" THEN "EXPIRED_SEMANTICS"
    ELSE IF Cardinality(S) > 1 THEN "MULTIPLE_PLAUSIBLE"
    ELSE IF i \in Outgoing \/ \A c \in S : Kind[i][c] = "compatible" THEN "UNIQUE_COMPATIBLE"
    ELSE "UNIQUE_INCOMPATIBLE"

Associates(i, seen) == Outcome(i, seen) = "UNIQUE_COMPATIBLE"
Confirms(i, seen) == i \notin Outgoing
                     /\ Outcome(i, seen) \in {"MULTIPLE_PLAUSIBLE", "UNIQUE_INCOMPATIBLE"}

\* Where ApplyMatchDecision sends the invoice.
Target(i, seen) == IF Associates(i, seen) \/ i \in Outgoing THEN "DEDUPE_CHECKED"
                   ELSE IF Confirms(i, seen) THEN "AWAITING_MATCH_CONFIRM"
                   ELSE "AWAITING_CONTRACT"

\* The row lock a transaction keeps from its compare-and-set to its commit; a
\* re-evaluation that still finds no contract updates no invoice.
LockedBy(k, i) == /\ work[k].stage = "checked" /\ work[k].inv = i
                  /\ k = i \/ Target(i, work[k].seen) # "AWAITING_CONTRACT"
Locked(i) == \E k \in Jobs : LockedBy(k, i)

----------------------------------------------------------------------------
Init == /\ docs \in Cases
        /\ life = [c \in Contracts |-> "absent"]
        /\ event = [c \in Contracts |-> "none"]
        /\ status = [i \in Invoices |-> "MATCHING"]
        /\ missing = [i \in Invoices |-> "none"]
        /\ confirm = [i \in Invoices |-> "none"]
        /\ cands = [i \in Invoices |-> {}]
        /\ recorded = {}
        /\ assoc = [i \in Invoices |-> NoContract]
        /\ resumed = {}
        /\ mjob = [i \in Invoices |-> "queued"]
        /\ work = [k \in Jobs |-> NoWork]
        /\ owed = [c \in Contracts |-> {}]
        /\ faults = 0

invoiceVars == <<status, missing, confirm, cands, recorded, assoc>>

(* Contracts come and go. *)

\* Confirmed ingestion writes the contract and CONTRACT_ACTIVATION_REQUESTED.
CreateContract(c) ==
    /\ life[c] = "absent"
    /\ life' = [life EXCEPT ![c] = "ACTIVE"]
    /\ event' = [event EXCEPT ![c] = "activation"]
    /\ UNCHANGED <<docs, owed, invoiceVars, resumed, mjob, work, faults>>

\* Whoever waits for a contract of these parties is owed a look.
Owes(c) == owed' = [owed EXCEPT ![c] = @ \cup {i \in Invoices \ Outgoing :
                       status[i] = "AWAITING_CONTRACT" /\ Kind[i][c] # "other"}]

\* The activation job: audit and CONTRACT_AVAILABLE outbox row in one transaction.
RecordContractAvailable(c) ==
    /\ event[c] = "activation"
    /\ event' = [event EXCEPT ![c] = "available"]
    /\ Owes(c)
    /\ UNCHANGED <<docs, life, invoiceVars, resumed, mjob, work, faults>>

ArchiveContract(c) ==
    /\ life[c] = "ACTIVE"
    /\ life' = [life EXCEPT ![c] = "ARCHIVED"]
    /\ UNCHANGED <<docs, owed, event, invoiceVars, resumed, mjob, work, faults>>

\* Refused when an association or a match candidate of the contract is committed.
InUse(c) == \/ \E i \in Invoices : assoc[i] = c
            \/ \E i \in Invoices : <<i, c>> \in recorded

DeleteMistakenContract(c) ==
    /\ life[c] = "ACTIVE"
    /\ ~InUse(c)
    /\ life' = [life EXCEPT ![c] = "DELETED"]
    /\ UNCHANGED <<docs, owed, event, invoiceVars, resumed, mjob, work, faults>>

(* The matching job of invoice i. *)

MatchLoad(i) ==
    /\ mjob[i] = "queued"
    /\ work[i].stage = "idle"
    /\ status[i] = "MATCHING"
    /\ IF Outcome(i, Discovered(i)) = "EXPIRED_SEMANTICS"
       THEN /\ mjob' = [mjob EXCEPT ![i] = "dead"]   \* permanent: SkipRetry
            /\ UNCHANGED work
       ELSE /\ work' = [work EXCEPT ![i] = [NoWork EXCEPT !.stage = "loaded", !.inv = i,
                                                          !.seen = Discovered(i)]]
            /\ UNCHANGED mjob
    /\ UNCHANGED <<docs, owed, life, event, invoiceVars, resumed, faults>>

\* The candidates the policy kept still have the revision it saw.
CandidatesCurrent(i, seen) == \A c \in Candidates(i, seen) : life[c] = "ACTIVE"

\* In the transaction: compare-and-set on the invoice and the contract re-reads.
\* ErrStaleMatchResult rolls back and the job is retried from its load.
MatchCheck(i) ==
    /\ work[i].stage = "loaded" /\ ~Locked(i)
    /\ status[i] = "MATCHING"
    /\ work' = [work EXCEPT ![i] = IF CandidatesCurrent(i, work[i].seen)
                                   THEN [@ EXCEPT !.stage = "checked"] ELSE NoWork]
    /\ UNCHANGED <<docs, owed, life, event, invoiceVars, resumed, mjob, faults>>

\* mutant: an ambiguous decision associates its first candidate
InsertFirstCandidate(i, seen) ==
    /\ recorded' = recorded \cup ({i} \X Candidates(i, seen))
    /\ assoc' = [assoc EXCEPT ![i] = IF Candidates(i, seen) # {}
                                     THEN CHOOSE c \in Candidates(i, seen) : TRUE ELSE @]
    /\ confirm' = [confirm EXCEPT ![i] = IF Confirms(i, seen) THEN "OPEN" ELSE @]
    /\ cands' = [cands EXCEPT ![i] = IF Confirms(i, seen) THEN Candidates(i, seen) ELSE @]

\* Rows a decision inserts: run and candidates, association, or review task.
InsertDecision(i, seen) ==
    /\ recorded' = recorded \cup ({i} \X Candidates(i, seen))
    /\ assoc' = [assoc EXCEPT ![i] = IF Associates(i, seen)
                                     THEN CHOOSE c \in Candidates(i, seen) : TRUE ELSE @]
    /\ confirm' = [confirm EXCEPT ![i] = IF Confirms(i, seen) THEN "OPEN" ELSE @]
    /\ cands' = [cands EXCEPT ![i] = IF Confirms(i, seen) THEN Candidates(i, seen) ELSE @]

ApplyMatchDecision(i) ==
    LET seen == work[i].seen IN
    /\ work[i].stage = "checked"
    /\ status' = [status EXCEPT ![i] = Target(i, seen)]
    /\ missing' = [missing EXCEPT ![i] = IF Target(i, seen) = "AWAITING_CONTRACT" THEN "OPEN" ELSE @]
    /\ InsertDecision(i, seen)
    /\ mjob' = [mjob EXCEPT ![i] = "done"]
    /\ work' = [work EXCEPT ![i] = NoWork]
    /\ UNCHANGED <<docs, owed, life, event, resumed, faults>>

(* The fan-out job of contract c. *)

Waits(i) == status[i] = "AWAITING_CONTRACT" /\ missing[i] \in {"OPEN", "WAITING"}

BlockedFor(c) == {i \in Invoices \ Outgoing : Waits(i) /\ Kind[i][c] # "other"}

\* The loop goes through todo.  asked is history as well: the invoices whose contract had
\* been requested by then.
ListBlockedInvoicesForContract(c) ==
    /\ event[c] = "available"
    /\ work[c].stage = "idle"
    /\ Owes(c)
    /\ work' = [work EXCEPT ![c] =
                  [NoWork EXCEPT !.stage = "listed", !.todo = BlockedFor(c),
                                 !.asked = {i \in owed'[c] : missing[i] = "WAITING"}]]
    /\ UNCHANGED <<docs, life, event, invoiceVars, resumed, mjob, faults>>

\* mutant: an invoice that is passed over makes the fan-out run again
PassOverAgain(w, i) == [w EXCEPT !.todo = @ \ {i}, !.again = TRUE]
PassOver(w, i) == [w EXCEPT !.todo = @ \ {i}]

\* ResumeBlockedInvoice up to the decision; a stale, committed or refused invoice
\* is left and the loop goes on with its siblings.
ResumeLoad(c) ==
    /\ work[c].stage = "listed"
    /\ \E i \in work[c].todo :
          LET seen == Discovered(i)
              stale == <<c, i>> \in resumed \/ status[i] # "AWAITING_CONTRACT"
              next == PassOver(work[c], i)
          IN work' = [work EXCEPT ![c] =
                        IF stale \/ Outcome(i, seen) = "EXPIRED_SEMANTICS" THEN next
                        ELSE [next EXCEPT !.stage = "loaded", !.inv = i, !.seen = seen]]
    /\ UNCHANGED <<docs, owed, life, event, invoiceVars, resumed, mjob, faults>>

ContinueKeepsInvoice(w) == [w EXCEPT !.stage = "listed"]   \* mutant

\* The invoice is dealt with: the loop goes on.
Continue(w) == [w EXCEPT !.stage = "listed", !.inv = NoInvoice, !.seen = {}, !.task = "none"]

\* The invoice failed for a transient reason: reported after the loop, the whole
\* fan-out runs again.
Retry(w) == [Continue(w) EXCEPT !.again = TRUE]

\* mutant: the invoice is not compared again in the transaction
ResumeCheckStale(c) ==
    /\ work[c].stage = "loaded" /\ ~Locked(work[c].inv)
    /\ work' = [work EXCEPT ![c] = [@ EXCEPT !.stage = "checked", !.task = missing[work[c].inv]]]
    /\ UNCHANGED <<docs, owed, life, event, invoiceVars, resumed, mjob, faults>>

\* mutant: a stale decision counts as dealt with
ResumeCheckOnce(c) ==
    /\ work[c].stage = "loaded" /\ ~Locked(work[c].inv)
    /\ work' = [work EXCEPT ![c] =
                  IF Waits(work[c].inv) /\ CandidatesCurrent(work[c].inv, work[c].seen)
                  THEN [@ EXCEPT !.stage = "checked", !.task = missing[work[c].inv]] ELSE Continue(@)]
    /\ UNCHANGED <<docs, owed, life, event, invoiceVars, resumed, mjob, faults>>

\* In the transaction: the invoice and its task as read, the compare-and-set and the
\* contract re-reads.  ErrConflict is a stale no-op, ErrStaleMatchResult is transient.
ResumeCheck(c) ==
    /\ work[c].stage = "loaded" /\ ~Locked(work[c].inv)
    /\ work' = [work EXCEPT ![c] =
                  IF ~Waits(work[c].inv) THEN Continue(@)
                  ELSE IF CandidatesCurrent(work[c].inv, work[c].seen)
                  THEN [@ EXCEPT !.stage = "checked", !.task = missing[work[c].inv]] ELSE Retry(@)]
    /\ UNCHANGED <<docs, owed, life, event, invoiceVars, resumed, mjob, faults>>

\* The task the decision resolves has another revision than the one it read.
TaskMoved(i, w) == Target(i, w.seen) # "AWAITING_CONTRACT" /\ missing[i] # w.task

\* A task that moved is ErrConflict once more: all is rolled back, the loop goes on.
ApplyResumeDecision(c) ==
    LET i == work[c].inv
        seen == work[c].seen IN
    /\ work[c].stage = "checked"
    /\ \/ /\ TaskMoved(i, work[c])
          /\ UNCHANGED <<invoiceVars, resumed>>
       \/ /\ ~TaskMoved(i, work[c])
          /\ resumed' = resumed \cup {<<c, i>>}
          /\ IF Target(i, seen) = "AWAITING_CONTRACT" THEN UNCHANGED <<status, missing>>
             ELSE /\ status' = [status EXCEPT ![i] = Target(i, seen)]
                  /\ missing' = [missing EXCEPT ![i] = "RESOLVED"]
          /\ InsertDecision(i, seen)
    /\ work' = [work EXCEPT ![c] = Continue(@)]
    /\ UNCHANGED <<docs, owed, life, event, mjob, faults>>

FanOutDone(c) ==
    /\ work[c].stage = "listed"
    /\ work[c].todo = {}
    /\ event' = [event EXCEPT ![c] = IF work[c].again THEN "available" ELSE "done"]
    /\ work' = [work EXCEPT ![c] = NoWork]
    /\ UNCHANGED <<docs, owed, life, invoiceVars, resumed, mjob, faults>>

(* The accountant. *)

\* mutant: the stale form is not compared with the task and the invoice
RequestWhateverStatus(i) ==
    /\ missing[i] # "none"
    /\ missing' = [missing EXCEPT ![i] = "WAITING"]
    /\ UNCHANGED <<docs, owed, life, event, status, confirm, cands, recorded, assoc, resumed, mjob, work, faults>>

\* Updates the task only and reads the invoice without a lock.
RequestMissingContract(i) ==
    /\ status[i] = "AWAITING_CONTRACT" /\ missing[i] = "OPEN"
    /\ missing' = [missing EXCEPT ![i] = "WAITING"]
    /\ UNCHANGED <<docs, owed, life, event, status, confirm, cands, recorded, assoc, resumed, mjob, work, faults>>

\* Updates the task, then the invoice.  A resume that has the invoice and comes for the
\* task deadlocks with it; the database aborts the waiver, and nothing changes, or the
\* resume.
ContinueWithoutContract(i) ==
    /\ Waits(i)
    /\ missing' = [missing EXCEPT ![i] = "RESOLVED"]
    /\ status' = [status EXCEPT ![i] = "DEDUPE_CHECKED"]
    /\ \/ ~Locked(i) /\ UNCHANGED work
       \/ \E c \in Contracts : LockedBy(c, i) /\ work' = [work EXCEPT ![c] = Retry(@)]
    /\ UNCHANGED <<docs, owed, life, event, confirm, cands, recorded, assoc, resumed, mjob, faults>>

ConfirmContractMatch(i, c) ==
    /\ ~Locked(i)
    /\ status[i] = "AWAITING_MATCH_CONFIRM" /\ confirm[i] = "OPEN"
    /\ c \in cands[i]
    /\ life[c] = "ACTIVE"            \* the candidate's contract revision
    /\ status' = [status EXCEPT ![i] = "DEDUPE_CHECKED"]
    /\ confirm' = [confirm EXCEPT ![i] = "RESOLVED"]
    /\ assoc' = [assoc EXCEPT ![i] = c]
    /\ UNCHANGED <<docs, owed, life, event, missing, cands, recorded, resumed, mjob, work, faults>>

(* Faults. *)

Fault == faults < MaxFaults /\ faults' = faults + 1

\* The worker dies; an open transaction rolls back and the job is retried.
Crash(k) == /\ Fault
            /\ work[k].stage # "idle"
            /\ work' = [work EXCEPT ![k] = NoWork]
            /\ UNCHANGED <<docs, owed, life, event, invoiceVars, resumed, mjob>>

Redeliver(c) == /\ Fault
                /\ event[c] = "done"
                /\ event' = [event EXCEPT ![c] = "available"]
                /\ Owes(c)
                /\ UNCHANGED <<docs, life, invoiceVars, resumed, mjob, work>>

----------------------------------------------------------------------------
MatchStep(i) == MatchLoad(i) \/ MatchCheck(i) \/ ApplyMatchDecision(i)
FanOutStep(c) == \/ RecordContractAvailable(c) \/ ListBlockedInvoicesForContract(c)
                 \/ ResumeLoad(c) \/ ResumeCheck(c) \/ ApplyResumeDecision(c) \/ FanOutDone(c)
HumanStep == \/ \E c \in Contracts : CreateContract(c) \/ ArchiveContract(c) \/ DeleteMistakenContract(c)
             \/ \E i \in Invoices : RequestMissingContract(i) \/ ContinueWithoutContract(i)
             \/ \E i \in Invoices, c \in Contracts : ConfirmContractMatch(i, c)

Next == \/ \E i \in Invoices : MatchStep(i)
        \/ \E c \in Contracts : FanOutStep(c) \/ Redeliver(c)
        \/ \E k \in Jobs : Crash(k)
        \/ HumanStep

Spec == Init /\ [][Next]_vars

\* Asynq hands every queued fan-out to a worker and retries it.  Matching jobs run as
\* well, but no promise below rests on it; nobody makes the accountant act.
FairSpec == Spec /\ \A c \in Contracts : WF_vars(FanOutStep(c))

----------------------------------------------------------------------------
(* Correctness.                                                            *)

Statuses == {"MATCHING", "AWAITING_CONTRACT", "AWAITING_MATCH_CONFIRM", "DEDUPE_CHECKED"}
Works == [stage : Stages, inv : Invoices \cup {NoInvoice}, seen : SUBSET Contracts,
          task : {"none", "OPEN", "WAITING"}, asked : SUBSET Invoices, todo : SUBSET Invoices,
          again : BOOLEAN]

\* Every variable has its type, and a job holds an invoice exactly between its
\* load and its commit.
TypeOK == /\ life \in [Contracts -> {"absent", "ACTIVE", "ARCHIVED", "DELETED"}]
          /\ event \in [Contracts -> {"none", "activation", "available", "done"}]
          /\ status \in [Invoices -> Statuses]
          /\ missing \in [Invoices -> {"none", "OPEN", "WAITING", "RESOLVED"}]
          /\ confirm \in [Invoices -> {"none", "OPEN", "RESOLVED"}]
          /\ cands \in [Invoices -> SUBSET Contracts]
          /\ recorded \subseteq Invoices \X Contracts
          /\ assoc \in [Invoices -> Contracts \cup {NoContract}]
          /\ resumed \subseteq Contracts \X Invoices
          /\ mjob \in [Invoices -> {"queued", "done", "dead"}]
          /\ work \in [Jobs -> Works]
          /\ \A k \in Jobs : work[k].stage \in {"loaded", "checked"} <=> work[k].inv # NoInvoice
          /\ owed \in [Contracts -> SUBSET Invoices]
          /\ docs \in Cases /\ faults \in 0 .. MaxFaults

\* An invoice waits for the accountant or for a contract exactly while its task is
\* active: matching, fan-out, waiver and confirmation, racing on the same invoice,
\* never leave it blocked without a task or with the task of another blocker.
BlockedByItsTask ==
    \A i \in Invoices :
        /\ missing[i] \in {"OPEN", "WAITING"} <=> status[i] = "AWAITING_CONTRACT"
        /\ confirm[i] = "OPEN" <=> status[i] = "AWAITING_MATCH_CONFIRM"

\* Stale work cannot move an invoice backward: a decision computed before a waiver
\* or a confirmation never undoes it, and an association is never replaced.
Rank == [s \in Statuses |-> CASE s = "MATCHING" -> 0 [] s = "AWAITING_CONTRACT" -> 1
                              [] s = "AWAITING_MATCH_CONFIRM" -> 2 [] OTHER -> 3]
NeverBackward ==
    [][\A i \in Invoices : /\ Rank[status'[i]] >= Rank[status[i]]
                           /\ assoc[i] # NoContract => assoc'[i] = assoc[i]]_vars

\* An association exists only on an invoice past matching and names a candidate its
\* match runs recorded; an incompatible contract is associated only by the accountant.
AssociationHasEvidence ==
    \A i \in Invoices : assoc[i] # NoContract =>
        /\ status[i] = "DEDUPE_CHECKED"
        /\ <<i, assoc[i]>> \in recorded
        /\ i \in Outgoing \/ confirm[i] = "RESOLVED" \/ Kind[i][assoc[i]] = "compatible"

\* The contract is gone, the invoice is not blocked for one, or an expired contract made
\* the policy refuse it.
NoLongerFor(i, c) == \/ status[i] # "AWAITING_CONTRACT"
                     \/ life[c] # "ACTIVE"
                     \/ \E e \in Contracts : Kind[i][e] = "expired" /\ life[e] # "absent"

\* A contract made available resumes the invoices that wait for it: a fan-out reported done
\* has dealt with every invoice waiting when the contract was announced or the fan-out began,
\* however often it was cut off and its commands were found committed.  None still waits
\* beside its ACTIVE contract, but for one whose contract was requested after the listing.
FanOutMissesNone ==
    [][\A c \in Contracts : event[c] = "available" /\ event'[c] = "done" =>
          \A i \in owed[c] :
             NoLongerFor(i, c) \/ (missing[i] = "WAITING" /\ i \notin work[c].asked)]_vars

\* Every announced contract's fan-out ends, whatever keeps taking its invoices or contracts
\* from it: refused, stale and committed invoices do not make it run again for ever, and no
\* two fan-outs or a waiver wait for each other.
FanOutEnds == \A c \in Contracts : []<>(event[c] \notin {"activation", "available"})

\* What decision D-095 says: blocked invoices are reevaluated over the persisted
\* eligible contracts and a unique compatible one resumes.  So none stays blocked
\* beside its unique compatible contract once that contract's event is processed.
NoInvoiceLeftBehind ==
    \A i \in Invoices \ Outgoing :
        status[i] = "AWAITING_CONTRACT" /\ Outcome(i, Discovered(i)) = "UNIQUE_COMPATIBLE"
            => \E c \in Discovered(i) : event[c] # "done"

\* What the comment of DeleteMistakenContract says: any invoice or match use of a
\* contract blocks its deletion as a mistaken upload.
DeletedWasUnused == \A c \in Contracts : life[c] = "DELETED" => ~InUse(c)

\* The abstract life of the invoices: their status and their active tasks change in one
\* step and along the declared transitions, whatever matching jobs, fan-outs and commands
\* work on the same invoice.
ActiveTasks(i) == {Task("MISSING_CONTRACT", s) : s \in {missing[i]} \cap {"OPEN", "WAITING"}}
                  \cup {Task("CONTRACT_MATCH", s) : s \in {confirm[i]} \cap {"OPEN"}}
Life == INSTANCE InvoiceLifecycle WITH Starts <- {"MATCHING"}, active <- [i \in Invoices |-> ActiveTasks(i)]
ImplementsLifecycle == Life!Spec
=============================================================================

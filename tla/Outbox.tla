------------------------------- MODULE Outbox -------------------------------
(***************************************************************************)
(* The transactional outbox and the dispatchers that drain it              *)
(* (internal/platform/postgres/outbox.go, internal/workerruntime/          *)
(* dispatcher.go, publisher.go).  A row is written by the transaction that *)
(* changes an invoice or a contract.  Each worker process runs one         *)
(* dispatcher: it claims a batch under a lease, publishes the entries one  *)
(* by one to Redis and settles each row by a compare-and-set on            *)
(* (status, claim_owner).  Between these steps the process may crash, a    *)
(* lease may run out, and an answer of the database or of Redis may be     *)
(* lost.                                                                   *)
(*                                                                         *)
(* Time is abstract: `ripe' says that available_at (of a PENDING row) or   *)
(* claimed_at + CLAIM_TTL (of a CLAIMED row) has passed.                   *)
(***************************************************************************)
EXTENDS Integers, FiniteSets

CONSTANTS NEntries,      \* rows are numbered in created_at order
          Dispatchers,   \* running worker processes
          OwnerOf,       \* dispatcher |-> its claim_owner text (hostname:pid)
          NoOwner,       \* SQL NULL in claim_owner
          BatchSize,     \* OUTBOX_BATCH_SIZE
          MaxAttempts,   \* OUTBOX_MAX_ATTEMPTS
          MaxFaults      \* bound: crashes, slow batches and lost answers

Entries == 1 .. NEntries

ASSUME BoundsAssumption == /\ NEntries \in Nat
                           /\ BatchSize \in Nat \ {0}
                           /\ MaxAttempts \in Nat \ {0}
                           /\ MaxFaults \in Nat
ASSUME OwnerAssumption == \A d \in Dispatchers : OwnerOf[d] # NoOwner

VARIABLES row,     \* outbox_entries
          batch,   \* per dispatcher: entry |-> Attempts read by Claim, 0 if not held
          cur,     \* per dispatcher: entry whose Publish has returned, 0 if none
          answer,  \* per dispatcher: what that Publish returned
          jobs,    \* copies of the entry's job that Redis accepted
          faults   \* faults injected so far

vars == <<row, batch, cur, answer, jobs, faults>>

Statuses == {"ABSENT", "PENDING", "CLAIMED", "DISPATCHED", "FAILED"}
Settled(e) == row[e].status \in {"DISPATCHED", "FAILED"}
OwnerNames == {OwnerOf[d] : d \in Dispatchers}

----------------------------------------------------------------------------
(* Rows as the SQL statements leave them.                                  *)

AbsentRow == [status |-> "ABSENT", owner |-> NoOwner, attempts |-> 0, ripe |-> FALSE]
CreatedRow == [status |-> "PENDING", owner |-> NoOwner, attempts |-> 0, ripe |-> TRUE]
ClaimedRow(r, d) == [status |-> "CLAIMED", owner |-> OwnerOf[d],
                     attempts |-> r.attempts + 1, ripe |-> FALSE]
LeftRowKeepsOwner(r, status) == [r EXCEPT !.status = status, !.ripe = FALSE]   \* mutant
LeftRow(r, status) == [r EXCEPT !.status = status, !.owner = NoOwner, !.ripe = FALSE]

ClaimableIfPending(e) == row[e].status = "PENDING" /\ row[e].ripe   \* mutant
Claimable(e) == row[e].status \in {"PENDING", "CLAIMED"} /\ row[e].ripe

\* ORDER BY created_at, id LIMIT BatchSize: the oldest rows first.
ClaimSet(S) == /\ S # {}
               /\ S \subseteq {e \in Entries : Claimable(e)}
               /\ Cardinality(S) <= BatchSize
               /\ \A e \in Entries \ S : Claimable(e) =>
                     /\ Cardinality(S) = BatchSize
                     /\ \A s \in S : s < e

\* WHERE id = $1 AND status = 'CLAIMED' AND claim_owner = $2
OwnsAnyClaim(d, e) == row[e].status = "CLAIMED"   \* mutant: no claim_owner test
OwnsAnyRow(d, e) == row[e].status # "ABSENT"      \* mutant: WHERE id = $1 only
OwnsClaim(d, e) == row[e].status = "CLAIMED" /\ row[e].owner = OwnerOf[d]

\* entry.Attempts >= MaxAttempts, on the copy the batch carries
ExhaustedEarly(d, e) == batch[d][e] + 1 >= MaxAttempts   \* mutant
Exhausted(d, e) == batch[d][e] >= MaxAttempts

\* Some dispatcher still works under the claim the row shows.
LeaseHeld(e) == \E d \in Dispatchers : row[e].status = "CLAIMED" /\ batch[d][e] = row[e].attempts

Idle(d) == cur[d] = 0 /\ \A e \in Entries : batch[d][e] = 0

----------------------------------------------------------------------------
Init == /\ row = [e \in Entries |-> AbsentRow]
        /\ batch = [d \in Dispatchers |-> [e \in Entries |-> 0]]
        /\ cur = [d \in Dispatchers |-> 0]
        /\ answer = [d \in Dispatchers |-> "none"]
        /\ jobs = [e \in Entries |-> 0]
        /\ faults = 0

Fault == faults < MaxFaults /\ faults' = faults + 1

\* A business transaction commits with its outbox row.
Create(e) == /\ row[e].status = "ABSENT"
             /\ \A f \in Entries : f < e => row[f].status # "ABSENT"
             /\ row' = [row EXCEPT ![e] = CreatedRow]
             /\ UNCHANGED <<batch, cur, answer, jobs, faults>>

\* The Claim transaction; its commit may reach the database and its answer not
\* the dispatcher, which then holds nothing.
ClaimRows(d, S) ==
    row' = [e \in Entries |-> IF e \in S THEN ClaimedRow(row[e], d) ELSE row[e]]

Claim(d) ==
    /\ Idle(d)
    /\ \E S \in SUBSET Entries :
          /\ ClaimSet(S)
          /\ ClaimRows(d, S)
          /\ \/ /\ batch' = [batch EXCEPT ![d] =
                              [e \in Entries |-> IF e \in S THEN row[e].attempts + 1 ELSE 0]]
                /\ UNCHANGED faults
             \/ Fault /\ UNCHANGED batch
    /\ UNCHANGED <<cur, answer, jobs>>

\* publisher.Publish: Redis accepts the job or not, and an accepted job may
\* still be reported as an error.
Publish(d, e) ==
    /\ cur[d] = 0
    /\ batch[d][e] > 0
    /\ cur' = [cur EXCEPT ![d] = e]
    /\ \E accepted \in BOOLEAN, reply \in {"ok", "error"} :
          /\ reply = "ok" => accepted
          /\ jobs' = IF accepted THEN [jobs EXCEPT ![e] = @ + 1] ELSE jobs
          /\ answer' = [answer EXCEPT ![d] = reply]
    /\ UNCHANGED <<row, batch, faults>>

\* mutant: the handled entry stays in the batch
DoneKeepsEntry(d) == /\ cur' = [cur EXCEPT ![d] = 0]
                     /\ answer' = [answer EXCEPT ![d] = "none"]
                     /\ UNCHANGED <<batch, jobs>>

\* The loop body is over: the next entry of the batch.
Done(d) == /\ batch' = [batch EXCEPT ![d][cur[d]] = 0]
           /\ cur' = [cur EXCEPT ![d] = 0]
           /\ answer' = [answer EXCEPT ![d] = "none"]
           /\ UNCHANGED jobs

\* ErrClaimLost leaves the row alone.
SetIfOwned(d, status) ==
    row' = IF OwnsClaim(d, cur[d])
           THEN [row EXCEPT ![cur[d]] = LeftRow(row[cur[d]], status)] ELSE row

\* mutant: the publish error is not looked at
MarkWhateverAnswer(d) == /\ cur[d] # 0
                         /\ SetIfOwned(d, "DISPATCHED")
                         /\ Done(d)
                         /\ UNCHANGED faults

MarkDispatched(d) == /\ cur[d] # 0
                     /\ answer[d] = "ok"
                     /\ SetIfOwned(d, "DISPATCHED")
                     /\ Done(d)
                     /\ UNCHANGED faults

MarkFailed(d) == /\ cur[d] # 0
                 /\ answer[d] = "error"
                 /\ Exhausted(d, cur[d])
                 /\ SetIfOwned(d, "FAILED")
                 /\ Done(d)
                 /\ UNCHANGED faults

ReleaseClaim(d) == /\ cur[d] # 0
                   /\ answer[d] = "error"
                   /\ ~Exhausted(d, cur[d])
                   /\ SetIfOwned(d, "PENDING")
                   /\ Done(d)
                   /\ UNCHANGED faults

\* The settling statement fails in the database; the loop goes on and the
\* claim is left to expire.
SettleError(d) == cur[d] # 0 /\ Fault /\ Done(d) /\ UNCHANGED row

\* The process dies, or is shut down with its context cancelled, with part of
\* the batch unhandled; it is restarted with the same owner text.
Crash(d) == /\ ~Idle(d)
            /\ Fault
            /\ batch' = [batch EXCEPT ![d] = [e \in Entries |-> 0]]
            /\ cur' = [cur EXCEPT ![d] = 0]
            /\ answer' = [answer EXCEPT ![d] = "none"]
            /\ UNCHANGED <<row, jobs>>

\* The backoff of a released row or the lease of an orphaned claim runs out.
Ripen(e) == /\ row[e].status \in {"PENDING", "CLAIMED"}
            /\ ~row[e].ripe
            /\ ~LeaseHeld(e)
            /\ row' = [row EXCEPT ![e].ripe = TRUE]
            /\ UNCHANGED <<batch, cur, answer, jobs, faults>>

\* A lease runs out while its holder is still busy with the batch.
SlowBatch(e) == /\ LeaseHeld(e)
                /\ ~row[e].ripe
                /\ Fault
                /\ row' = [row EXCEPT ![e].ripe = TRUE]
                /\ UNCHANGED <<batch, cur, answer, jobs>>

DispatcherStep(d) == \/ Claim(d)
                     \/ \E e \in Entries : Publish(d, e)
                     \/ MarkDispatched(d) \/ MarkFailed(d) \/ ReleaseClaim(d)
                     \/ SettleError(d) \/ Crash(d)

Next == \/ \E e \in Entries : Create(e) \/ Ripen(e) \/ SlowBatch(e)
        \/ \E d \in Dispatchers : DispatcherStep(d)

Spec == Init /\ [][Next]_vars

\* Dispatcher.Run loops on a ticker until shutdown, and time passes.
Settle(d) == MarkDispatched(d) \/ MarkFailed(d) \/ ReleaseClaim(d)
FairSpec == /\ Spec
            /\ \A e \in Entries : WF_vars(Ripen(e))
            /\ \A d \in Dispatchers :
                  /\ WF_vars(Claim(d))
                  /\ WF_vars(\E e \in Entries : Publish(d, e))
                  /\ WF_vars(Settle(d))

----------------------------------------------------------------------------
(* Correctness.                                                            *)

\* Every variable has its type, and claim_owner is set exactly on claimed rows.
TypeOK == /\ row \in [Entries -> [status : Statuses, owner : OwnerNames \cup {NoOwner},
                                  attempts : Nat, ripe : BOOLEAN]]
          /\ \A e \in Entries : row[e].status = "CLAIMED" <=> row[e].owner # NoOwner
          /\ batch \in [Dispatchers -> [Entries -> Nat]]
          /\ cur \in [Dispatchers -> Entries \cup {0}]
          /\ answer \in [Dispatchers -> {"none", "ok", "error"}]
          /\ jobs \in [Entries -> Nat]
          /\ faults \in 0 .. MaxFaults

\* A row is DISPATCHED only if Redis accepted its job: crashes, lost leases and
\* lost answers may duplicate a continuation but never lose one (DispatchBatch
\* publishes before MarkDispatched).
DispatchedWasDelivered ==
    \A e \in Entries : row[e].status = "DISPATCHED" => jobs[e] > 0

\* Claim increments attempts in the claiming statement, so the duplicates the
\* consumers must absorb never exceed the claims the row counted, whoever crashed.
OneJobPerClaim == \A e \in Entries : jobs[e] <= row[e].attempts

\* A continuation is given up (MarkFailed) only after MaxAttempts claims of the
\* row itself, although the test reads the Attempts copy taken by Claim.
FailedOnlyExhausted ==
    \A e \in Entries : row[e].status = "FAILED" => row[e].attempts >= MaxAttempts

\* No late MarkDispatched, MarkFailed or ReleaseClaim of a dispatcher that lost
\* its lease, and no Claim, touches a settled row.
SettledRowsFinal == [][\A e \in Entries : Settled(e) => row'[e] = row[e]]_vars

\* A claimed row is settled or released only by a dispatcher working under the
\* claim the row shows, never under an earlier one it has lost: claim_owner is
\* a fencing token as long as no two processes share their owner text.
Fenced ==
    [][\A e \in Entries :
          row[e].status = "CLAIMED" /\ row'[e].status # "CLAIMED" =>
              \E d \in Dispatchers : cur[d] = e /\ cur'[d] = 0
                                     /\ batch[d][e] = row[e].attempts]_vars

\* Whatever the finite number of faults, every continuation a transaction wrote
\* is eventually dispatched or reported FAILED: an orphaned claim is never stuck.
EverySettles == \A e \in Entries : row[e].status = "PENDING" ~> Settled(e)

\* The outbox implements the hand-off it promises.
StateOf(e) == CASE row[e].status = "ABSENT" -> "absent"
                [] row[e].status \in {"PENDING", "CLAIMED"} -> "accepted"
                [] row[e].status = "DISPATCHED" -> "settled"
                [] OTHER -> "abandoned"
Promise == INSTANCE Handoff WITH Items <- Entries, copies <- jobs,
                                 state <- [e \in Entries |-> StateOf(e)]
ImplementsHandoff == Promise!Spec
=============================================================================

---------------------------- MODULE OutboxProofs ----------------------------
(***************************************************************************)
(* Proofs about Outbox for any number of rows and dispatchers and any      *)
(* bounds: types, delivery before settlement, finality, fencing under      *)
(* distinct owner texts, the number of duplicates, and the refinement of   *)
(* Handoff.                                                                *)
(***************************************************************************)
EXTENDS Outbox, FiniteSetTheorems, TLAPS

\* What a busy dispatcher remembers agrees with the rows and the queue.
LocalInv ==
    /\ \A e \in Entries : row[e].status = "ABSENT" => row[e].attempts = 0
    /\ \A d \in Dispatchers, e \in Entries : batch[d][e] <= row[e].attempts
    /\ \A d \in Dispatchers : cur[d] # 0 => batch[d][cur[d]] > 0
    /\ \A d \in Dispatchers : answer[d] # "none" => cur[d] # 0
    /\ \A d \in Dispatchers : answer[d] = "ok" => jobs[cur[d]] > 0

Inv == TypeOK /\ LocalInv /\ DispatchedWasDelivered /\ FailedOnlyExhausted

LEMMA EntriesFacts == Entries \subseteq Nat /\ 0 \notin Entries
  BY BoundsAssumption DEF Entries

LEMMA InitInv == Init => Inv
  <1>1. Init => TypeOK
    BY BoundsAssumption, EntriesFacts, SMT DEF Init, TypeOK, AbsentRow, Statuses
  <1>2. Init => LocalInv /\ DispatchedWasDelivered /\ FailedOnlyExhausted
    BY DEF Init, LocalInv, DispatchedWasDelivered, FailedOnlyExhausted, AbsentRow
  <1>3. QED BY <1>1, <1>2 DEF Inv

\* Every step of a dispatcher or of time preserves the invariant.
LEMMA CreateInv == ASSUME Inv, NEW x \in Entries, Create(x) PROVE Inv'
  <1> USE EntriesFacts DEF Inv, Create, CreatedRow
  <1>1. TypeOK' BY DEF TypeOK, Statuses
  <1>2. LocalInv' BY DEF LocalInv, TypeOK
  <1>3. DispatchedWasDelivered' BY DEF DispatchedWasDelivered, TypeOK
  <1>4. FailedOnlyExhausted' BY DEF FailedOnlyExhausted, TypeOK
  <1>5. QED BY <1>1, <1>2, <1>3, <1>4

LEMMA RipenInv == ASSUME Inv, NEW x \in Entries, Ripen(x) \/ SlowBatch(x) PROVE Inv'
  <1> USE EntriesFacts DEF Inv
  <1>1. /\ row' = [row EXCEPT ![x].ripe = TRUE]
        /\ UNCHANGED <<batch, cur, answer, jobs>>
        /\ faults' = faults \/ (faults < MaxFaults /\ faults' = faults + 1)
    BY DEF Ripen, SlowBatch, Fault
  <1>2. /\ row' \in [Entries -> [status : Statuses, owner : OwnerNames \cup {NoOwner},
                                 attempts : Nat, ripe : BOOLEAN]]
        /\ \A e \in Entries : /\ row'[e].status = row[e].status
                              /\ row'[e].owner = row[e].owner
                              /\ row'[e].attempts = row[e].attempts
    BY <1>1 DEF TypeOK
  <1>3. faults' \in 0 .. MaxFaults
    BY <1>1, BoundsAssumption DEF TypeOK
  <1>4. TypeOK' BY <1>1, <1>2, <1>3 DEF TypeOK
  <1>5. LocalInv' BY <1>1, <1>2 DEF LocalInv
  <1>6. DispatchedWasDelivered' BY <1>1, <1>2 DEF DispatchedWasDelivered
  <1>7. FailedOnlyExhausted' BY <1>2 DEF FailedOnlyExhausted
  <1>8. QED BY <1>4, <1>5, <1>6, <1>7

LEMMA ClaimInv == ASSUME Inv, NEW d \in Dispatchers, Claim(d) PROVE Inv'
  <1> USE EntriesFacts DEF Inv
  <1>1. PICK S \in SUBSET Entries :
           /\ ClaimSet(S)
           /\ ClaimRows(d, S)
           /\ \/ /\ batch' = [batch EXCEPT ![d] =
                                [e \in Entries |-> IF e \in S THEN row[e].attempts + 1 ELSE 0]]
                 /\ UNCHANGED faults
              \/ Fault /\ UNCHANGED batch
    BY DEF Claim
  <1>2. UNCHANGED <<cur, answer, jobs>> /\ Idle(d)
    BY DEF Claim
  <1>3. \A e \in Entries : e \in S => row[e].status \in {"PENDING", "CLAIMED"}
    BY <1>1 DEF ClaimSet, Claimable
  <1>4. row' \in [Entries -> [status : Statuses, owner : OwnerNames \cup {NoOwner},
                              attempts : Nat, ripe : BOOLEAN]]
    BY <1>1 DEF TypeOK, ClaimRows, ClaimedRow, OwnerNames, Statuses
  <1>5. \A e \in Entries : row'[e].status = "CLAIMED" <=> row'[e].owner # NoOwner
    BY <1>1, OwnerAssumption DEF TypeOK, ClaimRows, ClaimedRow
  <1>6. batch' \in [Dispatchers -> [Entries -> Nat]] /\ faults' \in 0 .. MaxFaults
    BY <1>1, BoundsAssumption DEF TypeOK, Fault
  <1>7. TypeOK'
    BY <1>2, <1>4, <1>5, <1>6 DEF TypeOK
  <1>8. LocalInv'
    <2>1. \A c \in Dispatchers, e \in Entries : batch'[c][e] <= row'[e].attempts
      BY <1>1 DEF LocalInv, TypeOK, ClaimRows, ClaimedRow
    <2>2. \A c \in Dispatchers : cur[c] # 0 => c # d /\ batch'[c][cur[c]] = batch[c][cur[c]]
      BY <1>1, <1>2 DEF Idle, TypeOK
    <2>3. \A e \in Entries : row'[e].status = "ABSENT" => row'[e].attempts = 0
      BY <1>1 DEF LocalInv, ClaimRows, ClaimedRow
    <2>4. QED BY <1>2, <2>1, <2>2, <2>3 DEF LocalInv, TypeOK
  <1>9. DispatchedWasDelivered' /\ FailedOnlyExhausted'
    BY <1>1, <1>2, <1>3 DEF DispatchedWasDelivered, FailedOnlyExhausted, TypeOK, ClaimRows, ClaimedRow
  <1>10. QED BY <1>7, <1>8, <1>9

LEMMA PublishInv ==
  ASSUME Inv, NEW d \in Dispatchers, NEW x \in Entries, Publish(d, x) PROVE Inv'
  <1> USE EntriesFacts DEF Inv
  <1>1. PICK accepted \in BOOLEAN, reply \in {"ok", "error"} :
           /\ reply = "ok" => accepted
           /\ jobs' = IF accepted THEN [jobs EXCEPT ![x] = @ + 1] ELSE jobs
           /\ answer' = [answer EXCEPT ![d] = reply]
    BY DEF Publish
  <1>2. /\ cur' = [cur EXCEPT ![d] = x]
        /\ batch[d][x] > 0
        /\ UNCHANGED <<row, batch, faults>>
    BY DEF Publish
  <1>3. jobs' \in [Entries -> Nat] /\ \A e \in Entries : jobs'[e] >= jobs[e]
    BY <1>1 DEF TypeOK
  <1>4. TypeOK' BY <1>1, <1>2, <1>3 DEF TypeOK
  <1>5. LocalInv'
    <2>1. answer'[d] = "ok" => jobs'[x] > 0
      BY <1>1 DEF TypeOK
    <2>2. QED BY <1>1, <1>2, <1>3, <2>1 DEF LocalInv, TypeOK
  <1>6. DispatchedWasDelivered' /\ FailedOnlyExhausted'
    BY <1>2, <1>3 DEF DispatchedWasDelivered, FailedOnlyExhausted, TypeOK
  <1>7. QED BY <1>4, <1>5, <1>6

\* After the loop body only the handled entry has left the batch.
LEMMA DoneLocal ==
  ASSUME Inv, NEW d \in Dispatchers, Done(d), cur[d] # 0,
         \A e \in Entries : row'[e].attempts = row[e].attempts,
         \A e \in Entries : row'[e].status = "ABSENT" => row[e].status = "ABSENT"
  PROVE  /\ batch' \in [Dispatchers -> [Entries -> Nat]]
         /\ cur' \in [Dispatchers -> Entries \cup {0}]
         /\ answer' \in [Dispatchers -> {"none", "ok", "error"}]
         /\ LocalInv'
  BY EntriesFacts DEF Inv, Done, LocalInv, TypeOK

LEMMA SettleInv ==
  ASSUME Inv, NEW d \in Dispatchers, Settle(d) \/ SettleError(d) PROVE Inv'
  <1> USE EntriesFacts DEF Inv
  <1>1. Done(d) /\ cur[d] # 0 /\ UNCHANGED jobs
    BY DEF Settle, MarkDispatched, MarkFailed, ReleaseClaim, SettleError, Done
  <1>2. faults' \in 0 .. MaxFaults
    BY BoundsAssumption
    DEF Settle, MarkDispatched, MarkFailed, ReleaseClaim, SettleError, Fault, TypeOK
  <1>3. cur[d] \in Entries
    BY <1>1 DEF TypeOK
  <1>4. \/ UNCHANGED row
        \/ \E s \in {"DISPATCHED", "FAILED", "PENDING"} :
              /\ row' = [row EXCEPT ![cur[d]] = LeftRow(row[cur[d]], s)]
              /\ s = "DISPATCHED" => answer[d] = "ok"
              /\ s = "FAILED" => Exhausted(d, cur[d])
    BY DEF Settle, MarkDispatched, MarkFailed, ReleaseClaim, SettleError, SetIfOwned
  <1>5. CASE UNCHANGED row
    <2>1. TypeOK' BY <1>1, <1>2, <1>5, DoneLocal DEF TypeOK
    <2>2. LocalInv' BY <1>1, <1>5, DoneLocal
    <2>3. QED BY <1>1, <1>5, <2>1, <2>2 DEF DispatchedWasDelivered, FailedOnlyExhausted
  <1>6. ASSUME NEW s \in {"DISPATCHED", "FAILED", "PENDING"},
               row' = [row EXCEPT ![cur[d]] = LeftRow(row[cur[d]], s)],
               s = "DISPATCHED" => answer[d] = "ok",
               s = "FAILED" => Exhausted(d, cur[d])
        PROVE Inv'
    <2>1. LeftRow(row[cur[d]], s) \in [status : Statuses, owner : OwnerNames \cup {NoOwner},
                                       attempts : Nat, ripe : BOOLEAN]
      BY <1>3 DEF TypeOK, LeftRow, Statuses
    <2>2. /\ LeftRow(row[cur[d]], s).status = s
          /\ LeftRow(row[cur[d]], s).owner = NoOwner
          /\ LeftRow(row[cur[d]], s).attempts = row[cur[d]].attempts
      BY <1>3 DEF TypeOK, LeftRow
    <2>3. \A e \in Entries : row'[e] = IF e = cur[d] THEN LeftRow(row[cur[d]], s) ELSE row[e]
      BY <1>6 DEF TypeOK
    <2>4. row' \in [Entries -> [status : Statuses, owner : OwnerNames \cup {NoOwner},
                                attempts : Nat, ripe : BOOLEAN]]
      BY <1>6, <2>1 DEF TypeOK
    <2>5. \A e \in Entries : row'[e].status = "CLAIMED" <=> row'[e].owner # NoOwner
      BY <2>2, <2>3 DEF TypeOK
    <2>6. \A e \in Entries : row'[e].attempts = row[e].attempts
      BY <2>2, <2>3
    <2>7. \A e \in Entries : row'[e].status = "ABSENT" => row[e].status = "ABSENT"
      BY <2>2, <2>3
    <2>8. TypeOK' BY <1>1, <1>2, <2>4, <2>5, <2>6, <2>7, DoneLocal DEF TypeOK
    <2>9. LocalInv' BY <1>1, <2>6, <2>7, DoneLocal
    <2>10. DispatchedWasDelivered'
      BY <1>1, <1>6, <2>2, <2>3 DEF DispatchedWasDelivered, LocalInv
    <2>11. FailedOnlyExhausted'
      BY <1>3, <1>6, <2>2, <2>3, <2>6, BoundsAssumption
      DEF FailedOnlyExhausted, LocalInv, TypeOK, Exhausted
    <2>12. QED BY <2>8, <2>9, <2>10, <2>11
  <1>7. QED BY <1>4, <1>5, <1>6

LEMMA CrashInv == ASSUME Inv, NEW d \in Dispatchers, Crash(d) PROVE Inv'
  <1> USE EntriesFacts DEF Inv, Crash, Fault
  <1>1. TypeOK' BY BoundsAssumption DEF TypeOK
  <1>2. LocalInv' BY DEF LocalInv, TypeOK
  <1>3. DispatchedWasDelivered' BY DEF DispatchedWasDelivered
  <1>4. FailedOnlyExhausted' BY DEF FailedOnlyExhausted
  <1>5. QED BY <1>1, <1>2, <1>3, <1>4

LEMMA NextInv == Inv /\ [Next]_vars => Inv'
  <1> SUFFICES ASSUME Inv, [Next]_vars PROVE Inv'
    OBVIOUS
  <1>1. CASE UNCHANGED vars
    BY <1>1 DEF vars, Inv, TypeOK, LocalInv, DispatchedWasDelivered, FailedOnlyExhausted, Statuses
  <1>2. ASSUME NEW e \in Entries, Create(e) \/ Ripen(e) \/ SlowBatch(e) PROVE Inv'
    BY <1>2, CreateInv, RipenInv
  <1>3. ASSUME NEW d \in Dispatchers, DispatcherStep(d) PROVE Inv'
    BY <1>3, ClaimInv, PublishInv, SettleInv, CrashInv DEF DispatcherStep, Settle
  <1>4. QED BY <1>1, <1>2, <1>3 DEF Next

\* Types, and the columns of the rows, in every reachable state.
THEOREM TypeCorrect == Spec => []TypeOK
  <1>1. Inv => TypeOK BY DEF Inv
  <1>2. QED BY InitInv, NextInv, <1>1, PTL DEF Spec

\* Publish before mark: no crash, lost lease or lost answer loses a continuation.
THEOREM DeliveryBeforeSettlement == Spec => []DispatchedWasDelivered
  <1>1. Inv => DispatchedWasDelivered BY DEF Inv
  <1>2. QED BY InitInv, NextInv, <1>1, PTL DEF Spec

\* The Attempts copy of the batch never makes a dispatcher give up too early.
THEOREM AbandonedOnlyExhausted == Spec => []FailedOnlyExhausted
  <1>1. Inv => FailedOnlyExhausted BY DEF Inv
  <1>2. QED BY InitInv, NextInv, <1>1, PTL DEF Spec

----------------------------------------------------------------------------
(* Duplicates.  Every job was published for one claim of its row, and the  *)
(* claims whose dispatcher has not yet published are spoken for.           *)

Unpublished(e) == {d \in Dispatchers : batch[d][e] > 0 /\ cur[d] # e}
Budget == \A e \in Entries : jobs[e] + Cardinality(Unpublished(e)) <= row[e].attempts

\* The ways one step may change what a row has left.
LEMMA BudgetStep ==
  ASSUME IsFiniteSet(Dispatchers), NEW e \in Entries, NEW d \in Dispatchers,
         jobs[e] \in Nat, jobs'[e] \in Nat, row[e].attempts \in Nat, row'[e].attempts \in Nat,
         jobs[e] + Cardinality(Unpublished(e)) <= row[e].attempts,
         \/ /\ jobs'[e] = jobs[e] /\ row'[e].attempts \in {row[e].attempts, row[e].attempts + 1}
            /\ Unpublished(e)' \subseteq Unpublished(e)
         \/ /\ jobs'[e] \in {jobs[e], jobs[e] + 1} /\ row'[e].attempts = row[e].attempts
            /\ d \in Unpublished(e) /\ Unpublished(e)' \subseteq Unpublished(e) \ {d}
         \/ /\ jobs'[e] = jobs[e] /\ row'[e].attempts = row[e].attempts + 1
            /\ Unpublished(e)' \subseteq Unpublished(e) \cup {d}
  PROVE  jobs'[e] + Cardinality(Unpublished(e)') <= row'[e].attempts
  <1> DEFINE U == Unpublished(e)
             V == Unpublished(e)'
  <1>1. U \subseteq Dispatchers /\ V \subseteq Dispatchers
    BY DEF Unpublished
  <1>2. IsFiniteSet(U) /\ IsFiniteSet(V)
    BY <1>1, FS_Subset
  <1>3. IsFiniteSet(U \ {d}) /\ IsFiniteSet(U \cup {d})
    BY <1>2, FS_AddElement, FS_RemoveElement
  <1>4. Cardinality(U) \in Nat /\ Cardinality(V) \in Nat
    BY <1>2, FS_CardinalityType
  <1>5. V \subseteq U => Cardinality(V) <= Cardinality(U)
    BY <1>2, FS_Subset
  <1>6. d \in U /\ V \subseteq U \ {d} => Cardinality(V) <= Cardinality(U) - 1
    BY <1>2, <1>3, FS_Subset, FS_RemoveElement
  <1>7. V \subseteq U \cup {d} => Cardinality(V) <= Cardinality(U) + 1
    <2>1. Cardinality(U \cup {d}) \in {Cardinality(U), Cardinality(U) + 1}
      BY <1>2, FS_AddElement
    <2>2. V \subseteq U \cup {d} => Cardinality(V) <= Cardinality(U \cup {d})
      BY <1>3, FS_Subset
    <2> QED BY <1>4, <2>1, <2>2
  <1> HIDE DEF U, V
  <1>8. \/ jobs'[e] = jobs[e] /\ row'[e].attempts \in {row[e].attempts, row[e].attempts + 1} /\ V \subseteq U
        \/ /\ jobs'[e] \in {jobs[e], jobs[e] + 1} /\ row'[e].attempts = row[e].attempts
           /\ d \in U /\ V \subseteq U \ {d}
        \/ /\ jobs'[e] = jobs[e] /\ row'[e].attempts = row[e].attempts + 1
           /\ V \subseteq U \cup {d}
    BY DEF U, V
  <1>9. jobs[e] + Cardinality(U) <= row[e].attempts
    BY DEF U
  <1>10. jobs'[e] + Cardinality(V) <= row'[e].attempts
    BY <1>4, <1>5, <1>6, <1>7, <1>8, <1>9
  <1> QED BY <1>10 DEF V

LEMMA BudgetNext ==
  ASSUME IsFiniteSet(Dispatchers), Inv, Inv', Budget, [Next]_vars PROVE Budget'
  <1> USE EntriesFacts
  <1>t. \A e \in Entries : /\ jobs[e] \in Nat /\ jobs'[e] \in Nat
                           /\ row[e].attempts \in Nat /\ row'[e].attempts \in Nat
    BY DEF Inv, TypeOK
  <1>1. CASE UNCHANGED vars
    BY <1>1 DEF vars, Budget, Unpublished
  <1>2. ASSUME NEW x \in Entries, Create(x) \/ Ripen(x) \/ SlowBatch(x) PROVE Budget'
    <2>1. \A e \in Entries : row'[e].attempts = row[e].attempts
      <3>1. CASE Create(x)
        BY <3>1 DEF Create, CreatedRow, Inv, TypeOK, LocalInv
      <3>2. CASE Ripen(x) \/ SlowBatch(x)
        BY <3>2 DEF Ripen, SlowBatch, Inv, TypeOK
      <3> QED BY <1>2, <3>1, <3>2
    <2>2. UNCHANGED <<batch, cur, jobs>>
      BY <1>2 DEF Create, Ripen, SlowBatch
    <2> QED BY <2>1, <2>2 DEF Budget, Unpublished
  <1>3. ASSUME NEW d \in Dispatchers, DispatcherStep(d), NEW e \in Entries
        PROVE  \/ /\ jobs'[e] = jobs[e] /\ row'[e].attempts \in {row[e].attempts, row[e].attempts + 1}
                  /\ Unpublished(e)' \subseteq Unpublished(e)
               \/ /\ jobs'[e] \in {jobs[e], jobs[e] + 1} /\ row'[e].attempts = row[e].attempts
                  /\ d \in Unpublished(e) /\ Unpublished(e)' \subseteq Unpublished(e) \ {d}
               \/ /\ jobs'[e] = jobs[e] /\ row'[e].attempts = row[e].attempts + 1
                  /\ Unpublished(e)' \subseteq Unpublished(e) \cup {d}
    <2>1. CASE Claim(d)
      <3>1. PICK S \in SUBSET Entries :
               /\ ClaimRows(d, S)
               /\ \/ batch' = [batch EXCEPT ![d] =
                                [f \in Entries |-> IF f \in S THEN row[f].attempts + 1 ELSE 0]]
                  \/ batch' = batch
        BY <2>1 DEF Claim
      <3>2. UNCHANGED <<cur, jobs>>
        BY <2>1 DEF Claim
      <3>3. row'[e] = IF e \in S THEN ClaimedRow(row[e], d) ELSE row[e]
        BY <3>1 DEF ClaimRows
      <3>4. row'[e].attempts = IF e \in S THEN row[e].attempts + 1 ELSE row[e].attempts
        BY <3>3 DEF ClaimedRow
      <3>5. \A c \in Dispatchers : c # d => batch'[c] = batch[c]
        BY <3>1 DEF Inv, TypeOK
      <3>6. e \notin S => batch'[d][e] = batch[d][e] \/ batch'[d][e] = 0
        BY <3>1 DEF Inv, TypeOK
      <3>7. Unpublished(e)' \subseteq Unpublished(e) \cup {d}
        BY <3>2, <3>5 DEF Unpublished
      <3>8. e \notin S => Unpublished(e)' \subseteq Unpublished(e)
        BY <3>2, <3>5, <3>6 DEF Unpublished
      <3> QED BY <1>t, <3>2, <3>4, <3>7, <3>8
    <2>2. CASE \E x \in Entries : Publish(d, x)
      <3>1. PICK x \in Entries : Publish(d, x)
        BY <2>2
      <3>2. /\ cur[d] = 0 /\ batch[d][x] > 0 /\ cur' = [cur EXCEPT ![d] = x]
            /\ UNCHANGED <<row, batch>>
            /\ jobs' = [jobs EXCEPT ![x] = @ + 1] \/ jobs' = jobs
        BY <3>1 DEF Publish
      <3>3. \A c \in Dispatchers : cur'[c] = IF c = d THEN x ELSE cur[c]
        BY <3>2 DEF Inv, TypeOK
      <3>4. CASE e = x
        <4>1. d \in Unpublished(e) /\ Unpublished(e)' \subseteq Unpublished(e) \ {d}
          BY <3>2, <3>3, <3>4 DEF Unpublished
        <4>2. jobs'[e] \in {jobs[e], jobs[e] + 1}
          BY <1>t, <3>2 DEF Inv, TypeOK
        <4> QED BY <3>2, <4>1, <4>2
      <3>5. CASE e # x
        <4>1. jobs'[e] = jobs[e]
          BY <3>2, <3>5 DEF Inv, TypeOK
        <4>2. Unpublished(e)' \subseteq Unpublished(e)
          BY <3>2, <3>3 DEF Unpublished
        <4>3. row'[e].attempts = row[e].attempts
          BY <3>2
        <4>4. row'[e].attempts \in {row[e].attempts, row[e].attempts + 1}
          BY <4>3
        <4> QED BY <4>1, <4>2, <4>4
      <3> QED BY <3>4, <3>5
    <2>3. CASE Settle(d) \/ SettleError(d)
      <3>1. Done(d) /\ cur[d] \in Entries
        BY <2>3 DEF Settle, MarkDispatched, MarkFailed, ReleaseClaim, SettleError, Inv, TypeOK
      <3>2. row'[e].attempts = row[e].attempts
        <4>1. \/ UNCHANGED row
              \/ \E s \in {"DISPATCHED", "FAILED", "PENDING"} :
                    row' = [row EXCEPT ![cur[d]] = LeftRow(row[cur[d]], s)]
          BY <2>3 DEF Settle, MarkDispatched, MarkFailed, ReleaseClaim, SettleError, SetIfOwned
        <4>2. \A s \in {"DISPATCHED", "FAILED", "PENDING"} :
                 LeftRow(row[cur[d]], s).attempts = row[cur[d]].attempts
          BY <3>1 DEF LeftRow, Inv, TypeOK
        <4> QED BY <3>1, <4>1, <4>2 DEF Inv, TypeOK
      <3>3. Unpublished(e)' \subseteq Unpublished(e)
        BY <3>1 DEF Unpublished, Done, Inv, TypeOK
      <3>4. jobs'[e] = jobs[e]
        BY <3>1 DEF Done
      <3>5. row'[e].attempts \in {row[e].attempts, row[e].attempts + 1}
        BY <3>2
      <3> QED BY <3>3, <3>4, <3>5
    <2>4. CASE Crash(d)
      <3>1. Unpublished(e)' \subseteq Unpublished(e)
        BY <2>4 DEF Unpublished, Crash, Inv, TypeOK
      <3>2. jobs'[e] = jobs[e] /\ row'[e].attempts \in {row[e].attempts, row[e].attempts + 1}
        BY <2>4 DEF Crash
      <3> QED BY <3>1, <3>2
    <2> QED BY <1>3, <2>1, <2>2, <2>3, <2>4 DEF DispatcherStep, Settle
  <1>4. ASSUME NEW d \in Dispatchers, DispatcherStep(d), NEW e \in Entries
        PROVE  jobs'[e] + Cardinality(Unpublished(e)') <= row'[e].attempts
    <2>1. jobs[e] + Cardinality(Unpublished(e)) <= row[e].attempts
      BY DEF Budget
    <2> QED BY <1>t, <1>3, <1>4, <2>1, BudgetStep
  <1>5. ASSUME NEW d \in Dispatchers, DispatcherStep(d) PROVE Budget'
    BY <1>4, <1>5 DEF Budget
  <1> QED BY <1>1, <1>2, <1>5 DEF Next

\* However many crashes, lost leases and lost answers: a row has at most as many jobs as
\* its attempts column counts claims (Claim counts in the claiming statement).
THEOREM DuplicatesBounded == IsFiniteSet(Dispatchers) => (Spec => []OneJobPerClaim)
  <1> SUFFICES ASSUME IsFiniteSet(Dispatchers) PROVE Spec => []OneJobPerClaim
    OBVIOUS
  <1>1. Init => Budget
    <2> SUFFICES ASSUME Init, NEW e \in Entries
                 PROVE  jobs[e] + Cardinality(Unpublished(e)) <= row[e].attempts
      BY DEF Budget
    <2>1. Unpublished(e) = {}
      BY DEF Init, Unpublished
    <2>2. jobs[e] = 0 /\ row[e].attempts = 0
      BY DEF Init, AbsentRow
    <2> QED BY <2>1, <2>2, FS_EmptySet
  <1>2. Inv /\ Budget /\ [Next]_vars => Budget'
    BY NextInv, BudgetNext
  <1>3. Inv /\ Budget => OneJobPerClaim
    <2> SUFFICES ASSUME Inv, Budget, NEW e \in Entries PROVE jobs[e] <= row[e].attempts
      BY DEF OneJobPerClaim
    <2>1. IsFiniteSet(Unpublished(e))
      BY FS_Subset DEF Unpublished
    <2>2. Cardinality(Unpublished(e)) \in Nat
      BY <2>1, FS_CardinalityType
    <2> QED BY <2>2 DEF Budget, Inv, TypeOK
  <1>4. QED BY InitInv, NextInv, <1>1, <1>2, <1>3, PTL DEF Spec

----------------------------------------------------------------------------
(* Fencing and finality.                                                   *)

DistinctOwnerTexts == \A c, d \in Dispatchers : OwnerOf[c] = OwnerOf[d] => c = d

\* The claim a row shows is the one its owner's batch carries, if it carries any.
HeldCurrent ==
    \A d \in Dispatchers, e \in Entries :
        OwnsClaim(d, e) /\ batch[d][e] > 0 => batch[d][e] = row[e].attempts

LEMMA HeldCurrentStep ==
  ASSUME DistinctOwnerTexts, Inv, HeldCurrent, [Next]_vars PROVE HeldCurrent'
  <1> USE EntriesFacts DEF Inv
  <1>1. CASE UNCHANGED vars
    BY <1>1 DEF vars, HeldCurrent, OwnsClaim
  <1>2. ASSUME NEW x \in Entries, Create(x) PROVE HeldCurrent'
    BY <1>2 DEF HeldCurrent, OwnsClaim, Create, CreatedRow, TypeOK
  <1>3. ASSUME NEW x \in Entries, Ripen(x) \/ SlowBatch(x) PROVE HeldCurrent'
    <2>1. row' = [row EXCEPT ![x].ripe = TRUE] /\ batch' = batch
      BY <1>3 DEF Ripen, SlowBatch
    <2>2. \A e \in Entries : /\ row'[e].status = row[e].status
                             /\ row'[e].owner = row[e].owner
                            /\ row'[e].attempts = row[e].attempts
      BY <2>1 DEF TypeOK
    <2>3. QED BY <2>1, <2>2 DEF HeldCurrent, OwnsClaim
  <1>4. ASSUME NEW d \in Dispatchers, Claim(d) PROVE HeldCurrent'
    <2>1. PICK S \in SUBSET Entries :
             /\ ClaimRows(d, S)
             /\ \/ batch' = [batch EXCEPT ![d] =
                              [e \in Entries |-> IF e \in S THEN row[e].attempts + 1 ELSE 0]]
                \/ batch' = batch
      BY <1>4 DEF Claim
    <2>2. \A e \in Entries : batch[d][e] = 0
      BY <1>4 DEF Claim, Idle
    <2>3. SUFFICES ASSUME NEW c \in Dispatchers, NEW e \in Entries,
                          OwnsClaim(c, e)', batch'[c][e] > 0
                   PROVE  batch'[c][e] = row'[e].attempts
      BY DEF HeldCurrent
    <2>4. CASE c = d
      BY <2>1, <2>2, <2>3, <2>4 DEF ClaimRows, ClaimedRow, HeldCurrent, OwnsClaim, TypeOK
    <2>5. CASE c # d
      <3>1. e \notin S
        BY <2>1, <2>3, <2>5 DEF ClaimRows, ClaimedRow, OwnsClaim, DistinctOwnerTexts
      <3>2. row'[e] = row[e] /\ batch'[c][e] = batch[c][e]
        BY <2>1, <2>5, <3>1 DEF ClaimRows, TypeOK
      <3>3. QED BY <2>3, <3>2 DEF HeldCurrent, OwnsClaim
    <2>6. QED BY <2>4, <2>5
  <1>5. ASSUME NEW d \in Dispatchers, NEW x \in Entries, Publish(d, x) PROVE HeldCurrent'
    BY <1>5 DEF HeldCurrent, OwnsClaim, Publish
  <1>6. ASSUME NEW d \in Dispatchers, Settle(d) \/ SettleError(d) PROVE HeldCurrent'
    <2>1. Done(d) /\ cur[d] \in Entries
      BY <1>6 DEF Settle, MarkDispatched, MarkFailed, ReleaseClaim, SettleError, TypeOK
    <2>2. \A e \in Entries : row'[e] = row[e] \/ row'[e].status # "CLAIMED"
      <3>1. \/ UNCHANGED row
            \/ \E s \in {"DISPATCHED", "FAILED", "PENDING"} :
                  row' = [row EXCEPT ![cur[d]] = LeftRow(row[cur[d]], s)]
        BY <1>6 DEF Settle, MarkDispatched, MarkFailed, ReleaseClaim, SettleError, SetIfOwned
      <3>2. \A s \in {"DISPATCHED", "FAILED", "PENDING"} :
               LeftRow(row[cur[d]], s).status # "CLAIMED"
        BY <2>1 DEF LeftRow, TypeOK
      <3>3. QED BY <2>1, <3>1, <3>2 DEF TypeOK
    <2>3. \A c \in Dispatchers, e \in Entries : batch'[c][e] = batch[c][e] \/ batch'[c][e] = 0
      BY <2>1 DEF Done, TypeOK
    <2>4. SUFFICES ASSUME NEW c \in Dispatchers, NEW e \in Entries,
                          OwnsClaim(c, e)', batch'[c][e] > 0
                   PROVE  batch'[c][e] = row'[e].attempts
      BY DEF HeldCurrent
    <2>5. row'[e] = row[e] /\ batch'[c][e] = batch[c][e]
      BY <2>2, <2>3, <2>4 DEF OwnsClaim
    <2>6. QED BY <2>4, <2>5 DEF HeldCurrent, OwnsClaim
  <1>7. ASSUME NEW d \in Dispatchers, Crash(d) PROVE HeldCurrent'
    BY <1>7 DEF HeldCurrent, OwnsClaim, Crash, TypeOK
  <1>8. QED BY <1>1, <1>2, <1>3, <1>4, <1>5, <1>6, <1>7 DEF Next, DispatcherStep, Settle

\* One step never settles a row under a claim it does not show, nor changes a
\* settled row.
FencedStep ==
    \A e \in Entries :
        row[e].status = "CLAIMED" /\ row'[e].status # "CLAIMED" =>
            \E d \in Dispatchers : cur[d] = e /\ cur'[d] = 0 /\ batch[d][e] = row[e].attempts

FinalStep == \A e \in Entries : Settled(e) => row'[e] = row[e]

\* Every row that changes does so in one of these ways.
LEMMA RowSteps ==
  ASSUME Inv, Next, NEW e \in Entries, row'[e] # row[e]
  PROVE  /\ ~Settled(e)
         /\ \/ row'[e].status = "CLAIMED"
            \/ row[e].status # "CLAIMED"
            \/ \E d \in Dispatchers : /\ cur[d] = e
                                      /\ cur'[d] = 0
                                      /\ OwnsClaim(d, e)
  <1> USE EntriesFacts DEF Inv, Settled
  <1>1. ASSUME NEW x \in Entries, Create(x) \/ Ripen(x) \/ SlowBatch(x)
        PROVE  ~Settled(e) /\ (row'[e].status = "CLAIMED" \/ row[e].status # "CLAIMED")
    <2>1. x = e
      BY <1>1 DEF Create, Ripen, SlowBatch, TypeOK
    <2>2. CASE Create(x)
      BY <2>1, <2>2 DEF Create
    <2>3. CASE Ripen(x) \/ SlowBatch(x)
      <3>1. row' = [row EXCEPT ![e].ripe = TRUE] /\ row[e].status \in {"PENDING", "CLAIMED"}
        BY <2>1, <2>3 DEF Ripen, SlowBatch, LeaseHeld
      <3>2. row'[e].status = row[e].status
        BY <3>1 DEF TypeOK
      <3>3. QED BY <3>1, <3>2
    <2>4. QED BY <1>1, <2>2, <2>3
  <1>2. ASSUME NEW d \in Dispatchers, Claim(d)
        PROVE  ~Settled(e) /\ row'[e].status = "CLAIMED"
    BY <1>2 DEF Claim, ClaimRows, ClaimSet, Claimable, ClaimedRow
  <1>3. ASSUME NEW d \in Dispatchers, Settle(d) \/ SettleError(d)
        PROVE  ~Settled(e) /\ cur[d] = e /\ cur'[d] = 0 /\ OwnsClaim(d, e)
    <2>1. Done(d) /\ (SetIfOwned(d, "DISPATCHED") \/ SetIfOwned(d, "FAILED") \/ SetIfOwned(d, "PENDING"))
      BY <1>3 DEF Settle, MarkDispatched, MarkFailed, ReleaseClaim, SettleError
    <2>2. cur[d] = e /\ OwnsClaim(d, e)
      BY <2>1 DEF SetIfOwned, TypeOK
    <2>3. QED BY <2>1, <2>2 DEF Done, OwnsClaim, TypeOK
  <1>4. ASSUME NEW d \in Dispatchers, Crash(d) \/ \E x \in Entries : Publish(d, x)
        PROVE  FALSE
    BY <1>4 DEF Crash, Publish
  <1>5. QED BY <1>1, <1>2, <1>3, <1>4 DEF Next, DispatcherStep, Settle

\* No late statement of a dispatcher and no Claim touches a settled row.
THEOREM Finality == Spec => SettledRowsFinal
  <1>1. Inv /\ [Next]_vars => [FinalStep]_vars
    BY RowSteps DEF FinalStep
  <1>2. QED BY InitInv, NextInv, <1>1, PTL DEF Spec, SettledRowsFinal, FinalStep

\* claim_owner fences late dispatchers when no two processes share their text.
THEOREM Fencing == DistinctOwnerTexts => (Spec => Fenced)
  <1> SUFFICES ASSUME DistinctOwnerTexts PROVE Spec => Fenced
    OBVIOUS
  <1>1. Init => HeldCurrent
    BY EntriesFacts DEF Init, HeldCurrent, OwnsClaim, AbsentRow
  <1>2. Inv /\ HeldCurrent /\ [Next]_vars => HeldCurrent'
    BY HeldCurrentStep
  <1>3. Inv /\ HeldCurrent /\ [Next]_vars => [FencedStep]_vars
    <2> SUFFICES ASSUME Inv, HeldCurrent, Next, NEW e \in Entries,
                        row[e].status = "CLAIMED", row'[e].status # "CLAIMED"
                 PROVE  \E d \in Dispatchers : cur[d] = e /\ cur'[d] = 0
                                              /\ batch[d][e] = row[e].attempts
      BY DEF FencedStep
    <2>1. PICK d \in Dispatchers : cur[d] = e /\ cur'[d] = 0 /\ OwnsClaim(d, e)
      BY RowSteps
    <2>2. batch[d][e] > 0
      BY <2>1, EntriesFacts DEF Inv, LocalInv
    <2>3. QED BY <2>1, <2>2 DEF HeldCurrent
  <1>4. QED BY InitInv, NextInv, <1>1, <1>2, <1>3, PTL DEF Spec, Fenced, FencedStep

----------------------------------------------------------------------------
(* Refinement.                                                             *)

\* Every step of the outbox is a step of the hand-off it promises, or none of its
\* visible state changes.
THEOREM Refinement == Spec => ImplementsHandoff
  <1>1. Init => Promise!Init
    BY DEF Init, Promise!Init, StateOf, AbsentRow
  <1>2. Inv /\ [Next]_vars => [Promise!Next]_(Promise!vars)
    <2> SUFFICES ASSUME Inv, [Next]_vars PROVE [Promise!Next]_(Promise!vars)
      OBVIOUS
    <2> USE EntriesFacts DEF Inv
    <2> DEFINE states == [e \in Entries |-> StateOf(e)]
    <2>1. ASSUME \A e \in Entries : StateOf(e)' = StateOf(e), jobs' = jobs
          PROVE  UNCHANGED Promise!vars
      BY <2>1 DEF Promise!vars
    <2>2. ASSUME NEW x \in Entries, jobs' = jobs,
                 \A e \in Entries : e # x => StateOf(e)' = StateOf(e)
          PROVE  states' = [states EXCEPT ![x] = StateOf(x)']
      BY <2>2
    <2>3. CASE UNCHANGED vars
      BY <2>1, <2>3 DEF vars, StateOf
    <2>4. ASSUME NEW x \in Entries, Create(x) PROVE Promise!Accept(x)
      <3>1. /\ jobs' = jobs
            /\ StateOf(x) = "absent"
            /\ StateOf(x)' = "accepted"
            /\ \A e \in Entries : e # x => StateOf(e)' = StateOf(e)
        BY <2>4 DEF Create, CreatedRow, StateOf, TypeOK
      <3>2. QED BY <3>1, <2>2 DEF Promise!Accept
    <2>5. ASSUME NEW x \in Entries, Ripen(x) \/ SlowBatch(x) PROVE UNCHANGED Promise!vars
      <3>1. row' = [row EXCEPT ![x].ripe = TRUE] /\ jobs' = jobs
        BY <2>5 DEF Ripen, SlowBatch
      <3>2. \A e \in Entries : row'[e].status = row[e].status
        BY <3>1 DEF TypeOK
      <3>3. QED BY <2>1, <3>1, <3>2 DEF StateOf
    <2>6. ASSUME NEW d \in Dispatchers, Claim(d) PROVE UNCHANGED Promise!vars
      <3>1. PICK S \in SUBSET Entries : ClaimSet(S) /\ ClaimRows(d, S)
        BY <2>6 DEF Claim
      <3>2. \A e \in Entries : \/ row'[e] = row[e]
                               \/ row[e].status \in {"PENDING", "CLAIMED"} /\ row'[e].status = "CLAIMED"
        <4>1. \A e \in S : row[e].status \in {"PENDING", "CLAIMED"}
          BY <3>1 DEF ClaimSet, Claimable
        <4>2. \A e \in Entries : row'[e] = IF e \in S THEN ClaimedRow(row[e], d) ELSE row[e]
          BY <3>1 DEF ClaimRows
        <4>3. \A e \in Entries : ClaimedRow(row[e], d).status = "CLAIMED"
          BY DEF ClaimedRow
        <4>4. QED BY <4>1, <4>2, <4>3
      <3>3. QED BY <2>1, <2>6, <3>2 DEF StateOf, Claim
    <2>7. ASSUME NEW d \in Dispatchers, NEW x \in Entries, Publish(d, x)
          PROVE  UNCHANGED Promise!vars \/ Promise!Deliver(x)
      <3>1. row' = row /\ (jobs' = jobs \/ jobs' = [jobs EXCEPT ![x] = @ + 1])
        BY <2>7 DEF Publish
      <3>2. row[x].status # "ABSENT"
        BY <2>7 DEF Publish, LocalInv, TypeOK
      <3>3. StateOf(x) # "absent"
        BY <3>2 DEF StateOf
      <3>4. \A e \in Entries : StateOf(e)' = StateOf(e)
        BY <3>1 DEF StateOf
      <3>5. QED BY <2>1, <3>1, <3>3, <3>4 DEF Promise!Deliver
    <2>8. ASSUME NEW d \in Dispatchers, Settle(d) \/ SettleError(d)
          PROVE  UNCHANGED Promise!vars \/ Promise!Settle(cur[d]) \/ Promise!Abandon(cur[d])
      <3>1. cur[d] \in Entries /\ jobs' = jobs
        BY <2>8 DEF Settle, MarkDispatched, MarkFailed, ReleaseClaim, SettleError, Done, TypeOK
      <3>2. \/ UNCHANGED row
            \/ \E s \in {"DISPATCHED", "FAILED", "PENDING"} :
                  /\ row[cur[d]].status = "CLAIMED"
                  /\ row' = [row EXCEPT ![cur[d]] = LeftRow(row[cur[d]], s)]
                  /\ s = "DISPATCHED" => jobs[cur[d]] > 0
        BY <2>8 DEF Settle, MarkDispatched, MarkFailed, ReleaseClaim, SettleError, SetIfOwned,
                    OwnsClaim, LocalInv
      <3>3. CASE UNCHANGED row
        BY <2>1, <3>1, <3>3 DEF StateOf
      <3>4. ASSUME NEW s \in {"DISPATCHED", "FAILED", "PENDING"},
                   row[cur[d]].status = "CLAIMED",
                   row' = [row EXCEPT ![cur[d]] = LeftRow(row[cur[d]], s)],
                   s = "DISPATCHED" => jobs[cur[d]] > 0
            PROVE  UNCHANGED Promise!vars \/ Promise!Settle(cur[d]) \/ Promise!Abandon(cur[d])
        <4>1. row'[cur[d]].status = s /\ \A e \in Entries : e # cur[d] => row'[e] = row[e]
          BY <3>1, <3>4 DEF LeftRow, TypeOK
        <4>2. /\ StateOf(cur[d]) = "accepted"
              /\ \A e \in Entries : e # cur[d] => StateOf(e)' = StateOf(e)
          BY <3>4, <4>1 DEF StateOf
        <4>3. states' = [states EXCEPT ![cur[d]] =
                            IF s = "DISPATCHED" THEN "settled"
                            ELSE IF s = "FAILED" THEN "abandoned" ELSE "accepted"]
          BY <4>1, <4>2 DEF StateOf
        <4>4. CASE s = "DISPATCHED"
          BY <3>1, <3>4, <4>2, <4>3, <4>4 DEF Promise!Settle
        <4>5. CASE s = "FAILED"
          BY <3>1, <4>2, <4>3, <4>5 DEF Promise!Abandon
        <4>6. CASE s = "PENDING"
          BY <3>1, <4>2, <4>3, <4>6 DEF Promise!vars
        <4>7. QED BY <4>4, <4>5, <4>6
      <3>5. QED BY <3>2, <3>3, <3>4
    <2>9. ASSUME NEW d \in Dispatchers, Crash(d) PROVE UNCHANGED Promise!vars
      BY <2>1, <2>9 DEF Crash, StateOf
    <2>10. ASSUME NEW d \in Dispatchers, Settle(d) \/ SettleError(d) PROVE cur[d] \in Entries
      BY <2>10 DEF Settle, MarkDispatched, MarkFailed, ReleaseClaim, SettleError, TypeOK
    <2>11. QED
      BY <2>3, <2>4, <2>5, <2>6, <2>7, <2>8, <2>9, <2>10
      DEF Next, DispatcherStep, Settle, Promise!Next
  <1>3. QED BY InitInv, NextInv, <1>1, <1>2, PTL DEF Spec, ImplementsHandoff, Promise!Spec
=============================================================================

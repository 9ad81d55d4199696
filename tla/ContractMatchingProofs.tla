------------------------- MODULE ContractMatchingProofs -------------------------
(***************************************************************************)
(* Proofs about ContractMatching, for all sets of invoices and contracts   *)
(* and whatever the documents say.  None of the properties is inductive:   *)
(* a decision is inserted some steps after its transaction compared the    *)
(* invoice, so they rest on what a row lock keeps true (Locks): the invoice*)
(* stays in the status that was compared, and nobody else holds it.        *)
(***************************************************************************)
EXTENDS ContractMatching, TLAPS

\* What job k holds: a matching job its own invoice, a fan-out only received invoices.
WorkOK(k, v) == /\ v \in Works
                /\ v.stage \in {"loaded", "checked"} <=> v.inv # NoInvoice
                /\ k \in Invoices => v.stage # "listed" /\ v.inv \in {k, NoInvoice}
                /\ k \in Contracts => v.inv \notin Outgoing /\ v.todo \cap Outgoing = {}

Holding(k, v) == v.stage = "checked" /\ (k = v.inv \/ Target(v.inv, v.seen) # "AWAITING_CONTRACT")
Holds(k) == Holding(k, work[k])

\* The row lock of an invoice: what was compared is still so, and it is exclusive.
Locks == /\ \A k \in Jobs : Holds(k) =>
               IF k \in Invoices THEN status[k] = "MATCHING" ELSE Waits(work[k].inv)
         /\ \A k, l \in Jobs : Holds(k) /\ Holds(l) /\ work[k].inv = work[l].inv => k = l

\* BlockedByItsTask and AssociationHasEvidence for one invoice; the candidates of its
\* task were recorded by the run behind it.
Sound(i) == /\ missing[i] \in {"OPEN", "WAITING"} <=> status[i] = "AWAITING_CONTRACT"
            /\ confirm[i] = "OPEN" <=> status[i] = "AWAITING_MATCH_CONFIRM"
            /\ assoc[i] # NoContract =>
                  /\ status[i] = "DEDUPE_CHECKED"
                  /\ <<i, assoc[i]>> \in recorded
                  /\ i \in Outgoing \/ confirm[i] = "RESOLVED" \/ Kind[i][assoc[i]] = "compatible"
            /\ \A c \in cands[i] : <<i, c>> \in recorded

Inv == /\ TypeOK
       /\ \A k \in Jobs : WorkOK(k, work[k])
       /\ \A i \in Invoices : Sound(i)
       /\ Locks

Forward(i) == /\ Rank[status'[i]] >= Rank[status[i]]
              /\ assoc[i] # NoContract => assoc'[i] = assoc[i]

\* What is proved of every step.
Kept == Inv' /\ \A i \in Invoices : Forward(i)

----------------------------------------------------------------------------
LEMMA RankOrder ==
  /\ Rank["MATCHING"] = 0 /\ Rank["AWAITING_CONTRACT"] = 1
  /\ Rank["AWAITING_MATCH_CONFIRM"] = 2 /\ Rank["DEDUPE_CHECKED"] = 3
  BY DEF Rank, Statuses

LEMMA Decides ==
  ASSUME NEW i, NEW seen
  PROVE  /\ Candidates(i, seen) \subseteq seen
         /\ Target(i, seen) \in {"DEDUPE_CHECKED", "AWAITING_MATCH_CONFIRM", "AWAITING_CONTRACT"}
         /\ Confirms(i, seen) <=> Target(i, seen) = "AWAITING_MATCH_CONFIRM"
         /\ Associates(i, seen) => /\ Target(i, seen) = "DEDUPE_CHECKED"
                                   /\ Candidates(i, seen) # {}
                                   /\ i \in Outgoing \/ \A c \in Candidates(i, seen) : Kind[i][c] = "compatible"
  <1>1. Candidates(i, seen) \subseteq seen
    BY DEF Candidates
  <1>2. Associates(i, seen) =>
          /\ Candidates(i, seen) # {}
          /\ i \in Outgoing \/ \A c \in Candidates(i, seen) : Kind[i][c] = "compatible"
    BY DEF Associates, Outcome
  <1>3. Confirms(i, seen) => i \notin Outgoing /\ ~Associates(i, seen)
    BY DEF Confirms, Associates
  <1> QED BY <1>1, <1>2, <1>3 DEF Target

LEMMA DiscoveredType == \A i : Discovered(i) \subseteq Contracts
  BY DEF Discovered

LEMMA JobNames == /\ Invoices \subseteq Jobs /\ Contracts \subseteq Jobs
                  /\ \A i \in Invoices : i \notin Contracts /\ i # NoInvoice
  BY IdAssumption DEF Jobs

LEMMA LockedMeans == \A i : Locked(i) <=> \E k \in Jobs : Holds(k) /\ work[k].inv = i
  BY DEF Locked, LockedBy, Holds, Holding

LEMMA OutgoingType == docs \in Cases => Outgoing \subseteq Invoices
  BY CasesAssumption DEF Outgoing

LEMMA NoWorkType == NoWork \in Works
  BY DEF NoWork, Works, Stages

LEMMA IdleOK ==
  ASSUME docs \in Cases
  PROVE  \A k \in Jobs : WorkOK(k, NoWork) /\ ~Holding(k, NoWork)
  <1>1. NoInvoice \notin Outgoing
    BY OutgoingType, IdAssumption
  <1> QED BY <1>1, NoWorkType DEF NoWork, WorkOK, Holding

LEMMA InitInv == Init => Inv
  <1> SUFFICES ASSUME Init PROVE Inv
    OBVIOUS
  <1> USE DEF Init
  <1>1. \A k \in Jobs : work[k] = NoWork
    OBVIOUS
  <1>2. \A k \in Jobs : WorkOK(k, work[k]) /\ ~Holds(k)
    BY <1>1, IdleOK DEF Holds
  <1>3. TypeOK
    <2>1. work \in [Jobs -> Works] /\ \A k \in Jobs : work[k].stage = "idle" /\ work[k].inv = NoInvoice
      BY <1>1, <1>2 DEF WorkOK, NoWork
    <2>2. faults \in 0 .. MaxFaults
      BY BudgetAssumption
    <2> QED BY <2>1, <2>2 DEF TypeOK, Statuses
  <1>4. \A i \in Invoices : Sound(i)
    BY DEF Sound
  <1>5. Locks
    BY <1>2 DEF Locks
  <1> QED BY <1>2, <1>3, <1>4, <1>5 DEF Inv

----------------------------------------------------------------------------
\* What the decisions read does not change.
LEMMA DocsConstant ==
  ASSUME docs' = docs
  PROVE  \A i, seen : /\ Target(i, seen)' = Target(i, seen) /\ Associates(i, seen)' = Associates(i, seen)
                      /\ Kind' = Kind /\ Outgoing' = Outgoing
  BY DEF Target, Associates, Confirms, Outcome, Candidates, Kind, Outgoing

LEMMA HoldingConstant ==
  ASSUME docs' = docs
  PROVE  \A k, v : Holding(k, v)' <=> Holding(k, v)
  BY DocsConstant DEF Holding

LEMMA WorkConstant ==
  ASSUME docs' = docs
  PROVE  \A k, v : WorkOK(k, v)' <=> WorkOK(k, v)
  BY DocsConstant DEF WorkOK

\* A step that leaves the invoices alone: a job may take a lock on an invoice that has
\* none and is as its transaction compared it.
LEMMA QuietKeepsInv ==
  ASSUME Inv, UNCHANGED <<docs, invoiceVars>>,
         life' \in [Contracts -> {"absent", "ACTIVE", "ARCHIVED", "DELETED"}],
         event' \in [Contracts -> {"none", "activation", "available", "done"}],
         resumed' \subseteq Contracts \X Invoices,
         mjob' \in [Invoices -> {"queued", "done", "dead"}],
         faults' \in 0 .. MaxFaults, owed' \in [Contracts -> SUBSET Invoices],
         \/ work' = work
         \/ \E k \in Jobs : \E v : /\ work' = [work EXCEPT ![k] = v] /\ WorkOK(k, v)
                                   /\ Holding(k, v) =>
                                        /\ IF k \in Invoices THEN status[k] = "MATCHING" ELSE Waits(v.inv)
                                        /\ ~Locked(v.inv)
  PROVE  Kept
  <1> USE DEF Inv, invoiceVars
  <1>1. \A i \in Invoices : Sound(i)' /\ Forward(i)
    <2>1. \A i \in Invoices : Rank[status'[i]] >= Rank[status[i]]
      BY RankOrder DEF TypeOK, Statuses
    <2>2. \A i \in Invoices : Sound(i)'
      BY DocsConstant DEF Sound
    <2> QED BY <2>1, <2>2 DEF Forward
  <1>2. CASE work' = work
    <2>1. \A k \in Jobs : (Holds(k)' <=> Holds(k)) /\ WorkOK(k, work[k])'
      BY <1>2, HoldingConstant, DocsConstant DEF Holds, WorkOK
    <2>2. Locks'
      BY <1>2, <2>1 DEF Locks, Waits
    <2>3. TypeOK'
      BY <1>2 DEF TypeOK
    <2> QED BY <1>1, <2>1, <2>2, <2>3 DEF Kept
  <1>3. ASSUME NEW k \in Jobs, NEW v, work' = [work EXCEPT ![k] = v], WorkOK(k, v),
               Holding(k, v) => /\ IF k \in Invoices THEN status[k] = "MATCHING" ELSE Waits(v.inv)
                                /\ ~Locked(v.inv)
        PROVE  Kept
    <2>1. /\ work' \in [Jobs -> Works] /\ work'[k] = v
          /\ \A l \in Jobs \ {k} : work'[l] = work[l]
      BY <1>3 DEF TypeOK, WorkOK
    <2>2. \A l \in Jobs : WorkOK(l, work[l])'
      BY <1>3, <2>1, DocsConstant DEF WorkOK
    <2>3. /\ Holds(k)' <=> Holding(k, v)
          /\ \A l \in Jobs \ {k} : Holds(l)' <=> Holds(l)
      BY <2>1, HoldingConstant DEF Holds
    <2>4. Locks'
      <3>1. ASSUME NEW l \in Jobs, Holds(l)'
            PROVE  IF l \in Invoices THEN status'[l] = "MATCHING" ELSE Waits(work[l].inv)'
        BY <1>3, <2>1, <2>3, <3>1 DEF Locks, Waits
      <3>2. ASSUME NEW l \in Jobs, NEW m \in Jobs, Holds(l)', Holds(m)', work'[l].inv = work'[m].inv, l # m
            PROVE  FALSE
        <4>1. CASE l # k /\ m # k
          BY <2>1, <2>3, <3>2, <4>1 DEF Locks
        <4>2. CASE l = k
          BY <1>3, <2>1, <2>3, <3>2, <4>2, LockedMeans
        <4>3. CASE m = k
          BY <1>3, <2>1, <2>3, <3>2, <4>3, LockedMeans
        <4> QED BY <4>1, <4>2, <4>3
      <3> QED BY <3>1, <3>2 DEF Locks
    <2>5. TypeOK'
      <3>1. \A l \in Jobs : work'[l].stage \in {"loaded", "checked"} <=> work'[l].inv # NoInvoice
        BY <2>2 DEF WorkOK
      <3> QED BY <2>1, <3>1 DEF TypeOK
    <2> QED BY <1>1, <2>2, <2>4, <2>5 DEF Kept
  <1> QED BY <1>2, <1>3

\* A step that changes one invoice, made by its holder, while it is not locked, or
\* leaving what its holder compared.
LEMMA InvoiceStepKeepsInv ==
  ASSUME Inv, NEW i \in Invoices, UNCHANGED <<docs, life, event>>,
         status' \in [Invoices -> Statuses],
         missing' \in [Invoices -> {"none", "OPEN", "WAITING", "RESOLVED"}],
         confirm' \in [Invoices -> {"none", "OPEN", "RESOLVED"}],
         cands' \in [Invoices -> SUBSET Contracts],
         recorded \subseteq recorded', recorded' \subseteq Invoices \X Contracts,
         assoc' \in [Invoices -> Contracts \cup {NoContract}],
         resumed' \subseteq Contracts \X Invoices,
         mjob' \in [Invoices -> {"queued", "done", "dead"}], faults' = faults,
         owed' \in [Contracts -> SUBSET Invoices],
         \A j \in Invoices \ {i} :
            /\ status'[j] = status[j] /\ missing'[j] = missing[j] /\ confirm'[j] = confirm[j]
            /\ assoc'[j] = assoc[j] /\ cands'[j] = cands[j],
         Sound(i)', Forward(i),
         \/ work' = work /\ (~Locked(i) \/ (status' = status /\ Waits(i)'))
         \/ \E k \in Jobs : \E v : /\ work' = [work EXCEPT ![k] = v] /\ WorkOK(k, v) /\ ~Holding(k, v)
                                   /\ \/ Holds(k) /\ work[k].inv = i
                                      \/ UNCHANGED <<status, missing>>
  PROVE  Kept
  <1> USE DEF Inv
  <1>1. \A j \in Invoices : Sound(j)'
    <2>1. ASSUME NEW j \in Invoices \ {i} PROVE Sound(j)'
      <3>1. /\ Sound(j) /\ Outgoing' = Outgoing /\ Kind' = Kind
            /\ status'[j] = status[j] /\ missing'[j] = missing[j] /\ confirm'[j] = confirm[j]
            /\ assoc'[j] = assoc[j] /\ cands'[j] = cands[j]
        BY DocsConstant
      <3> HIDE DEF Inv
      <3> QED BY <3>1 DEF Sound
    <2> QED BY <2>1
  <1>2. \A j \in Invoices : Forward(j)
    <2>1. \A j \in Invoices \ {i} : Rank[status'[j]] >= Rank[status[j]]
      BY RankOrder DEF TypeOK, Statuses
    <2> QED BY <2>1 DEF Forward
  <1>3. CASE work' = work /\ (~Locked(i) \/ (status' = status /\ Waits(i)'))
    <2>1. \A k \in Jobs : (Holds(k)' <=> Holds(k)) /\ WorkOK(k, work[k])'
      BY <1>3, HoldingConstant, DocsConstant DEF Holds, WorkOK
    <2>2. \A k \in Jobs : Holds(k) => /\ work[k].inv # i \/ (status' = status /\ Waits(i)')
                                      /\ k \in Invoices => work[k].inv = k
                                      /\ work[k].inv \in Invoices
      <3>1. \A k \in Jobs : Holds(k) => work[k].inv # i \/ (status' = status /\ Waits(i)')
        BY <1>3, LockedMeans
      <3>2. \A k \in Jobs : WorkOK(k, work[k])
        OBVIOUS
      <3> QED BY <3>1, <3>2 DEF Holds, Holding, WorkOK, Works
    <2>3. Locks'
      BY <1>3, <2>1, <2>2 DEF Locks, Waits
    <2>4. TypeOK'
      BY <1>3 DEF TypeOK
    <2> QED BY <1>1, <1>2, <2>1, <2>3, <2>4 DEF Kept
  <1>4. ASSUME NEW k \in Jobs, NEW v, work' = [work EXCEPT ![k] = v], WorkOK(k, v), ~Holding(k, v),
               \/ Holds(k) /\ work[k].inv = i
               \/ UNCHANGED <<status, missing>>
        PROVE  Kept
    <2>1. /\ work' \in [Jobs -> Works] /\ work'[k] = v
          /\ \A l \in Jobs \ {k} : work'[l] = work[l]
      BY <1>4 DEF TypeOK, WorkOK
    <2>2. \A l \in Jobs : WorkOK(l, work[l])'
      <3>1. \A l \in Jobs : WorkOK(l, work'[l])
        BY <1>4, <2>1
      <3>2. \A l, x : WorkOK(l, x)' <=> WorkOK(l, x)
        BY WorkConstant
      <3> QED BY <3>1, <3>2
    <2>3. /\ ~Holds(k)'
          /\ \A l \in Jobs \ {k} : Holds(l)' <=> Holds(l)
      BY <1>4, <2>1, HoldingConstant DEF Holds
    <2>4. \A l \in Jobs \ {k} : Holds(l) =>
            /\ work[l].inv \in Invoices /\ (l \in Invoices => work[l].inv = l)
            /\ \/ work[l].inv # i
               \/ UNCHANGED <<status, missing>>
      <3>1. \A l \in Jobs : WorkOK(l, work[l])
        OBVIOUS
      <3>2. \A l \in Jobs \ {k} : Holds(l) => work[l].inv # i \/ UNCHANGED <<status, missing>>
        BY <1>4 DEF Locks
      <3> QED BY <3>1, <3>2 DEF Holds, Holding, WorkOK, Works
    <2>5. Locks'
      <3>1. \A l \in Jobs : Holds(l)' => l # k /\ Holds(l) /\ work'[l] = work[l]
        BY <2>1, <2>3
      <3>2. \A l \in Jobs : Holds(l)' => IF l \in Invoices THEN status'[l] = "MATCHING"
                                         ELSE Waits(work[l].inv)'
        BY <2>4, <3>1 DEF Locks, Waits
      <3>3. \A l, m \in Jobs : Holds(l)' /\ Holds(m)' /\ work'[l].inv = work'[m].inv => l = m
        BY <3>1 DEF Locks
      <3> QED BY <3>2, <3>3 DEF Locks
    <2>6. TypeOK'
      <3>1. \A l \in Jobs : work'[l].stage \in {"loaded", "checked"} <=> work'[l].inv # NoInvoice
        BY <2>2 DEF WorkOK
      <3> QED BY <2>1, <3>1 DEF TypeOK
    <2> QED BY <1>1, <1>2, <2>2, <2>5, <2>6 DEF Kept
  <1> QED BY <1>3, <1>4

----------------------------------------------------------------------------
LEMMA OwesType == ASSUME Inv, NEW c \in Contracts, Owes(c) PROVE owed' \in [Contracts -> SUBSET Invoices]
  BY DEF Owes, Inv, TypeOK

LEMMA ContractsInv ==
  ASSUME Inv, NEW c \in Contracts,
         CreateContract(c) \/ RecordContractAvailable(c) \/ ArchiveContract(c) \/ DeleteMistakenContract(c)
  PROVE  Kept
  <1>1. /\ UNCHANGED <<docs, invoiceVars, resumed, mjob, work, faults>>
        /\ owed' \in [Contracts -> SUBSET Invoices]
        /\ life' \in [Contracts -> {"absent", "ACTIVE", "ARCHIVED", "DELETED"}]
        /\ event' \in [Contracts -> {"none", "activation", "available", "done"}]
    BY OwesType DEF CreateContract, RecordContractAvailable, ArchiveContract, DeleteMistakenContract, Inv, TypeOK
  <1> QED BY <1>1, QuietKeepsInv DEF Inv, TypeOK

LEMMA MatchLoadInv == ASSUME Inv, NEW i \in Invoices, MatchLoad(i) PROVE Kept
  <1> DEFINE v == [NoWork EXCEPT !.stage = "loaded", !.inv = i, !.seen = Discovered(i)]
  <1>1. v \in Works /\ v.stage = "loaded" /\ v.inv = i
    BY NoWorkType, DiscoveredType DEF Works, Stages
  <1>2. i \in Jobs /\ WorkOK(i, v) /\ ~Holding(i, v)
    BY <1>1, JobNames DEF WorkOK, Holding
  <1>3. /\ work' = work \/ work' = [work EXCEPT ![i] = v]
        /\ mjob' \in [Invoices -> {"queued", "done", "dead"}]
        /\ UNCHANGED <<docs, owed, life, event, invoiceVars, resumed, faults>>
    BY DEF MatchLoad, Inv, TypeOK
  <1> QED BY <1>2, <1>3, QuietKeepsInv DEF Inv, TypeOK

LEMMA MatchCheckInv == ASSUME Inv, NEW i \in Invoices, MatchCheck(i) PROVE Kept
  <1> DEFINE v == [work[i] EXCEPT !.stage = "checked"]
  <1>1. i \in Jobs /\ WorkOK(i, work[i]) /\ docs \in Cases
    BY JobNames DEF Inv, TypeOK
  <1>2. /\ work[i].stage = "loaded" /\ ~Locked(i) /\ status[i] = "MATCHING"
        /\ work' = [work EXCEPT ![i] = v] \/ work' = [work EXCEPT ![i] = NoWork]
        /\ UNCHANGED <<docs, owed, life, event, invoiceVars, resumed, mjob, faults>>
    BY DEF MatchCheck
  <1>3. WorkOK(i, v) /\ v.inv = i
    BY <1>1, <1>2, JobNames DEF WorkOK, Works, Stages
  <1>4. \E w : /\ work' = [work EXCEPT ![i] = w] /\ WorkOK(i, w)
               /\ Holding(i, w) => status[i] = "MATCHING" /\ ~Locked(w.inv)
    BY <1>1, <1>2, <1>3, IdleOK
  <1> QED BY <1>1, <1>2, <1>4, QuietKeepsInv DEF Inv, TypeOK

LEMMA ListInv == ASSUME Inv, NEW c \in Contracts, ListBlockedInvoicesForContract(c) PROVE Kept
  <1> DEFINE v == [NoWork EXCEPT !.stage = "listed", !.todo = BlockedFor(c),
                                 !.asked = {i \in owed'[c] : missing[i] = "WAITING"}]
  <1>0. owed' \in [Contracts -> SUBSET Invoices]
    BY OwesType DEF ListBlockedInvoicesForContract
  <1>1. v \in Works /\ v.stage = "listed" /\ v.inv = NoInvoice /\ v.todo \cap Outgoing = {}
    BY <1>0, NoWorkType DEF Works, Stages, NoWork, BlockedFor
  <1>2. NoInvoice \notin Outgoing
    BY OutgoingType, IdAssumption DEF Inv, TypeOK
  <1>3. c \in Jobs /\ WorkOK(c, v) /\ ~Holding(c, v)
    BY <1>1, <1>2, JobNames DEF WorkOK, Holding
  <1>4. /\ work' = [work EXCEPT ![c] = v]
        /\ UNCHANGED <<docs, life, event, invoiceVars, resumed, mjob, faults>>
    BY DEF ListBlockedInvoicesForContract
  <1> QED BY <1>0, <1>3, <1>4, QuietKeepsInv DEF Inv, TypeOK

LEMMA ContinueOK ==
  ASSUME Inv, NEW c \in Contracts
  PROVE  /\ WorkOK(c, Continue(work[c])) /\ ~Holding(c, Continue(work[c]))
         /\ WorkOK(c, Retry(work[c])) /\ ~Holding(c, Retry(work[c]))
  <1>1. NoInvoice \notin Outgoing /\ c \in Jobs /\ c \notin Invoices /\ work[c] \in Works
    BY OutgoingType, IdAssumption, JobNames DEF Inv, TypeOK
  <1>2. /\ Continue(work[c]) \in Works /\ Continue(work[c]).stage = "listed"
        /\ Continue(work[c]).inv = NoInvoice /\ Continue(work[c]).todo = work[c].todo
    BY <1>1 DEF Continue, Works, Stages
  <1>3. /\ Retry(work[c]) \in Works /\ Retry(work[c]).stage = "listed"
        /\ Retry(work[c]).inv = NoInvoice /\ Retry(work[c]).todo = work[c].todo
    BY <1>2 DEF Works, Retry
  <1>4. work[c].todo \cap Outgoing = {}
    BY <1>1 DEF Inv, WorkOK
  <1> QED BY <1>1, <1>2, <1>3, <1>4 DEF WorkOK, Holding

LEMMA ResumeLoadInv == ASSUME Inv, NEW c \in Contracts, ResumeLoad(c) PROVE Kept
  <1>1. /\ c \in Jobs /\ c \notin Invoices /\ WorkOK(c, work[c]) /\ work[c] \in Works
        /\ work[c].stage = "listed" /\ work[c].inv = NoInvoice
    BY JobNames DEF Inv, WorkOK, ResumeLoad, TypeOK
  <1>2. PICK i \in work[c].todo :
          LET seen == Discovered(i)
              stale == <<c, i>> \in resumed \/ status[i] # "AWAITING_CONTRACT"
              next == PassOver(work[c], i)
          IN work' = [work EXCEPT ![c] =
                        IF stale \/ Outcome(i, seen) = "EXPIRED_SEMANTICS" THEN next
                        ELSE [next EXCEPT !.stage = "loaded", !.inv = i, !.seen = seen]]
    BY DEF ResumeLoad
  <1> DEFINE next == PassOver(work[c], i)
             v == [next EXCEPT !.stage = "loaded", !.inv = i, !.seen = Discovered(i)]
  <1>3. i \in Invoices \ Outgoing /\ i # NoInvoice
    BY <1>1, JobNames DEF WorkOK, Works
  <1>4. /\ next \in Works /\ next.stage = "listed" /\ next.inv = NoInvoice
        /\ next.todo \subseteq work[c].todo
    BY <1>1 DEF Works, PassOver
  <1>5. v \in Works /\ v.stage = "loaded" /\ v.inv = i /\ v.todo = next.todo
    <2> HIDE DEF next
    <2> QED BY <1>3, <1>4, DiscoveredType DEF Works, Stages
  <1>6. WorkOK(c, next) /\ ~Holding(c, next) /\ WorkOK(c, v) /\ ~Holding(c, v)
    <2> HIDE DEF next, v
    <2> QED BY <1>1, <1>3, <1>4, <1>5 DEF WorkOK, Holding
  <1>7. work' = [work EXCEPT ![c] = next] \/ work' = [work EXCEPT ![c] = v]
    BY <1>2
  <1>8. UNCHANGED <<docs, owed, life, event, invoiceVars, resumed, mjob, faults>>
    BY DEF ResumeLoad
  <1> HIDE DEF next, v
  <1> QED BY <1>1, <1>6, <1>7, <1>8, QuietKeepsInv DEF Inv, TypeOK

LEMMA ResumeCheckInv == ASSUME Inv, NEW c \in Contracts, ResumeCheck(c) PROVE Kept
  <1> DEFINE v == [work[c] EXCEPT !.stage = "checked", !.task = missing[work[c].inv]]
  <1>1. /\ c \in Jobs /\ c \notin Invoices /\ WorkOK(c, work[c]) /\ work[c] \in Works
        /\ work[c].stage = "loaded" /\ ~Locked(work[c].inv)
    BY JobNames DEF Inv, WorkOK, ResumeCheck, TypeOK
  <1>2. /\ \/ work' = [work EXCEPT ![c] = Continue(work[c])]
           \/ work' = [work EXCEPT ![c] = v] /\ Waits(work[c].inv)
           \/ work' = [work EXCEPT ![c] = Retry(work[c])]
        /\ UNCHANGED <<docs, owed, life, event, invoiceVars, resumed, mjob, faults>>
    BY DEF ResumeCheck
  <1>3. Waits(work[c].inv) =>
          v \in Works /\ v.stage = "checked" /\ v.inv = work[c].inv /\ v.todo = work[c].todo
    BY <1>1 DEF Works, Stages, Waits
  <1> HIDE DEF v
  <1>4. Waits(work[c].inv) => WorkOK(c, v)
    BY <1>1, <1>3 DEF WorkOK
  <1>5. \E w : /\ work' = [work EXCEPT ![c] = w] /\ WorkOK(c, w)
               /\ Holding(c, w) => Waits(w.inv) /\ ~Locked(w.inv)
    BY <1>1, <1>2, <1>3, <1>4, ContinueOK
  <1> QED BY <1>1, <1>2, <1>5, QuietKeepsInv DEF Inv, TypeOK

LEMMA FanOutDoneInv == ASSUME Inv, NEW c \in Contracts, FanOutDone(c) PROVE Kept
  <1>1. /\ work' = [work EXCEPT ![c] = NoWork] /\ c \in Jobs
        /\ event' \in [Contracts -> {"none", "activation", "available", "done"}]
        /\ UNCHANGED <<docs, owed, life, invoiceVars, resumed, mjob, faults>>
    BY JobNames DEF FanOutDone, Inv, TypeOK
  <1> QED BY <1>1, IdleOK, QuietKeepsInv DEF Inv, TypeOK

LEMMA CrashInv == ASSUME Inv, NEW k \in Jobs, Crash(k) PROVE Kept
  <1>1. /\ work' = [work EXCEPT ![k] = NoWork] /\ faults' \in 0 .. MaxFaults
        /\ UNCHANGED <<docs, owed, life, event, invoiceVars, resumed, mjob>>
    BY BudgetAssumption DEF Crash, Fault, Inv, TypeOK
  <1> QED BY <1>1, IdleOK, QuietKeepsInv DEF Inv, TypeOK

LEMMA RedeliverInv == ASSUME Inv, NEW c \in Contracts, Redeliver(c) PROVE Kept
  <1>1. /\ event' \in [Contracts -> {"none", "activation", "available", "done"}]
        /\ faults' \in 0 .. MaxFaults /\ owed' \in [Contracts -> SUBSET Invoices]
        /\ UNCHANGED <<docs, life, invoiceVars, resumed, mjob, work>>
    BY OwesType, BudgetAssumption DEF Redeliver, Fault, Inv, TypeOK
  <1> QED BY <1>1, QuietKeepsInv DEF Inv, TypeOK

----------------------------------------------------------------------------
\* The rows of a decision for an invoice that is still being matched or waits for a
\* contract: a review task exactly for a confirmation, an association with its evidence.
LEMMA DecisionRows ==
  ASSUME Inv, docs' = docs, NEW i \in Invoices, NEW seen \in SUBSET Contracts,
         InsertDecision(i, seen),
         status[i] \in {"MATCHING", "AWAITING_CONTRACT"}
  PROVE  /\ recorded \subseteq recorded' /\ recorded' \subseteq Invoices \X Contracts
         /\ assoc' \in [Invoices -> Contracts \cup {NoContract}]
         /\ confirm' \in [Invoices -> {"none", "OPEN", "RESOLVED"}]
         /\ cands' \in [Invoices -> SUBSET Contracts]
         /\ \A j \in Invoices \ {i} : /\ assoc'[j] = assoc[j] /\ confirm'[j] = confirm[j]
                                      /\ cands'[j] = cands[j]
         /\ assoc[i] = NoContract
         /\ confirm'[i] = "OPEN" <=> Target(i, seen) = "AWAITING_MATCH_CONFIRM"
         /\ \A c \in cands'[i] : <<i, c>> \in recorded'
         /\ assoc'[i] # NoContract =>
               /\ Target(i, seen) = "DEDUPE_CHECKED"
               /\ <<i, assoc'[i]>> \in recorded'
               /\ i \in Outgoing \/ Kind[i][assoc'[i]] = "compatible"
  <1> DEFINE S == Candidates(i, seen)
  <1>1. S \subseteq Contracts
    BY Decides
  <1>2. assoc[i] = NoContract /\ confirm[i] # "OPEN" /\ \A c \in cands[i] : <<i, c>> \in recorded
    BY DEF Inv, Sound
  <1>3. recorded' = recorded \cup ({i} \X S) /\ recorded \subseteq Invoices \X Contracts
    BY DEF InsertDecision, Inv, TypeOK
  <1>4. Associates(i, seen) => (CHOOSE c \in S : TRUE) \in S
    <2>1. Associates(i, seen) => S # {}
      BY Decides
    <2> QED BY <2>1
  <1>5. /\ assoc' = [assoc EXCEPT ![i] = IF Associates(i, seen) THEN CHOOSE c \in S : TRUE ELSE @]
        /\ assoc \in [Invoices -> Contracts \cup {NoContract}]
    BY DEF InsertDecision, Inv, TypeOK
  <1>6. /\ confirm' = [confirm EXCEPT ![i] = IF Confirms(i, seen) THEN "OPEN" ELSE @]
        /\ cands' = [cands EXCEPT ![i] = IF Confirms(i, seen) THEN S ELSE @]
        /\ confirm \in [Invoices -> {"none", "OPEN", "RESOLVED"}]
        /\ cands \in [Invoices -> SUBSET Contracts]
    BY DEF InsertDecision, Inv, TypeOK
  <1>7. recorded' \subseteq Invoices \X Contracts /\ recorded \subseteq recorded'
    BY <1>1, <1>3
  <1>8. \A c \in S : <<i, c>> \in recorded'
    BY <1>3
  <1> HIDE DEF S
  <1>9. /\ confirm' \in [Invoices -> {"none", "OPEN", "RESOLVED"}]
        /\ cands' \in [Invoices -> SUBSET Contracts]
        /\ \A j \in Invoices \ {i} : confirm'[j] = confirm[j] /\ cands'[j] = cands[j]
        /\ confirm'[i] = IF Confirms(i, seen) THEN "OPEN" ELSE confirm[i]
        /\ cands'[i] = IF Confirms(i, seen) THEN S ELSE cands[i]
    BY <1>1, <1>6
  <1>10. PICK a : a = CHOOSE c \in S : TRUE
    OBVIOUS
  <1>11. /\ assoc'[i] = IF Associates(i, seen) THEN a ELSE NoContract
         /\ \A j \in Invoices \ {i} : assoc'[j] = assoc[j]
         /\ assoc' \in [Invoices -> Contracts \cup {NoContract}]
    BY <1>1, <1>2, <1>4, <1>5, <1>10
  <1>12. assoc'[i] # NoContract => Associates(i, seen) /\ assoc'[i] \in S
    BY <1>4, <1>10, <1>11
  <1>13. assoc'[i] # NoContract =>
               /\ Target(i, seen) = "DEDUPE_CHECKED"
               /\ <<i, assoc'[i]>> \in recorded'
               /\ i \in Outgoing \/ Kind[i][assoc'[i]] = "compatible"
    BY <1>8, <1>12, Decides DEF S
  <1>14. confirm'[i] = "OPEN" <=> Target(i, seen) = "AWAITING_MATCH_CONFIRM"
    BY <1>2, <1>9, Decides
  <1>15. \A c \in cands'[i] : <<i, c>> \in recorded'
    BY <1>2, <1>7, <1>8, <1>9
  <1> QED BY <1>2, <1>7, <1>9, <1>11, <1>13, <1>14, <1>15

LEMMA ApplyMatchDecisionInv == ASSUME Inv, NEW i \in Invoices, ApplyMatchDecision(i) PROVE Kept
  <1> DEFINE seen == work[i].seen
  <1>1. /\ i \in Jobs /\ WorkOK(i, work[i]) /\ work[i].stage = "checked" /\ work[i].inv = i
        /\ seen \in SUBSET Contracts
    <2>1. i \in Jobs /\ WorkOK(i, work[i]) /\ work[i].stage = "checked"
      BY JobNames DEF Inv, ApplyMatchDecision
    <2> QED BY <2>1, JobNames DEF WorkOK, Works
  <1>2. Holds(i) /\ status[i] = "MATCHING" /\ missing[i] \notin {"OPEN", "WAITING"}
    <2>1. Holds(i)
      BY <1>1 DEF Holds, Holding
    <2> QED BY <1>1, <2>1 DEF Inv, Locks, Sound
  <1> DEFINE t == Target(i, seen)
  <1>3. t \in {"DEDUPE_CHECKED", "AWAITING_MATCH_CONFIRM", "AWAITING_CONTRACT"}
    BY Decides
  <1>4. /\ status' = [status EXCEPT ![i] = t]
        /\ missing' = [missing EXCEPT ![i] = IF t = "AWAITING_CONTRACT" THEN "OPEN" ELSE @]
        /\ mjob' = [mjob EXCEPT ![i] = "done"]
        /\ work' = [work EXCEPT ![i] = NoWork]
        /\ InsertDecision(i, seen)
        /\ UNCHANGED <<docs, owed, life, event, resumed, faults>>
    BY DEF ApplyMatchDecision
  <1> HIDE DEF t, seen
  <1>5. /\ status' \in [Invoices -> Statuses] /\ status'[i] = t
        /\ missing' \in [Invoices -> {"none", "OPEN", "WAITING", "RESOLVED"}]
        /\ mjob' \in [Invoices -> {"queued", "done", "dead"}]
        /\ missing'[i] \in {"OPEN", "WAITING"} <=> t = "AWAITING_CONTRACT"
        /\ \A j \in Invoices \ {i} : status'[j] = status[j] /\ missing'[j] = missing[j]
    BY <1>2, <1>3, <1>4 DEF Inv, TypeOK, Statuses
  <1>6. /\ recorded \subseteq recorded' /\ recorded' \subseteq Invoices \X Contracts
        /\ assoc' \in [Invoices -> Contracts \cup {NoContract}]
        /\ confirm' \in [Invoices -> {"none", "OPEN", "RESOLVED"}]
        /\ cands' \in [Invoices -> SUBSET Contracts]
        /\ \A j \in Invoices \ {i} : /\ assoc'[j] = assoc[j] /\ confirm'[j] = confirm[j]
                                     /\ cands'[j] = cands[j]
        /\ assoc[i] = NoContract
        /\ confirm'[i] = "OPEN" <=> t = "AWAITING_MATCH_CONFIRM"
        /\ \A c \in cands'[i] : <<i, c>> \in recorded'
        /\ assoc'[i] # NoContract =>
              /\ t = "DEDUPE_CHECKED"
              /\ <<i, assoc'[i]>> \in recorded'
              /\ i \in Outgoing \/ Kind[i][assoc'[i]] = "compatible"
    BY <1>1, <1>2, <1>4, DecisionRows DEF t
  <1>7. Sound(i)'
    BY <1>3, <1>4, <1>5, <1>6, DocsConstant DEF Sound
  <1>8. Forward(i)
    BY <1>2, <1>3, <1>5, <1>6, RankOrder DEF Forward
  <1>9. WorkOK(i, NoWork) /\ ~Holding(i, NoWork)
    BY <1>1, IdleOK DEF Inv, TypeOK
  <1> QED BY <1>1, <1>2, <1>4, <1>5, <1>6, <1>7, <1>8, <1>9, InvoiceStepKeepsInv DEF Inv, TypeOK

LEMMA ApplyResumeDecisionInv == ASSUME Inv, NEW c \in Contracts, ApplyResumeDecision(c) PROVE Kept
  <1>0. /\ c \in Jobs /\ c \notin Invoices /\ WorkOK(c, work[c]) /\ work[c].stage = "checked"
        /\ work[c].inv \in Invoices /\ work[c].seen \in SUBSET Contracts
    <2>1. c \in Jobs /\ c \notin Invoices /\ WorkOK(c, work[c]) /\ work[c].stage = "checked"
      BY JobNames DEF Inv, ApplyResumeDecision
    <2> QED BY <2>1 DEF WorkOK, Works
  <1>1. PICK i \in Invoices, seen \in SUBSET Contracts : i = work[c].inv /\ seen = work[c].seen
    BY <1>0
  <1> DEFINE t == Target(i, seen)
  <1>9. CASE TaskMoved(i, work[c])
    <2>1. /\ work' = [work EXCEPT ![c] = Continue(work[c])]
          /\ UNCHANGED <<docs, owed, life, event, invoiceVars, resumed, mjob, faults>>
      BY <1>1, <1>9 DEF ApplyResumeDecision
    <2>2. WorkOK(c, Continue(work[c])) /\ ~Holding(c, Continue(work[c]))
      BY ContinueOK
    <2> QED BY <1>0, <2>1, <2>2, QuietKeepsInv DEF Inv, TypeOK
  <1> SUFFICES ASSUME ~TaskMoved(i, work[c]) PROVE Kept
    BY <1>9
  <1>2. /\ IF t = "AWAITING_CONTRACT" THEN UNCHANGED <<status, missing>>
           ELSE /\ status' = [status EXCEPT ![i] = t]
                /\ missing' = [missing EXCEPT ![i] = "RESOLVED"]
        /\ InsertDecision(i, seen)
        /\ resumed' = resumed \cup {<<c, i>>}
        /\ work' = [work EXCEPT ![c] = Continue(work[c])]
        /\ UNCHANGED <<docs, owed, life, event, mjob, faults>>
    BY <1>1 DEF ApplyResumeDecision
  <1>3. t \in {"DEDUPE_CHECKED", "AWAITING_MATCH_CONFIRM", "AWAITING_CONTRACT"}
    BY Decides
  <1>4. WorkOK(c, Continue(work[c])) /\ ~Holding(c, Continue(work[c]))
    BY ContinueOK
  <1>5. resumed' \subseteq Contracts \X Invoices
    BY <1>1, <1>2 DEF Inv, TypeOK
  <1>6. CASE t = "AWAITING_CONTRACT"
    <2>1. ~Associates(i, seen) /\ ~Confirms(i, seen) /\ Candidates(i, seen) \subseteq Contracts
      BY <1>1, <1>6, Decides
    <2>2. /\ recorded' = recorded \cup ({i} \X Candidates(i, seen))
          /\ assoc' = assoc /\ confirm' = confirm /\ cands' = cands
      BY <1>1, <1>2, <2>1 DEF InsertDecision, Inv, TypeOK
    <2>3. recorded \subseteq recorded' /\ recorded' \subseteq Invoices \X Contracts
      BY <1>1, <2>1, <2>2 DEF Inv, TypeOK
    <2>4. Sound(i)'
      <3>1. Sound(i)
        BY <1>1 DEF Inv
      <3> QED BY <1>2, <1>6, <2>2, <2>3, <3>1, DocsConstant DEF Sound
    <2>5. Forward(i)
      BY <1>1, <1>2, <1>6, <2>2, RankOrder DEF Forward, Inv, TypeOK, Statuses
    <2> QED BY <1>0, <1>1, <1>2, <1>4, <1>5, <1>6, <2>2, <2>3, <2>4, <2>5, InvoiceStepKeepsInv DEF Inv, TypeOK
  <1>7. CASE t # "AWAITING_CONTRACT"
    <2>1. Holds(c) /\ Waits(i)
      <3>1. Holds(c)
        BY <1>0, <1>1, <1>7 DEF Holds, Holding
      <3> QED BY <1>0, <1>1, <3>1 DEF Inv, Locks
    <2> HIDE DEF t
    <2>2. /\ status' \in [Invoices -> Statuses] /\ status'[i] = t
          /\ missing' \in [Invoices -> {"none", "OPEN", "WAITING", "RESOLVED"}]
          /\ missing'[i] = "RESOLVED"
          /\ \A j \in Invoices \ {i} : status'[j] = status[j] /\ missing'[j] = missing[j]
      BY <1>1, <1>2, <1>3, <1>7 DEF Inv, TypeOK, Statuses
    <2>3. /\ recorded \subseteq recorded' /\ recorded' \subseteq Invoices \X Contracts
          /\ assoc' \in [Invoices -> Contracts \cup {NoContract}]
          /\ confirm' \in [Invoices -> {"none", "OPEN", "RESOLVED"}]
          /\ cands' \in [Invoices -> SUBSET Contracts]
          /\ \A j \in Invoices \ {i} : /\ assoc'[j] = assoc[j] /\ confirm'[j] = confirm[j]
                                       /\ cands'[j] = cands[j]
          /\ assoc[i] = NoContract
          /\ confirm'[i] = "OPEN" <=> t = "AWAITING_MATCH_CONFIRM"
          /\ \A d \in cands'[i] : <<i, d>> \in recorded'
          /\ assoc'[i] # NoContract =>
                /\ t = "DEDUPE_CHECKED"
                /\ <<i, assoc'[i]>> \in recorded'
                /\ i \in Outgoing \/ Kind[i][assoc'[i]] = "compatible"
      <3>1. status[i] \in {"MATCHING", "AWAITING_CONTRACT"} /\ docs' = docs /\ InsertDecision(i, seen)
        BY <1>2, <2>1 DEF Waits
      <3> QED BY <1>1, <3>1, DecisionRows DEF t
    <2>4. Sound(i)'
      BY <1>2, <1>3, <1>7, <2>2, <2>3, DocsConstant DEF Sound
    <2>5. Forward(i)
      BY <1>3, <1>7, <2>1, <2>2, <2>3, RankOrder DEF Forward, Waits
    <2>6. \E k \in Jobs : \E v : /\ work' = [work EXCEPT ![k] = v] /\ WorkOK(k, v) /\ ~Holding(k, v)
                                 /\ Holds(k) /\ work[k].inv = i
      BY <1>0, <1>1, <1>2, <1>4, <2>1
    <2>7. /\ UNCHANGED <<docs, life, event>> /\ faults' = faults
          /\ mjob' \in [Invoices -> {"queued", "done", "dead"}] /\ owed' \in [Contracts -> SUBSET Invoices]
      BY <1>2 DEF Inv, TypeOK
    <2> QED BY <1>5, <2>2, <2>3, <2>4, <2>5, <2>6, <2>7, InvoiceStepKeepsInv
  <1> QED BY <1>6, <1>7

----------------------------------------------------------------------------
LEMMA RequestMissingContractInv == ASSUME Inv, NEW i \in Invoices, RequestMissingContract(i) PROVE Kept
  <1> USE DEF RequestMissingContract
  <1>1. /\ missing' \in [Invoices -> {"none", "OPEN", "WAITING", "RESOLVED"}]
        /\ missing'[i] = "WAITING" /\ status[i] = "AWAITING_CONTRACT"
        /\ \A j \in Invoices \ {i} : missing'[j] = missing[j]
    BY DEF Inv, TypeOK
  <1>2. Sound(i)
    BY DEF Inv
  <1>3. Sound(i)' /\ Forward(i)
    BY <1>1, <1>2, DocsConstant, RankOrder DEF Sound, Forward
  <1>4. status' = status /\ Waits(i)'
    BY <1>1 DEF Waits
  <1> QED BY <1>1, <1>3, <1>4, InvoiceStepKeepsInv DEF Inv, TypeOK

LEMMA ContinueWithoutContractInv == ASSUME Inv, NEW i \in Invoices, ContinueWithoutContract(i) PROVE Kept
  <1>1. /\ missing' \in [Invoices -> {"none", "OPEN", "WAITING", "RESOLVED"}]
        /\ missing'[i] = "RESOLVED" /\ status[i] = "AWAITING_CONTRACT"
        /\ status' \in [Invoices -> Statuses] /\ status'[i] = "DEDUPE_CHECKED"
        /\ \A j \in Invoices \ {i} : missing'[j] = missing[j] /\ status'[j] = status[j]
        /\ UNCHANGED <<docs, owed, life, event, confirm, cands, recorded, assoc, resumed, mjob, faults>>
    BY DEF Inv, TypeOK, Statuses, Waits, ContinueWithoutContract
  <1>2. Sound(i)
    BY DEF Inv
  <1>3. Sound(i)' /\ Forward(i)
    BY <1>1, <1>2, DocsConstant, RankOrder DEF Sound, Forward
  <1>4. \/ work' = work /\ ~Locked(i)
        \/ \E k \in Jobs : \E v : /\ work' = [work EXCEPT ![k] = v] /\ WorkOK(k, v) /\ ~Holding(k, v)
                                  /\ Holds(k) /\ work[k].inv = i
    <2>1. CASE ~Locked(i) /\ UNCHANGED work
      BY <2>1
    <2>2. ASSUME NEW c \in Contracts, LockedBy(c, i), work' = [work EXCEPT ![c] = Retry(work[c])]
          PROVE  \E k \in Jobs : \E v : /\ work' = [work EXCEPT ![k] = v] /\ WorkOK(k, v) /\ ~Holding(k, v)
                                         /\ Holds(k) /\ work[k].inv = i
      <3>1. c \in Jobs /\ WorkOK(c, Retry(work[c])) /\ ~Holding(c, Retry(work[c]))
        BY ContinueOK, JobNames
      <3>2. Holds(c) /\ work[c].inv = i
        BY <2>2 DEF LockedBy, Holds, Holding
      <3> QED BY <2>2, <3>1, <3>2
    <2> QED BY <2>1, <2>2 DEF ContinueWithoutContract
  <1> QED BY <1>1, <1>3, <1>4, InvoiceStepKeepsInv DEF Inv, TypeOK

LEMMA ConfirmContractMatchInv ==
  ASSUME Inv, NEW i \in Invoices, NEW c \in Contracts, ConfirmContractMatch(i, c)
  PROVE  Kept
  <1> USE DEF ConfirmContractMatch
  <1>1. /\ confirm' \in [Invoices -> {"none", "OPEN", "RESOLVED"}] /\ confirm'[i] = "RESOLVED"
        /\ assoc' \in [Invoices -> Contracts \cup {NoContract}] /\ assoc'[i] = c
        /\ status' \in [Invoices -> Statuses] /\ status'[i] = "DEDUPE_CHECKED"
        /\ status[i] = "AWAITING_MATCH_CONFIRM" /\ c \in cands[i]
        /\ \A j \in Invoices \ {i} : /\ confirm'[j] = confirm[j] /\ status'[j] = status[j]
                                     /\ assoc'[j] = assoc[j]
    BY DEF Inv, TypeOK, Statuses
  <1>2. Sound(i)
    BY DEF Inv
  <1>3. Sound(i)' /\ Forward(i)
    BY <1>1, <1>2, DocsConstant, RankOrder DEF Sound, Forward
  <1> QED BY <1>1, <1>3, InvoiceStepKeepsInv DEF Inv, TypeOK

----------------------------------------------------------------------------
LEMMA StutterInv == ASSUME Inv, UNCHANGED vars PROVE Kept
  <1>1. /\ UNCHANGED <<docs, invoiceVars>> /\ work' = work
        /\ UNCHANGED <<owed, life, event, resumed, mjob, faults>>
    BY DEF vars, invoiceVars
  <1> QED BY <1>1, QuietKeepsInv DEF Inv, TypeOK

LEMMA NextInv == Inv /\ [Next]_vars => Kept
  <1> SUFFICES ASSUME Inv, Next PROVE Kept
    BY StutterInv
  <1>1. CASE \E i \in Invoices : MatchStep(i)
    BY <1>1, MatchLoadInv, MatchCheckInv, ApplyMatchDecisionInv DEF MatchStep
  <1>2. CASE \E c \in Contracts : FanOutStep(c) \/ Redeliver(c)
    BY <1>2, ContractsInv, ListInv, ResumeLoadInv, ResumeCheckInv, ApplyResumeDecisionInv,
       FanOutDoneInv, RedeliverInv DEF FanOutStep
  <1>3. CASE \E k \in Jobs : Crash(k)
    BY <1>3, CrashInv
  <1>4. CASE HumanStep
    BY <1>4, ContractsInv, RequestMissingContractInv, ContinueWithoutContractInv,
       ConfirmContractMatchInv DEF HumanStep
  <1> QED BY <1>1, <1>2, <1>3, <1>4 DEF Next

LEMMA SpecInv == Spec => []Inv
  <1>1. Inv /\ [Next]_vars => Inv'
    BY NextInv DEF Kept
  <1> QED BY <1>1, InitInv, PTL DEF Spec

\* Every variable has its type, and a job holds an invoice exactly between its load and
\* its commit.
THEOREM TypeCorrect == Spec => []TypeOK
  BY SpecInv, PTL DEF Inv

\* The task and the status of an invoice agree whatever matching, fan-outs and commands
\* race on it (ApplyMatchDecision, ApplyResumeDecision, the accountant's commands).
THEOREM TasksMatchStatus == Spec => []BlockedByItsTask
  <1>1. Inv => BlockedByItsTask
    BY DEF Inv, Sound, BlockedByItsTask
  <1> QED BY <1>1, SpecInv, PTL

\* An association names a recorded candidate of an invoice past matching, and only the
\* accountant associates an incompatible contract.
THEOREM AssociationsHaveEvidence == Spec => []AssociationHasEvidence
  <1>1. Inv => AssociationHasEvidence
    BY DEF Inv, Sound, AssociationHasEvidence
  <1> QED BY <1>1, SpecInv, PTL

\* A decision computed from an earlier read never moves an invoice backward and never
\* replaces an association (the compare-and-set of ApplyMatchDecision, ApplyResumeDecision).
THEOREM StaleWorkIsHarmless == Spec => NeverBackward
  <1>1. Inv /\ [Next]_vars =>
          [\A i \in Invoices : /\ Rank[status'[i]] >= Rank[status[i]]
                               /\ assoc[i] # NoContract => assoc'[i] = assoc[i]]_vars
    BY NextInv DEF Kept, Forward
  <1> QED BY <1>1, SpecInv, PTL DEF Spec, NeverBackward

----------------------------------------------------------------------------
(* A fan-out misses none of its invoices but one that is requested while   *)
(* the loop runs.  What the loop has behind it is dealt with for good,     *)
(* because an invoice never comes back to waiting and a contract never     *)
(* back to ACTIVE; what it holds was loaded with c among the candidates,   *)
(* so it cannot be decided to go on waiting; and a task is found changed   *)
(* only if it was OPEN, so nobody had requested the contract at the list.  *)

Gone == {"ARCHIVED", "DELETED"}

Dealt(i, c) == \/ status[i] \notin {"MATCHING", "AWAITING_CONTRACT"}
               \/ life[c] \in Gone
               \/ \E e \in Contracts : Kind[i][e] = "expired" /\ life[e] # "absent"

RequestedSince(i, v) == i \notin v.asked /\ missing[i] # "OPEN"

\* An invoice that is owed a look has left the matching, and c is for its parties.
Debt(i, c) == i \notin Outgoing /\ Kind[i][c] # "other" /\ status[i] # "MATCHING"

FanOut(c, v) ==
    v.stage # "idle" =>
       /\ event[c] = "available"
       /\ v.todo \subseteq owed[c] /\ v.asked \subseteq owed[c] /\ v.inv \in owed[c] \cup {NoInvoice}
       /\ v.again \/ \A i \in owed[c] : i \in v.todo \/ i = v.inv \/ Dealt(i, c) \/ RequestedSince(i, v)
       /\ v.inv # NoInvoice => /\ c \in v.seen \/ life[c] \in Gone
                               /\ \A e \in v.seen : Kind[v.inv][e] # "expired"
       /\ \A i \in v.asked : missing[i] # "OPEN"
       /\ v.stage = "checked" => /\ v.inv # NoInvoice /\ v.task \in {"OPEN", "WAITING"}
                                 /\ v.task = "WAITING" => missing[v.inv] # "OPEN"
                                 /\ v.inv \in v.asked => v.task = "WAITING"

FanOuts == /\ \A c \in Contracts : event[c] # "none" => life[c] # "absent"
           /\ \A c \in Contracts : \A i \in owed[c] : Debt(i, c)
           /\ \A c \in Contracts : FanOut(c, work[c])
           /\ \A c \in Contracts, i \in Invoices : <<c, i>> \in resumed => Dealt(i, c)

\* A task that is not open is not opened again.
TasksForward == \A i \in Invoices : status[i] # "MATCHING" /\ missing[i] # "OPEN" => missing'[i] # "OPEN"

\* Contracts come and go, and do not come back.
LifeForward == /\ \A c \in Contracts : \/ life'[c] = life[c]
                                       \/ life[c] = "absent" /\ life'[c] = "ACTIVE"
                                       \/ life[c] = "ACTIVE" /\ life'[c] \in Gone
               /\ TasksForward

LEMMA NextLife == ASSUME Inv, Next PROVE docs' = docs /\ LifeForward
  <1> USE DEF Inv, TypeOK
  <1>0. missing' = missing => TasksForward
    BY DEF TasksForward
  <1>1. ASSUME NEW i \in Invoices, MatchStep(i) PROVE docs' = docs /\ LifeForward
    <2>1. CASE ApplyMatchDecision(i)
      <3>1. i \in Jobs /\ WorkOK(i, work[i]) /\ work[i].stage = "checked"
        BY <2>1, JobNames DEF ApplyMatchDecision
      <3>2. Holds(i)
        BY <3>1, JobNames DEF WorkOK, Holds, Holding
      <3>3. status[i] = "MATCHING"
        BY <3>1, <3>2 DEF Locks
      <3>4. TasksForward
        BY <2>1, <3>3 DEF ApplyMatchDecision, TasksForward
      <3> QED BY <2>1, <3>4 DEF ApplyMatchDecision, LifeForward
    <2>2. CASE MatchLoad(i) \/ MatchCheck(i)
      BY <2>2, <1>0 DEF MatchLoad, MatchCheck, invoiceVars, LifeForward
    <2> QED BY <1>1, <2>1, <2>2 DEF MatchStep
  <1>2. ASSUME NEW c \in Contracts, FanOutStep(c) \/ Redeliver(c) PROVE docs' = docs /\ LifeForward
    <2>1. CASE ApplyResumeDecision(c)
      <3>1. PICK i : missing' = missing \/ missing' = [missing EXCEPT ![i] = "RESOLVED"]
        BY <2>1 DEF ApplyResumeDecision, invoiceVars
      <3>2. TasksForward
        BY <3>1 DEF TasksForward
      <3> QED BY <2>1, <3>2 DEF ApplyResumeDecision, LifeForward
    <2> QED BY <1>0, <1>2, <2>1 DEF FanOutStep, RecordContractAvailable, ListBlockedInvoicesForContract,
                ResumeLoad, ResumeCheck, FanOutDone, Redeliver, invoiceVars, LifeForward
  <1>3. CASE \E k \in Jobs : Crash(k)
    BY <1>0, <1>3 DEF Crash, invoiceVars, LifeForward
  <1>4. ASSUME NEW c \in Contracts, CreateContract(c) \/ ArchiveContract(c) \/ DeleteMistakenContract(c)
        PROVE  docs' = docs /\ LifeForward
    BY <1>0, <1>4 DEF CreateContract, ArchiveContract, DeleteMistakenContract, invoiceVars, LifeForward, Gone
  <1>5. ASSUME NEW i \in Invoices, \/ RequestMissingContract(i) \/ ContinueWithoutContract(i)
                                   \/ \E c \in Contracts : ConfirmContractMatch(i, c)
        PROVE  docs' = docs /\ LifeForward
    <2>1. TasksForward
      BY <1>5 DEF RequestMissingContract, ContinueWithoutContract, ConfirmContractMatch, TasksForward
    <2> QED BY <1>5, <2>1 DEF RequestMissingContract, ContinueWithoutContract, ConfirmContractMatch, LifeForward
  <1> QED BY <1>1, <1>2, <1>3, <1>4, <1>5 DEF Next, HumanStep

\* What is dealt with stays so.
LEMMA DealtStays ==
  ASSUME Inv, Kept, docs' = docs, LifeForward, NEW i \in Invoices, NEW c \in Contracts
  PROVE  /\ Dealt(i, c) => Dealt(i, c)'
         /\ status[i] # "MATCHING" => status'[i] # "MATCHING"
         /\ status[i] # "MATCHING" /\ missing[i] # "OPEN" => missing'[i] # "OPEN"
  <1>1. status[i] \in Statuses /\ status'[i] \in Statuses /\ Rank[status'[i]] >= Rank[status[i]]
    BY DEF Kept, Inv, TypeOK, Forward
  <1>2. /\ status[i] # "MATCHING" => status'[i] # "MATCHING"
        /\ status[i] \notin {"MATCHING", "AWAITING_CONTRACT"}
              => status'[i] \notin {"MATCHING", "AWAITING_CONTRACT"}
    BY <1>1, RankOrder DEF Statuses
  <1>3. \A e \in Contracts : /\ life[e] \in Gone => life'[e] \in Gone
                             /\ life[e] # "absent" => life'[e] # "absent"
    BY DEF LifeForward, Gone
  <1>4. Dealt(i, c) => Dealt(i, c)'
    BY <1>2, <1>3, DocsConstant DEF Dealt
  <1>5. status[i] # "MATCHING" /\ missing[i] # "OPEN" => missing'[i] # "OPEN"
    BY DEF LifeForward, TasksForward
  <1> QED BY <1>2, <1>4, <1>5

\* Debts stay debts, and a new one is of an invoice that waits.
LEMMA DebtStays ==
  ASSUME Inv, FanOuts, Kept, docs' = docs, LifeForward, NEW c \in Contracts, owed' = owed \/ Owes(c)
  PROVE  \A d \in Contracts : \A i \in owed'[d] : Debt(i, d)'
  <1>1. ASSUME NEW d \in Contracts, NEW i \in owed[d] PROVE Debt(i, d)'
    <2>1. i \in Invoices /\ Debt(i, d)
      BY <1>1 DEF Inv, TypeOK, FanOuts
    <2> QED BY <2>1, DealtStays, DocsConstant DEF Debt
  <1>2. ASSUME NEW i \in Invoices \ Outgoing, status[i] = "AWAITING_CONTRACT", Kind[i][c] # "other"
        PROVE  Debt(i, c)'
    BY <1>2, DealtStays, DocsConstant DEF Debt
  <1> QED BY <1>1, <1>2 DEF Owes, Inv, TypeOK

\* A fan-out is not disturbed by the steps of others.
LEMMA FanOutStays ==
  ASSUME Inv, FanOuts, Kept, docs' = docs, LifeForward, NEW c \in Contracts, NEW v \in Works, FanOut(c, v),
         event[c] = "available" => event'[c] = "available", owed'[c] = owed[c]
  PROVE  FanOut(c, v)'
  <1> SUFFICES ASSUME v.stage # "idle" PROVE FanOut(c, v)'
    BY DEF FanOut
  <1>1. owed[c] \subseteq Invoices
    BY DEF Inv, TypeOK
  <1>5. \A i \in owed[c] : missing[i] # "OPEN" => missing'[i] # "OPEN"
    BY <1>1, DealtStays DEF FanOuts, Debt
  <1>3. v.again \/ \A i \in owed[c] : i \in v.todo \/ i = v.inv \/ Dealt(i, c)' \/ RequestedSince(i, v)'
    BY <1>1, <1>5, DealtStays DEF FanOut, RequestedSince
  <1>4. v.inv # NoInvoice => /\ c \in v.seen \/ life'[c] \in Gone
                             /\ \A e \in v.seen : Kind'[v.inv][e] # "expired"
    BY DocsConstant DEF FanOut, LifeForward, Gone
  <1>6. /\ \A i \in v.asked : missing'[i] # "OPEN"
        /\ v.stage = "checked" => (v.task = "WAITING" => missing'[v.inv] # "OPEN")
    BY <1>5 DEF FanOut
  <1> QED BY <1>3, <1>4, <1>6 DEF FanOut

\* Steps that give no fan-out anything new: k, if a job steps at all, is one of a
\* matching or one that stops.
LEMMA OthersKeepFanOuts ==
  ASSUME Inv, FanOuts, Kept, docs' = docs, LifeForward, resumed' = resumed,
         \A c \in Contracts : /\ event[c] = "available" => event'[c] = "available" \/ work'[c].stage = "idle"
                              /\ event'[c] # "none" => event[c] # "none" \/ life'[c] # "absent",
         \A c \in Contracts : work'[c] = work[c] \/ work'[c].stage = "idle",
         \/ owed' = owed
         \/ \E c \in Contracts : Owes(c) /\ work'[c].stage = "idle"
  PROVE  FanOuts'
  <1>0. \A c \in Contracts : owed'[c] = owed[c] \/ work'[c].stage = "idle"
    BY DEF Owes, Inv, TypeOK
  <1>1. ASSUME NEW c \in Contracts PROVE FanOut(c, work[c])'
    <2>1. CASE work'[c].stage = "idle"
      BY <2>1 DEF FanOut
    <2>2. CASE work'[c].stage # "idle"
      <3>1. PICK v \in Works : v = work[c] /\ v = work'[c]
        BY <2>2, JobNames DEF Inv, TypeOK
      <3>2. FanOut(c, v)
        BY <3>1 DEF FanOuts
      <3>3. FanOut(c, v)'
        BY <1>0, <2>2, <3>2, FanOutStays
      <3> QED BY <3>1, <3>3
    <2> QED BY <2>1, <2>2
  <1>2. \A c \in Contracts, i \in Invoices : <<c, i>> \in resumed' => Dealt(i, c)'
    BY DealtStays DEF FanOuts
  <1>3. \A c \in Contracts : event'[c] # "none" => life'[c] # "absent"
    BY DEF FanOuts, LifeForward, Gone
  <1>4. \A c \in Contracts : \A i \in owed'[c] : Debt(i, c)'
    <2>1. CASE owed' = owed /\ Contracts # {}
      BY <2>1, DebtStays
    <2>2. CASE \E c \in Contracts : Owes(c)
      BY <2>2, DebtStays
    <2> QED BY <2>1, <2>2
  <1> QED BY <1>1, <1>2, <1>3, <1>4 DEF FanOuts

\* A step of the fan-out of c leaves it holding v.
LEMMA FanOutSteps ==
  ASSUME Inv, FanOuts, Kept, docs' = docs, LifeForward, UNCHANGED <<life, event>>,
         NEW c \in Contracts, NEW v \in Works, work' = [work EXCEPT ![c] = v], FanOut(c, v)',
         owed' = owed \/ Owes(c),
         \A d \in Contracts, i \in Invoices :
            <<d, i>> \in resumed' => <<d, i>> \in resumed \/ Dealt(i, d)'
  PROVE  FanOuts'
  <1>1. \A d \in Contracts : work'[d] = IF d = c THEN v ELSE work[d]
    BY JobNames DEF Inv, TypeOK
  <1>2. ASSUME NEW d \in Contracts PROVE FanOut(d, work[d])'
    <2>1. CASE d = c
      BY <1>1, <2>1
    <2>2. CASE d # c
      <3>1. PICK w \in Works : w = work[d]
        BY JobNames DEF Inv, TypeOK
      <3>2. FanOut(d, w) /\ w = work'[d]
        BY <1>1, <2>2, <3>1 DEF FanOuts
      <3>3. owed'[d] = owed[d]
        BY <2>2 DEF Owes, Inv, TypeOK
      <3>4. FanOut(d, w)'
        BY <3>2, <3>3, FanOutStays
      <3> QED BY <3>2, <3>4
    <2> QED BY <2>1, <2>2
  <1>3. \A d \in Contracts, i \in Invoices : <<d, i>> \in resumed' => Dealt(i, d)'
    BY DealtStays DEF FanOuts
  <1> QED BY <1>2, <1>3, DebtStays DEF FanOuts

LEMMA ListFanOut ==
  ASSUME Inv, FanOuts, Kept, docs' = docs, LifeForward, NEW c \in Contracts, ListBlockedInvoicesForContract(c)
  PROVE  FanOuts'
  <1>0. PICK v : v = [NoWork EXCEPT !.stage = "listed", !.todo = BlockedFor(c),
                                    !.asked = {i \in owed'[c] : missing[i] = "WAITING"}]
    OBVIOUS
  <1>1. Owes(c) /\ owed' \in [Contracts -> SUBSET Invoices]
    BY OwesType DEF ListBlockedInvoicesForContract
  <1>2. /\ work' = [work EXCEPT ![c] = v] /\ event[c] = "available"
        /\ UNCHANGED <<life, event, invoiceVars, resumed>>
    BY <1>0 DEF ListBlockedInvoicesForContract
  <1>3. /\ v \in Works /\ v.stage = "listed" /\ v.inv = NoInvoice /\ v.todo = BlockedFor(c)
        /\ v.asked = {i \in owed'[c] : missing[i] = "WAITING"}
    BY <1>0, <1>1, NoWorkType DEF Works, Stages, NoWork, BlockedFor
  <1>4. /\ v.todo \subseteq owed'[c] /\ v.asked \subseteq owed'[c]
        /\ \A i \in v.asked : missing'[i] # "OPEN"
    BY <1>1, <1>2, <1>3 DEF Owes, BlockedFor, Waits, Inv, TypeOK, invoiceVars
  <1>5. ASSUME NEW i \in owed'[c] PROVE i \in v.todo \/ Dealt(i, c)'
    <2>1. i \in Invoices /\ Sound(i) /\ Debt(i, c)
      BY <1>1, <1>5 DEF Owes, Debt, FanOuts, Inv, TypeOK
    <2>2. CASE status[i] = "AWAITING_CONTRACT"
      BY <1>3, <2>1, <2>2 DEF BlockedFor, Waits, Sound, Debt
    <2>3. CASE status[i] # "AWAITING_CONTRACT"
      BY <1>2, <2>1, <2>3 DEF Dealt, Debt, invoiceVars
    <2> QED BY <2>2, <2>3
  <1>6. FanOut(c, v)'
    BY <1>2, <1>3, <1>4, <1>5 DEF FanOut
  <1> QED BY <1>1, <1>2, <1>3, <1>6, FanOutSteps

\* What an expired contract does to a matching, and what a matching without one sees.
LEMMA Policy ==
  ASSUME NEW i, NEW seen, i \notin Outgoing
  PROVE  /\ Outcome(i, seen) = "EXPIRED_SEMANTICS" <=> \E e \in seen : Kind[i][e] = "expired"
         /\ Target(i, seen) = "AWAITING_CONTRACT" =>
               seen = {} \/ \E e \in seen : Kind[i][e] = "expired"
  <1>1. Candidates(i, seen) = seen
    BY DEF Candidates
  <1>2. Outcome(i, seen) \in {"NO_MATCH", "EXPIRED_SEMANTICS", "MULTIPLE_PLAUSIBLE",
                              "UNIQUE_COMPATIBLE", "UNIQUE_INCOMPATIBLE"}
    BY DEF Outcome
  <1>3. /\ Outcome(i, seen) = "EXPIRED_SEMANTICS" <=> \E e \in seen : Kind[i][e] = "expired"
        /\ Outcome(i, seen) = "NO_MATCH" <=> seen = {}
    BY <1>1 DEF Outcome
  <1>4. Target(i, seen) = "AWAITING_CONTRACT" => Outcome(i, seen) \in {"NO_MATCH", "EXPIRED_SEMANTICS"}
    BY <1>2 DEF Target, Associates, Confirms
  <1> QED BY <1>3, <1>4

LEMMA ResumeLoadFanOut ==
  ASSUME Inv, FanOuts, Kept, docs' = docs, LifeForward, NEW c \in Contracts, ResumeLoad(c)
  PROVE  FanOuts'
  <1>1. PICK w \in Works : w = work[c]
    BY JobNames DEF Inv, TypeOK
  <1>2. /\ w.stage = "listed" /\ w.inv = NoInvoice /\ FanOut(c, w) /\ owed[c] \subseteq Invoices
        /\ w.todo \subseteq owed[c]
    BY <1>1, JobNames DEF Inv, TypeOK, WorkOK, ResumeLoad, FanOuts, FanOut, Works
  <1>3. PICK i \in w.todo :
          LET seen == Discovered(i)
              stale == <<c, i>> \in resumed \/ status[i] # "AWAITING_CONTRACT"
              next == PassOver(w, i)
          IN work' = [work EXCEPT ![c] =
                        IF stale \/ Outcome(i, seen) = "EXPIRED_SEMANTICS" THEN next
                        ELSE [next EXCEPT !.stage = "loaded", !.inv = i, !.seen = seen]]
    BY <1>1 DEF ResumeLoad
  <1>4. UNCHANGED <<docs, owed, life, event, invoiceVars, resumed, mjob, faults>>
    BY DEF ResumeLoad
  <1> DEFINE next == PassOver(w, i)
  <1>0. PICK v : v = [next EXCEPT !.stage = "loaded", !.inv = i, !.seen = Discovered(i)]
    OBVIOUS
  <1>5. /\ next \in Works /\ next.stage = "listed" /\ next.inv = NoInvoice
        /\ next.todo = w.todo \ {i} /\ next.again = w.again /\ next.asked = w.asked
    BY <1>2 DEF Works, PassOver
  <1>6. /\ i \in Invoices /\ i \notin Outgoing /\ i \in owed[c] /\ Kind[i][c] # "other"
        /\ status[i] # "MATCHING" /\ i # NoInvoice /\ event[c] = "available" /\ life[c] # "absent"
    BY <1>2, JobNames DEF FanOut, FanOuts, Debt
  <1>7. /\ v \in Works /\ v.stage = "loaded" /\ v.inv = i /\ v.seen = Discovered(i)
        /\ v.todo = w.todo \ {i} /\ v.again = w.again /\ v.asked = w.asked
    <2> HIDE DEF next
    <2> QED BY <1>0, <1>5, <1>6, DiscoveredType DEF Works, Stages
  <1>8. CASE \/ <<c, i>> \in resumed \/ status[i] # "AWAITING_CONTRACT"
             \/ Outcome(i, Discovered(i)) = "EXPIRED_SEMANTICS"
    <2>1. work' = [work EXCEPT ![c] = next]
      BY <1>3, <1>8
    <2> HIDE DEF next
    <2>2. Dealt(i, c)
      <3>1. Outcome(i, Discovered(i)) = "EXPIRED_SEMANTICS" =>
               \E e \in Contracts : Kind[i][e] = "expired" /\ life[e] # "absent"
        BY <1>6, Policy DEF Discovered
      <3> QED BY <1>6, <1>8, <3>1 DEF FanOuts, Dealt
    <2>3. FanOut(c, next)
      BY <1>2, <1>5, <2>2 DEF FanOut, RequestedSince
    <2>4. FanOut(c, next)'
      BY <1>4, <1>5, <2>3, FanOutStays
    <2> QED BY <1>4, <1>5, <2>1, <2>4, FanOutSteps
  <1>9. CASE ~(\/ <<c, i>> \in resumed \/ status[i] # "AWAITING_CONTRACT"
               \/ Outcome(i, Discovered(i)) = "EXPIRED_SEMANTICS")
    <2>1. work' = [work EXCEPT ![c] = v]
      BY <1>0, <1>3, <1>9
    <2> HIDE DEF next
    <2>2. c \in Discovered(i) \/ life[c] \in Gone
      BY <1>6 DEF Discovered, Gone, Inv, TypeOK
    <2>3. \A e \in Discovered(i) : Kind[i][e] # "expired"
      BY <1>6, <1>9, Policy
    <2>4. FanOut(c, v)
      BY <1>2, <1>6, <1>7, <2>2, <2>3, IdAssumption DEF FanOut, RequestedSince
    <2>5. FanOut(c, v)'
      BY <1>4, <1>7, <2>4, FanOutStays
    <2> QED BY <1>4, <1>7, <2>1, <2>5, FanOutSteps
  <1> QED BY <1>8, <1>9

\* A loop that has dealt with its invoice goes on with the same list.
LEMMA ContinueFanOut ==
  ASSUME NEW c \in Contracts, NEW w \in Works, FanOut(c, w), w.stage # "idle",
         NEW i \in Invoices, w.inv = i, Dealt(i, c) \/ RequestedSince(i, w), NEW v, v = Continue(w)
  PROVE  v \in Works /\ FanOut(c, v)
  <1>1. /\ v \in Works /\ v.stage = "listed" /\ v.inv = NoInvoice
        /\ v.todo = w.todo /\ v.again = w.again /\ v.asked = w.asked
    BY DEF Continue, Works, Stages
  <1> QED BY <1>1 DEF FanOut, RequestedSince

LEMMA RetryFanOut ==
  ASSUME NEW c \in Contracts, NEW w \in Works, FanOut(c, w), w.stage # "idle", NEW v, v = Retry(w)
  PROVE  v \in Works /\ FanOut(c, v)
  <1>1. /\ v \in Works /\ v.stage = "listed" /\ v.inv = NoInvoice
        /\ v.todo = w.todo /\ v.again = TRUE /\ v.asked = w.asked
    BY DEF Retry, Continue, Works, Stages
  <1> QED BY <1>1 DEF FanOut

LEMMA ResumeCheckFanOut ==
  ASSUME Inv, FanOuts, Kept, docs' = docs, LifeForward, NEW c \in Contracts, ResumeCheck(c)
  PROVE  FanOuts'
  <1>1. PICK w \in Works : w = work[c]
    BY JobNames DEF Inv, TypeOK
  <1>2. /\ w.stage = "loaded" /\ w.inv # NoInvoice /\ FanOut(c, w)
        /\ UNCHANGED <<docs, owed, life, event, invoiceVars, resumed, mjob, faults>>
        /\ work' = [work EXCEPT ![c] =
                      IF ~Waits(w.inv) THEN Continue(w)
                      ELSE IF CandidatesCurrent(w.inv, w.seen)
                      THEN [w EXCEPT !.stage = "checked", !.task = missing[w.inv]] ELSE Retry(w)]
    BY <1>1, JobNames DEF Inv, TypeOK, ResumeCheck, FanOuts
  <1>3. PICK i \in Invoices : i = w.inv
    BY <1>2 DEF Works
  <1>4. i \in owed[c] /\ status[i] # "MATCHING" /\ Sound(i)
    BY <1>2, <1>3 DEF FanOut, FanOuts, Debt, Inv
  <1>5. CASE ~Waits(i)
    <2>1. Dealt(i, c)
      BY <1>4, <1>5 DEF Sound, Waits, Dealt
    <2>2. PICK v : v = Continue(w)
      OBVIOUS
    <2>3. v \in Works /\ FanOut(c, v)
      BY <1>2, <1>3, <2>1, <2>2, ContinueFanOut
    <2>4. work' = [work EXCEPT ![c] = v]
      BY <1>2, <1>3, <1>5, <2>2
    <2>5. FanOut(c, v)'
      BY <1>2, <2>3, FanOutStays
    <2> QED BY <1>2, <2>3, <2>4, <2>5, FanOutSteps
  <1>6. CASE Waits(i) /\ CandidatesCurrent(i, w.seen)
    <2>0. PICK v : v = [w EXCEPT !.stage = "checked", !.task = missing[w.inv]]
      OBVIOUS
    <2>1. /\ v \in Works /\ v.stage = "checked" /\ v.inv = w.inv /\ v.seen = w.seen
          /\ v.todo = w.todo /\ v.again = w.again /\ v.asked = w.asked /\ v.task = missing[i]
      BY <1>3, <1>6, <2>0 DEF Works, Stages, Waits
    <2>2. work' = [work EXCEPT ![c] = v]
      BY <1>2, <1>3, <1>6, <2>0
    <2>3. FanOut(c, v)
      <3>1. missing[i] \in {"OPEN", "WAITING"}
        BY <1>6 DEF Waits
      <3> QED BY <1>2, <1>3, <2>1, <3>1 DEF FanOut, RequestedSince
    <2>4. FanOut(c, v)'
      BY <1>2, <2>1, <2>3, FanOutStays
    <2> QED BY <1>2, <2>1, <2>2, <2>4, FanOutSteps
  <1>7. CASE Waits(i) /\ ~CandidatesCurrent(i, w.seen)
    <2>0. PICK v : v = Retry(w)
      OBVIOUS
    <2>1. v \in Works /\ FanOut(c, v)
      BY <1>2, <2>0, RetryFanOut
    <2>2. work' = [work EXCEPT ![c] = v]
      BY <1>2, <1>3, <1>7, <2>0
    <2>3. FanOut(c, v)'
      BY <1>2, <2>1, FanOutStays
    <2> QED BY <1>2, <2>1, <2>2, <2>3, FanOutSteps
  <1> QED BY <1>5, <1>6, <1>7

\* A decision whose task moved under it: the contract was requested after the list.
LEMMA TaskMovedFanOut ==
  ASSUME Inv, NEW c \in Contracts, NEW w \in Works, w = work[c], w.stage = "checked", FanOut(c, w),
         NEW i \in Invoices, i = w.inv, TaskMoved(i, w)
  PROVE  RequestedSince(i, w)
  <1>1. c \in Jobs /\ c \notin Invoices
    BY JobNames
  <1>2. Holds(c)
    BY DEF TaskMoved, Holds, Holding
  <1>3. missing[i] \in {"OPEN", "WAITING"}
    BY <1>1, <1>2 DEF Inv, Locks, Waits
  <1> QED BY <1>3 DEF FanOut, RequestedSince, TaskMoved

LEMMA ApplyResumeFanOut ==
  ASSUME Inv, FanOuts, Kept, docs' = docs, LifeForward, NEW c \in Contracts, ApplyResumeDecision(c)
  PROVE  FanOuts'
  <1>1. PICK w \in Works : w = work[c]
    BY JobNames DEF Inv, TypeOK
  <1>2. /\ w.stage = "checked" /\ w.inv # NoInvoice /\ FanOut(c, w)
        /\ w.inv \notin Outgoing
    BY <1>1, JobNames DEF Inv, TypeOK, ApplyResumeDecision, FanOuts, WorkOK
  <1>3. PICK i \in Invoices : i = w.inv
    BY <1>2 DEF Works
  <1>4. /\ work' = [work EXCEPT ![c] = Continue(w)]
        /\ UNCHANGED <<docs, owed, life, event>>
    BY <1>1, <1>3 DEF ApplyResumeDecision
  <1>9. CASE TaskMoved(i, w)
    <2>1. PICK v : v = Continue(w)
      OBVIOUS
    <2>2. v \in Works /\ FanOut(c, v)
      BY <1>1, <1>2, <1>3, <1>9, <2>1, TaskMovedFanOut, ContinueFanOut
    <2>3. FanOut(c, v)'
      BY <1>2, <1>4, <2>2, FanOutStays
    <2>4. resumed' = resumed
      BY <1>1, <1>3, <1>9 DEF ApplyResumeDecision
    <2> QED BY <1>4, <2>1, <2>2, <2>3, <2>4, FanOutSteps
  <1> SUFFICES ASSUME ~TaskMoved(i, w) PROVE FanOuts'
    BY <1>9
  <1>10. /\ resumed' = resumed \cup {<<c, i>>}
         /\ Target(i, w.seen) # "AWAITING_CONTRACT" => status' = [status EXCEPT ![i] = Target(i, w.seen)]
         /\ Target(i, w.seen) = "AWAITING_CONTRACT" => status' = status
    BY <1>1, <1>3 DEF ApplyResumeDecision
  <1>5. Dealt(i, c)'
    <2>1. CASE Target(i, w.seen) = "AWAITING_CONTRACT"
      <3>1. \A e \in w.seen : Kind[i][e] # "expired"
        BY <1>2, <1>3 DEF FanOut
      <3>2. w.seen = {}
        BY <1>2, <1>3, <2>1, <3>1, Policy
      <3> QED BY <1>2, <1>4, <3>2 DEF FanOut, Dealt
    <2>2. CASE Target(i, w.seen) # "AWAITING_CONTRACT"
      <3>1. status'[i] = Target(i, w.seen)
        BY <1>10, <2>2 DEF Inv, TypeOK
      <3> QED BY <2>2, <3>1, Decides DEF Dealt
    <2> QED BY <2>1, <2>2
  <1>6. FanOut(c, w)'
    BY <1>2, <1>4, FanOutStays
  <1> DEFINE v == Continue(w)
  <1>7. /\ v \in Works /\ v.stage = "listed" /\ v.inv = NoInvoice
        /\ v.todo = w.todo /\ v.again = w.again /\ v.asked = w.asked
    BY DEF Continue, Works, Stages
  <1>8. work' = [work EXCEPT ![c] = v]
    BY <1>4
  <1> HIDE DEF v
  <1>11. FanOut(c, v)'
    BY <1>2, <1>3, <1>5, <1>6, <1>7 DEF FanOut, RequestedSince
  <1>12. \A d \in Contracts, j \in Invoices : <<d, j>> \in resumed' => <<d, j>> \in resumed \/ Dealt(j, d)'
    BY <1>5, <1>10
  <1> QED BY <1>4, <1>7, <1>8, <1>11, <1>12, FanOutSteps

\* A waiver that takes the invoice from a fan-out makes it run again.
LEMMA WaiverFanOut ==
  ASSUME Inv, FanOuts, Kept, docs' = docs, LifeForward, NEW i \in Invoices, ContinueWithoutContract(i)
  PROVE  FanOuts'
  <1>1. UNCHANGED <<owed, life, event, resumed>>
    BY DEF ContinueWithoutContract
  <1>2. CASE UNCHANGED work
    BY <1>1, <1>2, OthersKeepFanOuts
  <1>3. ASSUME NEW c \in Contracts, LockedBy(c, i), work' = [work EXCEPT ![c] = Retry(work[c])]
        PROVE  FanOuts'
    <2>1. PICK w \in Works : w = work[c]
      BY JobNames DEF Inv, TypeOK
    <2>2. PICK v : v = Retry(w)
      OBVIOUS
    <2>3. w.stage # "idle" /\ FanOut(c, w)
      BY <1>3, <2>1 DEF LockedBy, FanOuts
    <2>4. v \in Works /\ FanOut(c, v)
      BY <2>2, <2>3, RetryFanOut
    <2>5. FanOut(c, v)'
      BY <1>1, <2>4, FanOutStays
    <2> QED BY <1>1, <1>3, <2>1, <2>2, <2>4, <2>5, FanOutSteps
  <1> QED BY <1>2, <1>3 DEF ContinueWithoutContract

LEMMA NextFanOuts == ASSUME Inv, FanOuts, Next PROVE FanOuts'
  <1>1. Kept /\ docs' = docs /\ LifeForward
    BY NextInv, NextLife
  <1> USE <1>1
  <1>2. ASSUME NEW i \in Invoices, MatchStep(i) PROVE FanOuts'
    <2>1. UNCHANGED <<owed, event, resumed>> /\ \A k \in Contracts : work'[k] = work[k]
      BY <1>2, JobNames DEF MatchStep, MatchLoad, MatchCheck, ApplyMatchDecision, Inv, TypeOK
    <2> QED BY <2>1, OthersKeepFanOuts
  <1>3. ASSUME NEW c \in Contracts, RecordContractAvailable(c) \/ FanOutDone(c) \/ Redeliver(c)
        PROVE  FanOuts'
    <2>1. /\ resumed' = resumed
          /\ \A d \in Contracts : work'[d] = work[d] \/ work'[d].stage = "idle"
          /\ \A d \in Contracts : /\ event[d] = "available" => event'[d] = "available" \/ work'[d].stage = "idle"
                                  /\ event'[d] # "none" => event[d] # "none"
          /\ owed' = owed \/ (Owes(c) /\ work'[c].stage = "idle")
      <3>1. CASE FanOutDone(c)
        <4>1. event[c] = "available"
          BY <3>1 DEF FanOutDone, FanOuts, FanOut
        <4> QED BY <3>1, <4>1, JobNames DEF FanOutDone, NoWork, Inv, TypeOK
      <3>2. CASE RecordContractAvailable(c) \/ Redeliver(c)
        <4>1. work[c].stage = "idle" /\ work' = work
          BY <3>2 DEF RecordContractAvailable, Redeliver, FanOuts, FanOut
        <4> QED BY <3>2, <4>1 DEF RecordContractAvailable, Redeliver, Inv, TypeOK
      <3> QED BY <1>3, <3>1, <3>2
    <2> QED BY <2>1, OthersKeepFanOuts
  <1>4. ASSUME NEW c \in Contracts,
               ListBlockedInvoicesForContract(c) \/ ResumeLoad(c) \/ ResumeCheck(c) \/ ApplyResumeDecision(c)
        PROVE  FanOuts'
    BY <1>4, ListFanOut, ResumeLoadFanOut, ResumeCheckFanOut, ApplyResumeFanOut
  <1>5. ASSUME NEW k \in Jobs, Crash(k) PROVE FanOuts'
    <2>1. UNCHANGED <<owed, event, resumed>> /\ \A c \in Contracts : work'[c] = work[c] \/ work'[c].stage = "idle"
      BY <1>5, JobNames DEF Crash, NoWork, Inv, TypeOK
    <2> QED BY <2>1, OthersKeepFanOuts
  <1>6. ASSUME NEW c \in Contracts, CreateContract(c) \/ ArchiveContract(c) \/ DeleteMistakenContract(c)
        PROVE  FanOuts'
    <2>1. /\ UNCHANGED <<owed, resumed, work>>
          /\ \A d \in Contracts : /\ event[d] = "available" => event'[d] = "available" \/ work'[d].stage = "idle"
                                  /\ event'[d] # "none" => event[d] # "none" \/ life'[d] # "absent"
      <3>1. CASE CreateContract(c)
        <4>1. event[c] = "none"
          BY <3>1 DEF CreateContract, FanOuts
        <4> QED BY <3>1, <4>1 DEF CreateContract, Inv, TypeOK
      <3> QED BY <1>6, <3>1 DEF CreateContract, ArchiveContract, DeleteMistakenContract
    <2> QED BY <2>1, OthersKeepFanOuts
  <1>7. ASSUME NEW i \in Invoices, RequestMissingContract(i) \/ \E c \in Contracts : ConfirmContractMatch(i, c)
        PROVE  FanOuts'
    <2>1. UNCHANGED <<owed, event, resumed, work>>
      BY <1>7 DEF RequestMissingContract, ConfirmContractMatch
    <2> QED BY <2>1, OthersKeepFanOuts
  <1>8. ASSUME NEW i \in Invoices, ContinueWithoutContract(i) PROVE FanOuts'
    BY <1>8, WaiverFanOut
  <1> QED BY <1>2, <1>3, <1>4, <1>5, <1>6, <1>7, <1>8 DEF Next, FanOutStep, HumanStep

LEMMA SpecFanOuts == Spec => []FanOuts
  <1>1. Init => FanOuts
    <2> SUFFICES ASSUME Init PROVE FanOuts
      OBVIOUS
    <2>1. /\ \A c \in Contracts : event[c] = "none" /\ work[c].stage = "idle"
          /\ resumed = {} /\ \A c \in Contracts : owed[c] = {}
      BY JobNames DEF Init, NoWork
    <2> QED BY <2>1 DEF FanOuts, FanOut
  <1>2. Inv /\ FanOuts /\ [Next]_vars => FanOuts'
    <2>1. Inv /\ FanOuts /\ UNCHANGED vars => FanOuts'
      BY DocsConstant DEF vars, FanOuts, FanOut, Debt, Dealt, RequestedSince
    <2> QED BY <2>1, NextFanOuts
  <1> QED BY <1>1, <1>2, SpecInv, PTL DEF Spec

\* A fan-out reported done has dealt with every invoice that waited when the contract was
\* announced or the fan-out began: the ones whose command
\* was found committed after a crash, the ones another actor moved, and the ones whose
\* decision was stale or lost to a waiver, for which the whole fan-out runs again.  Only an
\* invoice whose contract is requested after the list may have been left, because the
\* conflict is reported as a stale no-op (Service.ProcessContractAvailable,
\* ResumeBlockedInvoice, Store.ApplyResumeDecision).
THEOREM FanOutIsComplete == Spec => FanOutMissesNone
  <1> DEFINE Complete(c) == event[c] = "available" /\ event'[c] = "done" =>
          \A i \in owed[c] :
             NoLongerFor(i, c) \/ (missing[i] = "WAITING" /\ i \notin work[c].asked)
  <1>1. ASSUME Inv, FanOuts, NEW c \in Contracts, FanOutDone(c) PROVE Complete(c)
    <2>1. /\ FanOut(c, work[c]) /\ work[c].stage = "listed" /\ work[c].todo = {}
          /\ work[c].inv = NoInvoice /\ owed[c] \subseteq Invoices
      BY <1>1, JobNames DEF FanOuts, FanOutDone, Inv, TypeOK, Works
    <2>2. event'[c] = "done" => ~work[c].again
      BY <1>1 DEF FanOutDone, Inv, TypeOK
    <2>3. event'[c] = "done" => \A i \in owed[c] : Dealt(i, c) \/ RequestedSince(i, work[c])
      BY <2>1, <2>2, IdAssumption DEF FanOut
    <2>4. ASSUME NEW i \in owed[c], Dealt(i, c) \/ RequestedSince(i, work[c])
          PROVE  NoLongerFor(i, c) \/ (missing[i] = "WAITING" /\ i \notin work[c].asked)
      <3>1. Sound(i)
        BY <1>1, <2>1 DEF Inv
      <3> QED BY <2>4, <3>1 DEF Dealt, Gone, NoLongerFor, RequestedSince, Sound
    <2> QED BY <2>3, <2>4
  <1>2. ASSUME Inv, NEW c \in Contracts, event[c] = "available", event'[c] = "done", [Next]_vars
        PROVE  FanOutDone(c)
    <2>1. event' # event
      BY <1>2
    <2>2. \/ \E d \in Contracts : RecordContractAvailable(d) \/ FanOutDone(d) \/ Redeliver(d) \/ CreateContract(d)
      BY <1>2, <2>1
         DEF Next, vars, MatchStep, MatchLoad, MatchCheck, ApplyMatchDecision, FanOutStep,
             ListBlockedInvoicesForContract, ResumeLoad, ResumeCheck, ApplyResumeDecision, Crash, HumanStep,
             ArchiveContract, DeleteMistakenContract, RequestMissingContract, ContinueWithoutContract,
             ConfirmContractMatch
    <2>3. PICK d \in Contracts : RecordContractAvailable(d) \/ FanOutDone(d) \/ Redeliver(d) \/ CreateContract(d)
      BY <2>2
    <2>4. d = c
      BY <1>2, <2>3 DEF RecordContractAvailable, FanOutDone, Redeliver, CreateContract, Inv, TypeOK
    <2> QED BY <1>2, <2>3, <2>4 DEF RecordContractAvailable, Redeliver, CreateContract, Inv, TypeOK
  <1>3. Inv /\ FanOuts /\ [Next]_vars => [\A c \in Contracts : Complete(c)]_vars
    BY <1>1, <1>2
  <1> QED BY <1>3, SpecInv, SpecFanOuts, PTL DEF Spec, FanOutMissesNone

----------------------------------------------------------------------------
(* Refinement: the life of the invoices.                                   *)

LEMMA Edges ==
  /\ {"DEDUPE_CHECKED", "AWAITING_MATCH_CONFIRM", "AWAITING_CONTRACT"}
       \subseteq Life!After("MATCHING", Life!Definitions)
  /\ "DEDUPE_CHECKED" \in Life!After("AWAITING_CONTRACT", Life!Definitions)
  /\ "DEDUPE_CHECKED" \in Life!After("AWAITING_MATCH_CONFIRM", Life!Definitions)
  /\ "AWAITING_MATCH_CONFIRM" \in Life!After("AWAITING_CONTRACT", Life!Corrections)
  /\ "MISSING_CONTRACT" \in Life!Awaitable
  <1>1. /\ {<<"MATCHING", "DEDUPE_CHECKED">>, <<"MATCHING", "AWAITING_MATCH_CONFIRM">>,
           <<"MATCHING", "AWAITING_CONTRACT">>, <<"AWAITING_CONTRACT", "DEDUPE_CHECKED">>,
           <<"AWAITING_MATCH_CONFIRM", "DEDUPE_CHECKED">>} \subseteq Life!Definitions
        /\ <<"AWAITING_CONTRACT", "AWAITING_MATCH_CONFIRM">> \in Life!Corrections
    BY DEF Life!Definitions, Life!Corrections
  <1> QED BY <1>1 DEF Life!After, Life!Awaitable

\* The active tasks with which an invoice enters the statuses of this component.
LEMMA EntryTasks ==
  /\ Life!TasksOf("MATCHING") = {} /\ Life!TasksOf("DEDUPE_CHECKED") = {}
  /\ Life!TasksOf("AWAITING_CONTRACT") = {Task("MISSING_CONTRACT", "OPEN")}
  /\ Life!TasksOf("AWAITING_MATCH_CONFIRM") = {Task("CONTRACT_MATCH", "OPEN")}
  <1> DEFINE B(s) == {x \in Life!Blockers : x[1] = s}
  <1>1. /\ B("MATCHING") = {} /\ B("DEDUPE_CHECKED") = {}
        /\ B("AWAITING_CONTRACT") = {<<"AWAITING_CONTRACT", "MISSING_CONTRACT">>}
        /\ B("AWAITING_MATCH_CONFIRM") = {<<"AWAITING_MATCH_CONFIRM", "CONTRACT_MATCH">>}
    BY DEF Life!Blockers
  <1>2. \A s : Life!TasksOf(s) = {Task(b[2], "OPEN") : b \in B(s)}
    BY DEF Life!TasksOf, Life!Task, Task
  <1> HIDE DEF B
  <1>3. /\ <<"AWAITING_CONTRACT", "MISSING_CONTRACT">>[2] = "MISSING_CONTRACT"
        /\ <<"AWAITING_MATCH_CONFIRM", "CONTRACT_MATCH">>[2] = "CONTRACT_MATCH"
    OBVIOUS
  <1> QED BY <1>1, <1>2, <1>3

\* The active tasks follow from the status, but for the status of the missing contract.
Shown(i) == CASE status[i] = "AWAITING_CONTRACT" -> {Task("MISSING_CONTRACT", missing[i])}
              [] status[i] = "AWAITING_MATCH_CONFIRM" -> {Task("CONTRACT_MATCH", "OPEN")}
              [] OTHER -> {}

Agree == \A i \in Invoices : ActiveTasks(i) = Shown(i)

LEMMA TasksShown == Inv => Agree
  <1> SUFFICES ASSUME Inv, NEW i \in Invoices PROVE ActiveTasks(i) = Shown(i)
    BY DEF Agree
  <1>1. Sound(i) /\ missing[i] \in {"none", "OPEN", "WAITING", "RESOLVED"}
        /\ confirm[i] \in {"none", "OPEN", "RESOLVED"}
    BY DEF Inv, TypeOK
  <1>2. CASE status[i] = "AWAITING_CONTRACT"
    <2>1. {missing[i]} \cap {"OPEN", "WAITING"} = {missing[i]} /\ {confirm[i]} \cap {"OPEN"} = {}
      BY <1>1, <1>2 DEF Sound
    <2> QED BY <1>2, <2>1 DEF ActiveTasks, Shown
  <1>3. CASE status[i] = "AWAITING_MATCH_CONFIRM"
    <2>1. {missing[i]} \cap {"OPEN", "WAITING"} = {} /\ {confirm[i]} \cap {"OPEN"} = {"OPEN"}
      BY <1>1, <1>3 DEF Sound
    <2> QED BY <1>3, <2>1 DEF ActiveTasks, Shown
  <1>4. CASE status[i] \notin {"AWAITING_CONTRACT", "AWAITING_MATCH_CONFIRM"}
    <2>1. {missing[i]} \cap {"OPEN", "WAITING"} = {} /\ {confirm[i]} \cap {"OPEN"} = {}
      BY <1>1, <1>4 DEF Sound
    <2> QED BY <1>4, <2>1 DEF ActiveTasks, Shown
  <1> QED BY <1>2, <1>3, <1>4

\* Before and after a step.
Exact == Agree /\ Agree'

LEMMA QuietStep ==
  ASSUME UNCHANGED <<status, missing, confirm>> PROVE UNCHANGED Life!vars
  BY DEF Life!vars, ActiveTasks

LEMMA EnterStep ==
  ASSUME Inv, Exact, NEW i \in Invoices, NEW s,
         s \in Life!After(status[i], Life!Definitions) \cup Life!After(status[i], Life!Corrections),
         status' = [status EXCEPT ![i] = s], Shown(i)' = Life!TasksOf(s),
         \A j \in Invoices \ {i} : missing'[j] = missing[j]
  PROVE  Life!Next
  <1>1. \A j \in Invoices \ {i} : status'[j] = status[j]
    BY DEF Inv, TypeOK
  <1>2. \A j \in Invoices \ {i} : ActiveTasks(j)' = ActiveTasks(j)
    BY <1>1 DEF Exact, Agree, Shown
  <1>3. [j \in Invoices |-> ActiveTasks(j)]' = [[j \in Invoices |-> ActiveTasks(j)] EXCEPT ![i] = Life!TasksOf(s)]
    BY <1>2 DEF Exact, Agree
  <1>4. Life!Enter(i, s)
    BY <1>3 DEF Life!Enter
  <1> QED BY <1>4 DEF Life!Next, Life!Transition, Life!Correct

LEMMA DecisionLife ==
  ASSUME Inv, Exact, NEW i \in Invoices, NEW t,
         t \in {"DEDUPE_CHECKED", "AWAITING_MATCH_CONFIRM", "AWAITING_CONTRACT"},
         \/ status[i] = "MATCHING"
         \/ status[i] \in {"AWAITING_CONTRACT", "AWAITING_MATCH_CONFIRM"} /\ t = "DEDUPE_CHECKED"
         \/ status[i] = "AWAITING_CONTRACT" /\ t = "AWAITING_MATCH_CONFIRM",
         status' = [status EXCEPT ![i] = t],
         t = "AWAITING_CONTRACT" => missing'[i] = "OPEN",
         \A j \in Invoices \ {i} : missing'[j] = missing[j]
  PROVE  Life!Next
  <1>1. status'[i] = t
    BY DEF Inv, TypeOK
  <1>2. Shown(i)' = Life!TasksOf(t)
    BY <1>1, EntryTasks DEF Shown
  <1>3. t \in Life!After(status[i], Life!Definitions) \cup Life!After(status[i], Life!Corrections)
    BY Edges
  <1> QED BY <1>2, <1>3, EnterStep

LEMMA MatchLife ==
  ASSUME Inv, Exact, NEW i \in Invoices, ApplyMatchDecision(i) PROVE Life!Next
  <1>1. i \in Jobs /\ WorkOK(i, work[i]) /\ work[i].stage = "checked"
    BY JobNames DEF Inv, ApplyMatchDecision
  <1>2. Holds(i)
    BY <1>1, JobNames DEF WorkOK, Holds, Holding
  <1>3. status[i] = "MATCHING"
    BY <1>1, <1>2 DEF Inv, Locks
  <1>4. PICK t : t = Target(i, work[i].seen)
    OBVIOUS
  <1>5. /\ status' = [status EXCEPT ![i] = t]
        /\ missing' = [missing EXCEPT ![i] = IF t = "AWAITING_CONTRACT" THEN "OPEN" ELSE @]
        /\ t \in {"DEDUPE_CHECKED", "AWAITING_MATCH_CONFIRM", "AWAITING_CONTRACT"}
    BY <1>4, Decides DEF ApplyMatchDecision
  <1>6. /\ t = "AWAITING_CONTRACT" => missing'[i] = "OPEN"
        /\ \A j \in Invoices \ {i} : missing'[j] = missing[j]
    BY <1>5 DEF Inv, TypeOK
  <1> QED BY <1>3, <1>5, <1>6, DecisionLife

\* A resume that finds no contract, or its task changed, changes neither invoice nor task.
LEMMA ResumeLife ==
  ASSUME Inv, Exact, NEW c \in Contracts, ApplyResumeDecision(c) PROVE Life!Next \/ UNCHANGED Life!vars
  <1>1. c \in Jobs /\ c \notin Invoices /\ WorkOK(c, work[c]) /\ work[c].stage = "checked"
    BY JobNames DEF Inv, ApplyResumeDecision
  <1>2. PICK i \in Invoices, seen \in SUBSET Contracts : i = work[c].inv /\ seen = work[c].seen
    BY <1>1 DEF WorkOK, Works
  <1>3. PICK t : t = Target(i, seen)
    OBVIOUS
  <1>7. CASE TaskMoved(i, work[c])
    BY <1>2, <1>7, QuietStep DEF ApplyResumeDecision, invoiceVars
  <1> SUFFICES ASSUME ~TaskMoved(i, work[c]) PROVE Life!Next \/ UNCHANGED Life!vars
    BY <1>7
  <1>4. /\ IF t = "AWAITING_CONTRACT" THEN UNCHANGED <<status, missing>>
           ELSE /\ status' = [status EXCEPT ![i] = t]
                /\ missing' = [missing EXCEPT ![i] = "RESOLVED"]
        /\ t \in {"DEDUPE_CHECKED", "AWAITING_MATCH_CONFIRM", "AWAITING_CONTRACT"}
        /\ confirm' = [confirm EXCEPT ![i] = IF Confirms(i, seen) THEN "OPEN" ELSE @]
        /\ Confirms(i, seen) <=> t = "AWAITING_MATCH_CONFIRM"
    BY <1>2, <1>3, Decides DEF ApplyResumeDecision, InsertDecision
  <1>5. CASE t = "AWAITING_CONTRACT"
    BY <1>4, <1>5, QuietStep DEF Inv, TypeOK
  <1>6. CASE t # "AWAITING_CONTRACT"
    <2>1. Holds(c)
      BY <1>1, <1>2, <1>3, <1>6 DEF Holds, Holding
    <2>2. status[i] = "AWAITING_CONTRACT"
      BY <1>1, <1>2, <2>1 DEF Inv, Locks, Waits
    <2>3. \A j \in Invoices \ {i} : missing'[j] = missing[j]
      BY <1>4, <1>6 DEF Inv, TypeOK
    <2> QED BY <1>4, <1>6, <2>2, <2>3, DecisionLife
  <1> QED BY <1>5, <1>6

LEMMA RequestLife ==
  ASSUME Inv, Exact, NEW i \in Invoices, RequestMissingContract(i) PROVE Life!Next
  <1>1. /\ status' = status /\ status[i] = "AWAITING_CONTRACT" /\ missing[i] = "OPEN"
        /\ missing'[i] = "WAITING" /\ \A j \in Invoices \ {i} : missing'[j] = missing[j]
    BY DEF RequestMissingContract, Inv, TypeOK
  <1>2. /\ ActiveTasks(i) = {Life!Task("MISSING_CONTRACT", "OPEN")}
        /\ ActiveTasks(i)' = {Life!Task("MISSING_CONTRACT", "WAITING")}
        /\ \A j \in Invoices \ {i} : ActiveTasks(j)' = ActiveTasks(j)
    BY <1>1 DEF Exact, Agree, Shown, Task, Life!Task
  <1>3. Life!Await(i)
    BY <1>1, <1>2, Edges DEF Life!Await
  <1> QED BY <1>3 DEF Life!Next

LEMMA WaiveLife ==
  ASSUME Inv, Exact, NEW i \in Invoices, ContinueWithoutContract(i) PROVE Life!Next
  <1>1. /\ status' = [status EXCEPT ![i] = "DEDUPE_CHECKED"] /\ status[i] = "AWAITING_CONTRACT"
        /\ \A j \in Invoices \ {i} : missing'[j] = missing[j]
    BY DEF ContinueWithoutContract, Waits, Inv, TypeOK
  <1> QED BY <1>1, DecisionLife

LEMMA ConfirmLife ==
  ASSUME Inv, Exact, NEW i \in Invoices, NEW c \in Contracts, ConfirmContractMatch(i, c) PROVE Life!Next
  <1>1. /\ status' = [status EXCEPT ![i] = "DEDUPE_CHECKED"] /\ status[i] = "AWAITING_MATCH_CONFIRM"
        /\ missing' = missing
    BY DEF ConfirmContractMatch
  <1> QED BY <1>1, DecisionLife

\* Every step of the matching is a step of the declared life of the invoices, tasks
\* included, or shows in neither: whatever a matching job, the fan-outs of several
\* contracts and the accountant do to an invoice at once, its status and its task change
\* together and along a declared edge (ApplyMatchDecision, ApplyResumeDecision and
\* task_store.go write both without consulting the table).
THEOREM Refinement == Spec => ImplementsLifecycle
  <1>1. Init => Life!Init
    <2> SUFFICES ASSUME Init PROVE Life!Init
      OBVIOUS
    <2>1. \A i \in Invoices : ActiveTasks(i) = {}
      BY DEF Init, ActiveTasks
    <2> QED BY <2>1, EntryTasks DEF Init, Life!Init
  <1>2. Inv' => Agree'
    BY TasksShown, PTL
  <1>3. Inv /\ Inv' /\ [Next]_vars => [Life!Next]_(Life!vars)
    <2> SUFFICES ASSUME Inv, Inv', [Next]_vars PROVE [Life!Next]_(Life!vars)
      OBVIOUS
    <2>1. Exact
      BY <1>2, TasksShown DEF Exact
    <2> USE <2>1
    <2>2. CASE \E i \in Invoices : MatchStep(i)
      BY <2>2, QuietStep, MatchLife DEF MatchStep, MatchLoad, MatchCheck, invoiceVars
    <2>3. CASE \E c \in Contracts : FanOutStep(c) \/ Redeliver(c)
      BY <2>3, QuietStep, ResumeLife
         DEF FanOutStep, Redeliver, RecordContractAvailable, ListBlockedInvoicesForContract,
             ResumeLoad, ResumeCheck, FanOutDone, invoiceVars
    <2>4. CASE \E k \in Jobs : Crash(k)
      BY <2>4, QuietStep DEF Crash, invoiceVars
    <2>5. CASE HumanStep
      BY <2>5, QuietStep, RequestLife, WaiveLife, ConfirmLife
         DEF HumanStep, CreateContract, ArchiveContract, DeleteMistakenContract, invoiceVars
    <2>6. CASE UNCHANGED vars
      BY <2>6, QuietStep DEF vars
    <2> QED BY <2>2, <2>3, <2>4, <2>5, <2>6 DEF Next
  <1> QED BY <1>1, <1>3, SpecInv, PTL DEF Spec, ImplementsLifecycle, Life!Spec
=============================================================================

-------------------------- MODULE SpvIngestionProofs --------------------------
(***************************************************************************)
(* Proofs about SpvIngestion, for every set of deliveries, workers and     *)
(* bounds.  None of the invariants is inductive: a duplicate must still    *)
(* have its canonical invoice when it is written (Sourced keeps what the   *)
(* lookup saw), a refresh that ends after a disconnect must not meet the   *)
(* revision it read (Revisions), and a permanent failure must not meet an  *)
(* invoice made under a claim of someone else (Guarded, which needs owners *)
(* to be distinct).                                                        *)
(***************************************************************************)
EXTENDS SpvIngestion, FiniteSetTheorems, TLAPS

Stages == {"idle", "refresh", "save", "refused", "ready", "publish", "stored",
           "insert", "ingested", "transient", "permanent"}
ConnRec == [status : {"ACTIVE", "EXPIRED", "REVOKED"}, tokens : BOOLEAN, fresh : BOOLEAN,
            accepted : BOOLEAN, rev : Nat]
DocRec == [status : {"none", "DISCOVERED", "PROCESSING", "DOWNLOADED", "PROCESSED",
                     "FAILED_TRANSIENT", "FAILED_PERMANENT"},
           raw : BOOLEAN, owner : {Owner[w] : w \in Workers} \cup {""}, due : BOOLEAN]
WorkRec == [stage : Stages, todo : SUBSET Docs, rev : Nat, canonical : BOOLEAN]

\* Nobody shares the text of its claims with another worker.
DistinctOwners == \A v, w \in Workers : Owner[v] = Owner[w] => v = w

Shapes == /\ good \subseteq Docs
          /\ conn \in ConnRec
          /\ wanted \in BOOLEAN
          /\ doc \in [Docs -> DocRec]
          /\ jobs \subseteq Docs
          /\ invoice \in [Docs -> {"none", "CANONICAL", "DUPLICATE"}]
          /\ work \in [Actors -> WorkRec]
          /\ \A w \in Workers : work[w].stage # "idle" => \E d \in Docs : work[w].todo = {d}

\* A refresh under way read a revision that the connection had, before the disconnect.
Revisions == \A p \in Actors : work[p].stage \in {"refresh", "save"} =>
                /\ work[p].rev <= conn.rev
                /\ ~wanted => work[p].rev # conn.rev

\* What a worker past the download relies on, and what every invoice has.
Sourced == /\ \A w \in Workers, d \in Docs : work[w].todo = {d} =>
                 /\ work[w].stage \in {"stored", "insert", "ingested"} => doc[d].raw
                 /\ work[w].stage = "insert" => d \in good /\ (work[w].canonical => Canonical(d))
                 /\ work[w].stage = "ingested" => invoice[d] # "none"
           /\ \A d \in Docs : invoice[d] # "none" => doc[d].raw /\ d \in good /\ Canonical(d)
           /\ \A d \in Docs : doc[d].status = "PROCESSED" => invoice[d] # "none"
           /\ \A d, e \in Docs :
                 invoice[d] = "CANONICAL" /\ invoice[e] = "CANONICAL" =>
                    (Identity[d] = Identity[e] => d = e)

\* Only a document without payload, or one nobody could import, fails for good.
Guarded == /\ \A w \in Workers, d \in Docs : work[w].todo = {d} /\ Holds(w, d) =>
                 /\ work[w].stage \in {"refresh", "save", "refused", "ready"} => ~doc[d].raw
                 /\ work[w].stage = "permanent" => ~doc[d].raw \/ d \notin good
           /\ \A d \in Docs : doc[d].status = "FAILED_PERMANENT" => ~doc[d].raw \/ d \notin good

Inv == Shapes /\ Revisions /\ DisconnectHolds /\ Sourced /\ (DistinctOwners => Guarded)

----------------------------------------------------------------------------
LEMMA IdleRec == Idle \in WorkRec /\ Idle.stage = "idle" /\ Idle.todo = {}
  BY DEF Idle, At, WorkRec, Stages

LEMMA ItemIs == ASSUME NEW p, NEW d \in Docs, work[p].todo = {d} PROVE Item(p) = d
  BY DEF Item

LEMMA InitInv == Init => Inv
  <1> SUFFICES ASSUME Init PROVE Inv
    OBVIOUS
  <1> USE DEF Init
  <1>1. \A p \in Actors : work[p] = Idle
    OBVIOUS
  <1>2. Shapes
    <2>1. conn \in ConnRec
      <3>1. PICK f, a \in BOOLEAN : conn = [status |-> "ACTIVE", tokens |-> TRUE, fresh |-> f,
                                            accepted |-> a, rev |-> 1]
        OBVIOUS
      <3> QED BY <3>1 DEF ConnRec
    <2>2. doc \in [Docs -> DocRec]
      BY DEF DocRec
    <2>3. work \in [Actors -> WorkRec]
      BY IdleRec
    <2> QED BY <1>1, <2>1, <2>2, <2>3, IdleRec, DocsAssumption DEF Shapes, Actors
  <1>3. Revisions /\ DisconnectHolds
    BY <1>1, IdleRec DEF Revisions, DisconnectHolds
  <1>4. Sourced
    <2>1. \A w \in Workers, d \in Docs : work[w].todo # {d}
      BY <1>1, IdleRec DEF Actors
    <2>2. \A d \in Docs : invoice[d] = "none" /\ doc[d].status = "none"
      OBVIOUS
    <2> HIDE DEF Init
    <2>3. \A d \in Docs : invoice[d] # "CANONICAL" /\ doc[d].status # "PROCESSED"
      BY <2>2
    <2> QED BY <2>1, <2>2, <2>3 DEF Sourced
  <1>5. Guarded
    BY <1>1, IdleRec DEF Guarded, Actors
  <1> QED BY <1>2, <1>3, <1>4, <1>5 DEF Inv

\* The next step of p in memory.
LEMMA GoesWork ==
  ASSUME Shapes, NEW p \in Actors, NEW s \in Stages, Goes(p, s)
  PROVE  /\ work'[p].stage = s /\ work'[p].todo = work[p].todo /\ work'[p].canonical = FALSE
         /\ s \in {"refresh", "save", "ready"} => work'[p].rev = work[p].rev
         /\ \A q \in Actors : q # p => work'[q] = work[q]
         /\ work' \in [Actors -> WorkRec]
  <1>1. work[p] \in WorkRec
    BY DEF Shapes
  <1> DEFINE r == IF s \in {"refresh", "save", "ready"} THEN work[p].rev ELSE 0
  <1>2. r \in Nat /\ work[p].todo \in SUBSET Docs
    BY <1>1 DEF WorkRec
  <1>3. work' = [work EXCEPT ![p] = At(s, work[p].todo, r)]
    BY DEF Goes
  <1> DEFINE next == At(s, work[p].todo, r)
  <1>4. /\ next \in WorkRec /\ next.stage = s /\ next.todo = work[p].todo
        /\ next.rev = r /\ next.canonical = FALSE
    BY <1>2 DEF At, WorkRec
  <1> HIDE DEF next
  <1>5. work' = [work EXCEPT ![p] = next]
    BY <1>3 DEF next
  <1> QED BY <1>4, <1>5 DEF Shapes

\* A process that is let go relies on nothing.
LEMMA ReleaseWork ==
  ASSUME Shapes, NEW p \in Actors, Release(p)
  PROVE  /\ work'[p] = Idle
         /\ \A q \in Actors : q # p => work'[q] = work[q]
         /\ work' \in [Actors -> WorkRec]
  BY IdleRec DEF Release, Shapes

LEMMA WorkersAct == \A w \in Workers : w \in Actors /\ w # "sync"
  BY DocsAssumption DEF Actors

----------------------------------------------------------------------------
Early == {"refresh", "save", "refused", "ready"}

\* p lets go of its work, fails for now, or goes on with its credentials.
Quiet(p) == /\ work' \in [Actors -> WorkRec]
            /\ \A q \in Actors : q # p => work'[q] = work[q]
            /\ p \in Workers =>
                 \/ work'[p] = Idle
                 \/ /\ work[p].stage # "idle" /\ work'[p].todo = work[p].todo
                    /\ \/ work'[p].stage = "transient"
                       \/ work[p].stage \in Early /\ work'[p].stage \in Early \cup {"permanent"}

\* Such a step says nothing new of documents and invoices.
LEMMA QuietKeeps ==
  ASSUME Inv, NEW p \in Actors, Quiet(p), UNCHANGED <<good, doc, invoice>>
  PROVE  /\ Sourced' /\ (DistinctOwners => Guarded')
         /\ \A w \in Workers : work'[w].stage # "idle" => \E d \in Docs : work'[w].todo = {d}
  <1> USE DEF Inv, Quiet, Early
  <1>1. \A w \in Workers : w # p => work'[w] = work[w]
    BY WorkersAct
  <1>2. Sourced'
    <2>1. \A d \in Docs : Canonical(d) => Canonical(d)'
      BY DEF Canonical
    <2> QED BY <1>1, <2>1, IdleRec DEF Sourced
  <1>3. ASSUME DistinctOwners PROVE Guarded'
    BY <1>1, <1>3, IdleRec DEF Guarded, Holds
  <1>4. \A w \in Workers : work'[w].stage # "idle" => \E d \in Docs : work'[w].todo = {d}
    BY <1>1, IdleRec DEF Shapes
  <1> QED BY <1>2, <1>3, <1>4

LEMMA HumansKeepInv ==
  ASSUME Inv, Disconnect \/ Reauthorise \/ TokenExpires
  PROVE  Inv'
  <1> USE DEF Inv
  <1>0. /\ conn.rev \in Nat
        /\ \A p \in Actors : work[p].rev \in Nat
        /\ UNCHANGED <<good, doc, jobs, invoice, work>>
    BY DEF Shapes, ConnRec, WorkRec, Disconnect, Reauthorise, TokenExpires
  <1>1. Sourced'
    BY <1>0 DEF Sourced, Canonical
  <1>2. DistinctOwners => Guarded'
    BY <1>0 DEF Guarded, Holds
  <1>3. CASE Disconnect
    <2>1. /\ conn' = [status |-> "REVOKED", tokens |-> FALSE, fresh |-> FALSE,
                      accepted |-> FALSE, rev |-> conn.rev + 1]
          /\ wanted' = FALSE
      BY <1>3 DEF Disconnect
    <2>2. conn' \in ConnRec /\ conn'.rev = conn.rev + 1 /\ DisconnectHolds'
      BY <1>0, <2>1 DEF ConnRec, DisconnectHolds
    <2>3. Shapes'
      BY <1>0, <2>1, <2>2 DEF Shapes
    <2>4. Revisions'
      BY <1>0, <2>2 DEF Revisions
    <2> QED BY <1>1, <1>2, <2>2, <2>3, <2>4
  <1>4. CASE Reauthorise
    <2>1. /\ conn' = [status |-> "ACTIVE", tokens |-> TRUE, fresh |-> TRUE,
                      accepted |-> TRUE, rev |-> conn.rev + 1]
          /\ wanted' = TRUE
      BY <1>4 DEF Reauthorise
    <2>2. conn' \in ConnRec /\ conn'.rev = conn.rev + 1 /\ DisconnectHolds'
      BY <1>0, <2>1 DEF ConnRec, DisconnectHolds
    <2>3. Shapes'
      BY <1>0, <2>1, <2>2 DEF Shapes
    <2>4. Revisions'
      BY <1>0, <2>1, <2>2 DEF Revisions
    <2> QED BY <1>1, <1>2, <2>2, <2>3, <2>4
  <1>5. CASE TokenExpires
    <2>1. /\ conn' \in ConnRec /\ conn'.rev = conn.rev
          /\ conn'.status = conn.status /\ conn'.tokens = conn.tokens
          /\ wanted' = wanted
      BY <1>5 DEF TokenExpires, Shapes, ConnRec
    <2>2. Shapes'
      BY <1>0, <2>1 DEF Shapes
    <2>3. Revisions' /\ DisconnectHolds'
      BY <1>0, <2>1 DEF Revisions, DisconnectHolds
    <2> QED BY <1>1, <1>2, <2>2, <2>3
  <1> QED BY <1>3, <1>4, <1>5

\* A refresh under way reads, asks ANAF, saves under the revision it read.
LEMMA TokenKeepsInv ==
  ASSUME Inv, NEW p \in Actors, Token(p)
  PROVE  Inv'
  <1> USE DEF Inv
  <1>0. /\ conn \in ConnRec /\ conn.rev \in Nat
        /\ work[p] \in WorkRec /\ work[p].rev \in Nat
        /\ UNCHANGED <<good, wanted, doc, jobs, invoice>>
        /\ "save" \in Stages /\ "refused" \in Stages /\ "transient" \in Stages
        /\ "permanent" \in Stages /\ "ready" \in Stages
    BY DEF Shapes, ConnRec, WorkRec, Token, Refresh, SaveTokens, MarkExpired, Rejected, Stages
  <1>q. ASSUME Quiet(p), conn' \in ConnRec, Revisions', DisconnectHolds' PROVE Inv'
    <2>1. Shapes'
      BY <1>0, <1>q, QuietKeeps DEF Shapes, Quiet
    <2> QED BY <1>0, <1>q, <2>1, QuietKeeps
  <1>1. CASE Refresh(p)
    <2>1. PICK s \in {"save", "refused"} : Goes(p, s)
      BY <1>1 DEF Refresh
    <2>2. /\ work'[p].stage = s /\ work'[p].todo = work[p].todo
          /\ s = "save" => work'[p].rev = work[p].rev
          /\ \A q \in Actors : q # p => work'[q] = work[q]
          /\ work' \in [Actors -> WorkRec]
      BY <1>0, <2>1, GoesWork
    <2>3. Quiet(p)
      BY <1>1, <2>2 DEF Refresh, Quiet, Early
    <2>4. /\ conn' \in ConnRec /\ conn'.rev = conn.rev
          /\ conn'.status = conn.status /\ conn'.tokens = conn.tokens
      BY <1>0, <1>1 DEF Refresh, ConnRec
    <2>5. Revisions'
      BY <1>0, <1>1, <2>2, <2>4 DEF Revisions, Refresh
    <2>6. DisconnectHolds'
      BY <1>0, <2>4 DEF DisconnectHolds
    <2> QED BY <1>q, <2>3, <2>4, <2>5, <2>6
  <1>2. CASE SaveTokens(p)
    <2>1. CASE work[p].rev = conn.rev
      <3>1. conn' = [status |-> "ACTIVE", tokens |-> TRUE, fresh |-> TRUE,
                     accepted |-> TRUE, rev |-> conn.rev + 1]
        BY <1>2, <2>1 DEF SaveTokens
      <3>2. conn' \in ConnRec /\ conn'.rev = conn.rev + 1
        BY <1>0, <3>1 DEF ConnRec
      <3>3. /\ work' \in [Actors -> WorkRec]
            /\ \A q \in Actors : q # p => work'[q] = work[q]
            /\ work'[p].stage = "ready" /\ work'[p].todo = work[p].todo
        <4>1. work' = [work EXCEPT ![p] = At("ready", work[p].todo, conn.rev + 1)]
          BY <1>2, <2>1 DEF SaveTokens
        <4>2. conn.rev + 1 \in Nat /\ work[p].todo \in SUBSET Docs
          BY <1>0 DEF WorkRec
        <4> DEFINE next == At("ready", work[p].todo, conn.rev + 1)
        <4>3. next \in WorkRec /\ next.stage = "ready" /\ next.todo = work[p].todo
          BY <1>0, <4>2 DEF At, WorkRec
        <4> HIDE DEF next
        <4>4. work' = [work EXCEPT ![p] = next]
          BY <4>1 DEF next
        <4> QED BY <4>3, <4>4 DEF Shapes
      <3>5. Quiet(p)
        BY <1>2, <3>3 DEF SaveTokens, Quiet, Early
      <3>6. wanted
        BY <1>2, <2>1 DEF SaveTokens, Revisions, Shapes
      <3>7. \A q \in Actors : work[q].rev \in Nat
        BY DEF Shapes, WorkRec
      <3>8. Revisions'
        BY <1>0, <3>2, <3>3, <3>6, <3>7 DEF Revisions
      <3>9. DisconnectHolds'
        BY <1>0, <3>6 DEF DisconnectHolds
      <3> QED BY <1>q, <3>2, <3>5, <3>8, <3>9
    <2>2. CASE work[p].rev # conn.rev
      <3>1. conn' = conn /\ Goes(p, "transient")
        BY <1>2, <2>2 DEF SaveTokens
      <3>2. /\ work'[p].stage = "transient" /\ work'[p].todo = work[p].todo
            /\ \A q \in Actors : q # p => work'[q] = work[q]
            /\ work' \in [Actors -> WorkRec]
        BY <1>0, <3>1, GoesWork
      <3>3. Quiet(p)
        BY <1>2, <3>2 DEF SaveTokens, Quiet
      <3>4. Revisions' /\ DisconnectHolds'
        BY <1>0, <3>1, <3>2 DEF Revisions, DisconnectHolds
      <3> QED BY <1>0, <1>q, <3>1, <3>3, <3>4
    <2> QED BY <2>1, <2>2
  <1>3. CASE MarkExpired(p) \/ Rejected(p)
    <2>1. Goes(p, "permanent") /\ work[p].stage \in {"refused", "ready"}
      BY <1>3 DEF MarkExpired, Rejected
    <2>2. /\ work'[p].stage = "permanent" /\ work'[p].todo = work[p].todo
          /\ \A q \in Actors : q # p => work'[q] = work[q]
          /\ work' \in [Actors -> WorkRec]
      BY <1>0, <2>1, GoesWork
    <2>3. Quiet(p)
      BY <2>1, <2>2 DEF Quiet, Early
    <2>4. /\ conn' \in ConnRec /\ conn'.rev = conn.rev /\ conn'.tokens = conn.tokens
          /\ conn'.status \in {conn.status, "EXPIRED"}
      BY <1>0, <1>3 DEF MarkExpired, Rejected, ConnRec
    <2>5. Revisions' /\ DisconnectHolds'
      BY <1>0, <2>2, <2>4 DEF Revisions, DisconnectHolds
    <2> QED BY <1>q, <2>3, <2>4, <2>5
  <1> QED BY <1>1, <1>2, <1>3 DEF Token

\* Nobody can go on or give up without having read something new.
LEMMA FaultsKeepInv ==
  ASSUME Inv, NEW p \in Actors, TransientError(p) \/ Crash(p)
  PROVE  Inv'
  <1> USE DEF Inv
  <1>0. UNCHANGED <<good, conn, wanted, doc, invoice>> /\ "transient" \in Stages
    BY DEF TransientError, Crash, Stages
  <1>1. /\ Quiet(p) /\ work'[p].stage \notin {"refresh", "save"}
        /\ jobs' \subseteq Docs
    <2>1. CASE TransientError(p)
      <3>1. Goes(p, "transient") /\ work[p].stage # "idle" /\ jobs' = jobs
        BY <2>1 DEF TransientError
      <3>2. /\ work'[p].stage = "transient" /\ work'[p].todo = work[p].todo
            /\ \A q \in Actors : q # p => work'[q] = work[q]
            /\ work' \in [Actors -> WorkRec]
        BY <1>0, <3>1, GoesWork
      <3> QED BY <3>1, <3>2 DEF Quiet, Shapes
    <2>2. CASE Crash(p)
      <3>1. Release(p) /\ jobs' \subseteq jobs \cup work[p].todo
        BY <2>2 DEF Crash, Retried
      <3>2. /\ work'[p] = Idle
            /\ \A q \in Actors : q # p => work'[q] = work[q]
            /\ work' \in [Actors -> WorkRec]
        BY <3>1, ReleaseWork
      <3>3. work[p].todo \subseteq Docs
        BY DEF Shapes, WorkRec
      <3> QED BY <3>1, <3>2, <3>3, IdleRec DEF Quiet, Shapes
    <2> QED BY <2>1, <2>2
  <1>2. Shapes'
    BY <1>0, <1>1, QuietKeeps DEF Shapes, Quiet
  <1>3. Revisions'
    BY <1>0, <1>1 DEF Revisions, Quiet
  <1>4. DisconnectHolds'
    BY <1>0 DEF DisconnectHolds
  <1> QED BY <1>0, <1>1, <1>2, <1>3, <1>4, QuietKeeps

\* A synchronisation reads the connection while it is active, so before a disconnect.
LEMMA SyncKeepsInv ==
  ASSUME Inv, SyncStart \/ List \/ Publish \/ SyncEnd
  PROVE  Inv'
  <1> USE DEF Inv
  <1>0. /\ UNCHANGED <<good, conn, wanted, invoice>>
        /\ conn.rev \in Nat /\ "sync" \in Actors /\ \A w \in Workers : w # "sync"
        /\ \A d \in Docs : doc'[d].raw = doc[d].raw /\ doc'[d].owner = doc[d].owner
        /\ \A d \in Docs : \/ doc'[d].status = doc[d].status
                           \/ doc'[d].status = "DISCOVERED"
        /\ doc' \in [Docs -> DocRec]
    <2>1. /\ UNCHANGED <<good, conn, wanted, invoice>>
          /\ conn.rev \in Nat /\ "sync" \in Actors /\ \A w \in Workers : w # "sync"
      BY WorkersAct DEF SyncStart, List, Publish, SyncEnd, Shapes, ConnRec, Actors
    <2>2. CASE List
      <3>1. doc' = [d \in Docs |-> IF doc[d].status = "none"
                                   THEN [doc[d] EXCEPT !.status = "DISCOVERED"] ELSE doc[d]]
        BY <2>2 DEF List
      <3>2. \A d \in Docs : /\ doc[d] \in DocRec
                            /\ [doc[d] EXCEPT !.status = "DISCOVERED"] \in DocRec
        BY DEF Shapes, DocRec
      <3> QED BY <2>1, <3>1, <3>2 DEF DocRec
    <2>3. CASE ~List
      BY <2>1, <2>3 DEF SyncStart, Publish, SyncEnd, Shapes
    <2> QED BY <2>2, <2>3
  <1>1. /\ work' \in [Actors -> WorkRec]
        /\ \A w \in Workers : work'[w] = work[w]
        /\ work'["sync"].stage \in {"refresh", "save"} =>
              work'["sync"].rev = conn.rev /\ conn.tokens
    <2>1. CASE SyncStart
      <3> DEFINE next == At(FirstStage, {}, conn.rev)
      <3>1. FirstStage \in Stages /\ (FirstStage = "refresh" => conn.tokens) /\ FirstStage # "save"
        BY DEF FirstStage, Stages
      <3>2. /\ next \in WorkRec /\ next.stage = FirstStage /\ next.rev = conn.rev
        BY <1>0, <3>1 DEF At, WorkRec
      <3> HIDE DEF next
      <3>3. work' = [work EXCEPT !["sync"] = next]
        BY <2>1 DEF SyncStart, next
      <3> QED BY <1>0, <3>1, <3>2, <3>3, WorkersAct DEF Shapes
    <2>2. CASE List
      <3> DEFINE next == At("publish", {d \in Docs : doc[d].status \notin Settled}, 0)
      <3>1. next \in WorkRec /\ next.stage = "publish"
        BY DEF At, WorkRec, Stages
      <3> HIDE DEF next
      <3>2. work' = [work EXCEPT !["sync"] = next]
        BY <2>2 DEF List, next
      <3> QED BY <1>0, <3>1, <3>2, WorkersAct DEF Shapes
    <2>3. CASE Publish \/ SyncEnd
      <3>1. work' = [work EXCEPT !["sync"] = Idle]
        BY <2>3 DEF Publish, SyncEnd
      <3> QED BY <1>0, <3>1, IdleRec, WorkersAct DEF Shapes
    <2> QED BY <2>1, <2>2, <2>3
  <1>2. jobs' \subseteq Docs
    <2>1. work["sync"].todo \subseteq Docs
      BY <1>0 DEF Shapes, WorkRec
    <2> QED BY <2>1 DEF SyncStart, List, Publish, SyncEnd, Shapes
  <1>3. Shapes'
    BY <1>0, <1>1, <1>2 DEF Shapes
  <1>4. Revisions'
    <2>1. \A p \in Actors : p = "sync" \/ p \in Workers
      BY DEF Actors
    <2>2. conn.tokens => wanted
      BY DEF DisconnectHolds, Shapes
    <2> QED BY <1>0, <1>1, <2>1, <2>2, WorkersAct DEF Revisions
  <1>5. DisconnectHolds'
    BY <1>0 DEF DisconnectHolds
  <1>6. Sourced'
    BY <1>0, <1>1 DEF Sourced, Canonical
  <1>7. ASSUME DistinctOwners PROVE Guarded'
    BY <1>0, <1>1, <1>7 DEF Guarded, Holds
  <1> QED BY <1>3, <1>4, <1>5, <1>6, <1>7

LEMMA DueKeepsInv ==
  ASSUME Inv, NEW d \in Docs, Due(d)
  PROVE  Inv'
  <1> USE DEF Inv
  <1>1. /\ UNCHANGED <<good, conn, wanted, jobs, invoice, work>>
        /\ doc' = [doc EXCEPT ![d].due = TRUE]
    BY DEF Due
  <1>2. doc[d] \in DocRec
    BY DEF Shapes
  <1>3. [doc[d] EXCEPT !.due = TRUE] \in DocRec
    BY <1>2 DEF DocRec
  <1>4. doc' \in [Docs -> DocRec]
    BY <1>1, <1>3 DEF Shapes
  <1>5. \A e \in Docs : /\ doc'[e].raw = doc[e].raw /\ doc'[e].owner = doc[e].owner
                        /\ doc'[e].status = doc[e].status
    BY <1>1, <1>2 DEF Shapes, DocRec
  <1>6. Shapes'
    BY <1>1, <1>4 DEF Shapes
  <1>7. Revisions' /\ DisconnectHolds'
    BY <1>1 DEF Revisions, DisconnectHolds
  <1>8. Sourced'
    BY <1>1, <1>5 DEF Sourced, Canonical
  <1>9. ASSUME DistinctOwners PROVE Guarded'
    BY <1>1, <1>5, <1>9 DEF Guarded, Holds
  <1> QED BY <1>6, <1>7, <1>8, <1>9

\* A claim takes the document from whoever held it: nobody else holds it after.
LEMMA ClaimKeepsInv ==
  ASSUME Inv, NEW w \in Workers, NEW d \in Docs, Claim(w, d)
  PROVE  Inv'
  <1> USE DEF Inv
  <1>0. /\ UNCHANGED <<good, conn, wanted, invoice>> /\ jobs' = jobs \ {d}
        /\ w \in Actors /\ conn.rev \in Nat /\ doc[d] \in DocRec
        /\ work[w].stage = "idle"
    BY WorkersAct DEF Claim, Shapes, ConnRec, Busy
  <1>1. CASE ~Claimable(d)
    <2>1. doc' = doc /\ work' = work
      BY <1>1 DEF Claim
    <2>2. Shapes'
      BY <1>0, <2>1 DEF Shapes
    <2>3. Revisions' /\ DisconnectHolds' /\ Sourced'
      BY <1>0, <2>1 DEF Revisions, DisconnectHolds, Sourced, Canonical
    <2>4. ASSUME DistinctOwners PROVE Guarded'
      BY <1>0, <2>1, <2>4 DEF Guarded, Holds
    <2> QED BY <2>2, <2>3, <2>4
  <1>2. CASE Claimable(d)
    <2> DEFINE row == [doc[d] EXCEPT !.status = "PROCESSING", !.owner = Owner[w], !.due = FALSE]
               next == IF doc[d].raw THEN At("stored", {d}, 0) ELSE At(FirstStage, {d}, conn.rev)
    <2>1. /\ row \in DocRec /\ row.raw = doc[d].raw /\ row.owner = Owner[w]
          /\ row.status = "PROCESSING"
      BY <1>0 DEF DocRec
    <2>2. FirstStage \in {"permanent", "ready", "refresh"} /\ (FirstStage = "refresh" => conn.tokens)
      BY DEF FirstStage
    <2>3. /\ next \in WorkRec /\ next.todo = {d} /\ next.canonical = FALSE
          /\ doc[d].raw => next.stage = "stored"
          /\ ~doc[d].raw => next.stage = FirstStage /\ next.rev = conn.rev
      BY <1>0, <2>2 DEF At, WorkRec, Stages
    <2>4. doc' = [doc EXCEPT ![d] = row] /\ work' = [work EXCEPT ![w] = next]
      BY <1>2 DEF Claim
    <2> HIDE DEF row, next
    <2>5. /\ doc' \in [Docs -> DocRec] /\ doc'[d] = row
          /\ \A e \in Docs : e # d => doc'[e] = doc[e]
          /\ work' \in [Actors -> WorkRec] /\ work'[w] = next
          /\ \A q \in Actors : q # w => work'[q] = work[q]
      BY <1>0, <2>1, <2>3, <2>4 DEF Shapes
    <2>6. \A e \in Docs : doc'[e].raw = doc[e].raw
      BY <2>1, <2>5
    <2>7. \A v \in Workers, e \in Docs : v # w /\ work'[v].todo = {e} =>
              work'[v] = work[v] /\ work[v].todo = {e}
      BY <2>5, WorkersAct
    <2>8. \A e \in Docs : work'[w].todo = {e} => e = d
      BY <2>3, <2>5
    <2>9. Shapes'
      BY <1>0, <2>3, <2>5, WorkersAct DEF Shapes
    <2>10. Revisions'
      <3>1. conn.tokens => wanted
        BY DEF DisconnectHolds, Shapes
      <3> QED BY <1>0, <2>2, <2>3, <2>5, <3>1 DEF Revisions
    <2>11. DisconnectHolds'
      BY <1>0 DEF DisconnectHolds
    <2>12. Sourced'
      <3>1. \A e \in Docs : doc'[e].status = "PROCESSED" => doc[e].status = "PROCESSED"
        BY <2>1, <2>5
      <3>2. \A e \in Docs : Canonical(e)' = Canonical(e)
        BY <1>0 DEF Canonical
      <3>3. work'[w].stage \in {"stored", "insert", "ingested"} =>
               work'[w].stage = "stored" /\ doc[d].raw
        BY <2>2, <2>3, <2>5
      <3> QED BY <1>0, <2>6, <2>7, <2>8, <3>1, <3>2, <3>3 DEF Sourced
    <2>13. ASSUME DistinctOwners PROVE Guarded'
      <3>1. \A v \in Workers, e \in Docs : v # w /\ Holds(v, e)' => e # d /\ Holds(v, e)
        BY <2>1, <2>5, <2>13 DEF Holds, DistinctOwners
      <3>2. \A e \in Docs : doc'[e].status = "FAILED_PERMANENT" => doc[e].status = "FAILED_PERMANENT"
        BY <2>1, <2>5
      <3>3. work'[w].stage \in {"refresh", "save", "refused", "ready", "permanent"} => ~doc[d].raw
        BY <2>2, <2>3, <2>5
      <3> QED BY <1>0, <2>6, <2>7, <2>8, <2>13, <3>1, <3>2, <3>3 DEF Guarded
    <2> QED BY <2>9, <2>10, <2>11, <2>12, <2>13
  <1> QED BY <1>1, <1>2

\* The payload is written under the claim: nobody else is still before the download.
LEMMA StoreRawKeepsInv ==
  ASSUME Inv, NEW w \in Workers, StoreRaw(w)
  PROVE  Inv'
  <1> USE DEF Inv
  <1>0. /\ UNCHANGED <<good, conn, wanted, jobs, invoice>>
        /\ w \in Actors /\ work[w].stage = "ready"
        /\ "stored" \in Stages /\ "transient" \in Stages
    BY WorkersAct DEF StoreRaw, Stages
  <1>d. PICK d \in Docs : work[w].todo = {d}
    BY <1>0 DEF Shapes
  <1>i. Item(w) = d
    BY <1>d, ItemIs
  <1>1. CASE ~(Holds(w, d) /\ doc[d].status = "PROCESSING" /\ ~doc[d].raw)
    <2>1. doc' = doc /\ Goes(w, "transient")
      BY <1>1, <1>i DEF StoreRaw
    <2>2. /\ work'[w].stage = "transient" /\ work'[w].todo = work[w].todo
          /\ \A q \in Actors : q # w => work'[q] = work[q]
          /\ work' \in [Actors -> WorkRec]
      BY <1>0, <2>1, GoesWork
    <2>3. Quiet(w)
      BY <1>0, <2>2 DEF Quiet
    <2>4. Shapes'
      BY <1>0, <2>1, <2>2, <2>3, QuietKeeps DEF Shapes
    <2>5. Revisions' /\ DisconnectHolds'
      BY <1>0, <2>2 DEF Revisions, DisconnectHolds
    <2> QED BY <1>0, <2>1, <2>3, <2>4, <2>5, QuietKeeps
  <1>2. CASE Holds(w, d) /\ doc[d].status = "PROCESSING" /\ ~doc[d].raw
    <2> DEFINE row == [doc[d] EXCEPT !.status = "DOWNLOADED", !.raw = TRUE]
    <2>1. doc' = [doc EXCEPT ![d] = row] /\ Goes(w, "stored")
      BY <1>2, <1>i DEF StoreRaw
    <2>2. /\ work'[w].stage = "stored" /\ work'[w].todo = work[w].todo
          /\ \A q \in Actors : q # w => work'[q] = work[q]
          /\ work' \in [Actors -> WorkRec]
      BY <1>0, <2>1, GoesWork
    <2>3. doc[d] \in DocRec
      BY DEF Shapes
    <2>4. /\ row \in DocRec /\ row.raw = TRUE /\ row.owner = doc[d].owner
          /\ row.status = "DOWNLOADED"
      BY <2>3 DEF DocRec
    <2> HIDE DEF row
    <2>5. /\ doc' \in [Docs -> DocRec] /\ doc'[d] = row
          /\ \A e \in Docs : e # d => doc'[e] = doc[e]
      BY <2>1, <2>4 DEF Shapes
    <2>6. \A v \in Workers : v # w => work'[v] = work[v]
      BY <2>2, WorkersAct
    <2>7. Shapes'
      BY <1>0, <1>d, <2>2, <2>5, <2>6 DEF Shapes
    <2>8. Revisions' /\ DisconnectHolds'
      BY <1>0, <2>2 DEF Revisions, DisconnectHolds
    <2>9. Sourced'
      <3>1. \A e \in Docs : /\ doc[e].raw => doc'[e].raw
                            /\ doc'[e].status = "PROCESSED" => doc[e].status = "PROCESSED"
        BY <2>4, <2>5
      <3>2. \A e \in Docs : Canonical(e)' = Canonical(e)
        BY <1>0 DEF Canonical
      <3>3. \A e \in Docs : work'[w].todo = {e} => doc'[e].raw
        BY <1>d, <2>2, <2>4, <2>5
      <3> QED BY <1>0, <2>2, <2>6, <3>1, <3>2, <3>3 DEF Sourced
    <2>10. ASSUME DistinctOwners PROVE Guarded'
      <3>1. \A v \in Workers, e \in Docs : v # w /\ Holds(v, e)' =>
               Holds(v, e) /\ doc'[e].raw = doc[e].raw
        BY <1>2, <2>4, <2>5, <2>10 DEF Holds, DistinctOwners
      <3>2. \A e \in Docs : doc'[e].status = "FAILED_PERMANENT" => doc'[e] = doc[e]
        BY <2>4, <2>5
      <3> QED BY <1>0, <2>2, <2>6, <2>10, <3>1, <3>2 DEF Guarded
    <2> QED BY <2>7, <2>8, <2>9, <2>10
  <1> QED BY <1>1, <1>2

\* What the lookups see stays true: no invoice is ever removed.
LEMMA LookupKeepsInv ==
  ASSUME Inv, NEW w \in Workers, Lookup(w)
  PROVE  Inv'
  <1> USE DEF Inv
  <1>0. /\ UNCHANGED <<good, conn, wanted, doc, jobs, invoice>>
        /\ w \in Actors /\ work[w].stage = "stored"
        /\ "permanent" \in Stages /\ "ingested" \in Stages
    BY WorkersAct DEF Lookup, Stages
  <1>d. PICK d \in Docs : work[w].todo = {d}
    BY <1>0 DEF Shapes
  <1>i. Item(w) = d
    BY <1>d, ItemIs
  <1>1. /\ work' \in [Actors -> WorkRec] /\ work'[w].todo = {d}
        /\ \A q \in Actors : q # w => work'[q] = work[q]
        /\ \/ work'[w].stage = "permanent" /\ d \notin good
           \/ work'[w].stage = "ingested" /\ invoice[d] # "none"
           \/ /\ work'[w].stage = "insert" /\ d \in good
              /\ work'[w].canonical => Canonical(d)
    <2>1. CASE d \notin good /\ Goes(w, "permanent")
      BY <1>0, <1>d, <2>1, GoesWork
    <2>2. CASE invoice[d] # "none" /\ Goes(w, "ingested")
      BY <1>0, <1>d, <2>2, GoesWork
    <2>3. CASE /\ d \in good
               /\ work' = [work EXCEPT ![w] = [stage |-> "insert", todo |-> {d}, rev |-> 0,
                                               canonical |-> Canonical(d)]]
      <3> DEFINE next == [stage |-> "insert", todo |-> {d}, rev |-> 0, canonical |-> Canonical(d)]
      <3>1. Canonical(d) \in BOOLEAN
        BY DEF Canonical
      <3>2. /\ next \in WorkRec /\ next.stage = "insert" /\ next.todo = {d}
            /\ next.canonical = Canonical(d)
        BY <3>1 DEF WorkRec, Stages
      <3> HIDE DEF next
      <3>3. work' = [work EXCEPT ![w] = next]
        BY <2>3 DEF next
      <3> QED BY <1>0, <2>3, <3>2, <3>3 DEF Shapes
    <2> QED BY <1>i, <2>1, <2>2, <2>3 DEF Lookup
  <1>2. \A v \in Workers : v # w => work'[v] = work[v]
    BY <1>1, WorkersAct
  <1>3. Shapes'
    BY <1>0, <1>1, <1>2 DEF Shapes
  <1>4. Revisions' /\ DisconnectHolds'
    BY <1>0, <1>1 DEF Revisions, DisconnectHolds
  <1>5. Sourced'
    <2>1. \A e \in Docs : Canonical(e)' = Canonical(e)
      BY <1>0 DEF Canonical
    <2>2. doc[d].raw
      BY <1>0, <1>d DEF Sourced
    <2> QED BY <1>0, <1>1, <1>2, <2>1, <2>2 DEF Sourced
  <1>6. ASSUME DistinctOwners PROVE Guarded'
    BY <1>0, <1>1, <1>2, <1>6 DEF Guarded, Holds
  <1> QED BY <1>3, <1>4, <1>5, <1>6

\* The indexes decide what the lookup could not know.
LEMMA InsertKeepsInv ==
  ASSUME Inv, NEW w \in Workers, Insert(w)
  PROVE  Inv'
  <1> USE DEF Inv
  <1>0. /\ UNCHANGED <<good, conn, wanted, doc, jobs>>
        /\ w \in Actors /\ work[w].stage = "insert"
        /\ "stored" \in Stages /\ "ingested" \in Stages
    BY WorkersAct DEF Insert, Stages
  <1>d. PICK d \in Docs : work[w].todo = {d}
    BY <1>0 DEF Shapes
  <1>i. Item(w) = d
    BY <1>d, ItemIs
  <1>g. /\ doc[d].raw /\ d \in good
        /\ work[w].canonical => Canonical(d)
    BY <1>0, <1>d DEF Sourced
  <1>s. PICK s \in {"stored", "ingested"} :
           /\ Goes(w, s)
           /\ s = "ingested" => invoice'[d] # "none"
           /\ \/ invoice' = invoice
              \/ /\ invoice[d] = "none" /\ (work[w].canonical \/ ~Canonical(d))
                 /\ invoice' = [invoice EXCEPT ![d] = IF work[w].canonical THEN "DUPLICATE"
                                                      ELSE "CANONICAL"]
    <2>1. CASE invoice[d] # "none" /\ Goes(w, "ingested") /\ UNCHANGED invoice
      BY <2>1
    <2>2. CASE Goes(w, "stored") /\ UNCHANGED invoice
      BY <2>2
    <2>3. CASE /\ invoice[d] = "none" /\ (work[w].canonical \/ ~Canonical(d))
               /\ invoice' = [invoice EXCEPT ![d] = IF work[w].canonical THEN "DUPLICATE"
                                                    ELSE "CANONICAL"]
               /\ Goes(w, "ingested")
      <3>1. invoice'[d] # "none"
        BY <2>3 DEF Shapes
      <3> QED BY <2>3, <3>1
    <2> QED BY <1>i, <2>1, <2>2, <2>3 DEF Insert
  <1>1. /\ work'[w].stage = s /\ work'[w].todo = {d}
        /\ \A q \in Actors : q # w => work'[q] = work[q]
        /\ work' \in [Actors -> WorkRec]
    BY <1>0, <1>d, <1>s, GoesWork
  <1>2. \A v \in Workers : v # w => work'[v] = work[v]
    BY <1>1, WorkersAct
  <1>3. /\ invoice' \in [Docs -> {"none", "CANONICAL", "DUPLICATE"}]
        /\ \A e \in Docs : e # d => invoice'[e] = invoice[e]
        /\ invoice[d] # "none" => invoice'[d] = invoice[d]
        /\ invoice'[d] # "none" /\ invoice[d] = "none" =>
              invoice'[d] = IF work[w].canonical THEN "DUPLICATE" ELSE "CANONICAL"
    BY <1>s DEF Shapes
  <1>4. \A e \in Docs : invoice[e] # "none" => invoice'[e] = invoice[e]
    BY <1>3
  <1>5. \A e \in Docs : Canonical(e) => Canonical(e)'
    BY <1>4 DEF Canonical
  <1>6. Shapes'
    BY <1>0, <1>1, <1>2, <1>3 DEF Shapes
  <1>7. Revisions' /\ DisconnectHolds'
    BY <1>0, <1>1 DEF Revisions, DisconnectHolds
  <1>8. Sourced'
    <2>1. invoice'[d] # "none" => Canonical(d)'
      <3>1. CASE invoice[d] # "none"
        BY <1>5, <3>1 DEF Sourced
      <3>2. CASE invoice[d] = "none" /\ work[w].canonical
        BY <1>5, <1>g, <3>2
      <3>3. CASE invoice[d] = "none" /\ ~work[w].canonical
        BY <1>3, <3>3 DEF Canonical
      <3> QED BY <3>1, <3>2, <3>3
    <2>2. ASSUME NEW e \in Docs, NEW f \in Docs, invoice'[e] = "CANONICAL",
                 invoice'[f] = "CANONICAL", Identity[e] = Identity[f]
          PROVE  e = f
      <3>1. CASE invoice[e] = "CANONICAL" /\ invoice[f] = "CANONICAL"
        BY <2>2, <3>1 DEF Sourced
      <3>2. CASE invoice[d] = "none" /\ invoice'[d] = "CANONICAL"
        <4>1. ~Canonical(d)
          BY <1>s, <1>3, <3>2
        <4>2. \A x \in Docs : x # d /\ invoice'[x] = "CANONICAL" => Identity[x] # Identity[d]
          BY <1>3, <4>1 DEF Canonical
        <4>3. CASE e # d /\ f # d
          BY <1>3, <2>2, <3>1, <4>3
        <4> QED BY <2>2, <4>2, <4>3
      <3>3. CASE invoice[d] # "none" \/ invoice'[d] # "CANONICAL"
        <4>1. \A x \in Docs : invoice'[x] = "CANONICAL" => invoice[x] = "CANONICAL"
          BY <1>3, <3>3
        <4> QED BY <2>2, <3>1, <4>1
      <3> QED BY <3>2, <3>3
    <2>3. \A e \in Docs : invoice'[e] # "none" => doc[e].raw /\ e \in good /\ Canonical(e)'
      BY <1>3, <1>5, <1>g, <2>1 DEF Sourced
    <2>4. \A e \in Docs : doc[e].status = "PROCESSED" => invoice'[e] # "none"
      BY <1>4 DEF Sourced
    <2>5. \A v \in Workers, e \in Docs : work'[v].todo = {e} =>
                 /\ work'[v].stage \in {"stored", "insert", "ingested"} => doc[e].raw
                 /\ work'[v].stage = "insert" => e \in good /\ (work'[v].canonical => Canonical(e)')
                 /\ work'[v].stage = "ingested" => invoice'[e] # "none"
      BY <1>1, <1>2, <1>4, <1>5, <1>g, <1>s DEF Sourced
    <2> QED BY <1>0, <2>2, <2>3, <2>4, <2>5 DEF Sourced
  <1>9. ASSUME DistinctOwners PROVE Guarded'
    BY <1>0, <1>1, <1>2, <1>9 DEF Guarded, Holds
  <1> QED BY <1>6, <1>7, <1>8, <1>9

\* What the statements that end a claim do to the document.
Ends(d, row) == /\ doc' = [doc EXCEPT ![d] = row]
                /\ row \in DocRec /\ row.raw = doc[d].raw /\ row.status \notin {"PROCESSING", "DOWNLOADED"}
                /\ row.status = "PROCESSED" => invoice[d] # "none"
                /\ row.status = "FAILED_PERMANENT" /\ DistinctOwners => ~doc[d].raw \/ d \notin good

LEMMA EndKeepsInv ==
  ASSUME Inv, NEW w \in Workers, NEW d \in Docs, NEW row, Ends(d, row) \/ doc' = doc,
         UNCHANGED <<good, conn, wanted, invoice>>, Release(w), jobs' \subseteq Docs
  PROVE  Inv'
  <1> USE DEF Inv
  <1>1. /\ work'[w] = Idle /\ \A v \in Workers : v # w => work'[v] = work[v]
        /\ \A q \in Actors : q # w => work'[q] = work[q]
        /\ work' \in [Actors -> WorkRec] /\ w \in Actors
    BY WorkersAct, ReleaseWork
  <1>2. /\ doc' \in [Docs -> DocRec]
        /\ \A e \in Docs : doc'[e].raw = doc[e].raw
        /\ \A e \in Docs : doc'[e] = doc[e] \/ (e = d /\ Ends(d, row) /\ doc'[e] = row)
    BY DEF Shapes, Ends
  <1>3. Shapes'
    BY <1>1, <1>2, IdleRec DEF Shapes
  <1>4. Revisions' /\ DisconnectHolds'
    BY <1>1, IdleRec DEF Revisions, DisconnectHolds
  <1>5. \A v \in Workers, e \in Docs : work'[v].todo = {e} => v # w /\ work'[v] = work[v]
    BY <1>1, IdleRec
  <1>6. Sourced'
    <2>1. \A e \in Docs : Canonical(e)' = Canonical(e)
      BY DEF Canonical
    <2>2. \A e \in Docs : doc'[e].status = "PROCESSED" => invoice[e] # "none"
      BY <1>2 DEF Sourced, Ends
    <2> QED BY <1>2, <1>5, <2>1, <2>2 DEF Sourced
  <1>7. ASSUME DistinctOwners PROVE Guarded'
    <2>1. \A v \in Workers, e \in Docs : Holds(v, e)' => Holds(v, e)
      BY <1>2 DEF Holds, Ends
    <2>2. \A e \in Docs : doc'[e].status = "FAILED_PERMANENT" => ~doc'[e].raw \/ e \notin good
      BY <1>2, <1>7 DEF Guarded, Ends
    <2> QED BY <1>2, <1>5, <1>7, <2>1, <2>2 DEF Guarded
  <1> QED BY <1>3, <1>4, <1>6, <1>7

LEMMA SettleKeepsInv ==
  ASSUME Inv, NEW w \in Workers, MarkProcessed(w) \/ MarkSourceFailed(w)
  PROVE  Inv'
  <1> USE DEF Inv
  <1>0. /\ UNCHANGED <<good, conn, wanted, invoice>> /\ Release(w)
        /\ work[w].stage # "idle"
    BY DEF MarkProcessed, MarkSourceFailed
  <1>d. PICK d \in Docs : work[w].todo = {d}
    BY <1>0 DEF Shapes
  <1>i. Item(w) = d /\ doc[d] \in DocRec
    BY <1>d, ItemIs DEF Shapes
  <1>j. jobs' \subseteq Docs
    BY <1>0, <1>d, <1>i DEF MarkProcessed, MarkSourceFailed, Retried, Shapes
  <1>1. CASE MarkProcessed(w)
    <2> DEFINE row == [doc[d] EXCEPT !.status = "PROCESSED", !.owner = ""]
    <2>1. doc' = doc \/ doc' = [doc EXCEPT ![d] = row]
      BY <1>1, <1>i DEF MarkProcessed
    <2>2. /\ row \in DocRec /\ row.raw = doc[d].raw /\ row.status = "PROCESSED"
      BY <1>i DEF DocRec
    <2>3. invoice[d] # "none"
      BY <1>1, <1>d DEF MarkProcessed, Sourced
    <2> HIDE DEF row
    <2>4. Ends(d, row) \/ doc' = doc
      BY <2>1, <2>2, <2>3 DEF Ends
    <2> QED BY <1>0, <1>j, <2>4, EndKeepsInv
  <1>2. CASE MarkSourceFailed(w)
    <2> DEFINE s == IF work[w].stage = "permanent" THEN "FAILED_PERMANENT" ELSE "FAILED_TRANSIENT"
               row == [doc[d] EXCEPT !.status = s, !.owner = "", !.due = FALSE]
    <2>1. doc' = doc \/ (Holds(w, d) /\ doc' = [doc EXCEPT ![d] = row])
      BY <1>2, <1>i DEF MarkSourceFailed
    <2>2. /\ row \in DocRec /\ row.raw = doc[d].raw /\ row.status = s
      BY <1>i DEF DocRec
    <2>3. ASSUME s = "FAILED_PERMANENT", DistinctOwners, Holds(w, d)
          PROVE  ~doc[d].raw \/ d \notin good
      BY <1>d, <2>3 DEF Guarded
    <2> HIDE DEF row
    <2>4. Ends(d, row) \/ doc' = doc
      BY <2>1, <2>2, <2>3 DEF Ends
    <2> QED BY <1>0, <1>j, <2>4, EndKeepsInv
  <1> QED BY <1>1, <1>2

LEMMA NextInv == Inv /\ [Next]_vars => Inv'
  <1> SUFFICES ASSUME Inv, [Next]_vars PROVE Inv'
    OBVIOUS
  <1>1. CASE UNCHANGED vars
    BY <1>1 DEF vars, Inv, Shapes, Revisions, DisconnectHolds, Sourced, Canonical, Guarded, Holds
  <1>2. CASE Disconnect \/ Reauthorise \/ TokenExpires
    BY <1>2, HumansKeepInv
  <1>3. CASE SyncStart \/ SyncStep
    <2>1. "sync" \in Actors
      BY DEF Actors
    <2> QED BY <1>3, <2>1, SyncKeepsInv, TokenKeepsInv DEF SyncStep
  <1>4. CASE \E d \in Docs : Due(d) \/ \E w \in Workers : Claim(w, d)
    BY <1>4, DueKeepsInv, ClaimKeepsInv
  <1>5. ASSUME NEW w \in Workers, WorkerStep(w) PROVE Inv'
    BY <1>5, WorkersAct, TokenKeepsInv, StoreRawKeepsInv, LookupKeepsInv, InsertKeepsInv,
       SettleKeepsInv DEF WorkerStep
  <1>6. CASE \E p \in Actors : TransientError(p) \/ Crash(p)
    BY <1>6, FaultsKeepInv
  <1> QED BY <1>1, <1>2, <1>3, <1>4, <1>5, <1>6 DEF Next

LEMMA SpecInv == Spec => []Inv
  BY InitInv, NextInv, PTL DEF Spec

----------------------------------------------------------------------------
\* Every variable has its type and a busy worker one document.
THEOREM TypeCorrect == Spec => []TypeOK
  <1>1. Inv => TypeOK
    BY DEF Inv, Shapes, ConnRec, DocRec, WorkRec, Stages, TypeOK, Busy, Actors
  <1> QED BY <1>1, SpecInv, PTL

\* However many workers ingest the deliveries of one business invoice, one of them is
\* canonical and every other a duplicate that has it (the unique indexes IngestInvoice
\* relies on).
THEOREM CanonicalInvoice == Spec => []OneCanonicalInvoice
  <1>1. ASSUME Inv, NEW d \in Docs, invoice[d] # "none"
        PROVE  Cardinality({e \in Docs : Identity[e] = Identity[d] /\ invoice[e] = "CANONICAL"}) = 1
    <2>1. PICK c \in Docs : Identity[c] = Identity[d] /\ invoice[c] = "CANONICAL"
      BY <1>1 DEF Inv, Sourced, Canonical
    <2>2. {e \in Docs : Identity[e] = Identity[d] /\ invoice[e] = "CANONICAL"} = {c}
      BY <1>1, <2>1 DEF Inv, Sourced
    <2> QED BY <2>2, FS_Singleton
  <1>2. Inv => OneCanonicalInvoice
    BY <1>1 DEF OneCanonicalInvoice
  <1> QED BY <1>2, SpecInv, PTL

\* No refresh under way at a disconnect brings usable credentials back (SaveTokens
\* compares the revision accessToken read).
THEOREM DisconnectIsFinal == Spec => []DisconnectHolds
  BY SpecInv, PTL DEF Inv

\* A document whose invoice exists never fails for good, when every worker's claims have
\* a text of their own (the claim_owner compared by MarkSourceFailed).
THEOREM SettledAgree == DistinctOwners => (Spec => []SettledAgreesWithInvoice)
  <1> SUFFICES ASSUME DistinctOwners PROVE Spec => []SettledAgreesWithInvoice
    OBVIOUS
  <1>1. Inv => SettledAgreesWithInvoice
    BY DEF Inv, Sourced, Guarded, SettledAgreesWithInvoice
  <1> QED BY <1>1, SpecInv, PTL

----------------------------------------------------------------------------
(* The fate of the deliveries.                                             *)

LEMMA CanonicalIsTaken ==
  ASSUME Inv, DistinctOwners
  PROVE  \A d \in Docs : Canonical(d) <=> Outcome!Taken(d)
  <1>1. \A e \in Docs : Fate(e) = {"CANONICAL"} <=> invoice[e] = "CANONICAL"
    <2>1. ASSUME NEW e \in Docs, invoice[e] = "CANONICAL" PROVE doc[e].status # "FAILED_PERMANENT"
      BY <2>1 DEF Inv, Sourced, Guarded
    <2> QED BY <2>1 DEF Fate
  <1> QED BY <1>1 DEF Canonical, Outcome!Taken

\* A step that settles nothing and writes no invoice.
Unsettling == /\ invoice' = invoice
              /\ \A e \in Docs : \/ doc'[e].status = doc[e].status
                                 \/ doc'[e].status \notin Settled /\ doc[e].status \notin Settled

LEMMA UnsettlingStutters == Unsettling => UNCHANGED Outcome!vars
  <1> SUFFICES ASSUME Unsettling PROVE UNCHANGED Outcome!vars
    OBVIOUS
  <1>1. \A e \in Docs : Fate(e)' = Fate(e)
    BY DEF Unsettling, Fate, Settled
  <1>2. \A e \in Docs : doc'[e].status \in Settled <=> doc[e].status \in Settled
    BY DEF Unsettling
  <1>3. [e \in Docs |-> Fate(e)]' = [e \in Docs |-> Fate(e)]
    BY <1>1
  <1>4. {e \in Docs : doc[e].status \in Settled}' = {e \in Docs : doc[e].status \in Settled}
    BY <1>2
  <1> QED BY <1>3, <1>4 DEF Outcome!vars

\* The fate of one message in terms of all.
LEMMA OneFate ==
  ASSUME NEW d \in Docs, \A e \in Docs : e # d => Fate(e)' = Fate(e)
  PROVE  [e \in Docs |-> Fate(e)]' = [[e \in Docs |-> Fate(e)] EXCEPT ![d] = Fate(d)']
  OBVIOUS

LEMMA QuietSettlesNothing ==
  ASSUME Inv, \/ Disconnect \/ Reauthorise \/ TokenExpires
              \/ SyncStart \/ SyncStep
              \/ \E d \in Docs : Due(d) \/ \E w \in Workers : Claim(w, d)
              \/ \E w \in Workers : Token(w) \/ StoreRaw(w) \/ Lookup(w)
              \/ \E p \in Actors : TransientError(p) \/ Crash(p)
  PROVE  Unsettling
  <1>d. \A e \in Docs : doc[e] \in DocRec
    BY DEF Inv, Shapes
  <1>0. doc \in [Docs -> DocRec]
    BY DEF Inv, Shapes
  <1>1. CASE Disconnect \/ Reauthorise \/ TokenExpires
    BY <1>1 DEF Disconnect, Reauthorise, TokenExpires, Unsettling
  <1>t. ASSUME NEW p, Token(p) PROVE Unsettling
    BY <1>t DEF Token, Refresh, SaveTokens, MarkExpired, Rejected, Unsettling
  <1>2. CASE SyncStart \/ Publish \/ SyncEnd
    BY <1>2 DEF SyncStart, Publish, SyncEnd, Unsettling
  <1>3. CASE List
    <2>1. doc' = [d \in Docs |-> IF doc[d].status = "none"
                                 THEN [doc[d] EXCEPT !.status = "DISCOVERED"] ELSE doc[d]]
      BY <1>3 DEF List
    <2>2. \A e \in Docs : [doc[e] EXCEPT !.status = "DISCOVERED"].status = "DISCOVERED"
      BY <1>d DEF DocRec
    <2>3. \A e \in Docs : \/ doc'[e] = doc[e]
                          \/ doc[e].status = "none" /\ doc'[e].status = "DISCOVERED"
      BY <2>1, <2>2
    <2> QED BY <1>3, <2>3 DEF List, Unsettling, Settled
  <1>4. ASSUME NEW d \in Docs, Due(d) PROVE Unsettling
    <2>1. [doc[d] EXCEPT !.due = TRUE].status = doc[d].status
      BY <1>d DEF DocRec
    <2> QED BY <1>0, <1>4, <2>1 DEF Due, Unsettling
  <1>5. ASSUME NEW d \in Docs, NEW w \in Workers, Claim(w, d) PROVE Unsettling
    <2> DEFINE row == [doc[d] EXCEPT !.status = "PROCESSING", !.owner = Owner[w], !.due = FALSE]
    <2>1. row.status = "PROCESSING"
      BY <1>d DEF DocRec
    <2>2. doc' = doc \/ (Claimable(d) /\ doc' = [doc EXCEPT ![d] = row])
      BY <1>5 DEF Claim
    <2> HIDE DEF row
    <2>3. Claimable(d) => doc[d].status \notin Settled
      BY DEF Claimable, Settled
    <2>4. invoice' = invoice
      BY <1>5 DEF Claim
    <2> QED BY <1>0, <2>1, <2>2, <2>3, <2>4 DEF Unsettling, Settled
  <1>6. ASSUME NEW w \in Workers, StoreRaw(w) PROVE Unsettling
    <2>1. work[w].stage = "ready" /\ invoice' = invoice
      BY <1>6 DEF StoreRaw
    <2>2. PICK d \in Docs : work[w].todo = {d}
      BY <2>1 DEF Inv, Shapes
    <2> DEFINE row == [doc[d] EXCEPT !.status = "DOWNLOADED", !.raw = TRUE]
    <2>3. row.status = "DOWNLOADED"
      BY <1>d DEF DocRec
    <2>4. doc' = doc \/ (doc[d].status = "PROCESSING" /\ doc' = [doc EXCEPT ![d] = row])
      BY <1>6, <2>2, ItemIs DEF StoreRaw
    <2> HIDE DEF row
    <2> QED BY <1>0, <2>1, <2>3, <2>4 DEF Unsettling, Settled
  <1>7. CASE \E w \in Workers : Lookup(w)
    BY <1>7 DEF Lookup, Unsettling
  <1>8. CASE \E p \in Actors : TransientError(p) \/ Crash(p)
    BY <1>8 DEF TransientError, Crash, Unsettling
  <1> QED BY <1>1, <1>t, <1>2, <1>3, <1>4, <1>5, <1>6, <1>7, <1>8 DEF SyncStep

\* The insertion decides between canonical and duplicate by what is there, though the
\* lookup was earlier; a message under it was not refused.
LEMMA InsertImports ==
  ASSUME Inv, DistinctOwners, NEW w \in Workers, Insert(w)
  PROVE  Outcome!Next \/ UNCHANGED Outcome!vars
  <1> USE DEF Inv
  <1>0. doc' = doc /\ work[w].stage = "insert"
    BY DEF Insert
  <1>d. PICK d \in Docs : work[w].todo = {d}
    BY <1>0 DEF Shapes
  <1>i. Item(w) = d
    BY <1>d, ItemIs
  <1>1. CASE invoice' = invoice
    BY <1>0, <1>1, UnsettlingStutters DEF Unsettling
  <1>2. CASE /\ invoice[d] = "none" /\ (work[w].canonical \/ ~Canonical(d))
             /\ invoice' = [invoice EXCEPT ![d] = IF work[w].canonical THEN "DUPLICATE"
                                                  ELSE "CANONICAL"]
    <2>1. doc[d].raw /\ d \in good /\ (work[w].canonical => Canonical(d))
      BY <1>0, <1>d DEF Sourced
    <2>2. doc[d].status # "FAILED_PERMANENT"
      BY <2>1 DEF Guarded
    <2>3. Fate(d) = {}
      BY <1>2, <2>2 DEF Fate
    <2>4. invoice'[d] = IF Outcome!Taken(d) THEN "DUPLICATE" ELSE "CANONICAL"
      BY <1>2, <2>1, CanonicalIsTaken DEF Shapes
    <2>5. Fate(d)' = {IF Outcome!Taken(d) THEN "DUPLICATE" ELSE "CANONICAL"}
      BY <1>0, <2>2, <2>4 DEF Fate
    <2>6. \A e \in Docs : e # d => Fate(e)' = Fate(e)
      BY <1>0, <1>2 DEF Fate, Shapes
    <2>7. [e \in Docs |-> Fate(e)]' = [[e \in Docs |-> Fate(e)] EXCEPT ![d] = Fate(d)']
      BY <2>6, OneFate
    <2>8. {e \in Docs : doc[e].status \in Settled}' = {e \in Docs : doc[e].status \in Settled}
      BY <1>0
    <2>9. Outcome!Import(d)
      BY <2>3, <2>5, <2>7, <2>8 DEF Outcome!Import
    <2> QED BY <2>9 DEF Outcome!Next
  <1> QED BY <1>i, <1>1, <1>2 DEF Insert

\* The claim under which a job ends was never settled before.
LEMMA EndCloses ==
  ASSUME Inv, DistinctOwners, NEW w \in Workers, MarkProcessed(w) \/ MarkSourceFailed(w)
  PROVE  Outcome!Next \/ UNCHANGED Outcome!vars
  <1> USE DEF Inv
  <1>0. invoice' = invoice /\ work[w].stage # "idle"
    BY DEF MarkProcessed, MarkSourceFailed
  <1>d. PICK d \in Docs : work[w].todo = {d}
    BY <1>0 DEF Shapes
  <1>i. Item(w) = d /\ doc[d] \in DocRec /\ doc \in [Docs -> DocRec]
    BY <1>d, ItemIs DEF Shapes
  <1>1. CASE doc' = doc
    BY <1>0, <1>1, UnsettlingStutters DEF Unsettling
  <1>h. Holds(w, d) => doc[d].status \notin Settled
    BY DEF Holds, Settled
  <1>c. ASSUME doc'[d].status \in Settled, doc[d].status \notin Settled,
               \A e \in Docs : e # d => doc'[e] = doc[e]
        PROVE  /\ {e \in Docs : doc[e].status \in Settled}' =
                     {e \in Docs : doc[e].status \in Settled} \cup {d}
               /\ d \notin {e \in Docs : doc[e].status \in Settled}
               /\ [e \in Docs |-> Fate(e)]' = [[e \in Docs |-> Fate(e)] EXCEPT ![d] = Fate(d)']
    <2>1. \A e \in Docs : e # d => Fate(e)' = Fate(e)
      BY <1>0, <1>c DEF Fate
    <2>2. [e \in Docs |-> Fate(e)]' = [[e \in Docs |-> Fate(e)] EXCEPT ![d] = Fate(d)']
      BY <2>1, OneFate
    <2> QED BY <1>c, <2>2
  <1>2. CASE MarkProcessed(w) /\ doc' # doc
    <2> DEFINE row == [doc[d] EXCEPT !.status = "PROCESSED", !.owner = ""]
    <2>1. Holds(w, d) /\ doc' = [doc EXCEPT ![d] = row] /\ work[w].stage = "ingested"
      BY <1>2, <1>i DEF MarkProcessed
    <2>2. row.status = "PROCESSED"
      BY <1>i DEF DocRec
    <2> HIDE DEF row
    <2>3. doc'[d].status = "PROCESSED" /\ \A e \in Docs : e # d => doc'[e] = doc[e]
      BY <1>i, <2>1, <2>2
    <2>4. invoice[d] \in {"CANONICAL", "DUPLICATE"}
      BY <1>d, <2>1 DEF Sourced, Shapes
    <2>5. Fate(d) = {invoice[d]} /\ Fate(d)' = {invoice[d]}
      BY <1>0, <1>h, <2>1, <2>3, <2>4 DEF Fate, Settled
    <2>6. Outcome!Close(d)
      BY <1>h, <1>c, <2>1, <2>3, <2>4, <2>5 DEF Outcome!Close, Settled
    <2> QED BY <2>6 DEF Outcome!Next
  <1>3. CASE MarkSourceFailed(w) /\ doc' # doc
    <2> DEFINE s == IF work[w].stage = "permanent" THEN "FAILED_PERMANENT" ELSE "FAILED_TRANSIENT"
               row == [doc[d] EXCEPT !.status = s, !.owner = "", !.due = FALSE]
    <2>1. Holds(w, d) /\ doc' = [doc EXCEPT ![d] = row]
      BY <1>3, <1>i DEF MarkSourceFailed
    <2>2. row.status = s
      BY <1>i DEF DocRec
    <2> HIDE DEF row
    <2>3. doc'[d].status = s /\ \A e \in Docs : e # d => doc'[e] = doc[e]
      BY <1>i, <2>1, <2>2
    <2>4. CASE work[w].stage # "permanent"
      <3>1. doc'[d].status \notin Settled
        BY <2>3, <2>4 DEF Settled
      <3> QED BY <1>0, <1>h, <2>1, <2>3, <3>1, UnsettlingStutters DEF Unsettling
    <2>5. CASE work[w].stage = "permanent"
      <3>1. ~doc[d].raw \/ d \notin good
        BY <1>d, <2>1, <2>5 DEF Guarded
      <3>2. invoice[d] = "none"
        BY <3>1 DEF Sourced
      <3>3. Fate(d) = {} /\ Fate(d)' = {"REFUSED"}
        BY <1>0, <1>h, <2>1, <2>3, <2>5, <3>2 DEF Fate, Settled
      <3>4. Outcome!Refuse(d)
        BY <1>h, <1>c, <2>1, <2>3, <2>5, <3>3 DEF Outcome!Refuse, Settled
      <3> QED BY <3>4 DEF Outcome!Next
    <2> QED BY <2>4, <2>5
  <1> QED BY <1>1, <1>2, <1>3

\* Overlapping, repeated and expired jobs together give every message ANAF delivers one
\* fate, which nothing changes (Service.ProcessDocument, the unique indexes and the
\* claims, against what the listing promises), when claims have texts of their own.
THEOREM Refinement == DistinctOwners => (Spec => ImplementsDeliveries)
  <1> SUFFICES ASSUME DistinctOwners PROVE Spec => ImplementsDeliveries
    OBVIOUS
  <1>1. Init => Outcome!Init
    <2> SUFFICES ASSUME Init PROVE Outcome!Init
      OBVIOUS
    <2>1. \A e \in Docs : invoice[e] = "none" /\ doc[e].status = "none"
      BY DEF Init
    <2>2. \A e \in Docs : Fate(e) = {} /\ doc[e].status \notin Settled
      BY <2>1 DEF Fate, Settled
    <2> QED BY <2>2 DEF Outcome!Init
  <1>2. Inv /\ [Next]_vars => Outcome!Next \/ UNCHANGED Outcome!vars
    <2> SUFFICES ASSUME Inv, [Next]_vars PROVE Outcome!Next \/ UNCHANGED Outcome!vars
      OBVIOUS
    <2>1. CASE UNCHANGED vars
      BY <2>1, UnsettlingStutters DEF vars, Unsettling
    <2>2. CASE \E w \in Workers : Insert(w)
      BY <2>2, InsertImports
    <2>3. CASE \E w \in Workers : MarkProcessed(w) \/ MarkSourceFailed(w)
      BY <2>3, EndCloses
    <2> QED BY <2>1, <2>2, <2>3, QuietSettlesNothing, UnsettlingStutters DEF Next, WorkerStep
  <1> QED BY <1>1, <1>2, SpecInv, PTL DEF Spec, ImplementsDeliveries, Outcome!Spec
=============================================================================

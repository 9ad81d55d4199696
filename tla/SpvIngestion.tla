---------------------------- MODULE SpvIngestion ----------------------------
(***************************************************************************)
(* The way of a delivered invoice from ANAF/SPV into Diana (internal/spv,  *)
(* internal/workerruntime/spv.go, internal/platform/postgres/spv_store.go, *)
(* Store.IngestInvoice) for one client and its connection.  The scheduler  *)
(* starts synchronisations; one lists the delivered messages, records a    *)
(* source document for each and publishes a job for every one that is not  *)
(* settled.  A job claims its document under a lease, downloads it, turns  *)
(* it into an invoice or a business duplicate, and marks it processed.     *)
(* Jobs and synchronisations share the connection's tokens, which any of   *)
(* them may refresh while the accountant disconnects or reauthorises.      *)
(*                                                                         *)
(* Every token change bumps the connection's revision, so a copy of the    *)
(* credentials is named by the revision it was read at.  A message stays   *)
(* in the listing window (72 hours after a success) for at least one more  *)
(* synchronisation.                                                        *)
(***************************************************************************)
EXTENDS Naturals, FiniteSets

CONSTANTS Docs,         \* the messages delivered to the client
          Identity,     \* their supplier, number and issue day
          GoodCases,    \* those that parse and name the client, a set of cases
          Workers,      \* goroutines that run document jobs
          Owner,        \* the claim owner of each, the name of its process
          MaxHumans,    \* bound: disconnects and reauthorisations
          MaxEvents     \* bound: expiries of an access token, crashes, transient errors
                        \* and overrun leases

ASSUME DocsAssumption == GoodCases \subseteq SUBSET Docs /\ "sync" \notin Workers
ASSUME BoundsAssumption == MaxHumans \in Nat /\ MaxEvents \in Nat

VARIABLES good,      \* the case this behaviour is about; never changes
          conn,      \* the spv_connections row and what ANAF thinks of its token
          wanted,    \* the accountant's last command: connected or not
          doc,       \* spv_source_documents
          jobs,      \* documents with a queued job; a second one finds what the first left
          invoice,   \* the invoice of each delivery: none, CANONICAL or DUPLICATE
          work,      \* what each worker and the synchronisation hold in memory
          humans, events     \* how many of the bounded ones have happened

vars == <<good, conn, wanted, doc, jobs, invoice, work, humans, events>>

Actors == Workers \cup {"sync"}
At(s, t, r) == [stage |-> s, todo |-> t, rev |-> r, canonical |-> FALSE]
Idle == At("idle", {}, 0)

Busy(p) == work[p].stage # "idle"
Item(p) == CHOOSE d \in Docs : work[p].todo = {d}   \* the document of a worker

\* The next step of p; the credentials it read matter until its calls are done.
Goes(p, s) == work' = [work EXCEPT ![p] =
    At(s, work[p].todo, IF s \in {"refresh", "save", "ready"} THEN work[p].rev ELSE 0)]

----------------------------------------------------------------------------
Init == /\ good \in GoodCases
        /\ \E f, a \in BOOLEAN :
              conn = [status |-> "ACTIVE", tokens |-> TRUE, fresh |-> f, accepted |-> a, rev |-> 1]
        /\ wanted = TRUE
        /\ doc = [d \in Docs |-> [status |-> "none", raw |-> FALSE, owner |-> "", due |-> FALSE]]
        /\ jobs = {}
        /\ invoice = [d \in Docs |-> "none"]
        /\ work = [p \in Actors |-> Idle]
        /\ humans = 0 /\ events = 0

Event == events < MaxEvents /\ events' = events + 1

----------------------------------------------------------------------------
(* The accountant and the clock.                                           *)

\* DisconnectSPVConnection
Disconnect ==
    /\ humans < MaxHumans /\ humans' = humans + 1
    /\ conn.status # "REVOKED"
    /\ conn' = [status |-> "REVOKED", tokens |-> FALSE, fresh |-> FALSE, accepted |-> FALSE,
                rev |-> conn.rev + 1]
    /\ wanted' = FALSE
    /\ UNCHANGED <<good, doc, jobs, invoice, work, events>>

\* CompleteOAuthConnection
Reauthorise ==
    /\ humans < MaxHumans /\ humans' = humans + 1
    /\ conn' = [status |-> "ACTIVE", tokens |-> TRUE, fresh |-> TRUE, accepted |-> TRUE,
                rev |-> conn.rev + 1]
    /\ wanted' = TRUE
    /\ UNCHANGED <<good, doc, jobs, invoice, work, events>>

\* The access token reaches its last minute; the refresh token may end with it.
TokenExpires ==
    /\ Event
    /\ conn.fresh
    /\ \E a \in {conn.accepted, FALSE} : conn' = [conn EXCEPT !.fresh = FALSE, !.accepted = a]
    /\ UNCHANGED <<good, wanted, doc, jobs, invoice, work, humans>>

\* The retry delay of a failed document ends, or the lease of a claim: under a worker
\* only when it is slower than its timeout, one of the bounded events.
Due(d) == /\ doc[d].status \in {"PROCESSING", "DOWNLOADED", "FAILED_TRANSIENT"}
          /\ ~doc[d].due
          /\ IF \E w \in Workers : work[w].todo = {d} THEN Event ELSE UNCHANGED events
          /\ doc' = [doc EXCEPT ![d].due = TRUE]
          /\ UNCHANGED <<good, conn, wanted, jobs, invoice, work, humans>>

----------------------------------------------------------------------------
(* accessToken, called by a synchronisation or a document job with the     *)
(* connection it has read.                                                 *)

\* Where a reader of the connection starts; an erased token cannot be decrypted.
FirstStage == IF ~conn.tokens THEN "permanent" ELSE IF conn.fresh THEN "ready" ELSE "refresh"

\* The provider may keep a refresh token or replace it by the new one.
Refresh(p) ==
    /\ work[p].stage = "refresh"
    /\ \/ /\ work[p].rev = conn.rev /\ conn.accepted
          /\ \E a \in BOOLEAN : conn' = [conn EXCEPT !.accepted = a]
          /\ Goes(p, "save")
       \/ /\ work[p].rev = conn.rev => ~conn.accepted   \* an old one may be refused
          /\ Goes(p, "refused")
          /\ UNCHANGED conn
       \/ /\ work[p].rev # conn.rev                     \* or still be accepted
          /\ Goes(p, "save")
          /\ UNCHANGED conn
    /\ UNCHANGED <<good, wanted, doc, jobs, invoice, humans, events>>

\* mutant: the revision is not compared
SaveTokensAlways(p) ==
    /\ work[p].stage = "save"
    /\ conn' = [status |-> "ACTIVE", tokens |-> TRUE, fresh |-> TRUE, accepted |-> TRUE,
                rev |-> conn.rev + 1]
    /\ work' = [work EXCEPT ![p] = At("ready", work[p].todo, conn.rev + 1)]
    /\ UNCHANGED <<good, wanted, doc, jobs, invoice, humans, events>>

\* SaveTokens; ErrConflict when the revision has moved.
SaveTokens(p) ==
    /\ work[p].stage = "save"
    /\ IF work[p].rev = conn.rev
       THEN /\ conn' = [status |-> "ACTIVE", tokens |-> TRUE, fresh |-> TRUE, accepted |-> TRUE,
                        rev |-> conn.rev + 1]
            /\ work' = [work EXCEPT ![p] = At("ready", work[p].todo, conn.rev + 1)]
       ELSE UNCHANGED conn /\ Goes(p, "transient")
    /\ UNCHANGED <<good, wanted, doc, jobs, invoice, humans, events>>

\* MarkSyncFinished with ErrReauthenticationRequired: whatever the revision is by now.
MarkExpired(p) ==
    /\ work[p].stage = "refused"
    /\ conn' = [conn EXCEPT !.status = "EXPIRED"]
    /\ Goes(p, "permanent")
    /\ UNCHANGED <<good, wanted, doc, jobs, invoice, humans, events>>

\* ANAF may refuse the access token of an earlier authorisation (HTTP 401, permanent).
Rejected(p) ==
    /\ work[p].stage = "ready" /\ work[p].rev # conn.rev
    /\ Goes(p, "permanent")
    /\ UNCHANGED <<good, conn, wanted, doc, jobs, invoice, humans, events>>

Token(p) == Refresh(p) \/ SaveTokens(p) \/ MarkExpired(p) \/ Rejected(p)

----------------------------------------------------------------------------
(* Service.Sync and SPVHandler.ProcessSync.                                *)

\* The scheduler, or a manual request, for an ACTIVE connection.
SyncStart ==
    /\ ~Busy("sync")
    /\ conn.status = "ACTIVE"
    /\ work' = [work EXCEPT !["sync"] = At(FirstStage, {}, conn.rev)]
    /\ UNCHANGED <<good, conn, wanted, doc, jobs, invoice, humans, events>>

Settled == {"PROCESSED", "FAILED_PERMANENT"}

\* Both lists, all pages, and a source document for every new message; Discover finds
\* the one that is there.
List ==
    /\ work["sync"].stage = "ready"
    /\ doc' = [d \in Docs |-> IF doc[d].status = "none" THEN [doc[d] EXCEPT !.status = "DISCOVERED"]
                              ELSE doc[d]]
    /\ work' = [work EXCEPT !["sync"] =
                   At("publish", {d \in Docs : doc[d].status \notin Settled}, 0)]
    /\ UNCHANGED <<good, conn, wanted, jobs, invoice, humans, events>>

\* mutant: only new documents are published
ListNew ==
    /\ work["sync"].stage = "ready"
    /\ doc' = [d \in Docs |-> IF doc[d].status = "none" THEN [doc[d] EXCEPT !.status = "DISCOVERED"]
                              ELSE doc[d]]
    /\ work' = [work EXCEPT !["sync"] =
                   At("publish", {d \in Docs : doc[d].status = "none"}, 0)]
    /\ UNCHANGED <<good, conn, wanted, jobs, invoice, humans, events>>

\* PublishSPVDocument for each; the loop stops where Redis fails.
Publish ==
    /\ work["sync"].stage = "publish"
    /\ \/ jobs' = jobs \cup work["sync"].todo /\ UNCHANGED events
       \/ Event /\ \E published \in SUBSET work["sync"].todo : jobs' = jobs \cup published
    /\ work' = [work EXCEPT !["sync"] = Idle]
    /\ UNCHANGED <<good, conn, wanted, doc, invoice, humans>>

\* Failed: the next one comes in any case.
SyncEnd ==
    /\ work["sync"].stage \in {"permanent", "transient"}
    /\ work' = [work EXCEPT !["sync"] = Idle]
    /\ UNCHANGED <<good, conn, wanted, doc, jobs, invoice, humans, events>>

SyncStep == List \/ Publish \/ SyncEnd \/ Token("sync")

----------------------------------------------------------------------------
(* Service.ProcessDocument, run by SPVHandler.ProcessDocument.             *)

\* mutant: a claim is never taken over
ClaimableFresh(d) == doc[d].status = "DISCOVERED" \/ (doc[d].status = "FAILED_TRANSIENT" /\ doc[d].due)
Claimable(d) == \/ doc[d].status = "DISCOVERED"
                \/ doc[d].status \in {"PROCESSING", "DOWNLOADED", "FAILED_TRANSIENT"} /\ doc[d].due

\* ClaimSourceDocument and GetConnection; a document that cannot be claimed ends the
\* job, with success.
Claim(w, d) ==
    /\ d \in jobs /\ ~Busy(w)
    /\ jobs' = jobs \ {d}
    /\ IF Claimable(d)
       THEN /\ doc' = [doc EXCEPT ![d] = [@ EXCEPT !.status = "PROCESSING", !.owner = Owner[w],
                                                   !.due = FALSE]]
            /\ work' = [work EXCEPT ![w] =
                          IF doc[d].raw THEN At("stored", {d}, 0)
                          ELSE At(FirstStage, {d}, conn.rev)]
       ELSE UNCHANGED <<doc, work>>
    /\ UNCHANGED <<good, conn, wanted, invoice, humans, events>>

Holds(w, d) == doc[d].status \in {"PROCESSING", "DOWNLOADED"} /\ doc[d].owner = Owner[w]

\* Download and StoreRaw: the payload is written once, under the claim.
StoreRaw(w) ==
    /\ work[w].stage = "ready"
    /\ LET d == Item(w) IN
       IF Holds(w, d) /\ doc[d].status = "PROCESSING" /\ ~doc[d].raw
       THEN /\ doc' = [doc EXCEPT ![d] = [@ EXCEPT !.status = "DOWNLOADED", !.raw = TRUE]]
            /\ Goes(w, "stored")
       ELSE UNCHANGED doc /\ Goes(w, "transient")
    /\ UNCHANGED <<good, conn, wanted, jobs, invoice, humans, events>>

Canonical(d) == \E e \in Docs : Identity[e] = Identity[d] /\ invoice[e] = "CANONICAL"

\* Parse, ResolveDirection and the lookups of IngestInvoice.
Lookup(w) ==
    /\ work[w].stage = "stored"
    /\ LET d == Item(w) IN
       \/ d \notin good /\ Goes(w, "permanent")
       \/ d \in good /\ invoice[d] # "none" /\ Goes(w, "ingested")
       \/ /\ d \in good /\ invoice[d] = "none"
          /\ work' = [work EXCEPT ![w] =
                       [stage |-> "insert", todo |-> {d}, rev |-> 0, canonical |-> Canonical(d)]]
    /\ UNCHANGED <<good, conn, wanted, doc, jobs, invoice, humans, events>>

\* mutant: the partial unique index is missing
InsertUnchecked(w) ==
    /\ work[w].stage = "insert"
    /\ LET d == Item(w) IN
       invoice' = [invoice EXCEPT ![d] = IF work[w].canonical THEN "DUPLICATE" ELSE "CANONICAL"]
    /\ Goes(w, "ingested")
    /\ UNCHANGED <<good, conn, wanted, doc, jobs, humans, events>>

\* The insertion.  A unique index refuses a second invoice of the delivery, which is
\* then found, or a second canonical one of the identity: IngestInvoice starts over.
Insert(w) ==
    /\ work[w].stage = "insert"
    /\ LET d == Item(w) IN
       \/ invoice[d] # "none" /\ Goes(w, "ingested") /\ UNCHANGED invoice
       \/ /\ invoice[d] = "none" /\ ~work[w].canonical /\ Canonical(d)
          /\ Goes(w, "stored") /\ UNCHANGED invoice
       \/ /\ invoice[d] = "none" /\ (work[w].canonical \/ ~Canonical(d))
          /\ invoice' = [invoice EXCEPT ![d] = IF work[w].canonical THEN "DUPLICATE" ELSE "CANONICAL"]
          /\ Goes(w, "ingested")
    /\ UNCHANGED <<good, conn, wanted, doc, jobs, humans, events>>

Retried(w) == jobs' = jobs \cup work[w].todo
Release(w) == work' = [work EXCEPT ![w] = Idle]

\* MarkProcessed: without the claim the job fails and is retried.
MarkProcessed(w) ==
    /\ work[w].stage = "ingested"
    /\ LET d == Item(w) IN
       IF Holds(w, d) THEN doc' = [doc EXCEPT ![d] = [@ EXCEPT !.status = "PROCESSED", !.owner = ""]]
                           /\ UNCHANGED jobs
                      ELSE UNCHANGED doc /\ Retried(w)
    /\ Release(w)
    /\ UNCHANGED <<good, conn, wanted, invoice, humans, events>>

\* mutant: the owner of the claim is not compared
MarkFailedAnyOwner(w) ==
    /\ work[w].stage \in {"transient", "permanent"}
    /\ LET d == Item(w)
           s == IF work[w].stage = "permanent" THEN "FAILED_PERMANENT" ELSE "FAILED_TRANSIENT" IN
       doc' = [doc EXCEPT ![d] = [@ EXCEPT !.status = s, !.owner = "", !.due = FALSE]]
    /\ IF work[w].stage = "permanent" THEN UNCHANGED jobs ELSE Retried(w)
    /\ Release(w)
    /\ UNCHANGED <<good, conn, wanted, invoice, humans, events>>

\* mutant: the failure kind is not stored
MarkFailedNoKind(w) ==
    /\ work[w].stage \in {"transient", "permanent"}
    /\ LET d == Item(w) IN
       IF Holds(w, d)
       THEN doc' = [doc EXCEPT ![d] = [@ EXCEPT !.status = "FAILED", !.owner = "", !.due = FALSE]]
       ELSE UNCHANGED doc
    /\ IF work[w].stage = "permanent" THEN UNCHANGED jobs ELSE Retried(w)
    /\ Release(w)
    /\ UNCHANGED <<good, conn, wanted, invoice, humans, events>>

\* MarkSourceFailed, if the claim is still this owner's; a permanent error is not retried.
MarkSourceFailed(w) ==
    /\ work[w].stage \in {"transient", "permanent"}
    /\ LET d == Item(w)
           s == IF work[w].stage = "permanent" THEN "FAILED_PERMANENT" ELSE "FAILED_TRANSIENT" IN
       IF Holds(w, d)
       THEN doc' = [doc EXCEPT ![d] = [@ EXCEPT !.status = s, !.owner = "", !.due = FALSE]]
       ELSE UNCHANGED doc
    /\ IF work[w].stage = "permanent" THEN UNCHANGED jobs ELSE Retried(w)
    /\ Release(w)
    /\ UNCHANGED <<good, conn, wanted, invoice, humans, events>>

WorkerStep(w) == \/ Token(w) \/ StoreRaw(w) \/ Lookup(w) \/ Insert(w)
                 \/ MarkProcessed(w) \/ MarkSourceFailed(w)

(* Faults. *)

\* A call to ANAF or the database fails for now.
TransientError(p) ==
    /\ Event
    /\ work[p].stage \in {"refresh", "ready", "stored", "insert"}
    /\ Goes(p, "transient")
    /\ UNCHANGED <<good, conn, wanted, doc, jobs, invoice, humans>>

\* The process dies: Asynq queues the job again, or has given it up.
Crash(p) ==
    /\ Event
    /\ Busy(p)
    /\ Release(p)
    /\ \/ p \in Workers /\ Retried(p)
       \/ UNCHANGED jobs
    /\ UNCHANGED <<good, conn, wanted, doc, invoice, humans>>

----------------------------------------------------------------------------
Next == \/ Disconnect \/ Reauthorise \/ TokenExpires
        \/ SyncStart \/ SyncStep
        \/ \E d \in Docs : Due(d) \/ \E w \in Workers : Claim(w, d)
        \/ \E w \in Workers : WorkerStep(w)
        \/ \E p \in Actors : TransientError(p) \/ Crash(p)

Spec == Init /\ [][Next]_vars

\* The scheduler ticks, workers take jobs and finish them, leases and delays end.
FairSpec == /\ Spec
            /\ WF_vars(SyncStart) /\ WF_vars(SyncStep)
            /\ \A d \in Docs : WF_vars(Due(d)) /\ WF_vars(\E w \in Workers : Claim(w, d))
            /\ \A w \in Workers : WF_vars(WorkerStep(w))
----------------------------------------------------------------------------
(* Properties.                                                             *)

TypeOK ==
    /\ conn \in [status : {"ACTIVE", "EXPIRED", "REVOKED"}, tokens : BOOLEAN, fresh : BOOLEAN,
                accepted : BOOLEAN, rev : Nat]
    /\ wanted \in BOOLEAN
    /\ doc \in [Docs -> [status : {"none", "DISCOVERED", "PROCESSING", "DOWNLOADED", "PROCESSED",
                                   "FAILED_TRANSIENT", "FAILED_PERMANENT"},
                         raw : BOOLEAN, owner : {Owner[w] : w \in Workers} \cup {""}, due : BOOLEAN]]
    /\ jobs \subseteq Docs
    /\ invoice \in [Docs -> {"none", "CANONICAL", "DUPLICATE"}]
    /\ \A p \in Actors :
          /\ work[p].stage \in {"idle", "refresh", "save", "refused", "ready", "publish", "stored",
                               "insert", "ingested", "transient", "permanent"}
          /\ work[p].todo \subseteq Docs
          /\ p \in Workers /\ Busy(p) => \E d \in Docs : work[p].todo = {d}

\* Documents ingested at once leave one canonical invoice of a supplier, number and
\* day, whoever looked first, and a duplicate always has it beside it.
OneCanonicalInvoice ==
    \A d \in Docs : invoice[d] # "none" =>
        Cardinality({e \in Docs : Identity[e] = Identity[d] /\ invoice[e] = "CANONICAL"}) = 1

\* After the accountant's disconnect no refresh that was under way brings usable
\* credentials or an importing connection back.
DisconnectHolds == ~wanted => ~conn.tokens /\ conn.status # "ACTIVE"

\* A document whose invoice exists is never failed for good, and a processed one has
\* its invoice: an owner that lost its claim settles nothing.
SettledAgreesWithInvoice ==
    \A d \in Docs : /\ doc[d].status = "FAILED_PERMANENT" => invoice[d] = "none"
                    /\ doc[d].status = "PROCESSED" => invoice[d] # "none"

\* Every delivered message is settled while the connection can import, through crashes,
\* given-up jobs and expired claims, and again when a reauthorisation ends an interruption.
EveryDeliverySettled ==
    \A d \in Docs : []<>(doc[d].status \in Settled \/ conn.status # "ACTIVE")

\* Documented: a disconnected connection is marked revoked.  A refused refresh that
\* ends after the disconnect marks it expired instead.
DisconnectedIsRevoked == ~wanted => conn.status = "REVOKED"

\* The abstract fate of the deliveries: jobs that overlap, are repeated or lose their claim
\* give every message one outcome, one canonical invoice stands beside every duplicate, a
\* refused message has no invoice and a processed one has, and nothing takes up again what
\* is settled.
Fate(d) == ({invoice[d]} \ {"none"})
           \cup (IF doc[d].status = "FAILED_PERMANENT" THEN {"REFUSED"} ELSE {})
Outcome == INSTANCE Deliveries WITH
              fate <- [d \in Docs |-> Fate(d)], closed <- {d \in Docs : doc[d].status \in Settled}
ImplementsDeliveries == Outcome!Spec
=============================================================================

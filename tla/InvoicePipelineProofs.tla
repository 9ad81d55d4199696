----------------------- MODULE InvoicePipelineProofs -----------------------
(***************************************************************************)
(* Proofs about InvoicePipeline, for every bound.  RunnableHasJob is not   *)
(* inductive: that an acknowledged job was not the one the invoice waits   *)
(* for rests on what a worker's copy of the invoice says about the present *)
(* (Copies), on command keys being older than the invoice (Keys) and on    *)
(* the revision a reanalysis prepared (Requests).  What the accountant may *)
(* confirm rests on the attempts and the queue together (Exports).         *)
(***************************************************************************)
EXTENDS InvoicePipeline, FiniteSetTheorems, TLAPS

\* A worker that holds the current revision holds the current status, and only
\* exports leave the first stage.
Copies == \A w \in items : /\ w.rev = rev => w.status = status
                           /\ w.stage # "loaded" => w.status = "EXPORTING"

\* The transaction that commits a command key moves the revision past its job.
Keys == \A u \in used : u[1] < rev

\* A prepared revision that is still the invoice's is waiting for its classification,
\* and a request that died is older than the one that runs.
Requests == /\ handler = rev => status = "COMMERCIALLY_VALIDATED"
            /\ orphan = rev => status = "COMMERCIALLY_VALIDATED"
            /\ handler # 0 => orphan < handler

Inv == TypeOK /\ Copies /\ Keys /\ Requests /\ RunnableHasJob

----------------------------------------------------------------------------
\* What every decision has: an invoice it leaves in an automatic status gets a row.
Sound(d) == /\ d.to \in Statuses /\ d.by \in {1, 2}
            /\ d.to \in Automatic => d.continue

LEMMA ShapesSound == /\ \A s \in Statuses : Sound(To(s)) /\ Sound(Classify(s, TRUE))
                     /\ \A s \in Statuses \ Automatic : Sound(Block(s)) /\ Sound(Classify(s, FALSE))
  BY Zenon DEF To, Block, Classify, Sound

LEMMA StatusNames ==
  /\ Automatic \cup Blocked \cup Terminal \cup {"EXPORTING"} \subseteq Statuses
  /\ Automatic \cap (Blocked \cup Terminal \cup {"EXPORTING"}) = {}
  BY DEF Statuses, Automatic, Blocked, Terminal

LEMMA ClassificationsSound == \A d \in Classifications : Sound(d)
  <1>1. "READY_FOR_SAGA" \in Statuses /\ {"AWAITING_REVIEW", "CLASSIFIED"} \subseteq Statuses \ Automatic
    BY DEF Statuses, Automatic, Blocked
  <1> QED BY <1>1, ShapesSound, Zenon DEF Classifications

LEMMA DecisionsSound == \A s \in Automatic : \A d \in Decisions(s) : Sound(d)
  <1> SUFFICES ASSUME NEW s \in Automatic, NEW d \in Decisions(s)
               PROVE  Sound(d)
    OBVIOUS
  <1>1. CASE s = "COMMERCIALLY_VALIDATED"
    BY <1>1, ClassificationsSound DEF Decisions
  <1>2. CASE s # "COMMERCIALLY_VALIDATED"
    <2>1. \/ \E t \in Automatic \cup {"EXPORTING"} : d = To(t)
          \/ \E t \in Blocked : d = Block(t)
      BY <1>2 DEF Decisions, Automatic, Blocked
    <2> QED BY <2>1, ShapesSound, StatusNames
  <1> QED BY <1>1, <1>2

LEMMA PurposeType == \A s : Purpose(s) \in Purposes
  BY DEF Purpose, Purposes

\* A sound decision taken by a transaction that keeps every worker's copy, and from the
\* queue removes only jobs the invoice has passed, keeps the invariant.
LEMMA ChangeKeepsInv ==
  ASSUME Inv, NEW d, Sound(d), Change(d),
         queued' \subseteq queued \cup Rows(d), Rows(d) \subseteq queued',
         items' \subseteq items,
         used' \subseteq Nat \X Purposes, \A u \in used' : u[1] <= rev,
         handler' \in {0, handler}, orphan' = orphan,
         archived' = archived, generated' = generated, failed' = failed,
         confirmed' \subseteq generated \cup confirmed, latest' = latest,
         loops' \in Nat, redeliveries' \in Nat, faults' \in Nat
  PROVE  Inv'
  <1> USE DEF Inv
  <1>1. /\ rev' \in Nat \ {0} /\ rev' > rev /\ status' = d.to /\ rev \in Nat \ {0}
    BY DEF Sound, Change, TypeOK
  <1>2. saga' \in {"NOT_READY", "READY", "EXPORTING", "EXPORTED", "FAILED"}
    BY DEF Change, SagaAfter, TypeOK
  <1>3. queued' \subseteq 1 .. rev'
    BY <1>1 DEF TypeOK, Rows, Change
  <1>4. TypeOK'
    <2>1. status' \in Statuses
      BY <1>1 DEF Sound
    <2>2. items' \subseteq Items /\ \A w \in items' : 1 <= w.job /\ w.job <= w.rev /\ w.rev <= rev'
      BY <1>1 DEF TypeOK, Items
    <2>3. \A n \in 0 .. rev : n \in 0 .. rev'
      BY <1>1
    <2>4. /\ archived' \subseteq 1 .. rev' /\ generated' \subseteq 1 .. rev'
          /\ failed' \subseteq 1 .. rev' /\ confirmed' \subseteq 1 .. rev'
      BY <1>1 DEF TypeOK
    <2>5. latest' \in 0 .. rev' /\ handler' \in 0 .. rev' /\ orphan' \in 0 .. rev'
      BY <1>1, <2>3 DEF TypeOK
    <2> QED BY <1>1, <1>2, <1>3, <2>1, <2>2, <2>4, <2>5 DEF TypeOK
  <1>5. Copies'
    BY <1>1 DEF Copies, TypeOK, Items
  <1>6. Keys'
    BY <1>1 DEF Keys, TypeOK
  <1>7. Requests'
    BY <1>1 DEF Requests, TypeOK
  <1>8. RunnableHasJob'
    BY <1>1 DEF RunnableHasJob, Sound, Change, Rows
  <1> QED BY <1>4, <1>5, <1>6, <1>7, <1>8

\* A step that leaves the invoice alone keeps the invariant when the copies it makes or
\* moves are true to it and the job the invoice waits for is neither lost nor forgotten.
LEMMA QuietKeepsInv ==
  ASSUME Inv, UNCHANGED invoiceVars, UNCHANGED <<handler, orphan>>,
         queued' \subseteq queued, archived' \subseteq archived \cup queued,
         status \in Automatic /\ rev \in queued \cup archived => rev \in queued' \cup archived',
         used' \subseteq used,
         \A w \in items' : /\ w \in Items
                           /\ 1 <= w.job /\ w.job <= w.rev /\ w.rev <= rev
                           /\ w.rev = rev => w.status = status
                           /\ w.stage # "loaded" => w.status = "EXPORTING",
         generated' \subseteq 1 .. rev, failed' \subseteq 1 .. rev,
         confirmed' = confirmed, latest' \in 0 .. rev,
         loops' \in Nat, redeliveries' \in Nat, faults' \in Nat
  PROVE  Inv'
  <1> USE DEF Inv, invoiceVars
  <1>1. TypeOK'
    <2>1. queued' \subseteq 1 .. rev /\ archived' \subseteq 1 .. rev /\ used' \subseteq Nat \X Purposes
      BY DEF TypeOK
    <2> QED BY <2>1 DEF TypeOK
  <1>2. Copies'
    BY DEF Copies
  <1>3. Keys'
    BY DEF Keys
  <1>4. Requests'
    BY DEF Requests
  <1>5. RunnableHasJob'
    BY DEF RunnableHasJob
  <1> QED BY <1>1, <1>2, <1>3, <1>4, <1>5

\* The end of a delivery, spelled out for the two lemmas above.
LEMMA EndEffect ==
  ASSUME Inv, NEW w \in items, NEW new, NEW keys, End(w, new, keys)
  PROVE  /\ items' \subseteq items
         /\ queued' \subseteq queued \cup new /\ new \subseteq queued'
         /\ queued \ {w.job} \subseteq queued'
         /\ used' \subseteq used \cup keys
         /\ redeliveries' \in Nat
  BY DEF End, Inv, TypeOK

\* What a worker holds.
LEMMA CopyFacts ==
  ASSUME Inv
  PROVE  \A w \in items : /\ w \in Items
                          /\ 1 <= w.job /\ w.job <= w.rev /\ w.rev <= rev
                          /\ w.job \in Nat /\ w.rev \in Nat /\ rev \in Nat
                          /\ w.rev = rev => w.status = status
                          /\ w.stage # "loaded" => w.status = "EXPORTING"
  BY DEF Inv, TypeOK, Copies, Items

\* Acknowledging a job is harmless when the invoice has left the job's revision behind
\* or the worker's copy is not automatic.
LEMMA AckKeepsInv ==
  ASSUME Inv, NEW w \in items, Ack(w),
         w.job # rev \/ w.status \notin Automatic,
         UNCHANGED <<invoiceVars, archived, handler, orphan, confirmed, loops, faults>>,
         generated' \subseteq 1 .. rev, failed' \subseteq 1 .. rev, latest' \in 0 .. rev
  PROVE  Inv'
  <1>1. /\ items' \subseteq items /\ queued' \subseteq queued /\ queued \ {w.job} \subseteq queued'
        /\ used' \subseteq used /\ redeliveries' \in Nat
    BY EndEffect DEF Ack
  <1>2. status \in Automatic => w.job # rev
    BY CopyFacts
  <1>3. status \in Automatic /\ rev \in queued \cup archived => rev \in queued' \cup archived'
    BY <1>1, <1>2
  <1>4. loops' \in Nat /\ faults' \in Nat
    BY DEF Inv, TypeOK
  <1> QED BY <1>1, <1>3, <1>4, CopyFacts, QuietKeepsInv

\* A worker that goes to the next stage of an export.
LEMMA GoesKeepsInv ==
  ASSUME Inv, NEW w \in items, NEW s \in {"exporting", "failing"}, Goes(w, s),
         w.status = "EXPORTING",
         UNCHANGED <<invoiceVars, archived, handler, orphan, confirmed, loops, faults>>,
         generated' \subseteq 1 .. rev, failed' \subseteq 1 .. rev, latest' \in 0 .. rev
  PROVE  Inv'
  <1>1. /\ items' = (items \ {w}) \cup {[w EXCEPT !.stage = s]}
        /\ UNCHANGED <<queued, used, redeliveries>>
    BY DEF Goes
  <1>2. \A v \in items' : /\ v \in Items
                          /\ 1 <= v.job /\ v.job <= v.rev /\ v.rev <= rev
                          /\ v.rev = rev => v.status = status
                          /\ v.stage # "loaded" => v.status = "EXPORTING"
    BY <1>1, CopyFacts DEF Items
  <1>3. loops' \in Nat /\ faults' \in Nat /\ redeliveries' \in Nat
    BY <1>1 DEF Inv, TypeOK
  <1> QED BY <1>1, <1>2, <1>3, QuietKeepsInv

----------------------------------------------------------------------------
(* The steps of a worker.                                                  *)

LEMMA LoadInv == ASSUME Inv, NEW j \in queued, Load(j) PROVE Inv'
  <1> DEFINE w == [job |-> j, status |-> status, rev |-> rev, stage |-> "loaded"]
  <1>1. UNCHANGED <<invoiceVars, archived, attemptVars, handler, orphan, loops, faults>>
    BY DEF Load
  <1>2. /\ generated' \subseteq 1 .. rev /\ failed' \subseteq 1 .. rev /\ latest' \in 0 .. rev
        /\ confirmed' = confirmed /\ loops' \in Nat /\ faults' \in Nat
    BY <1>1 DEF attemptVars, Inv, TypeOK
  <1>3. CASE status \in Automatic \cup {"EXPORTING"}
    <2>1. items' = items \cup {w} /\ UNCHANGED <<queued, used, redeliveries>>
      BY <1>3 DEF Load
    <2>2. w \in Items /\ 1 <= w.job /\ w.job <= w.rev /\ w.rev <= rev
      BY <1>3 DEF Items, Inv, TypeOK
    <2>3. redeliveries' \in Nat
      BY <2>1 DEF Inv, TypeOK
    <2> QED BY <1>1, <1>2, <2>1, <2>2, <2>3, CopyFacts, QuietKeepsInv
  <1>4. CASE status \notin Automatic \cup {"EXPORTING"}
    <2>1. End(w, {}, {})
      BY <1>4 DEF Load, Ack
    <2>2. items' \subseteq items /\ queued' \subseteq queued /\ used' \subseteq used /\ redeliveries' \in Nat
      BY <2>1 DEF End, Inv, TypeOK
    <2> QED BY <1>1, <1>2, <1>4, <2>2, CopyFacts, QuietKeepsInv
  <1> QED BY <1>3, <1>4

LEMMA ProcessInv == ASSUME Inv, NEW w \in items, Process(w) PROVE Inv'
  <1>1. PICK d \in Decisions(w.status) : Change(d) /\ End(w, Rows(d), {Key(w)})
    BY DEF Process
  <1>2. /\ w.status \in Automatic
        /\ UNCHANGED <<archived, attemptVars, handler, orphan, loops, faults>>
    BY DEF Process
  <1>3. Sound(d)
    BY <1>2, DecisionsSound
  <1>4. /\ items' \subseteq items /\ queued' \subseteq queued \cup Rows(d) /\ Rows(d) \subseteq queued'
        /\ used' \subseteq used \cup {Key(w)} /\ redeliveries' \in Nat
    BY <1>1, EndEffect
  <1>5. Key(w) \in Nat \X Purposes /\ Key(w)[1] <= rev
    BY CopyFacts, PurposeType DEF Key
  <1>6. used' \subseteq Nat \X Purposes /\ \A u \in used' : u[1] <= rev
    <2>1. \A u \in used : u \in Nat \X Purposes /\ u[1] <= rev
      BY DEF Inv, TypeOK, Keys
    <2> QED BY <1>4, <1>5, <2>1
  <1>7. /\ generated' = generated /\ failed' = failed /\ confirmed' = confirmed /\ latest' = latest
        /\ loops' \in Nat /\ faults' \in Nat
    BY <1>2 DEF attemptVars, Inv, TypeOK
  <1> QED BY <1>1, <1>2, <1>3, <1>4, <1>6, <1>7, ChangeKeepsInv

LEMMA StaleInv == ASSUME Inv, NEW w \in items, Stale(w) PROVE Inv'
  <1>1. /\ Key(w) \in used \/ ~Current(w)
        /\ Ack(w)
        /\ UNCHANGED <<invoiceVars, archived, attemptVars, handler, orphan, loops, faults>>
    BY DEF Stale
  <1>2. w.job # rev
    <2>1. CASE Key(w) \in used
      BY <2>1, CopyFacts DEF Key, Inv, Keys
    <2>2. CASE ~Current(w)
      BY <2>2, CopyFacts DEF Current
    <2> QED BY <1>1, <2>1, <2>2
  <1>3. /\ generated' \subseteq 1 .. rev /\ failed' \subseteq 1 .. rev /\ latest' \in 0 .. rev
        /\ confirmed' = confirmed
    BY <1>1 DEF attemptVars, Inv, TypeOK
  <1> QED BY <1>1, <1>2, <1>3, AckKeepsInv

LEMMA ExportLoadInv == ASSUME Inv, NEW w \in items, ExportLoad(w) PROVE Inv'
  <1>1. /\ w.status = "EXPORTING"
        /\ UNCHANGED <<invoiceVars, archived, attemptVars, handler, orphan, loops, faults>>
        /\ Ack(w) \/ Goes(w, "failing") \/ Goes(w, "exporting")
    BY DEF ExportLoad
  <1>2. /\ generated' \subseteq 1 .. rev /\ failed' \subseteq 1 .. rev /\ latest' \in 0 .. rev
        /\ confirmed' = confirmed /\ w.status \notin Automatic
    BY <1>1 DEF attemptVars, Inv, TypeOK, Automatic
  <1> QED BY <1>1, <1>2, AckKeepsInv, GoesKeepsInv

LEMMA SaveAttemptInv == ASSUME Inv, NEW w \in items, SaveAttempt(w) PROVE Inv'
  <1>1. /\ w.stage = "exporting"
        /\ UNCHANGED <<invoiceVars, archived, handler, orphan, loops, faults>>
        /\ Ack(w) \/ Goes(w, "failing")
    BY DEF SaveAttempt
  <1>2. w.status = "EXPORTING" /\ w.status \notin Automatic /\ w.rev \in 1 .. rev
    BY <1>1, CopyFacts DEF Automatic
  <1>3. /\ generated' \subseteq generated \cup {w.rev} /\ failed' \subseteq failed \cup {w.rev}
        /\ latest' \in {latest, w.rev} /\ confirmed' = confirmed
    BY DEF SaveAttempt, attemptVars
  <1>4. generated' \subseteq 1 .. rev /\ failed' \subseteq 1 .. rev /\ latest' \in 0 .. rev
    BY <1>2, <1>3 DEF Inv, TypeOK
  <1> QED BY <1>1, <1>2, <1>3, <1>4, AckKeepsInv, GoesKeepsInv

LEMMA RecordSagaFailureInv == ASSUME Inv, NEW w \in items, RecordSagaFailure(w) PROVE Inv'
  <1>1. /\ w.stage = "failing"
        /\ UNCHANGED <<archived, attemptVars, handler, orphan, loops, faults>>
    BY DEF RecordSagaFailure
  <1>2. w.status = "EXPORTING" /\ w.status \notin Automatic
    BY <1>1, CopyFacts DEF Automatic
  <1>3. /\ generated' = generated /\ failed' = failed /\ confirmed' = confirmed /\ latest' = latest
        /\ generated \subseteq 1 .. rev /\ failed \subseteq 1 .. rev /\ latest \in 0 .. rev
        /\ loops' \in Nat /\ faults' \in Nat
    BY <1>1 DEF attemptVars, Inv, TypeOK
  <1>4. CASE <<w.job, "failure">> \in used \/ ~Current(w)
    <2>1. UNCHANGED invoiceVars /\ Ack(w)
      BY <1>4 DEF RecordSagaFailure
    <2> QED BY <1>1, <1>2, <1>3, <2>1, AckKeepsInv
  <1>5. CASE ~(<<w.job, "failure">> \in used \/ ~Current(w))
    <2>1. /\ saga' = "FAILED" /\ rev' = rev + 1 /\ status' = status /\ status = "EXPORTING"
          /\ End(w, {}, {<<w.job, "failure">>})
      BY <1>2, <1>5 DEF RecordSagaFailure, Current
    <2>2. /\ items' \subseteq items /\ queued' \subseteq queued
          /\ used' \subseteq used \cup {<<w.job, "failure">>} /\ redeliveries' \in Nat
      BY <2>1, EndEffect
    <2>3. rev \in Nat \ {0} /\ \A n \in 0 .. rev : n \in 0 .. rev'
      BY <2>1 DEF Inv, TypeOK
    <2>4. used' \subseteq Nat \X Purposes /\ \A u \in used' : u[1] <= rev
      <3>1. <<w.job, "failure">> \in Nat \X Purposes /\ w.job <= rev
        BY CopyFacts DEF Purposes
      <3> QED BY <2>2, <3>1 DEF Inv, TypeOK, Keys
    <2>5. TypeOK'
      <3>1. items' \subseteq Items /\ \A v \in items' : 1 <= v.job /\ v.job <= v.rev /\ v.rev <= rev'
        BY <2>1, <2>2, CopyFacts
      <3>2. \A S \in SUBSET (1 .. rev) : S \subseteq 1 .. rev'
        BY <2>1, <2>3
      <3>3. queued' \subseteq 1 .. rev' /\ archived' \subseteq 1 .. rev' /\ confirmed' \subseteq 1 .. rev'
        BY <1>1, <1>3, <2>2, <3>2 DEF Inv, TypeOK
      <3>4. handler' \in 0 .. rev' /\ orphan' \in 0 .. rev' /\ latest' \in 0 .. rev'
        BY <1>1, <1>3, <2>3 DEF Inv, TypeOK
      <3> QED BY <1>3, <2>1, <2>2, <2>3, <2>4, <3>1, <3>2, <3>3, <3>4 DEF TypeOK, Statuses
    <2>6. Copies'
      BY <2>1, <2>2, <2>3, CopyFacts DEF Copies
    <2>7. Keys'
      BY <2>1, <2>3, <2>4 DEF Keys, Inv, TypeOK
    <2>8. Requests'
      BY <1>1, <2>1, <2>3 DEF Requests, Inv, TypeOK
    <2>9. RunnableHasJob'
      BY <2>1 DEF RunnableHasJob, Automatic
    <2> QED BY <2>5, <2>6, <2>7, <2>8, <2>9 DEF Inv
  <1> QED BY <1>4, <1>5

----------------------------------------------------------------------------
(* The other actors and the faults.                                        *)

LEMMA AdvanceInv ==
  ASSUME Inv, NEW from, NEW d, Sound(d), Advance(from, d), loops' \in Nat
  PROVE  Inv'
  <1>1. /\ Change(d) /\ queued' = queued \cup Rows(d)
        /\ UNCHANGED <<archived, used, items, attemptVars, handler, orphan, redeliveries, faults>>
    BY DEF Advance
  <1>2. /\ generated' = generated /\ failed' = failed /\ confirmed' = confirmed /\ latest' = latest
        /\ redeliveries' \in Nat /\ faults' \in Nat
    BY <1>1 DEF attemptVars, Inv, TypeOK
  <1>3. used' \subseteq Nat \X Purposes /\ \A u \in used' : u[1] <= rev
    BY <1>1 DEF Inv, TypeOK, Keys
  <1> QED BY <1>1, <1>2, <1>3, ChangeKeepsInv

LEMMA HumanInv ==
  ASSUME Inv, \/ Waive \/ Resume \/ ConfirmMatch \/ AcceptException \/ RerunValidation
              \/ AnalysisToReview \/ CompleteReview
  PROVE  Inv'
  <1>1. loops' \in Nat
    BY DEF Waive, Resume, ConfirmMatch, AcceptException, RerunValidation, AnalysisToReview,
           CompleteReview, Loop, Inv, TypeOK
  <1>2. /\ \A t \in Statuses : Sound(To(t))
        /\ \A t \in Blocked : Sound(Block(t))
    BY ShapesSound, StatusNames
  <1>3. /\ {"DEDUPE_CHECKED", "COMMERCIALLY_VALIDATED", "COMMERCIAL_VALIDATING",
            "READY_FOR_SAGA"} \subseteq Statuses
        /\ {"AWAITING_MATCH_CONFIRM", "AWAITING_REVIEW"} \subseteq Blocked
    BY DEF Statuses, Automatic, Blocked
  <1>4. \E from : \E d : Sound(d) /\ Advance(from, d)
    BY <1>2, <1>3 DEF Waive, Resume, ConfirmMatch, AcceptException, RerunValidation,
                      AnalysisToReview, CompleteReview
  <1> QED BY <1>1, <1>4, AdvanceInv

LEMMA ConfirmSagaImportInv == ASSUME Inv, ConfirmSagaImport PROVE Inv'
  <1>1. /\ Change(Block("EXPORTED")) /\ confirmed' = confirmed \cup {latest} /\ latest \in generated
        /\ UNCHANGED <<jobVars, generated, failed, latest, handler, orphan, budgetVars>>
    BY DEF ConfirmSagaImport
  <1>2. Sound(Block("EXPORTED")) /\ Rows(Block("EXPORTED")) = {}
    BY DEF Sound, Block, Rows, Statuses, Automatic, Terminal
  <1>3. /\ used' \subseteq Nat \X Purposes /\ \A u \in used' : u[1] <= rev
        /\ loops' \in Nat /\ redeliveries' \in Nat /\ faults' \in Nat
        /\ queued' = queued /\ items' = items /\ archived' = archived
    BY <1>1 DEF jobVars, budgetVars, Inv, TypeOK, Keys
  <1> QED BY <1>1, <1>2, <1>3, ChangeKeepsInv

LEMMA PrepareReanalysisInv == ASSUME Inv, PrepareReanalysis PROVE Inv'
  <1>1. /\ status' = "COMMERCIALLY_VALIDATED" /\ rev' = rev + 1 /\ saga' = "NOT_READY"
        /\ handler' = rev + 1 /\ loops' \in Nat /\ redeliveries' \in Nat /\ faults' \in Nat
        /\ UNCHANGED <<queued, archived, used, items, generated, failed, confirmed, latest, orphan>>
    BY DEF PrepareReanalysis, Loop, jobVars, attemptVars, Inv, TypeOK
  <1>2. rev \in Nat \ {0} /\ \A n \in 0 .. rev : n \in 0 .. rev' /\ n < rev'
    BY <1>1 DEF Inv, TypeOK
  <1>3. \A S \in SUBSET (1 .. rev) : S \subseteq 1 .. rev'
    BY <1>1, <1>2
  <1>4. TypeOK'
    <2>1. /\ queued' \subseteq 1 .. rev' /\ archived' \subseteq 1 .. rev' /\ confirmed' \subseteq 1 .. rev'
          /\ generated' \subseteq 1 .. rev' /\ failed' \subseteq 1 .. rev'
      BY <1>1, <1>3 DEF Inv, TypeOK
    <2>2. handler' \in 0 .. rev' /\ orphan' \in 0 .. rev' /\ latest' \in 0 .. rev'
      BY <1>1, <1>2 DEF Inv, TypeOK
    <2>3. items' \subseteq Items /\ \A v \in items' : 1 <= v.job /\ v.job <= v.rev /\ v.rev <= rev'
      BY <1>1, CopyFacts
    <2>4. rev' \in Nat \ {0} /\ status' \in Statuses
      BY <1>1, <1>2 DEF Statuses, Automatic
    <2>5. used' \subseteq Nat \X Purposes
      BY <1>1 DEF Inv, TypeOK
    <2> QED BY <1>1, <2>1, <2>2, <2>3, <2>4, <2>5 DEF TypeOK
  <1>5. Copies'
    BY <1>1, CopyFacts DEF Copies
  <1>6. Keys'
    BY <1>1, <1>2 DEF Keys, Inv, TypeOK
  <1>7. Requests'
    BY <1>1, <1>2 DEF Requests, Inv, TypeOK
  <1>8. RunnableHasJob'
    BY <1>1 DEF RunnableHasJob
  <1> QED BY <1>4, <1>5, <1>6, <1>7, <1>8 DEF Inv

LEMMA RunReanalysisInv == ASSUME Inv, RunReanalysis PROVE Inv'
  <1>1. /\ handler # 0 /\ handler' = 0
        /\ UNCHANGED <<archived, used, items, attemptVars, orphan, budgetVars>>
    BY DEF RunReanalysis
  <1>2. /\ used' \subseteq Nat \X Purposes /\ \A u \in used' : u[1] <= rev
        /\ loops' \in Nat /\ redeliveries' \in Nat /\ faults' \in Nat
        /\ generated' = generated /\ failed' = failed /\ confirmed' = confirmed /\ latest' = latest
    BY <1>1 DEF attemptVars, budgetVars, Inv, TypeOK, Keys
  <1>3. CASE status = "COMMERCIALLY_VALIDATED" /\ rev = handler
    <2>1. PICK d \in Classifications : Change(d) /\ queued' = queued \cup Rows(d)
      BY <1>3 DEF RunReanalysis
    <2> QED BY <1>1, <1>2, <2>1, ClassificationsSound, ChangeKeepsInv
  <1>4. CASE ~(status = "COMMERCIALLY_VALIDATED" /\ rev = handler)
    <2>1. UNCHANGED <<invoiceVars, queued>> /\ handler # rev
      BY <1>4 DEF RunReanalysis, Inv, Requests
    <2>2. TypeOK'
      BY <1>1, <1>2, <2>1 DEF Inv, TypeOK, invoiceVars
    <2>3. Copies' /\ Keys'
      BY <1>1, <2>1 DEF Inv, Copies, Keys, invoiceVars
    <2>4. Requests'
      BY <1>1, <2>1 DEF Inv, Requests, TypeOK, invoiceVars
    <2>5. RunnableHasJob'
      BY <1>1, <2>1 DEF Inv, RunnableHasJob, invoiceVars
    <2> QED BY <2>2, <2>3, <2>4, <2>5 DEF Inv
  <1> QED BY <1>3, <1>4

LEMMA RequestFaultInv == ASSUME Inv, LoseReanalysis \/ RetryReanalysis PROVE Inv'
  <1>1. /\ UNCHANGED <<invoiceVars, jobVars, attemptVars, loops, redeliveries>> /\ faults' \in Nat
        /\ \/ handler # 0 /\ handler' = 0 /\ orphan' = handler
           \/ handler = 0 /\ orphan # 0 /\ handler' = orphan /\ orphan' = 0
    BY DEF LoseReanalysis, RetryReanalysis, Fault, budgetVars, Inv, TypeOK
  <1>2. TypeOK'
    BY <1>1 DEF Inv, TypeOK, invoiceVars, jobVars, attemptVars
  <1>3. Copies' /\ Keys'
    BY <1>1 DEF Inv, Copies, Keys, invoiceVars, jobVars
  <1>4. Requests'
    BY <1>1 DEF Inv, Requests, TypeOK, invoiceVars
  <1>5. RunnableHasJob'
    BY <1>1 DEF Inv, RunnableHasJob, Requests, TypeOK, invoiceVars, jobVars
  <1> QED BY <1>2, <1>3, <1>4, <1>5 DEF Inv

LEMMA JobFaultInv ==
  ASSUME Inv, (\E w \in items : Crash(w)) \/ (\E j \in queued : Archive(j)) PROVE Inv'
  <1>1. /\ UNCHANGED <<invoiceVars, attemptVars, handler, orphan, loops, redeliveries>>
        /\ faults' \in Nat /\ items' \subseteq items /\ used' \subseteq used
        /\ queued' \subseteq queued /\ queued \cup archived = queued' \cup archived'
    BY DEF Crash, Archive, Fault, Inv, TypeOK
  <1>2. /\ generated' \subseteq 1 .. rev /\ failed' \subseteq 1 .. rev /\ latest' \in 0 .. rev
        /\ confirmed' = confirmed /\ loops' \in Nat /\ redeliveries' \in Nat
    BY <1>1 DEF attemptVars, Inv, TypeOK
  <1> QED BY <1>1, <1>2, CopyFacts, QuietKeepsInv

----------------------------------------------------------------------------
(* The theorems.                                                           *)

LEMMA InitInv == Init => Inv
  <1> SUFFICES ASSUME Init PROVE Inv
    OBVIOUS
  <1>1. TypeOK
    BY DEF Init, TypeOK, Statuses, Automatic, Terminal
  <1>2. Copies /\ Keys /\ Requests
    BY DEF Init, Copies, Keys, Requests
  <1>3. RunnableHasJob
    BY DEF Init, RunnableHasJob, Automatic
  <1> QED BY <1>1, <1>2, <1>3 DEF Inv

LEMMA NextInv == Inv /\ [Next]_vars => Inv'
  <1> SUFFICES ASSUME Inv, [Next]_vars PROVE Inv'
    OBVIOUS
  <1>1. CASE \E j \in queued : Load(j)
    BY <1>1, LoadInv
  <1>2. CASE \E w \in items : WorkerStep(w)
    BY <1>2, ProcessInv, StaleInv, ExportLoadInv, SaveAttemptInv, RecordSagaFailureInv DEF WorkerStep
  <1>3. CASE (\E w \in items : Crash(w)) \/ (\E j \in queued : Archive(j))
    BY <1>3, JobFaultInv
  <1>4. CASE HumanStep \/ AnalysisToReview
    BY <1>4, HumanInv, ConfirmSagaImportInv, PrepareReanalysisInv, RequestFaultInv DEF HumanStep
  <1>5. CASE RunReanalysis
    BY <1>5, RunReanalysisInv
  <1>6. CASE LoseReanalysis
    BY <1>6, RequestFaultInv
  <1>7. CASE UNCHANGED vars
    <2>1. TypeOK'
      BY <1>7 DEF Inv, TypeOK, vars, invoiceVars, jobVars, attemptVars, budgetVars
    <2>2. Copies' /\ Keys' /\ Requests' /\ RunnableHasJob'
      BY <1>7 DEF Inv, Copies, Keys, Requests, RunnableHasJob, vars, invoiceVars, jobVars
    <2> QED BY <2>1, <2>2 DEF Inv
  <1> QED BY <1>1, <1>2, <1>3, <1>4, <1>5, <1>6, <1>7 DEF Next

LEMMA InvHolds == Spec => []Inv
  BY InitInv, NextInv, PTL DEF Spec

\* Every variable keeps its type, and no job, copy or attempt is of a revision the
\* invoice has not reached.
THEOREM TypeCorrect == Spec => []TypeOK
  <1>1. Inv => TypeOK
    BY DEF Inv
  <1> QED BY <1>1, InvHolds, PTL

\* No continuation is lost, for any number of workers, redeliveries, crashes and
\* reanalyses: an invoice in an automatic status has its job waiting or visibly archived,
\* or belongs to a reanalysis request.
THEOREM NoContinuationLost == Spec => []RunnableHasJob
  <1>1. Inv => RunnableHasJob
    BY DEF Inv
  <1> QED BY <1>1, InvHolds, PTL

\* Only a confirmation takes an invoice out of EXPORTING, and nothing moves a terminal one.
THEOREM ExportsAreIrrevocable == Spec => ExportIrrevocable
  <1> DEFINE Kept == /\ status = "EXPORTING" => status' \in {"EXPORTING", "EXPORTED"}
                     /\ status \in Terminal => UNCHANGED invoiceVars
  <1>1. Inv /\ [Next]_vars => [Kept]_vars
    <2> SUFFICES ASSUME Inv, Next PROVE Kept
      OBVIOUS
    <2>1. ASSUME UNCHANGED invoiceVars PROVE Kept
      BY <2>1 DEF invoiceVars
    <2>2. ASSUME status \notin Terminal \cup {"EXPORTING"} PROVE Kept
      BY <2>2
    <2>3. ASSUME NEW w \in items, WorkerStep(w) PROVE Kept
      <3>1. CASE Process(w)
        BY <2>2, <3>1, StatusNames DEF Process, Current
      <3>2. CASE RecordSagaFailure(w)
        <4>1. CASE UNCHANGED invoiceVars
          BY <2>1, <4>1
        <4>2. CASE ~UNCHANGED invoiceVars
          <5>1. status = "EXPORTING" /\ status' = status
            BY <3>2, <4>2, CopyFacts DEF RecordSagaFailure, Current
          <5> QED BY <5>1 DEF Terminal
        <4> QED BY <4>1, <4>2
      <3>3. CASE Stale(w) \/ ExportLoad(w) \/ SaveAttempt(w)
        BY <2>1, <3>3 DEF Stale, ExportLoad, SaveAttempt
      <3> QED BY <2>3, <3>1, <3>2, <3>3 DEF WorkerStep
    <2>4. ASSUME HumanStep \/ AnalysisToReview PROVE Kept
      <3>1. CASE ConfirmSagaImport
        BY <3>1 DEF ConfirmSagaImport, Change, Block, Terminal
      <3>2. CASE RetryReanalysis
        BY <2>1, <3>2 DEF RetryReanalysis
      <3>3. CASE ~ConfirmSagaImport /\ ~RetryReanalysis
        <4>1. status \in {"AWAITING_CONTRACT", "AWAITING_MATCH_CONFIRM", "AWAITING_COMMERCIAL_REVIEW",
                          "CLASSIFIED", "AWAITING_REVIEW", "READY_FOR_SAGA"}
          BY <2>4, <3>3 DEF HumanStep, Waive, Resume, ConfirmMatch, AcceptException,
             RerunValidation, AnalysisToReview, CompleteReview, PrepareReanalysis, Advance
        <4> QED BY <2>2, <4>1 DEF Terminal
      <3> QED BY <3>1, <3>2, <3>3
    <2>5. ASSUME RunReanalysis PROVE Kept
      <3>1. UNCHANGED invoiceVars \/ status = "COMMERCIALLY_VALIDATED"
        BY <2>5 DEF RunReanalysis
      <3> QED BY <2>1, <2>2, <3>1 DEF Terminal
    <2>6. ASSUME \/ \E j \in queued : Load(j) \/ Archive(j)
                 \/ \E w \in items : Crash(w)
                 \/ LoseReanalysis
          PROVE  Kept
      BY <2>1, <2>6 DEF Load, Archive, Crash, LoseReanalysis
    <2> QED BY <2>3, <2>4, <2>5, <2>6 DEF Next
  <1>2. Spec => [][Kept]_vars
    BY <1>1, InvHolds, PTL DEF Spec
  <1> QED BY <1>2 DEF ExportIrrevocable

\* A transaction keeps the two statuses together when the invoice is not on its way to
\* SAGA before it, or goes on with the export.
LEMMA ChangeKeepsSaga ==
  ASSUME SagaAgrees, NEW d, Change(d),
         status \notin {"READY_FOR_SAGA", "EXPORTING", "EXPORTED"} \/ d.to \in {"EXPORTING", "EXPORTED"}
  PROVE  SagaAgrees'
  BY DEF SagaAgrees, Change, SagaAfter

LEMMA SagaStep == Inv /\ SagaAgrees /\ [Next]_vars => SagaAgrees'
  <1> SUFFICES ASSUME Inv, SagaAgrees, [Next]_vars PROVE SagaAgrees'
    OBVIOUS
  <1>1. ASSUME UNCHANGED invoiceVars PROVE SagaAgrees'
    BY <1>1 DEF SagaAgrees, invoiceVars
  <1>2. ASSUME NEW w \in items, Process(w) PROVE SagaAgrees'
    <2>1. PICK d \in Decisions(status) : Change(d) /\ status \in Automatic
      BY <1>2 DEF Process, Current
    <2>2. status # "READY_FOR_SAGA" \/ d.to = "EXPORTING"
      BY <2>1 DEF Decisions, To
    <2>3. status \notin {"EXPORTING", "EXPORTED"}
      BY <2>1 DEF Automatic
    <2> QED BY <2>1, <2>2, <2>3, ChangeKeepsSaga
  <1>3. ASSUME NEW w \in items, RecordSagaFailure(w) PROVE SagaAgrees'
    <2>1. UNCHANGED invoiceVars \/ (saga' = "FAILED" /\ status' = status /\ Current(w))
      BY <1>3 DEF RecordSagaFailure
    <2>2. w.status = "EXPORTING"
      BY <1>3, CopyFacts DEF RecordSagaFailure
    <2> QED BY <1>1, <2>1, <2>2 DEF SagaAgrees, Current
  <1>4. ASSUME NEW from, NEW d, Advance(from, d), from \notin {"READY_FOR_SAGA", "EXPORTING", "EXPORTED"}
        PROVE  SagaAgrees'
    BY <1>4, ChangeKeepsSaga DEF Advance
  <1>5. ASSUME \/ Waive \/ Resume \/ ConfirmMatch \/ AcceptException \/ RerunValidation
               \/ AnalysisToReview \/ CompleteReview
        PROVE  SagaAgrees'
    <2>1. \E from \in Blocked : \E d : Advance(from, d)
      BY <1>5 DEF Waive, Resume, ConfirmMatch, AcceptException, RerunValidation, AnalysisToReview,
         CompleteReview, Blocked
    <2> QED BY <1>4, <2>1 DEF Blocked
  <1>6. ASSUME ConfirmSagaImport PROVE SagaAgrees'
    <2>1. Change(Block("EXPORTED")) /\ Block("EXPORTED").to = "EXPORTED"
      BY <1>6 DEF ConfirmSagaImport, Block
    <2> QED BY <2>1, ChangeKeepsSaga
  <1>7. ASSUME PrepareReanalysis PROVE SagaAgrees'
    BY <1>7 DEF PrepareReanalysis, SagaAgrees
  <1>8. ASSUME RunReanalysis PROVE SagaAgrees'
    <2>1. UNCHANGED invoiceVars \/ (status = "COMMERCIALLY_VALIDATED" /\ \E d : Change(d))
      BY <1>8 DEF RunReanalysis
    <2> QED BY <1>1, <2>1, ChangeKeepsSaga
  <1>9. ASSUME \/ \E j \in queued : Load(j) \/ Archive(j)
               \/ \E w \in items : Stale(w) \/ ExportLoad(w) \/ SaveAttempt(w) \/ Crash(w)
               \/ LoseReanalysis \/ RetryReanalysis \/ UNCHANGED vars
        PROVE  SagaAgrees'
    BY <1>1, <1>9 DEF Load, Archive, Stale, ExportLoad, SaveAttempt, Crash, LoseReanalysis,
       RetryReanalysis, vars
  <1> QED BY <1>2, <1>3, <1>5, <1>6, <1>7, <1>8, <1>9 DEF Next, WorkerStep, HumanStep

\* The SAGA status and the pipeline status never contradict each other.
THEOREM StatusesAgree == Spec => []SagaAgrees
  <1>1. Init => SagaAgrees
    BY DEF Init, SagaAgrees
  <1> QED BY <1>1, InvHolds, SagaStep, PTL DEF Spec

----------------------------------------------------------------------------
(* The export.  EXPORTING is entered once, so while its SAGA status is     *)
(* EXPORTING every copy of the invoice and every attempt is of the present *)
(* revision, and the job is there until an artifact is.                    *)

Late == {"EXPORTING", "EXPORTED"}

Exports ==
    /\ \A w \in items : w.status = "EXPORTING" =>
          /\ status \in Late
          /\ saga = "EXPORTING" => w.rev = rev
    /\ status \notin Late => generated = {} /\ failed = {} /\ latest = 0
    /\ saga = "EXPORTING" =>
          /\ generated \cup failed \subseteq {rev} /\ latest \in {0, rev}
          /\ generated \cup failed # {} => latest = rev
          /\ rev \in queued \cup archived \cup generated
    /\ confirmed \subseteq generated
    /\ confirmed # {} <=> status = "EXPORTED"
    /\ \A m, n \in confirmed : m = n

\* Transactions before the export.
LEMMA EarlierKeepsExports ==
  ASSUME Exports, SagaAgrees', status \notin Late, status' \notin Late, items' \subseteq items,
         UNCHANGED attemptVars
  PROVE  Exports'
  <1>1. saga' # "EXPORTING"
    BY DEF SagaAgrees, Late
  <1>2. status' # "EXPORTED" /\ status # "EXPORTED"
    BY DEF Late
  <1>3. \A w \in items : w.status # "EXPORTING"
    BY DEF Exports
  <1> QED BY <1>1, <1>2, <1>3 DEF Exports, attemptVars

\* Steps of the queue and of the workers' memory.
LEMMA QueueKeepsExports ==
  ASSUME Exports, UNCHANGED <<invoiceVars, attemptVars>>,
         \A w \in items' : w.status = "EXPORTING" =>
            status \in Late /\ (saga = "EXPORTING" => w.rev = rev),
         saga = "EXPORTING" => rev \in queued' \cup archived' \cup generated
  PROVE  Exports'
  BY DEF Exports, invoiceVars, attemptVars

\* Acknowledging a job of an earlier revision, or one whose artifact is there.
LEMMA AckKeepsExports ==
  ASSUME Inv, Exports, NEW w \in items, Ack(w), UNCHANGED <<invoiceVars, attemptVars, archived>>,
         saga = "EXPORTING" => w.job # rev \/ rev \in generated
  PROVE  Exports'
  <1>1. items' \subseteq items /\ queued \ {w.job} \subseteq queued'
    BY EndEffect DEF Ack
  <1>2. saga = "EXPORTING" => rev \in queued' \cup archived' \cup generated
    BY <1>1 DEF Exports
  <1> QED BY <1>1, <1>2, QueueKeepsExports DEF Exports

\* A worker that goes on keeps its copy.
LEMMA GoesKeepsExports ==
  ASSUME Inv, Exports, NEW w \in items, NEW s \in {"exporting", "failing"}, Goes(w, s),
         UNCHANGED <<invoiceVars, attemptVars, archived>>
  PROVE  Exports'
  <1>1. items' = (items \ {w}) \cup {[w EXCEPT !.stage = s]} /\ queued' = queued
    BY DEF Goes
  <1>2. [w EXCEPT !.stage = s].status = w.status /\ [w EXCEPT !.stage = s].rev = w.rev
    BY CopyFacts DEF Items
  <1>3. \A v \in items' : v.status = "EXPORTING" =>
            status \in Late /\ (saga = "EXPORTING" => v.rev = rev)
    BY <1>1, <1>2 DEF Exports
  <1> QED BY <1>1, <1>3, QueueKeepsExports DEF Exports

LEMMA ProcessKeepsExports ==
  ASSUME Inv, SagaAgrees', Exports, NEW w \in items, Process(w) PROVE Exports'
  <1>1. PICK d \in Decisions(status) : Change(d) /\ End(w, Rows(d), {Key(w)})
    BY DEF Process, Current
  <1>2. /\ status \in Automatic /\ status \notin Late
        /\ UNCHANGED <<archived, attemptVars, handler, orphan>>
    BY DEF Process, Current, Automatic, Late
  <1>3. items' \subseteq items /\ Rows(d) \subseteq queued'
    BY <1>1, EndEffect
  <1>4. CASE status = "READY_FOR_SAGA"
    <2>1. d = To("EXPORTING")
      BY <1>1, <1>4 DEF Decisions
    <2>2. /\ status' = "EXPORTING" /\ rev' \in queued'
      BY <1>1, <1>3, <2>1 DEF Change, Rows, To
    <2>3. \A v \in items : v.status # "EXPORTING"
      BY <1>2 DEF Exports
    <2> QED BY <1>2, <1>3, <2>2, <2>3 DEF Exports, attemptVars, Late
  <1>5. CASE status # "READY_FOR_SAGA"
    <2>1. d.to \notin Late
      BY <1>1, <1>2, <1>5 DEF Decisions, Classifications, To, Block, Classify, Automatic, Late
    <2> QED BY <1>1, <1>2, <1>3, <2>1, EarlierKeepsExports DEF Change
  <1> QED BY <1>4, <1>5

LEMMA SaveAttemptKeepsExports ==
  ASSUME Inv, SagaAgrees, Exports, NEW w \in items, SaveAttempt(w) PROVE Exports'
  <1>0. /\ UNCHANGED <<invoiceVars, archived>>
        /\ w.stage = "exporting" /\ w.status = "EXPORTING" /\ status \in Late
        /\ saga = "EXPORTING" => w.rev = rev
        /\ w.rev \in Nat \ {0}
    BY CopyFacts DEF SaveAttempt, Exports
  <1>1. CASE w.rev \in generated /\ Ack(w) /\ UNCHANGED attemptVars
    BY <1>0, <1>1, AckKeepsExports
  <1>2. CASE Goes(w, "failing") /\ UNCHANGED attemptVars
    BY <1>0, <1>2, GoesKeepsExports
  <1>3. CASE /\ w.rev \notin generated \cup failed
             /\ latest' \in {w.rev, latest} \ {0}
             /\ \/ generated' = generated \cup {w.rev} /\ Ack(w) /\ UNCHANGED failed
                \/ failed' = failed \cup {w.rev} /\ Goes(w, "failing") /\ UNCHANGED generated
             /\ UNCHANGED confirmed
    <2>1. \A v \in items' : v.status = "EXPORTING" =>
             status \in Late /\ (saga = "EXPORTING" => v.rev = rev)
      <3>1. CASE Ack(w)
        BY <3>1, EndEffect DEF Exports, Ack
      <3>2. CASE Goes(w, "failing")
        <4>1. [w EXCEPT !.stage = "failing"].status = w.status /\ [w EXCEPT !.stage = "failing"].rev = w.rev
          BY CopyFacts DEF Items
        <4> QED BY <3>2, <4>1 DEF Goes, Exports
      <3> QED BY <1>3, <3>1, <3>2
    <2>2. ASSUME saga = "EXPORTING"
          PROVE  /\ generated' \cup failed' \subseteq {rev} /\ latest' \in {0, rev}
                 /\ latest' = rev
                 /\ rev \in queued' \cup archived \cup generated'
      <3>1. w.rev = rev
        BY <1>0, <2>2
      <3>2. generated' \cup failed' \subseteq {rev} /\ latest' = rev
        BY <1>3, <2>2, <3>1 DEF Exports
      <3>3. CASE generated' = generated \cup {w.rev}
        BY <3>1, <3>2, <3>3
      <3>4. CASE Goes(w, "failing") /\ generated' = generated
        BY <2>2, <3>2, <3>4 DEF Goes, Exports
      <3> QED BY <1>3, <3>2, <3>3, <3>4
    <2>3. confirmed' = confirmed /\ generated \subseteq generated'
      BY <1>3
    <2> QED BY <1>0, <2>1, <2>2, <2>3 DEF Exports, invoiceVars
  <1> QED BY <1>1, <1>2, <1>3 DEF SaveAttempt

LEMMA FailureKeepsExports ==
  ASSUME Inv, SagaAgrees, Exports, NEW w \in items, RecordSagaFailure(w) PROVE Exports'
  <1>0. /\ UNCHANGED <<archived, attemptVars>>
        /\ w.stage = "failing" /\ w.status = "EXPORTING" /\ status \in Late
        /\ saga = "EXPORTING" => w.rev = rev /\ status = "EXPORTING"
    BY CopyFacts DEF RecordSagaFailure, Exports, SagaAgrees
  <1>1. CASE <<w.job, "failure">> \in used \/ ~Current(w)
    <2>1. UNCHANGED invoiceVars /\ Ack(w)
      BY <1>1 DEF RecordSagaFailure
    <2>2. saga = "EXPORTING" => w.job # rev
      BY <1>0, <1>1, CopyFacts DEF Current, Inv, Keys
    <2> QED BY <1>0, <2>1, <2>2, AckKeepsExports
  <1>2. CASE ~(<<w.job, "failure">> \in used \/ ~Current(w))
    <2>1. saga' = "FAILED" /\ status' = status /\ End(w, {}, {<<w.job, "failure">>})
      BY <1>2 DEF RecordSagaFailure
    <2>2. items' \subseteq items
      BY <2>1, EndEffect
    <2> QED BY <1>0, <2>1, <2>2 DEF Exports, attemptVars
  <1> QED BY <1>1, <1>2

LEMMA ConfirmKeepsExports ==
  ASSUME Inv, SagaAgrees', Exports, ConfirmSagaImport PROVE Exports'
  <1>1. /\ status = "EXPORTING" /\ status' = "EXPORTED"
        /\ confirmed' = confirmed \cup {latest} /\ latest \in generated
        /\ UNCHANGED <<items, generated, failed, latest>>
    BY DEF ConfirmSagaImport, Change, Block, jobVars
  <1>2. confirmed = {} /\ saga' # "EXPORTING"
    BY <1>1 DEF Exports, SagaAgrees
  <1> QED BY <1>1, <1>2 DEF Exports, Late

LEMMA ExportsStep == Inv /\ SagaAgrees /\ Exports /\ SagaAgrees' /\ [Next]_vars => Exports'
  <1> SUFFICES ASSUME Inv, SagaAgrees, Exports, SagaAgrees', [Next]_vars PROVE Exports'
    OBVIOUS
  <1>1. ASSUME NEW j \in queued, Load(j) PROVE Exports'
    <2> DEFINE w == [job |-> j, status |-> status, rev |-> rev, stage |-> "loaded"]
    <2>1. UNCHANGED <<invoiceVars, attemptVars, archived>>
      BY <1>1 DEF Load
    <2>2. CASE status \in Automatic \cup {"EXPORTING"}
      <3>1. items' = items \cup {w} /\ queued' = queued
        BY <1>1, <2>2 DEF Load
      <3>2. \A v \in items' : v.status = "EXPORTING" =>
               status \in Late /\ (saga = "EXPORTING" => v.rev = rev)
        BY <3>1 DEF Exports, Late
      <3> QED BY <2>1, <3>1, <3>2, QueueKeepsExports DEF Exports
    <2>3. CASE status \notin Automatic \cup {"EXPORTING"}
      <3>1. items' \subseteq items /\ saga # "EXPORTING"
        BY <1>1, <2>3 DEF Load, Ack, End, SagaAgrees
      <3> QED BY <2>1, <3>1, QueueKeepsExports DEF Exports
    <2> QED BY <2>2, <2>3
  <1>2. ASSUME NEW w \in items, Stale(w) PROVE Exports'
    <2>1. /\ Ack(w) /\ UNCHANGED <<invoiceVars, attemptVars, archived>>
          /\ w.status \in Automatic
      BY <1>2 DEF Stale
    <2>2. saga = "EXPORTING" => status \notin Automatic
      BY DEF SagaAgrees, Automatic
    <2>3. saga = "EXPORTING" => w.job # rev
      BY <2>1, <2>2, CopyFacts
    <2> QED BY <2>1, <2>3, AckKeepsExports
  <1>3. ASSUME NEW w \in items, ExportLoad(w) PROVE Exports'
    BY <1>3, AckKeepsExports, GoesKeepsExports DEF ExportLoad
  <1>4. ASSUME \/ Waive \/ Resume \/ ConfirmMatch \/ AcceptException \/ RerunValidation
               \/ AnalysisToReview \/ CompleteReview
        PROVE  Exports'
    <2>1. \E d : /\ d.to \notin Late /\ Change(d) /\ UNCHANGED <<attemptVars, items>>
                 /\ status \in Blocked
      BY <1>4 DEF Waive, Resume, ConfirmMatch, AcceptException, RerunValidation, AnalysisToReview,
         CompleteReview, Advance, To, Block, Late, Blocked
    <2> QED BY <2>1, EarlierKeepsExports DEF Change, Blocked, Late
  <1>5. ASSUME PrepareReanalysis PROVE Exports'
    <2>1. /\ status \notin Late /\ status' \notin Late /\ UNCHANGED <<attemptVars, items>>
      BY <1>5 DEF PrepareReanalysis, Late, jobVars
    <2> QED BY <2>1, EarlierKeepsExports
  <1>6. ASSUME RunReanalysis PROVE Exports'
    <2>1. CASE status = "COMMERCIALLY_VALIDATED" /\ rev = handler
      <3>1. \E d \in Classifications : Change(d)
        BY <1>6, <2>1 DEF RunReanalysis
      <3>2. \A d \in Classifications : d.to \notin Late
        BY DEF Classifications, Classify, Block, Late
      <3>3. status \notin Late /\ status' \notin Late
        BY <2>1, <3>1, <3>2 DEF Change, Late
      <3> QED BY <1>6, <3>3, EarlierKeepsExports DEF RunReanalysis
    <2>2. CASE ~(status = "COMMERCIALLY_VALIDATED" /\ rev = handler)
      <3>1. UNCHANGED <<invoiceVars, attemptVars, items, queued, archived>>
        BY <1>6, <2>2 DEF RunReanalysis
      <3> QED BY <3>1, QueueKeepsExports DEF Exports
    <2> QED BY <2>1, <2>2
  <1>7. ASSUME (\E w \in items : Crash(w)) \/ (\E j \in queued : Archive(j)) PROVE Exports'
    <2>1. /\ UNCHANGED <<invoiceVars, attemptVars>> /\ items' \subseteq items
          /\ queued \cup archived = queued' \cup archived'
      BY <1>7 DEF Crash, Archive
    <2> QED BY <2>1, QueueKeepsExports DEF Exports
  <1>8. ASSUME LoseReanalysis \/ RetryReanalysis \/ UNCHANGED vars PROVE Exports'
    <2>1. UNCHANGED <<invoiceVars, attemptVars, items, queued, archived>>
      BY <1>8 DEF LoseReanalysis, RetryReanalysis, vars, jobVars
    <2> QED BY <2>1, QueueKeepsExports DEF Exports
  <1> QED BY <1>1, <1>2, <1>3, <1>4, <1>5, <1>6, <1>7, <1>8, ProcessKeepsExports,
             SaveAttemptKeepsExports, FailureKeepsExports, ConfirmKeepsExports
          DEF Next, WorkerStep, HumanStep

LEMMA ExportsHold == Spec => [](Inv /\ SagaAgrees /\ Exports)
  <1>1. Init => SagaAgrees
    BY DEF Init, SagaAgrees
  <1>2. Init => Exports
    BY DEF Init, Exports, Late
  <1>3. Inv /\ SagaAgrees /\ Exports /\ [Next]_vars => (Inv /\ SagaAgrees /\ Exports)'
    BY NextInv, SagaStep, ExportsStep
  <1> QED BY InitInv, <1>1, <1>2, <1>3, PTL DEF Spec

\* EXPORTED means that the human confirmed exactly one attempt, a generated one, whatever
\* failures, late saves and repeated jobs there were (ConfirmSagaImport).
THEOREM ExportIsConfirmed == Spec => []ExportedWasConfirmed
  <1>1. ASSUME Exports PROVE Cardinality(confirmed) <= 1
    <2>1. CASE confirmed = {}
      BY <2>1, FS_EmptySet
    <2>2. CASE confirmed # {}
      <3>1. PICK n : n \in confirmed
        BY <2>2
      <3>2. confirmed = {n}
        BY <1>1, <3>1 DEF Exports
      <3>3. Cardinality({n}) = 1
        BY FS_Singleton
      <3> QED BY <3>2, <3>3
    <2> QED BY <2>1, <2>2
  <1>2. Exports => ExportedWasConfirmed
    BY <1>1 DEF Exports, ExportedWasConfirmed
  <1> QED BY <1>2, ExportsHold, PTL

\* No export whose job is gone waits without an artifact of its own revision, the latest:
\* the accountant always has something to confirm or a failure to look at.
THEOREM ExportHasArtifact == Spec => []ExportWaitsForHuman
  <1>1. Inv /\ Exports => ExportWaitsForHuman
    BY DEF Exports, ExportWaitsForHuman
  <1> QED BY <1>1, ExportsHold, PTL


----------------------------------------------------------------------------
(* Refinement: the life of the invoice.                                    *)

\* An edge of the declared life, or a classification that is decided at once.
Allowed(s, t) == \/ t \in Life!After(s, Life!Definitions) \cup Life!After(s, Life!Corrections)
                 \/ s = "COMMERCIALLY_VALIDATED" /\ t \in Life!After("CLASSIFIED", Life!Definitions)

LEMMA Declared ==
  ASSUME NEW s, NEW t, <<s, t>> \in Life!Definitions \cup Life!Corrections
  PROVE  Allowed(s, t)
  <1>1. <<s, t>>[1] = s /\ <<s, t>>[2] = t
    OBVIOUS
  <1> QED BY <1>1 DEF Allowed, Life!After

\* What a job may decide is declared; so is what a reanalysis decides.
LEMMA DecisionsDeclared ==
  /\ \A s : \A d \in Decisions(s) : Allowed(s, d.to)
  /\ \A d \in Classifications : Allowed("COMMERCIALLY_VALIDATED", d.to)
  <1>1. \A d \in Classifications : Allowed("COMMERCIALLY_VALIDATED", d.to)
    <2> SUFFICES ASSUME NEW d \in Classifications PROVE Allowed("COMMERCIALLY_VALIDATED", d.to)
      OBVIOUS
    <2>1. d.to \in {"READY_FOR_SAGA", "AWAITING_REVIEW", "CLASSIFIED"}
      BY DEF Classifications, Classify, Block
    <2>2. /\ <<"CLASSIFIED", "AWAITING_REVIEW">> \in Life!Definitions
          /\ <<"CLASSIFIED", "READY_FOR_SAGA">> \in Life!Definitions
          /\ <<"COMMERCIALLY_VALIDATED", "CLASSIFIED">> \in Life!Definitions
      BY DEF Life!Definitions
    <2>3. {"AWAITING_REVIEW", "READY_FOR_SAGA"} \subseteq Life!After("CLASSIFIED", Life!Definitions)
      BY <2>2 DEF Life!After
    <2> QED BY <2>1, <2>2, <2>3, Declared DEF Allowed
  <1>2. ASSUME NEW s, NEW d \in Decisions(s), s # "COMMERCIALLY_VALIDATED" PROVE Allowed(s, d.to)
    <2>1. <<s, d.to>> \in
            {<<"DOWNLOADED", "ARCHIVED">>, <<"ARCHIVED", "MATCHING">>, <<"MATCHING", "DEDUPE_CHECKED">>,
             <<"MATCHING", "AWAITING_CONTRACT">>, <<"MATCHING", "AWAITING_MATCH_CONFIRM">>,
             <<"DEDUPE_CHECKED", "HEADER_READ">>, <<"HEADER_READ", "LINES_READ">>,
             <<"LINES_READ", "COMMERCIAL_VALIDATING">>,
             <<"COMMERCIAL_VALIDATING", "COMMERCIALLY_VALIDATED">>,
             <<"COMMERCIAL_VALIDATING", "AWAITING_COMMERCIAL_REVIEW">>,
             <<"READY_FOR_SAGA", "EXPORTING">>}
      BY <1>2 DEF Decisions, To, Block
    <2>2. <<s, d.to>> \in Life!Definitions
      BY <2>1 DEF Life!Definitions
    <2> QED BY <2>2, Declared
  <1>3. Decisions("COMMERCIALLY_VALIDATED") = Classifications
    BY DEF Decisions
  <1> QED BY <1>1, <1>2, <1>3

LEMMA EnterStep == ASSUME Allowed(status, status') PROVE Life!Next
  <1>1. \A s : TasksOf(s) = Life!TasksOf(s)
    BY DEF TasksOf, Life!TasksOf, Blockers, Life!Blockers, Task, Life!Task
  <1>2. PICK s : s = status' /\ Allowed(status, s)
    OBVIOUS
  <1>3. Life!Enter("invoice", s)
    BY <1>1, <1>2 DEF Life!Enter, TheInvoice
  <1>4. "invoice" \in TheInvoice /\ [i \in TheInvoice |-> status]["invoice"] = status
    BY DEF TheInvoice
  <1> QED BY <1>2, <1>3, <1>4 DEF Life!Next, Life!Transition, Life!Correct, Life!Classify, Allowed

LEMMA HumanLife ==
  ASSUME HumanStep \/ AnalysisToReview PROVE status' = status \/ Allowed(status, status')
  <1>1. CASE RetryReanalysis
    BY <1>1 DEF RetryReanalysis, invoiceVars
  <1>2. CASE ~RetryReanalysis
    <2>1. <<status, status'>> \in
            {<<"AWAITING_CONTRACT", "DEDUPE_CHECKED">>, <<"AWAITING_CONTRACT", "AWAITING_MATCH_CONFIRM">>,
             <<"AWAITING_MATCH_CONFIRM", "DEDUPE_CHECKED">>,
             <<"AWAITING_COMMERCIAL_REVIEW", "COMMERCIALLY_VALIDATED">>,
             <<"AWAITING_COMMERCIAL_REVIEW", "COMMERCIAL_VALIDATING">>,
             <<"CLASSIFIED", "AWAITING_REVIEW">>, <<"AWAITING_REVIEW", "READY_FOR_SAGA">>,
             <<"CLASSIFIED", "COMMERCIALLY_VALIDATED">>, <<"AWAITING_REVIEW", "COMMERCIALLY_VALIDATED">>,
             <<"READY_FOR_SAGA", "COMMERCIALLY_VALIDATED">>, <<"EXPORTING", "EXPORTED">>}
      BY <1>2 DEF HumanStep, Waive, Resume, ConfirmMatch, AcceptException, RerunValidation, CompleteReview,
                  PrepareReanalysis, ConfirmSagaImport, AnalysisToReview, Advance, Change, To, Block
    <2>2. <<status, status'>> \in Life!Definitions \cup Life!Corrections
      BY <2>1 DEF Life!Definitions, Life!Corrections
    <2> QED BY <2>2, Declared
  <1> QED BY <1>1, <1>2

\* However its jobs are repeated, delayed or race with the accountant, the invoice moves
\* along the declared edges only.  ApplyTransition consults the table; that the other
\* transactions agree with it rests on the compare-and-set of each (Current, Advance).
THEOREM Refinement == Spec => ImplementsLifecycle
  <1>1. Init => Life!Init
    <2>1. \A s : TasksOf(s) = Life!TasksOf(s)
      BY DEF TasksOf, Life!TasksOf, Blockers, Life!Blockers, Task, Life!Task
    <2> QED BY <2>1 DEF Init, Life!Init, TheInvoice
  <1>2. [Next]_vars => [Life!Next]_(Life!vars)
    <2> SUFFICES ASSUME [Next]_vars PROVE status' = status \/ Allowed(status, status')
      BY EnterStep DEF Life!vars
    <2>1. CASE \E j \in queued : Load(j) \/ Archive(j)
      BY <2>1 DEF Load, Archive, invoiceVars
    <2>2. ASSUME NEW w \in items, Process(w) PROVE Allowed(status, status')
      <3>1. PICK d \in Decisions(status) : status' = d.to
        BY <2>2 DEF Process, Current, Change
      <3> QED BY <3>1, DecisionsDeclared
    <2>3. ASSUME NEW w \in items, WorkerStep(w) \/ Crash(w), ~Process(w) PROVE status' = status
      BY <2>3 DEF WorkerStep, Stale, ExportLoad, SaveAttempt, RecordSagaFailure, Crash, invoiceVars
    <2>4. CASE HumanStep \/ AnalysisToReview
      BY <2>4, HumanLife
    <2>5. CASE RunReanalysis
      <3>1. \/ status' = status
            \/ status = "COMMERCIALLY_VALIDATED" /\ \E d \in Classifications : status' = d.to
        BY <2>5 DEF RunReanalysis, Change, invoiceVars
      <3> QED BY <3>1, DecisionsDeclared
    <2>6. CASE LoseReanalysis
      BY <2>6 DEF LoseReanalysis, invoiceVars
    <2>7. CASE UNCHANGED vars
      BY <2>7 DEF vars, invoiceVars
    <2> QED BY <2>1, <2>2, <2>3, <2>4, <2>5, <2>6, <2>7 DEF Next
  <1> QED BY <1>1, <1>2, PTL DEF Spec, ImplementsLifecycle, Life!Spec
=============================================================================

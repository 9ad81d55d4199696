---------------------- MODULE ClassificationWorkflowProofs ----------------------
(***************************************************************************)
(* Proofs about ClassificationWorkflow, for all sets of dimensions and all *)
(* bounds.  ReviewHasTask and ReadyIsFinal are not inductive: the task that*)
(* routes an invoice to review must not have been resolved before, which   *)
(* rests on the tasks a run cannot have yet (Fresh), and an answer that    *)
(* arrives late must find every row of a ready invoice accepted.           *)
(***************************************************************************)
EXTENDS ClassificationWorkflow, TLAPS

RowType == Row \cup {Absent}
TaskType == [Runs -> {"none", "OPEN", "RESOLVED"}]
AnalysisType == [Ids -> [status : {"none", "RUNNING", "DONE", "FAILED", "SUPERSEDED", "NOT_NEEDED"},
                         run : 0..(MaxLoops + 1)]]
BusyType == [id : Ids, stale : BOOLEAN, ask : SUBSET Lines]
ProcType == [id : Ids, stage : {"prepare", "publish", "manual", "unpublished"}]

\* Only a run that was current has had a task, and an invoice that rests in CLASSIFIED
\* has had none for its run.
Fresh == /\ status # "COMMERCIALLY_VALIDATED" => run \in Runs
         /\ \A r \in Runs : r > run => task[r] = "none"
         /\ status = "CLASSIFIED" => task[run] = "none"

Invoice == Fresh /\ ReviewHasTask /\ ReadyIsFinal
Inv == TypeOK /\ Invoice

\* The steps of AcceptedStays and AnalysisEndsOnce.
Stays(d) == run' = run /\ rows[d].review = "ACCEPTED" => rows'[d] = rows[d]
Once(a) == analysis[a].status \notin {"none", "RUNNING"} => analysis'[a] = analysis[a]

\* What is proved of every step.
Kept == Inv' /\ (\A d \in Lines : Stays(d)) /\ (\A a \in Ids : Once(a))

----------------------------------------------------------------------------
LEMMA Numbers ==
  /\ MaxLoops \in Nat /\ MaxRequests \in Nat
  /\ Runs \subseteq Ids /\ Runs \subseteq 1 .. (MaxLoops + 1)
  /\ \A r \in Runs : r \in 0 .. (MaxLoops + 1) /\ r \in Nat
  BY BoundsAssumption DEF Runs, Ids

LEMMA CaseType ==
  ASSUME case \in Cases
  PROVE  /\ case.loops \in 0 .. MaxLoops /\ case.requests \in 0 .. MaxRequests
         /\ case.faults \in 0 .. MaxFaults
  BY CasesAssumption

LEMMA FinalIsAccepted == \A r \in RowType : Resolve(r) = "FINAL" <=> r.review = "ACCEPTED"
  <1> SUFFICES ASSUME NEW r \in RowType PROVE Resolve(r) = "FINAL" <=> r.review = "ACCEPTED"
    OBVIOUS
  <1>1. CASE r.review = "ACCEPTED"
    BY <1>1 DEF Resolve
  <1>2. CASE r.review # "ACCEPTED" /\ r.source \in {"PROPOSAL", "RULE"}
    BY <1>2 DEF Resolve
  <1>3. CASE r.review # "ACCEPTED" /\ r.source \notin {"PROPOSAL", "RULE"}
    BY <1>3 DEF Resolve
  <1> QED BY <1>1, <1>2, <1>3

LEMMA PolicyRowType == PolicyRows \subseteq RowType
  BY DEF PolicyRows, RowType, Row

LEMMA CompleteMeans ==
  ASSUME NEW rs \in [Lines -> RowType]
  PROVE  Complete(rs) <=> \A d \in Lines : rs[d].review = "ACCEPTED"
  BY FinalIsAccepted DEF Complete

LEMMA TypeParts ==
  TypeOK <=> /\ status \in Statuses /\ run \in 0..(MaxLoops + 1)
             /\ rows \in [Lines -> RowType] /\ task \in TaskType
             /\ analysis \in AnalysisType
             /\ jobs \subseteq Ids /\ archived \subseteq Ids
             /\ busy \subseteq BusyType /\ proc \subseteq ProcType
             /\ case \in Cases
             /\ loops \in 0..MaxLoops /\ requests \in 0..MaxRequests /\ faults \in 0..MaxFaults
  BY DEF TypeOK, RowType, TaskType, AnalysisType, BusyType, ProcType

LEMMA InitInv == Init => Inv
  <1> SUFFICES ASSUME Init PROVE Inv
    OBVIOUS
  <1> USE DEF Init
  <1>1. /\ run \in 0 .. (MaxLoops + 1) /\ loops \in 0 .. MaxLoops
        /\ requests \in 0 .. MaxRequests /\ faults \in 0 .. MaxFaults
    BY BoundsAssumption
  <1>2. rows \in [Lines -> RowType] /\ task \in TaskType
    BY DEF RowType, TaskType
  <1>3. analysis \in AnalysisType
    BY <1>1 DEF AnalysisType
  <1>4. TypeOK
    BY <1>1, <1>2, <1>3, TypeParts DEF Statuses
  <1>5. Invoice
    BY DEF Invoice, Fresh, ReviewHasTask, ReadyIsFinal
  <1> QED BY <1>4, <1>5 DEF Inv

----------------------------------------------------------------------------
\* Steps that leave the invoice and its tasks alone.
LEMMA QuietKeepsInv ==
  ASSUME Inv, UNCHANGED <<invoiceVars, task, case>>,
         analysis' \in AnalysisType, \A a \in Ids : Once(a),
         jobs' \subseteq Ids, archived' \subseteq Ids,
         busy' \subseteq BusyType, proc' \subseteq ProcType,
         loops' \in 0..MaxLoops, requests' \in 0..MaxRequests, faults' \in 0..MaxFaults
  PROVE  Kept
  <1> USE DEF invoiceVars
  <1>1. TypeOK'
    BY TypeParts DEF Inv, RowType, TaskType, AnalysisType, BusyType, ProcType, TypeOK, Lines
  <1>2. Complete(rows)' <=> Complete(rows)
    BY DEF Complete, Lines
  <1>3. Invoice'
    BY <1>2 DEF Inv, Invoice, Fresh, ReviewHasTask, ReadyIsFinal
  <1>4. \A d \in Lines : Stays(d)
    BY DEF Stays
  <1> QED BY <1>1, <1>3, <1>4 DEF Kept, Inv

\* Steps of the invoice: what they leave must be shown for it.
LEMMA InvoiceStepKeepsInv ==
  ASSUME Inv, UNCHANGED case, status' \in Statuses, run' \in 0..(MaxLoops + 1),
         rows' \in [Lines -> RowType], task' \in TaskType,
         Invoice', \A d \in Lines : Stays(d),
         analysis' \in AnalysisType, \A a \in Ids : Once(a),
         jobs' \subseteq Ids, archived' \subseteq Ids,
         busy' \subseteq BusyType, proc' \subseteq ProcType,
         loops' \in 0..MaxLoops, requests' = requests, faults' = faults
  PROVE  Kept
  <1>1. TypeOK'
    BY TypeParts DEF Inv, RowType, TaskType, AnalysisType, BusyType, ProcType, TypeOK, Lines
  <1> QED BY <1>1 DEF Kept, Inv

LEMMA SameAnalyses == ASSUME Inv, analysis' = analysis PROVE analysis' \in AnalysisType /\ \A a \in Ids : Once(a)
  BY TypeParts DEF Inv, Once

\* The outcome of an analysis that runs.
LEMMA EndsRunning ==
  ASSUME Inv, NEW a \in Ids, NEW s \in {"DONE", "FAILED", "SUPERSEDED", "NOT_NEEDED"},
         analysis[a].status = "RUNNING", End(a, s)
  PROVE  analysis' \in AnalysisType /\ \A b \in Ids : Once(b)
  <1>1. analysis \in AnalysisType
    BY TypeParts DEF Inv
  <1> QED BY <1>1 DEF End, AnalysisType, Once

LEMMA TaskInserted ==
  ASSUME Inv, NEW r \in Runs, InsertTask(r)
  PROVE  task' \in TaskType /\ task'[r] = "OPEN" /\ \A q \in Runs \ {r} : task'[q] = task[q]
  BY TypeParts DEF Inv, InsertTask, TaskType

LEMMA TasksResolved ==
  ASSUME Inv, ResolveTasks
  PROVE  /\ task' \in TaskType
         /\ \A r \in Runs : task'[r] # "OPEN" /\ (task[r] = "none" => task'[r] = "none")
  BY TypeParts DEF Inv, ResolveTasks, TaskType

----------------------------------------------------------------------------
\* A new run: nothing is known of its tasks, and everything of what it decides.
LEMMA NewRun ==
  ASSUME Inv, status = "COMMERCIALLY_VALIDATED", run + 1 \in Runs, run' = run + 1, case' = case,
         rows' \in [Lines -> RowType],
         \/ status' = "CLASSIFIED" /\ UNCHANGED task
         \/ status' = "AWAITING_REVIEW" /\ InsertTask(run + 1)
         \/ status' = "READY_FOR_SAGA" /\ UNCHANGED task /\ \A d \in Lines : rows'[d].review = "ACCEPTED"
  PROVE  /\ run' \in 0 .. (MaxLoops + 1) /\ status' \in Statuses /\ task' \in TaskType
         /\ Invoice' /\ \A d \in Lines : Stays(d)
  <1>1. run \in Nat /\ run' \in 0 .. (MaxLoops + 1) /\ run' \in Runs /\ task \in TaskType
    BY TypeParts, Numbers DEF Inv
  <1>2. task[run'] = "none" /\ \A r \in Runs : r > run' => task[r] = "none"
    BY <1>1, Numbers DEF Inv, Invoice, Fresh
  <1>3. \A d \in Lines : Stays(d)
    BY <1>1 DEF Stays
  <1>4. CASE status' = "CLASSIFIED" /\ UNCHANGED task
    BY <1>1, <1>2, <1>3, <1>4 DEF Invoice, Fresh, ReviewHasTask, ReadyIsFinal, Statuses
  <1>5. CASE status' = "AWAITING_REVIEW" /\ InsertTask(run + 1)
    <2>1. task' \in TaskType /\ task'[run'] = "OPEN" /\ \A r \in Runs \ {run'} : task'[r] = task[r]
      BY <1>1, <1>5, TaskInserted
    <2> QED BY <1>1, <1>2, <1>3, <1>5, <2>1 DEF Invoice, Fresh, ReviewHasTask, ReadyIsFinal, Statuses
  <1>6. CASE status' = "READY_FOR_SAGA" /\ UNCHANGED task /\ \A d \in Lines : rows'[d].review = "ACCEPTED"
    <2>1. Complete(rows)'
      BY <1>6, FinalIsAccepted DEF Complete, Lines
    <2> QED BY <1>1, <1>2, <1>3, <1>6, <2>1 DEF Invoice, Fresh, ReviewHasTask, ReadyIsFinal, Statuses
  <1> QED BY <1>4, <1>5, <1>6

LEMMA ProcessInvoiceInv == ASSUME Inv, ProcessInvoice PROVE Kept
  <1>1. ASSUME NEW rs \in [Lines -> PolicyRows], ApplyClassification(rs)
        PROVE  Kept
    <2>1. /\ status = "COMMERCIALLY_VALIDATED" /\ run + 1 \in Runs /\ run' = run + 1 /\ case' = case
          /\ rows' = rs
          /\ \/ status' = "CLASSIFIED" /\ UNCHANGED task
             \/ status' = "AWAITING_REVIEW" /\ InsertTask(run + 1)
             \/ status' = "READY_FOR_SAGA" /\ UNCHANGED task /\ \A d \in Lines : rs[d].review = "ACCEPTED"
          /\ UNCHANGED <<analysisVars, budgetVars>>
          /\ \/ proc' = proc
             \/ proc' = proc \cup {[id |-> run + 1, stage |-> "prepare"]}
      BY <1>1 DEF ApplyClassification, budgetVars
    <2>2. rows' \in [Lines -> RowType]
      BY <2>1, PolicyRowType
    <2>3. proc' \subseteq ProcType
      BY <2>1, Numbers, TypeParts DEF Inv, ProcType
    <2>4. /\ run' \in 0 .. (MaxLoops + 1) /\ status' \in Statuses /\ task' \in TaskType
          /\ Invoice' /\ \A d \in Lines : Stays(d)
      BY <2>1, <2>2, NewRun
    <2> QED BY <2>1, <2>2, <2>3, <2>4, SameAnalyses, TypeParts, InvoiceStepKeepsInv
            DEF analysisVars, budgetVars, Inv
  <1>2. ASSUME ApplyClassificationBlock PROVE Kept
    <2>1. /\ status = "COMMERCIALLY_VALIDATED" /\ run + 1 \in Runs /\ run' = run + 1 /\ case' = case
          /\ rows' \in [Lines -> RowType]
          /\ status' = "AWAITING_REVIEW" /\ InsertTask(run + 1)
          /\ UNCHANGED <<analysisVars, proc, budgetVars>>
      BY <1>2 DEF ApplyClassificationBlock, budgetVars, RowType
    <2>2. /\ run' \in 0 .. (MaxLoops + 1) /\ status' \in Statuses /\ task' \in TaskType
          /\ Invoice' /\ \A d \in Lines : Stays(d)
      BY <2>1, NewRun
    <2> QED BY <2>1, <2>2, SameAnalyses, TypeParts, InvoiceStepKeepsInv
            DEF analysisVars, budgetVars, Inv
  <1> QED BY <1>1, <1>2 DEF ProcessInvoice

----------------------------------------------------------------------------
\* The end of an analysis, with the rows it leaves: an answer changes none of a ready
\* invoice, where all are accepted.
LEMMA EnsuredReview ==
  ASSUME Inv, NEW a \in Ids, NEW rs \in [Lines -> RowType], EnsureReview(a, rs),
         run' = run, case' = case, rows' = rs,
         Complete(rows) => rs = rows,
         \A d \in Lines : rows[d].review = "ACCEPTED" => rs[d] = rows[d]
  PROVE  /\ status' \in Statuses /\ task' \in TaskType
         /\ Invoice' /\ \A d \in Lines : Stays(d)
  <1>1. /\ status \in Statuses /\ run \in 0 .. (MaxLoops + 1) /\ task \in TaskType
        /\ status # "COMMERCIALLY_VALIDATED" => run \in Runs
        /\ \A r \in Runs : r > run => task[r] = "none"
        /\ status = "CLASSIFIED" => task[run] = "none"
        /\ ReviewHasTask /\ ReadyIsFinal
    BY TypeParts DEF Inv, Invoice, Fresh
  <1>2. Complete(rows)' <=> Complete(rs)
    BY DEF Complete, Lines
  <1>3. \A d \in Lines : Stays(d)
    BY DEF Stays
  <1> DEFINE relevant == Relevant(a, rs)
  <1>4. relevant => ~Complete(rs)
    BY DEF Relevant
  <1>5. /\ task' = IF relevant /\ task[run] = "none" THEN [task EXCEPT ![run] = "OPEN"] ELSE task
        /\ status' = CASE status = "CLASSIFIED" /\ relevant -> "AWAITING_REVIEW"
                       [] status = "CLASSIFIED" /\ analysis[a].run = run /\ Complete(rs) -> "READY_FOR_SAGA"
                       [] OTHER -> status
    BY DEF EnsureReview, InsertTask
  <1> HIDE DEF relevant
  <1>6. task' \in TaskType /\ \A r \in Runs : r # run => task'[r] = task[r]
    BY <1>1, <1>5 DEF TaskType
  <1>7. CASE status = "CLASSIFIED" /\ relevant
    <2>1. status' = "AWAITING_REVIEW" /\ run \in Runs /\ task'[run] = "OPEN"
      BY <1>1, <1>4, <1>5, <1>7 DEF TaskType
    <2> QED BY <1>1, <1>3, <1>6, <2>1, Numbers DEF Invoice, Fresh, ReviewHasTask, ReadyIsFinal, Statuses
  <1>8. CASE status = "CLASSIFIED" /\ ~relevant /\ analysis[a].run = run /\ Complete(rs)
    <2>1. status' = "READY_FOR_SAGA" /\ task' = task
      BY <1>5, <1>8
    <2> QED BY <1>1, <1>2, <1>3, <1>8, <2>1 DEF Invoice, Fresh, ReviewHasTask, ReadyIsFinal, Statuses
  <1>9. CASE ~(status = "CLASSIFIED" /\ relevant)
             /\ ~(status = "CLASSIFIED" /\ analysis[a].run = run /\ Complete(rs))
    <2>1. status' = status
      BY <1>5, <1>9
    <2>2. status \in {"READY_FOR_SAGA", "EXPORTING"} => Complete(rs) /\ task' = task
      BY <1>1, <1>4, <1>5 DEF ReadyIsFinal
    <2>3. status \in {"CLASSIFIED", "AWAITING_REVIEW"} => task' = task
      BY <1>1, <1>5, <1>9 DEF ReviewHasTask
    <2>4. \A r \in Runs : r > run => task'[r] = "none"
      BY <1>1, <1>6, Numbers
    <2> QED BY <1>1, <1>2, <1>3, <1>6, <2>1, <2>2, <2>3, <2>4
            DEF Invoice, Fresh, ReviewHasTask, ReadyIsFinal
  <1> QED BY <1>7, <1>8, <1>9

LEMMA FailAnalysisKeeps ==
  ASSUME Inv, NEW a \in Ids, FailAnalysis(a), UNCHANGED <<run, rows, case>>
  PROVE  /\ status' \in Statuses /\ task' \in TaskType
         /\ Invoice' /\ (\A d \in Lines : Stays(d))
         /\ analysis' \in AnalysisType /\ \A b \in Ids : Once(b)
  <1>1. rows \in [Lines -> RowType]
    BY TypeParts DEF Inv
  <1>2. CASE analysis[a].status = "RUNNING" /\ EnsureReview(a, rows) /\ End(a, "FAILED")
    BY <1>1, <1>2, EnsuredReview, EndsRunning
  <1>3. CASE UNCHANGED <<analysis, status, task>>
    <2>1. Complete(rows)' <=> Complete(rows)
      BY DEF Complete, Lines
    <2>2. Invoice'
      BY <1>3, <2>1 DEF Inv, Invoice, Fresh, ReviewHasTask, ReadyIsFinal
    <2> QED BY <1>3, <2>2, SameAnalyses, TypeParts DEF Inv, Stays
  <1> QED BY <1>2, <1>3 DEF FailAnalysis

----------------------------------------------------------------------------
\* The processes that ask for an analysis.
LEMMA ProcTypes ==
  ASSUME Inv, NEW p \in proc
  PROVE  /\ Leave(p) => proc' \subseteq ProcType
         /\ \A s \in {"prepare", "publish", "manual", "unpublished"} : Move(p, s) => proc' \subseteq ProcType
  <1>1. p \in ProcType /\ proc \subseteq ProcType
    BY TypeParts DEF Inv
  <1>2. \A s \in {"prepare", "publish", "manual", "unpublished"} : [p EXCEPT !.stage = s] \in ProcType
    BY <1>1 DEF ProcType
  <1> QED BY <1>1, <1>2 DEF Leave, Move, ProcType

LEMMA PrepareInv == ASSUME Inv, NEW p \in proc, Prepare(p) PROVE Kept
  <1>1. proc' \subseteq ProcType /\ p.id \in Ids
    <2>1. p.id \in Ids
      BY TypeParts DEF Inv, ProcType
    <2>2. Leave(p) \/ \E s \in {"prepare", "publish", "manual", "unpublished"} : Move(p, s)
      BY DEF Prepare
    <2> QED BY <2>1, <2>2, ProcTypes
  <1>2. analysis' \in AnalysisType /\ \A a \in Ids : Once(a)
    <2>1. CASE analysis' = analysis
      BY <2>1, SameAnalyses
    <2>2. CASE /\ analysis[p.id].status = "none"
               /\ analysis' = [analysis EXCEPT ![p.id] = [status |-> "RUNNING", run |-> run]]
      BY <1>1, <2>2, TypeParts DEF Inv, AnalysisType, Once
    <2> QED BY <2>1, <2>2 DEF Prepare
  <1> QED BY <1>1, <1>2, QuietKeepsInv, TypeParts DEF Prepare, budgetVars, Inv

LEMMA OpenManualReviewInv == ASSUME Inv, NEW p \in proc, OpenManualReview(p) PROVE Kept
  <1>1. /\ proc' \subseteq ProcType
        /\ UNCHANGED <<run, rows, analysisVars, budgetVars>>
    BY ProcTypes DEF OpenManualReview
  <1>2. CASE UNCHANGED <<status, task>>
    BY <1>1, <1>2, QuietKeepsInv, SameAnalyses, TypeParts DEF invoiceVars, analysisVars, budgetVars, Inv
  <1>3. CASE status = "CLASSIFIED" /\ status' = "AWAITING_REVIEW" /\ InsertTask(run)
    <2>1. run \in Runs /\ \A r \in Runs : r > run => task[r] = "none"
      BY <1>3 DEF Inv, Invoice, Fresh
    <2>2. task' \in TaskType /\ task'[run] = "OPEN" /\ \A r \in Runs \ {run} : task'[r] = task[r]
      BY <1>3, <2>1, TaskInserted
    <2>3. Invoice'
      BY <1>1, <1>3, <2>1, <2>2, Numbers DEF Invoice, Fresh, ReviewHasTask, ReadyIsFinal
    <2>4. \A d \in Lines : Stays(d)
      BY <1>1 DEF Stays
    <2> QED BY <1>1, <1>3, <2>2, <2>3, <2>4, InvoiceStepKeepsInv, SameAnalyses, TypeParts
            DEF Inv, analysisVars, budgetVars, Statuses
  <1> QED BY <1>2, <1>3 DEF OpenManualReview

LEMMA PublishInv == ASSUME Inv, NEW p \in proc, Publish(p) PROVE Kept
  <1>1. /\ proc' \subseteq ProcType /\ p.id \in Ids
    <2>1. p.id \in Ids
      BY TypeParts DEF Inv, ProcType
    <2>2. Leave(p) \/ Move(p, "unpublished")
      BY DEF Publish
    <2> QED BY <2>1, <2>2, ProcTypes
  <1>2. jobs' \subseteq Ids
    BY <1>1, TypeParts DEF Publish, Inv
  <1> QED BY <1>1, <1>2, QuietKeepsInv, SameAnalyses, TypeParts DEF Publish, budgetVars, Inv

LEMMA FailUnpublishedInv == ASSUME Inv, NEW p \in proc, FailUnpublished(p) PROVE Kept
  <1>1. /\ FailAnalysis(p.id) /\ UNCHANGED <<run, rows, jobs, archived, busy, budgetVars>>
        /\ proc' \subseteq ProcType /\ p.id \in Ids
    <2>1. p.id \in Ids
      BY TypeParts DEF Inv, ProcType
    <2> QED BY <2>1, ProcTypes DEF FailUnpublished
  <1>2. /\ status' \in Statuses /\ task' \in TaskType
        /\ Invoice' /\ (\A d \in Lines : Stays(d))
        /\ analysis' \in AnalysisType /\ \A b \in Ids : Once(b)
    BY <1>1, FailAnalysisKeeps DEF budgetVars
  <1> QED BY <1>1, <1>2, InvoiceStepKeepsInv, TypeParts DEF Inv, budgetVars

LEMMA LoseProcessInv == ASSUME Inv, NEW p \in proc, LoseProcess(p) PROVE Kept
  <1>1. proc' \subseteq ProcType
    BY ProcTypes DEF LoseProcess
  <1>2. faults' \in 0 .. MaxFaults
    BY CaseType, BoundsAssumption DEF LoseProcess, Fault, Inv, TypeOK
  <1> QED BY <1>1, <1>2, QuietKeepsInv, SameAnalyses, TypeParts DEF LoseProcess, analysisVars, Inv

----------------------------------------------------------------------------
\* The worker.
LEMMA LoadInv == ASSUME Inv, NEW a \in Ids, Load(a) PROVE Kept
  <1>1. NeedAI \in SUBSET Lines
    BY DEF NeedAI
  <1>2. busy' \subseteq BusyType /\ jobs' \subseteq Ids
    <2>1. /\ busy \subseteq BusyType /\ jobs \subseteq Ids
          /\ [id |-> a, stale |-> analysis[a].run # run, ask |-> NeedAI] \in BusyType
      BY <1>1, TypeParts DEF Inv, BusyType
    <2>2. \/ busy' = busy \cup {[id |-> a, stale |-> analysis[a].run # run, ask |-> NeedAI]} /\ jobs' = jobs
          \/ busy' = busy /\ jobs' = jobs \ {a}
      BY DEF Load
    <2>3. Lines' = Lines
      BY DEF Load, budgetVars, Lines
    <2> QED BY <2>1, <2>2, <2>3
  <1> QED BY <1>2, QuietKeepsInv, SameAnalyses, TypeParts DEF Load, budgetVars, Inv

LEMMA Acknowledged ==
  ASSUME Inv, NEW b \in busy
  PROVE  /\ b.id \in Ids /\ b.ask \in SUBSET Lines
         /\ Ack(b) => busy' \subseteq BusyType /\ jobs' \subseteq Ids
  BY TypeParts DEF Inv, Ack, BusyType

LEMMA SkipInv == ASSUME Inv, NEW b \in busy, Skip(b) PROVE Kept
  <1>1. b.id \in Ids /\ busy' \subseteq BusyType /\ jobs' \subseteq Ids
    BY Acknowledged DEF Skip
  <1>2. analysis' \in AnalysisType /\ \A a \in Ids : Once(a)
    <2>1. CASE analysis[b.id].status = "RUNNING"
      <3>1. \E s \in {"SUPERSEDED", "NOT_NEEDED"} : End(b.id, s)
        BY <2>1 DEF Skip
      <3> QED BY <1>1, <2>1, <3>1, EndsRunning
    <2>2. CASE analysis[b.id].status # "RUNNING"
      BY <2>2, SameAnalyses DEF Skip
    <2> QED BY <2>1, <2>2
  <1> QED BY <1>1, <1>2, QuietKeepsInv, TypeParts DEF Skip, budgetVars, Inv

LEMMA CompleteAnalysisInv == ASSUME Inv, NEW b \in busy, CompleteAnalysis(b) PROVE Kept
  <1>1. /\ b.id \in Ids /\ b.ask \in SUBSET Lines /\ busy' \subseteq BusyType /\ jobs' \subseteq Ids
        /\ UNCHANGED <<run, archived, proc, budgetVars>>
    BY Acknowledged DEF CompleteAnalysis
  <1>2. ASSUME NEW ds \in SUBSET b.ask, analysis[b.id].status = "RUNNING",
               rows' = WithProposals(Answered(b.id, ds)), EnsureReview(b.id, rows'),
               End(b.id, "DONE")
        PROVE  Kept
    <2>1. PICK rs : rs = WithProposals(Answered(b.id, ds))
      OBVIOUS
    <2>2. rows \in [Lines -> RowType]
      BY TypeParts DEF Inv
    <2>3. [source |-> "PROPOSAL", review |-> "PENDING"] \in RowType
      BY DEF RowType, Row
    <2>4. rs \in [Lines -> RowType]
      BY <2>1, <2>2, <2>3 DEF WithProposals
    <2>5. \A d \in Lines : rows[d].review = "ACCEPTED" => rs[d] = rows[d]
      BY <2>1 DEF WithProposals, Answered
    <2>6. Complete(rows) => rs = rows
      BY <2>2, <2>4, <2>5, FinalIsAccepted DEF Complete
    <2>7. rows' = rs /\ EnsureReview(b.id, rs) /\ run' = run /\ case' = case
      BY <1>1, <1>2, <2>1 DEF budgetVars
    <2>8. /\ status' \in Statuses /\ task' \in TaskType
          /\ Invoice' /\ \A d \in Lines : Stays(d)
      BY <1>1, <2>4, <2>5, <2>6, <2>7, EnsuredReview
    <2>9. analysis' \in AnalysisType /\ \A a \in Ids : Once(a)
      BY <1>1, <1>2, EndsRunning
    <2> QED BY <1>1, <2>4, <2>7, <2>8, <2>9, InvoiceStepKeepsInv, TypeParts DEF Inv, budgetVars
  <1>3. CASE UNCHANGED <<status, rows, task, analysis>>
    BY <1>1, <1>3, QuietKeepsInv, SameAnalyses, TypeParts DEF budgetVars, invoiceVars, Inv
  <1> QED BY <1>2, <1>3 DEF CompleteAnalysis

LEMMA FailInv == ASSUME Inv, NEW b \in busy, Fail(b) PROVE Kept
  <1>1. /\ b.id \in Ids /\ busy' \subseteq BusyType /\ jobs' \subseteq Ids
        /\ FailAnalysis(b.id) /\ UNCHANGED <<run, rows, proc, budgetVars>>
    BY Acknowledged DEF Fail
  <1>2. archived' \subseteq Ids
    BY <1>1, TypeParts DEF Fail, Inv
  <1>3. /\ status' \in Statuses /\ task' \in TaskType
        /\ Invoice' /\ (\A d \in Lines : Stays(d))
        /\ analysis' \in AnalysisType /\ \A a \in Ids : Once(a)
    BY <1>1, FailAnalysisKeeps DEF budgetVars
  <1> QED BY <1>1, <1>2, <1>3, InvoiceStepKeepsInv, TypeParts DEF Inv, budgetVars

LEMMA LoseWorkerInv == ASSUME Inv, NEW b \in busy, LoseWorker(b) PROVE Kept
  <1>1. /\ busy' \subseteq BusyType /\ jobs' \subseteq Ids /\ archived' \subseteq Ids
    BY Acknowledged, TypeParts DEF LoseWorker, Inv
  <1>2. faults' \in 0 .. MaxFaults
    BY CaseType, BoundsAssumption DEF LoseWorker, Fault, Inv, TypeOK
  <1> QED BY <1>1, <1>2, QuietKeepsInv, SameAnalyses, TypeParts DEF LoseWorker, Inv

----------------------------------------------------------------------------
\* The accountant.
LEMMA HumanRequestInv == ASSUME Inv, HumanRequest \/ RepeatReanalysis PROVE Kept
  <1>1. requests' = requests + 1 /\ requests < case.requests /\ case \in Cases /\ requests \in 0 .. MaxRequests
    BY TypeParts DEF HumanRequest, RepeatReanalysis, Inv
  <1>2. requests' \in 1 .. MaxRequests
    BY <1>1, CaseType, Numbers
  <1>3. MaxLoops + 1 + requests' \in Ids
    <2>1. PICK n \in 1 .. MaxRequests : n = requests'
      BY <1>2
    <2>2. MaxLoops + 1 + n \in 1 .. (MaxLoops + 1 + MaxRequests)
      BY BoundsAssumption
    <2> QED BY <2>1, <2>2 DEF Ids
  <1>4. \A r \in 2 .. run : r \in Ids
    BY TypeParts, Numbers DEF Inv, Ids
  <1>5. proc' \subseteq ProcType
    <2>1. \E a \in Ids : proc' = proc \cup {[id |-> a, stage |-> "prepare"]}
      BY <1>3, <1>4 DEF HumanRequest, RepeatReanalysis
    <2> QED BY <2>1, TypeParts DEF Inv, ProcType
  <1>6. requests' \in 0 .. MaxRequests
    BY <1>2
  <1> QED BY <1>5, <1>6, QuietKeepsInv, SameAnalyses, TypeParts
          DEF HumanRequest, RepeatReanalysis, analysisVars, Inv

\* The end of a review, with the rows it leaves.
LEMMA Finished ==
  ASSUME Inv, NEW rs \in [Lines -> RowType], Finish(rs), rows' = rs, run' = run, case' = case,
         run \in Runs, status \notin {"READY_FOR_SAGA", "EXPORTING"}
  PROVE  status' \in Statuses /\ task' \in TaskType /\ Invoice'
  <1>1. Complete(rows)' <=> Complete(rs)
    BY DEF Complete, Lines
  <1>2. CASE Complete(rs) /\ status' = "READY_FOR_SAGA" /\ ResolveTasks
    BY <1>1, <1>2, TasksResolved DEF Inv, Invoice, Fresh, ReviewHasTask, ReadyIsFinal, Statuses
  <1>3. CASE UNCHANGED <<status, task>>
    BY <1>3, TypeParts DEF Inv, Invoice, Fresh, ReviewHasTask, ReadyIsFinal
  <1> QED BY <1>2, <1>3 DEF Finish

LEMMA ReviewClassificationInv ==
  ASSUME Inv, NEW d \in Lines, ReviewClassification(d)
  PROVE  Kept
  <1>1. /\ status = "AWAITING_REVIEW" /\ rows[d] \in Row /\ rows \in [Lines -> RowType] /\ run \in Runs
        /\ rows' = [rows EXCEPT ![d].review = "ACCEPTED"] /\ Finish(rows')
        /\ UNCHANGED <<run, analysisVars, proc, budgetVars>>
    BY TypeParts DEF ReviewClassification, RowType, Inv, Invoice, Fresh
  <1>2. rows' \in [Lines -> RowType]
    BY <1>1 DEF RowType, Row
  <1>3. PICK rs \in [Lines -> RowType] : rs = rows'
    BY <1>2
  <1>4. status' \in Statuses /\ task' \in TaskType /\ Invoice'
    BY <1>1, <1>3, Finished DEF budgetVars
  <1>5. \A e \in Lines : Stays(e)
    <2> SUFFICES ASSUME NEW e \in Lines PROVE Stays(e)
      OBVIOUS
    <2>1. CASE e = d
      BY <1>1, <2>1 DEF Stays, Row
    <2>2. CASE e # d
      BY <1>1, <2>2 DEF Stays
    <2> QED BY <2>1, <2>2
  <1> QED BY <1>1, <1>2, <1>4, <1>5, InvoiceStepKeepsInv, SameAnalyses, TypeParts
          DEF Inv, analysisVars, budgetVars

LEMMA ApproveAllInv == ASSUME Inv, NEW ds \in SUBSET Lines, ApproveAll(ds) PROVE Kept
  <1>1. /\ run > 0 /\ task[run] = "OPEN" /\ rows \in [Lines -> RowType]
        /\ \A d \in ds : rows[d].review = "PENDING"
        /\ rows' = [d \in Lines |-> IF d \in ds THEN [rows[d] EXCEPT !.review = "ACCEPTED"] ELSE rows[d]]
        /\ Finish(rows')
        /\ UNCHANGED <<run, analysisVars, proc, budgetVars>>
    BY TypeParts DEF ApproveAll, Inv
  <1>2. run \in Runs
    BY <1>1, TypeParts, Numbers DEF Inv, Runs
  <1>3. status \notin {"READY_FOR_SAGA", "EXPORTING"}
    BY <1>1 DEF Inv, Invoice, ReadyIsFinal
  <1>4. \A d \in ds : rows[d] \in Row
    BY <1>1 DEF RowType, Absent
  <1>5. rows' \in [Lines -> RowType]
    BY <1>1, <1>4 DEF RowType, Row
  <1>6. PICK rs \in [Lines -> RowType] : rs = rows'
    BY <1>5
  <1>7. status' \in Statuses /\ task' \in TaskType /\ Invoice'
    BY <1>1, <1>2, <1>3, <1>6, Finished DEF budgetVars
  <1>8. \A e \in Lines : Stays(e)
    BY <1>1 DEF Stays
  <1> QED BY <1>1, <1>5, <1>7, <1>8, InvoiceStepKeepsInv, SameAnalyses, TypeParts
          DEF Inv, analysisVars, budgetVars

LEMMA PrepareReanalysisInv == ASSUME Inv, PrepareReanalysis PROVE Kept
  <1> USE DEF PrepareReanalysis
  <1>1. task' \in TaskType /\ \A r \in Runs : task[r] = "none" => task'[r] = "none"
    BY TasksResolved
  <1>2. loops' \in 0 .. MaxLoops
    BY CaseType, Numbers, TypeParts DEF Inv
  <1>3. Invoice'
    BY <1>1 DEF Inv, Invoice, Fresh, ReviewHasTask, ReadyIsFinal
  <1>4. \A d \in Lines : Stays(d)
    BY DEF Stays
  <1>5. status' \in Statuses
    BY DEF Statuses
  <1> QED BY <1>1, <1>2, <1>3, <1>4, <1>5, InvoiceStepKeepsInv, SameAnalyses, TypeParts DEF Inv, analysisVars

LEMMA ExportInv == ASSUME Inv, Export PROVE Kept
  <1> USE DEF Export
  <1>1. Complete(rows)' <=> Complete(rows)
    BY DEF Complete, Lines, budgetVars
  <1>2. Invoice'
    BY <1>1 DEF Inv, Invoice, Fresh, ReviewHasTask, ReadyIsFinal
  <1>3. \A d \in Lines : Stays(d)
    BY DEF Stays
  <1>4. status' \in Statuses
    BY DEF Statuses
  <1> QED BY <1>2, <1>3, <1>4, InvoiceStepKeepsInv, SameAnalyses, TypeParts DEF Inv, analysisVars, budgetVars

----------------------------------------------------------------------------
LEMMA StutterInv == ASSUME Inv, UNCHANGED vars PROVE Kept
  BY QuietKeepsInv, SameAnalyses, TypeParts DEF vars, invoiceVars, analysisVars, budgetVars, Inv

LEMMA NextInv == Inv /\ [Next]_vars => Kept
  <1> SUFFICES ASSUME Inv, Next PROVE Kept
    BY StutterInv
  <1>1. CASE ProcessInvoice
    BY <1>1, ProcessInvoiceInv
  <1>2. CASE \E p \in proc : Request(p) \/ LoseProcess(p)
    BY <1>2, PrepareInv, OpenManualReviewInv, PublishInv, FailUnpublishedInv, LoseProcessInv DEF Request
  <1>3. CASE \E a \in Ids : Load(a)
    BY <1>3, LoadInv
  <1>4. CASE \E b \in busy : Work(b) \/ LoseWorker(b)
    BY <1>4, SkipInv, CompleteAnalysisInv, FailInv, LoseWorkerInv DEF Work
  <1>5. CASE Human
    BY <1>5, HumanRequestInv, PrepareReanalysisInv, ReviewClassificationInv, ApproveAllInv DEF Human
  <1>6. CASE Export
    BY <1>6, ExportInv
  <1> QED BY <1>1, <1>2, <1>3, <1>4, <1>5, <1>6 DEF Next

LEMMA SpecInv == Spec => []Inv
  <1>1. Inv /\ [Next]_vars => Inv'
    BY NextInv DEF Kept
  <1> QED BY <1>1, InitInv, PTL DEF Spec

\* Every variable has its values, whatever the invoice, its reanalyses and its faults.
THEOREM TypeCorrect == Spec => []TypeOK
  BY SpecInv, PTL DEF Inv

\* An invoice that waits for review has the open task of its current run, whichever
\* transaction routed it there (ReviewClassification finds it by that task).
THEOREM ReviewAlwaysHasTask == Spec => []ReviewHasTask
  BY SpecInv, PTL DEF Inv, Invoice

\* An invoice that is ready or exporting has a final decision on every dimension, and a
\* late answer cannot take it back (IsAccountingClassificationComplete).
THEOREM ReadyStaysFinal == Spec => []ReadyIsFinal
  BY SpecInv, PTL DEF Inv, Invoice

\* What is decided in the current run stays decided, whatever answers, reviews and
\* approvals come later (the filters of the UPDATE in CompleteAnalysis).
THEOREM DecidedStaysDecided == Spec => AcceptedStays
  <1>1. Inv /\ [Next]_vars =>
          [\A d \in Lines : run' = run /\ rows[d].review = "ACCEPTED" => rows'[d] = rows[d]]_vars
    BY NextInv DEF Kept, Stays
  <1> QED BY <1>1, SpecInv, PTL DEF Spec, AcceptedStays

\* An analysis ends once: publisher and workers never overwrite an outcome (the updates
\* conditional on RUNNING).
THEOREM OutcomeIsFinal == Spec => AnalysisEndsOnce
  <1>1. Inv /\ [Next]_vars =>
          [\A a \in Ids : analysis[a].status \notin {"none", "RUNNING"} => analysis'[a] = analysis[a]]_vars
    BY NextInv DEF Kept, Once
  <1> QED BY <1>1, SpecInv, PTL DEF Spec, AnalysisEndsOnce

----------------------------------------------------------------------------
(* An invoice in CLASSIFIED is attended to.  The runs to come are named    *)
(* after nothing that exists (Future), and while the invoice rests its rows*)
(* are those it was classified with, so that its own analysis is neither   *)
(* stale nor without a question (Waiting).                                 *)

Future == \A a \in Runs : a > run =>
             /\ analysis[a].status = "none"
             /\ a \notin jobs \cup archived
             /\ \A b \in busy : b.id # a
             /\ \A p \in proc : p.id # a

Calm == status = "CLASSIFIED" /\ faults = 0 /\ OpenTasks = {}

Waiting == Calm => /\ NeedAI # {}
                   /\ run \notin archived
                   /\ analysis[run].status = "none" \/ analysis[run] = [status |-> "RUNNING", run |-> run]
                   /\ \A b \in busy : b.id = run => ~b.stale /\ b.ask # {}
                   /\ \A p \in proc : p.id = run /\ p.stage \in {"publish", "unpublished"}
                                       => analysis[run].status = "RUNNING"

Attended == Future /\ Waiting /\ ClassifiedIsAttended

\* A step of analysis x, its jobs, workers and requests.
Touches(x) == /\ \A a \in Ids \ {x} : analysis'[a] = analysis[a]
              /\ jobs' \subseteq jobs \cup {x} /\ archived' \subseteq archived \cup {x}
              /\ \A b \in busy' : b.id # x => b \in busy
              /\ \A p \in proc' : p.id # x => p \in proc
              /\ jobs \subseteq jobs' \cup {x}
              /\ \A p \in proc : p.id # x => p \in proc'

SameInvoice == UNCHANGED <<status, run, rows, task, case>>

LEMMA Known ==
  ASSUME Inv, Future
  PROVE  /\ \A p \in proc : p.id \in Ids /\ (p.id \in Runs => ~(p.id > run))
         /\ \A b \in busy : b.id \in Ids /\ (b.id \in Runs => ~(b.id > run))
  BY TypeParts DEF Inv, ProcType, BusyType, Future

LEMMA FutureKept ==
  ASSUME Inv, Future, NEW x, x \in Runs => ~(x > run), run' = run, Touches(x)
  PROVE  Future'
  BY Numbers DEF Future, Touches

\* While the invoice rests, with another analysis at work.
LEMMA OthersKeep ==
  ASSUME Inv, Attended, SameInvoice, faults' = faults, NEW x, x # run, Touches(x)
  PROVE  Waiting' /\ ClassifiedIsAttended'
  <1> SUFFICES ASSUME Calm'
               PROVE  Waiting' /\ ClassifiedIsAttended'
    BY DEF Waiting, ClassifiedIsAttended, Calm
  <1>1. Calm /\ NeedAI' = NeedAI /\ run' = run
    BY DEF SameInvoice, Calm, OpenTasks, NeedAI, Lines
  <1>2. run \in Ids
    BY <1>1, Numbers DEF Inv, Invoice, Fresh, Calm
  <1>3. analysis'[run] = analysis[run]
    BY <1>2 DEF Touches
  <1>4. Waiting'
    BY <1>1, <1>3 DEF Attended, Waiting, Touches
  <1>5. ClassifiedIsAttended'
    BY <1>1, <1>3 DEF Attended, ClassifiedIsAttended, Touches, Calm
  <1> QED BY <1>4, <1>5

\* An invoice that rests no longer, or after a fault.
LEMMA NotCalm ==
  ASSUME ~Calm'
  PROVE  Waiting' /\ ClassifiedIsAttended'
  BY DEF Waiting, ClassifiedIsAttended, Calm

LEMMA RestsMeans ==
  ASSUME Inv, Attended, Calm
  PROVE  /\ run \in Runs /\ run \in Ids /\ IsAutomatic(run) /\ task[run] = "none"
         /\ NeedAI # {} /\ ~Complete(rows) /\ run \notin archived
         /\ analysis \in AnalysisType /\ \A a \in Ids : ~ReviewConflict(a, rows)
         /\ \/ analysis[run].status = "none" /\ \E p \in proc : p.id = run
            \/ analysis[run] = [status |-> "RUNNING", run |-> run]
  <1>1. run \in Runs /\ run \in Ids /\ task[run] = "none"
    BY Numbers DEF Inv, Invoice, Fresh, Calm
  <1>2. NeedAI # {} /\ ~Complete(rows)
    BY DEF Attended, Waiting, NeedAI, Complete
  <1> QED BY <1>1, <1>2, TypeParts DEF IsAutomatic, Inv, Attended, Waiting, ClassifiedIsAttended, Calm, ReviewConflict

LEMMA SameCalm ==
  ASSUME SameInvoice, faults' = faults
  PROVE  Calm' <=> Calm /\ NeedAI' = NeedAI
  BY DEF SameInvoice, Calm, OpenTasks, NeedAI, Lines

----------------------------------------------------------------------------
LEMMA ProcessInvoiceAttended ==
  ASSUME Inv, Attended, ProcessInvoice
  PROVE  Attended'
  <1>1. /\ run + 1 \in Runs /\ run' = run + 1 /\ UNCHANGED analysisVars /\ run \in Nat
        /\ \A p \in proc' : p \in proc \/ p.id = run'
    BY TypeParts DEF ProcessInvoice, ApplyClassification, ApplyClassificationBlock, Inv
  <1>2. Future'
    BY <1>1, Numbers DEF Attended, Future, analysisVars
  <1>3. ASSUME Calm' PROVE Waiting' /\ ClassifiedIsAttended'
    <2>1. PICK rs \in [Lines -> PolicyRows] :
            /\ rows' = rs /\ DeferReviewForAI(rs) /\ proc' = proc \cup {[id |-> run + 1, stage |-> "prepare"]}
            /\ UNCHANGED budgetVars
      BY <1>3 DEF ProcessInvoice, ApplyClassification, ApplyClassificationBlock, Calm
    <2>2. NeedAI' # {}
      <3>1. PICK d \in Lines : rs[d] = [source |-> "NO_MATCH", review |-> "PENDING"]
        BY <2>1 DEF DeferReviewForAI
      <3>2. Resolve(rows'[d]) = "NEEDS_AI"
        BY <2>1, <3>1 DEF Resolve
      <3> QED BY <2>1, <3>2 DEF NeedAI, Lines, budgetVars
    <2>3. /\ run' \notin archived' /\ analysis'[run'].status = "none"
          /\ \A b \in busy' : b.id # run'
          /\ \A p \in proc' : p.id = run' => p.stage = "prepare"
      BY <1>1, <2>1 DEF Attended, Future, analysisVars
    <2>4. \E p \in proc' : p.id = run'
      <3>1. [id |-> run + 1, stage |-> "prepare"] \in proc' /\ [id |-> run + 1, stage |-> "prepare"].id = run'
        BY <1>1, <2>1
      <3> QED BY <3>1
    <2> QED BY <2>2, <2>3, <2>4 DEF Waiting, ClassifiedIsAttended
  <1> QED BY <1>2, <1>3, NotCalm DEF Attended

LEMMA MovesTouch ==
  ASSUME Inv, NEW p \in proc, Leave(p) \/ \E s : Move(p, s)
  PROVE  /\ \A q \in proc' : q.id # p.id => q \in proc
         /\ \A q \in proc : q.id # p.id => q \in proc'
  BY TypeParts DEF Inv, ProcType, Leave, Move

LEMMA MovedTo ==
  ASSUME Inv, NEW p \in proc, NEW s, Move(p, s)
  PROVE  [p EXCEPT !.stage = s] \in proc' /\ \A q \in proc' : q \in proc \/ (q.id = p.id /\ q.stage = s)
  BY TypeParts DEF Inv, ProcType, Move

LEMMA PrepareAttended ==
  ASSUME Inv, Attended, NEW p \in proc, Prepare(p)
  PROVE  Attended'
  <1>1. p.id \in Ids /\ (p.id \in Runs => ~(p.id > run))
    BY Known DEF Attended
  <1>2. /\ SameInvoice /\ run' = run /\ faults' = faults /\ UNCHANGED <<jobs, archived, busy>>
        /\ \/ analysis' = analysis
           \/ analysis' = [analysis EXCEPT ![p.id] = [status |-> "RUNNING", run |-> run]]
        /\ Leave(p) \/ \E s : Move(p, s)
    BY DEF Prepare, SameInvoice, invoiceVars, budgetVars
  <1>3. Touches(p.id)
    BY <1>2, MovesTouch, TypeParts DEF Touches, Inv, AnalysisType
  <1>4. Future'
    BY <1>1, <1>2, <1>3, FutureKept DEF Attended
  <1>5. ASSUME p.id = run, Calm PROVE Waiting' /\ ClassifiedIsAttended'
    <2>1. /\ run \in Ids /\ analysis \in AnalysisType /\ NeedAI' = NeedAI /\ NeedAI # {} /\ IsAutomatic(run)
          /\ analysis[run].status = "none" \/ analysis[run] = [status |-> "RUNNING", run |-> run]
      BY <1>2, <1>5, RestsMeans, SameCalm DEF SameInvoice, NeedAI, Lines
    <2>2. CASE Move(p, "publish") /\ analysis'[run] = [status |-> "RUNNING", run |-> run]
      <3>1. [p EXCEPT !.stage = "publish"] \in proc' /\ [p EXCEPT !.stage = "publish"].id = run
        BY <1>5, <2>2, MovedTo, TypeParts DEF Inv, ProcType
      <3>2. \E q \in proc' : q.id = run'
        BY <1>2, <3>1
      <3> QED BY <1>2, <1>5, <2>1, <2>2, <3>2 DEF Attended, Waiting, ClassifiedIsAttended
    <2>3. CASE Move(p, "manual") /\ analysis' = analysis
      <3>1. [p EXCEPT !.stage = "manual"] \in proc' /\ [p EXCEPT !.stage = "manual"].id = run
        BY <1>5, <2>3, MovedTo, TypeParts DEF Inv, ProcType
      <3>2. \A q \in proc' : q \in proc \/ q.stage = "manual"
        BY <2>3, MovedTo
      <3>3. \E q \in proc' : q.id = run'
        BY <1>2, <3>1
      <3> QED BY <1>2, <1>5, <2>1, <2>3, <3>2, <3>3 DEF Attended, Waiting, ClassifiedIsAttended
    <2> QED BY <1>5, <2>1, <2>2, <2>3 DEF Prepare, AnalysisType
  <1> QED BY <1>2, <1>3, <1>4, <1>5, OthersKeep, NotCalm, SameCalm DEF Attended

LEMMA OpenManualReviewAttended ==
  ASSUME Inv, Attended, NEW p \in proc, OpenManualReview(p)
  PROVE  Attended'
  <1>1. /\ p.id \in Runs => ~(p.id > run)
        /\ run' = run /\ Leave(p) /\ UNCHANGED <<rows, analysisVars, budgetVars>>
    BY Known DEF Attended, OpenManualReview
  <1>2. Touches(p.id)
    BY <1>1, MovesTouch DEF Touches, analysisVars
  <1>3. Future'
    BY <1>1, <1>2, FutureKept DEF Attended
  <1>4. CASE status' # "CLASSIFIED"
    BY <1>3, <1>4, NotCalm DEF Attended, Calm
  <1>5. CASE UNCHANGED <<status, task>>
    <2>1. SameInvoice /\ faults' = faults
      BY <1>1, <1>5 DEF SameInvoice, budgetVars
    <2>2. CASE Calm /\ p.id = run
      <3>1. MayInsertTask(run)
        BY <2>2, RestsMeans DEF MayInsertTask, Calm
      <3> QED BY <1>5, <2>2, <3>1 DEF OpenManualReview, Calm
    <2> QED BY <1>2, <1>3, <2>1, <2>2, OthersKeep, NotCalm, SameCalm DEF Attended
  <1> QED BY <1>4, <1>5 DEF OpenManualReview

LEMMA PublishAttended ==
  ASSUME Inv, Attended, NEW p \in proc, Publish(p)
  PROVE  Attended'
  <1>1. p.id \in Ids /\ (p.id \in Runs => ~(p.id > run))
    BY Known DEF Attended
  <1>2. /\ SameInvoice /\ run' = run /\ faults' = faults /\ UNCHANGED <<analysis, archived, busy>>
        /\ jobs \subseteq jobs' /\ jobs' \subseteq jobs \cup {p.id}
        /\ Leave(p) \/ \E s : Move(p, s)
    BY DEF Publish, SameInvoice, invoiceVars, budgetVars
  <1>3. Touches(p.id)
    BY <1>2, MovesTouch DEF Touches
  <1>4. Future'
    BY <1>1, <1>2, <1>3, FutureKept DEF Attended
  <1>5. ASSUME p.id = run, Calm PROVE Waiting' /\ ClassifiedIsAttended'
    <2>1. /\ analysis[run] = [status |-> "RUNNING", run |-> run] /\ run \notin archived /\ NeedAI' = NeedAI
      BY <1>2, <1>5, RestsMeans, SameCalm DEF Publish, Attended, Waiting, SameInvoice, NeedAI, Lines
    <2>2. CASE Leave(p) /\ run \in jobs'
      BY <1>2, <1>5, <2>1, <2>2 DEF Leave, Attended, Waiting, ClassifiedIsAttended
    <2>3. CASE Move(p, "unpublished")
      <3>1. [p EXCEPT !.stage = "unpublished"] \in proc' /\ [p EXCEPT !.stage = "unpublished"].id = run
        BY <1>5, <2>3, MovedTo, TypeParts DEF Inv, ProcType
      <3>2. \E q \in proc' : q.id = run'
        BY <1>2, <3>1
      <3> QED BY <1>2, <1>5, <2>1, <3>2 DEF Attended, Waiting, ClassifiedIsAttended
    <2> QED BY <1>5, <2>1, <2>2, <2>3 DEF Publish
  <1> QED BY <1>2, <1>3, <1>4, <1>5, OthersKeep, NotCalm, SameCalm DEF Attended

----------------------------------------------------------------------------
\* The end of an analysis takes a resting invoice with it when it is that of its run, and
\* else leaves it as it is.
LEMMA EndOfAnalysis ==
  ASSUME Inv, Attended, NEW a \in Ids, NEW rs, EnsureReview(a, rs), rows' = rs,
         analysis[a].run # run => rs = rows,
         analysis[a].status = "RUNNING", UNCHANGED <<run, case>>, faults' = faults
  PROVE  status' # "CLASSIFIED" \/ (SameInvoice /\ (Calm => a # run))
  <1>1. CASE analysis[a].run = run
    <2>1. status = "CLASSIFIED" => status' \in {"AWAITING_REVIEW", "READY_FOR_SAGA"}
      BY <1>1 DEF EnsureReview, Relevant
    <2>2. status # "CLASSIFIED" => status' = status
      BY DEF EnsureReview
    <2> QED BY <2>1, <2>2
  <1>2. CASE analysis[a].run # run
    <2>1. ~Relevant(a, rs)
      BY <1>2 DEF Relevant
    <2>2. status' = status /\ task' = task
      BY <1>2, <2>1 DEF EnsureReview
    <2>3. Calm => a # run
      BY <1>2, RestsMeans
    <2> QED BY <1>2, <2>2, <2>3 DEF SameInvoice
  <1> QED BY <1>1, <1>2

LEMMA FailureAttended ==
  ASSUME Inv, Attended, NEW a \in Ids, a \in Runs => ~(a > run), FailAnalysis(a),
         UNCHANGED <<run, rows, case>>, faults' = faults,
         Touches(a), archived' # archived => ReviewConflict(a, rows) /\ UNCHANGED <<status, task>>,
         busy' \subseteq busy, proc' \subseteq proc,
         Calm /\ a = run /\ analysis[a].status = "none" => proc' = proc
  PROVE  Attended'
  <1>1. Future'
    BY FutureKept DEF Attended
  <1>2. CASE analysis[a].status = "RUNNING" /\ EnsureReview(a, rows)
    <2>1. status' # "CLASSIFIED" \/ (SameInvoice /\ (Calm => a # run))
      BY <1>2, EndOfAnalysis
    <2> QED BY <1>1, <2>1, OthersKeep, NotCalm, SameCalm DEF Attended, Calm
  <1>3. CASE UNCHANGED <<analysis, status, task>> /\ (analysis[a].status # "RUNNING" \/ ReviewConflict(a, rows))
    <2>1. SameInvoice
      BY <1>3 DEF SameInvoice
    <2>2. ASSUME Calm, a = run PROVE Waiting' /\ ClassifiedIsAttended'
      <3>1. analysis[run].status = "none" /\ archived' = archived /\ NeedAI' = NeedAI
        BY <1>3, <2>1, <2>2, RestsMeans, SameCalm DEF SameInvoice, NeedAI, Lines
      <3>2. \E p \in proc' : p.id = run
        BY <2>2, <3>1, RestsMeans
      <3>3. /\ run' = run /\ NeedAI # {} /\ run \notin archived /\ analysis'[run].status = "none"
            /\ \A b \in busy' : b.id = run => ~b.stale /\ b.ask # {}
        BY <1>3, <2>2, <3>1 DEF Attended, Waiting
      <3>4. \A p \in proc' : p.id = run => p.stage \notin {"publish", "unpublished"}
        BY <2>2, <3>1 DEF Attended, Waiting
      <3> QED BY <3>1, <3>2, <3>3, <3>4 DEF Waiting, ClassifiedIsAttended
    <2> QED BY <1>1, <2>1, <2>2, OthersKeep, NotCalm, SameCalm DEF Attended
  <1> QED BY <1>2, <1>3 DEF FailAnalysis

LEMMA FailUnpublishedAttended ==
  ASSUME Inv, Attended, NEW p \in proc, FailUnpublished(p)
  PROVE  Attended'
  <1>1. /\ p.id \in Ids /\ (p.id \in Runs => ~(p.id > run)) /\ p.stage = "unpublished"
        /\ FailAnalysis(p.id) /\ Leave(p) /\ UNCHANGED <<run, rows, jobs, archived, busy, case>> /\ faults' = faults
    BY Known DEF Attended, FailUnpublished, budgetVars
  <1>2. Touches(p.id)
    <2>1. \A a \in Ids \ {p.id} : analysis'[a] = analysis[a]
      BY <1>1, TypeParts DEF FailAnalysis, End, Inv, AnalysisType
    <2> QED BY <1>1, <2>1, MovesTouch DEF Touches
  <1>3. ~(Calm /\ p.id = run /\ analysis[p.id].status = "none")
    BY <1>1 DEF Attended, Waiting
  <1> QED BY <1>1, <1>2, <1>3, FailureAttended DEF Leave

LEMMA FailAttended ==
  ASSUME Inv, Attended, NEW b \in busy, Fail(b)
  PROVE  Attended'
  <1>1. /\ b.id \in Ids /\ (b.id \in Runs => ~(b.id > run)) /\ FailAnalysis(b.id)
        /\ UNCHANGED <<run, rows, proc, case>> /\ faults' = faults
        /\ busy' \subseteq busy /\ jobs' = jobs \ {b.id} /\ archived' \subseteq archived \cup {b.id}
        /\ archived' # archived => ReviewConflict(b.id, rows) /\ analysis[b.id].status = "RUNNING"
    BY Known DEF Attended, Fail, Ack, budgetVars
  <1>2. Touches(b.id)
    <2>1. \A a \in Ids \ {b.id} : analysis'[a] = analysis[a]
      BY <1>1, TypeParts DEF FailAnalysis, End, Inv, AnalysisType
    <2> QED BY <1>1, <2>1 DEF Touches
  <1>3. archived' # archived => UNCHANGED <<status, task>>
    BY <1>1 DEF FailAnalysis, EnsureReview
  <1> QED BY <1>1, <1>2, <1>3, FailureAttended

LEMMA CompleteAttended ==
  ASSUME Inv, Attended, NEW b \in busy, CompleteAnalysis(b)
  PROVE  Attended'
  <1>1. /\ b.id \in Ids /\ (b.id \in Runs => ~(b.id > run))
        /\ UNCHANGED <<run, proc, case, archived>> /\ faults' = faults
        /\ busy' \subseteq busy /\ jobs' = jobs \ {b.id}
    BY Known DEF Attended, CompleteAnalysis, Ack, budgetVars
  <1>2. Touches(b.id)
    <2>1. \A a \in Ids \ {b.id} : analysis'[a] = analysis[a]
      BY <1>1, TypeParts DEF CompleteAnalysis, End, Inv, AnalysisType
    <2> QED BY <1>1, <2>1 DEF Touches
  <1>3. Future'
    BY <1>1, <1>2, FutureKept DEF Attended
  <1>4. ASSUME NEW ds \in SUBSET b.ask, analysis[b.id].status = "RUNNING",
               rows' = WithProposals(Answered(b.id, ds)), EnsureReview(b.id, rows')
        PROVE  Attended'
    <2>1. PICK rs : rs = WithProposals(Answered(b.id, ds))
      OBVIOUS
    <2>2. rows' = rs /\ EnsureReview(b.id, rs)
      BY <1>4, <2>1
    <2>3. analysis[b.id].run # run => rs = rows
      BY <2>1, TypeParts DEF WithProposals, Answered, Inv
    <2>4. status' # "CLASSIFIED" \/ (SameInvoice /\ (Calm => b.id # run))
      BY <1>1, <1>4, <2>2, <2>3, EndOfAnalysis
    <2> QED BY <1>1, <1>2, <1>3, <2>4, OthersKeep, NotCalm, SameCalm DEF Attended, Calm
  <1>5. CASE analysis[b.id].status # "RUNNING" /\ UNCHANGED <<status, rows, task, analysis>>
    <2>1. SameInvoice
      BY <1>1, <1>5 DEF SameInvoice
    <2>2. ASSUME Calm, b.id = run PROVE Waiting' /\ ClassifiedIsAttended'
      <3>1. NeedAI' = NeedAI /\ \E p \in proc' : p.id = run'
        BY <1>1, <1>5, <2>1, <2>2, SameCalm, RestsMeans DEF SameInvoice, NeedAI, Lines
      <3> QED BY <1>1, <1>5, <2>2, <3>1 DEF Attended, Waiting, ClassifiedIsAttended
    <2> QED BY <1>1, <1>2, <1>3, <2>1, <2>2, OthersKeep, NotCalm, SameCalm DEF Attended
  <1> QED BY <1>4, <1>5 DEF CompleteAnalysis

LEMMA SkipAttended ==
  ASSUME Inv, Attended, NEW b \in busy, Skip(b)
  PROVE  Attended'
  <1>1. /\ b.id \in Ids /\ (b.id \in Runs => ~(b.id > run))
        /\ SameInvoice /\ run' = run /\ UNCHANGED <<proc, archived>> /\ faults' = faults
        /\ busy' \subseteq busy /\ jobs' = jobs \ {b.id}
    BY Known DEF Attended, Skip, Ack, budgetVars, SameInvoice, invoiceVars
  <1>2. Touches(b.id)
    <2>1. \A a \in Ids \ {b.id} : analysis'[a] = analysis[a]
      BY <1>1, TypeParts DEF Skip, End, Inv, AnalysisType
    <2> QED BY <1>1, <2>1 DEF Touches
  <1>3. Future'
    BY <1>1, <1>2, FutureKept DEF Attended
  <1>4. Calm => b.id # run
    BY DEF Skip, Attended, Waiting
  <1> QED BY <1>1, <1>2, <1>3, <1>4, OthersKeep, NotCalm, SameCalm DEF Attended

LEMMA LoadAttended ==
  ASSUME Inv, Attended, NEW a \in Ids, Load(a)
  PROVE  Attended'
  <1>1. /\ a \in Runs => ~(a > run)
        /\ SameInvoice /\ run' = run /\ UNCHANGED <<analysis, proc, archived>> /\ faults' = faults
        /\ \/ /\ analysis[a].status = "RUNNING" /\ jobs' = jobs
              /\ busy' = busy \cup {[id |-> a, stale |-> analysis[a].run # run, ask |-> NeedAI]}
           \/ analysis[a].status # "RUNNING" /\ jobs' = jobs \ {a} /\ busy' = busy
    BY DEF Load, Attended, Future, budgetVars, SameInvoice, invoiceVars
  <1>2. Touches(a)
    BY <1>1 DEF Touches
  <1>3. Future'
    BY <1>1, <1>2, FutureKept DEF Attended
  <1>4. ASSUME Calm, a = run PROVE Waiting' /\ ClassifiedIsAttended'
    <2>1. /\ NeedAI' = NeedAI /\ NeedAI # {}
          /\ analysis[run].status = "none" \/ analysis[run] = [status |-> "RUNNING", run |-> run]
          /\ analysis[run].status = "none" => \E p \in proc : p.id = run
      BY <1>1, <1>4, RestsMeans, SameCalm DEF SameInvoice, NeedAI, Lines
    <2>2. \A b \in busy : b.id = run => ~b.stale /\ b.ask # {}
      BY <1>4 DEF Attended, Waiting
    <2>3. \A b \in busy' : b.id = run => ~b.stale /\ b.ask # {}
      <3>1. CASE analysis[run].status = "none"
        BY <1>1, <1>4, <2>2, <3>1
      <3>2. CASE analysis[run].run = run
        <4> DEFINE loaded == [id |-> run, stale |-> analysis[run].run # run, ask |-> NeedAI]
        <4>1. ~loaded.stale /\ loaded.ask # {}
          BY <2>1, <3>2
        <4>2. \A b \in busy' : b \in busy \/ b = loaded
          BY <1>1, <1>4
        <4> QED BY <2>2, <4>1, <4>2
      <3> QED BY <2>1, <3>1, <3>2
    <2>4. Waiting'
      <3>1. \A b \in busy' : b.id = run' => ~b.stale /\ b.ask # {}
        BY <1>1, <2>3
      <3>2. /\ NeedAI' # {} /\ run' \notin archived'
            /\ analysis'[run'].status = "none" \/ analysis'[run'] = [status |-> "RUNNING", run |-> run']
            /\ \A p \in proc' : p.id = run' /\ p.stage \in {"publish", "unpublished"}
                               => analysis'[run'].status = "RUNNING"
        BY <1>1, <1>4, <2>1 DEF Attended, Waiting
      <3> QED BY <3>1, <3>2 DEF Waiting
    <2>5. ClassifiedIsAttended'
      <3>1. CASE analysis[run].status = "none"
        BY <1>1, <2>1, <3>1 DEF ClassifiedIsAttended
      <3>2. CASE analysis[run].status = "RUNNING"
        <4>1. jobs' = jobs
          BY <1>1, <1>4, <3>2
        <4> QED BY <1>1, <1>4, <4>1 DEF Attended, ClassifiedIsAttended, Calm
      <3> QED BY <2>1, <3>1, <3>2
    <2> QED BY <2>4, <2>5
  <1> QED BY <1>1, <1>2, <1>3, <1>4, OthersKeep, NotCalm, SameCalm DEF Attended

----------------------------------------------------------------------------
LEMMA FaultAttended ==
  ASSUME Inv, Attended,
         (\E p \in proc : LoseProcess(p)) \/ (\E b \in busy : LoseWorker(b))
  PROVE  Attended'
  <1>1. ~Calm'
    BY TypeParts DEF LoseProcess, LoseWorker, Fault, Calm, Inv
  <1>2. Future'
    <2>1. CASE \E p \in proc : LoseProcess(p)
      BY <2>1 DEF LoseProcess, Leave, invoiceVars, analysisVars, Attended, Future
    <2>2. CASE \E b \in busy : LoseWorker(b)
      <3>1. PICK b \in busy : LoseWorker(b)
        BY <2>2
      <3>2. /\ run' = run /\ UNCHANGED <<analysis, proc>> /\ busy' \subseteq busy
            /\ jobs' \subseteq jobs /\ archived' \subseteq archived \cup {b.id}
        BY <3>1 DEF LoseWorker, invoiceVars
      <3> QED BY <3>2, Known DEF Attended, Future
    <2> QED BY <2>1, <2>2
  <1> QED BY <1>1, <1>2, NotCalm DEF Attended

LEMMA RequestsAttended ==
  ASSUME Inv, Attended, HumanRequest \/ RepeatReanalysis
  PROVE  Attended'
  <1>1. /\ SameInvoice /\ run' = run /\ UNCHANGED analysisVars /\ faults' = faults
        /\ proc \subseteq proc'
        /\ \A p \in proc' : p \in proc \/ (p.stage = "prepare" /\ (p.id \in Runs => ~(p.id > run)))
    <2>1. \A n \in Nat \ {0} : MaxLoops + 1 + n \notin Runs
      BY BoundsAssumption DEF Runs
    <2>2. HumanRequest => requests' \in Nat \ {0}
      BY TypeParts DEF HumanRequest, Inv
    <2>3. run \in Nat /\ \A r \in 2 .. run : ~(r > run)
      BY TypeParts DEF Inv
    <2> QED BY <2>1, <2>2, <2>3 DEF HumanRequest, RepeatReanalysis, SameInvoice, invoiceVars
  <1>2. Future'
    BY <1>1 DEF Attended, Future, analysisVars
  <1>3. ASSUME Calm' PROVE Waiting' /\ ClassifiedIsAttended'
    <2>1. Calm /\ NeedAI' = NeedAI
      BY <1>1, <1>3, SameCalm DEF SameInvoice, NeedAI, Lines
    <2> QED BY <1>1, <2>1 DEF Attended, Waiting, ClassifiedIsAttended, analysisVars, Calm
  <1> QED BY <1>2, <1>3, NotCalm DEF Attended

\* The other steps of the accountant, and the export, leave an invoice that does not rest.
LEMMA ReviewAttended ==
  ASSUME Inv, Attended,
         \/ PrepareReanalysis \/ Export
         \/ \E d \in Lines : ReviewClassification(d)
         \/ \E ds \in SUBSET Lines : ApproveAll(ds)
  PROVE  Attended'
  <1>1. run' = run /\ UNCHANGED <<analysisVars, proc>> /\ status' # "CLASSIFIED"
    <2>1. CASE PrepareReanalysis \/ Export
      BY <2>1 DEF PrepareReanalysis, Export
    <2>2. CASE \E d \in Lines : ReviewClassification(d)
      BY <2>2 DEF ReviewClassification, Finish
    <2>3. CASE \E ds \in SUBSET Lines : ApproveAll(ds)
      <3>1. status # "CLASSIFIED"
        BY <2>3 DEF ApproveAll, Inv, Invoice, Fresh
      <3> QED BY <2>3, <3>1 DEF ApproveAll, Finish
    <2> QED BY <2>1, <2>2, <2>3
  <1>2. Future'
    BY <1>1 DEF Attended, Future, analysisVars
  <1> QED BY <1>1, <1>2, NotCalm DEF Attended, Calm

LEMMA NextAttended == Inv /\ Attended /\ [Next]_vars => Attended'
  <1> SUFFICES ASSUME Inv, Attended, [Next]_vars PROVE Attended'
    OBVIOUS
  <1>1. CASE ProcessInvoice
    BY <1>1, ProcessInvoiceAttended
  <1>2. CASE \E p \in proc : Request(p)
    BY <1>2, PrepareAttended, OpenManualReviewAttended, PublishAttended, FailUnpublishedAttended DEF Request
  <1>3. CASE \E a \in Ids : Load(a)
    BY <1>3, LoadAttended
  <1>4. CASE \E b \in busy : Work(b)
    BY <1>4, SkipAttended, CompleteAttended, FailAttended DEF Work
  <1>5. CASE (\E p \in proc : LoseProcess(p)) \/ (\E b \in busy : LoseWorker(b))
    BY <1>5, FaultAttended
  <1>6. CASE Human \/ Export
    BY <1>6, RequestsAttended, ReviewAttended DEF Human
  <1>7. CASE UNCHANGED vars
    <2>1. SameInvoice /\ run' = run /\ faults' = faults /\ UNCHANGED <<analysisVars, proc>>
      BY <1>7 DEF vars, invoiceVars, budgetVars, SameInvoice
    <2>2. Future'
      BY <2>1 DEF Attended, Future, analysisVars
    <2>3. Waiting' /\ ClassifiedIsAttended'
      <3>1. CASE Calm'
        <4>1. Calm /\ NeedAI' = NeedAI
          BY <2>1, <3>1, SameCalm DEF SameInvoice, NeedAI, Lines
        <4> QED BY <2>1, <4>1 DEF Attended, Waiting, ClassifiedIsAttended, analysisVars, Calm
      <3> QED BY <3>1, NotCalm
    <2> QED BY <2>2, <2>3 DEF Attended
  <1> QED BY <1>1, <1>2, <1>3, <1>4, <1>5, <1>6, <1>7 DEF Next

LEMMA SpecAttended == Spec => []Attended
  <1>1. Init => Attended
    BY Numbers DEF Init, Attended, Future, Waiting, Calm, ClassifiedIsAttended
  <1> QED BY <1>1, NextAttended, SpecInv, PTL DEF Spec

\* An invoice that rests in CLASSIFIED has a request for the analysis of its run under way,
\* or that analysis runs and its job is with Asynq (EnsureAutomatic, WorkflowService.Request
\* and FailUnpublished), except after a fault and beside the task of a superseded run.
THEOREM ClassifiedStaysAttended == Spec => []ClassifiedIsAttended
  BY SpecAttended, PTL DEF Attended

----------------------------------------------------------------------------
(* Refinement: the life of the invoice.                                    *)

\* How the component moves an invoice.
Moves == {<<"COMMERCIALLY_VALIDATED", "CLASSIFIED">>, <<"COMMERCIALLY_VALIDATED", "AWAITING_REVIEW">>,
          <<"COMMERCIALLY_VALIDATED", "READY_FOR_SAGA">>, <<"CLASSIFIED", "AWAITING_REVIEW">>,
          <<"CLASSIFIED", "READY_FOR_SAGA">>, <<"AWAITING_REVIEW", "READY_FOR_SAGA">>,
          <<"READY_FOR_SAGA", "EXPORTING">>, <<"CLASSIFIED", "COMMERCIALLY_VALIDATED">>,
          <<"AWAITING_REVIEW", "COMMERCIALLY_VALIDATED">>, <<"READY_FOR_SAGA", "COMMERCIALLY_VALIDATED">>}

LEMMA Edges ==
  ASSUME NEW s, NEW t, <<s, t>> \in Moves
  PROVE  \/ t \in Life!After(s, Life!Definitions) \cup Life!After(s, Life!Corrections)
         \/ s = "COMMERCIALLY_VALIDATED" /\ t \in Life!After("CLASSIFIED", Life!Definitions)
  <1>1. /\ {<<"CLASSIFIED", "AWAITING_REVIEW">>, <<"CLASSIFIED", "READY_FOR_SAGA">>} \subseteq Life!Definitions
        /\ \/ <<s, t>> \in Life!Definitions
           \/ <<s, t>> \in Life!Corrections
           \/ s = "COMMERCIALLY_VALIDATED" /\ t \in {"AWAITING_REVIEW", "READY_FOR_SAGA"}
    BY DEF Moves, Life!Definitions, Life!Corrections
  <1>2. <<s, t>>[1] = s /\ <<s, t>>[2] = t
    OBVIOUS
  <1>3. \A table : <<s, t>> \in table => t \in Life!After(s, table)
    BY <1>2 DEF Life!After
  <1>4. {"AWAITING_REVIEW", "READY_FOR_SAGA"} \subseteq Life!After("CLASSIFIED", Life!Definitions)
    BY <1>1 DEF Life!After
  <1> QED BY <1>1, <1>3, <1>4

\* The tasks the life of the invoice looks at.
Shown == IF status = "AWAITING_REVIEW" THEN {Task("CLASSIFICATION", task[r]) : r \in OpenTasks \cap {run}} ELSE {}
Agree == Shown = Life!TasksOf(status)

\* They follow from the status: under review the task of the current run is open.
LEMMA TasksShown == Inv => Agree
  <1> SUFFICES ASSUME Inv PROVE Shown = Life!TasksOf(status)
    BY DEF Agree
  <1> DEFINE B(s) == {x \in Life!Blockers : x[1] = s}
  <1>1. \A s : Life!TasksOf(s) = {Task(b[2], "OPEN") : b \in B(s)}
    BY DEF Life!TasksOf, Life!Task, Task
  <1>2. CASE status = "AWAITING_REVIEW"
    <2>1. run \in Runs /\ task[run] = "OPEN"
      BY <1>2 DEF Inv, Invoice, Fresh, ReviewHasTask
    <2>2. OpenTasks \cap {run} = {run}
      BY <2>1 DEF OpenTasks
    <2>3. Shown = {Task("CLASSIFICATION", "OPEN")}
      BY <1>2, <2>1, <2>2 DEF Shown
    <2>4. B("AWAITING_REVIEW") = {<<"AWAITING_REVIEW", "CLASSIFICATION">>}
      BY DEF Life!Blockers
    <2> HIDE DEF B
    <2>5. <<"AWAITING_REVIEW", "CLASSIFICATION">>[2] = "CLASSIFICATION"
      OBVIOUS
    <2> QED BY <1>1, <1>2, <2>3, <2>4, <2>5
  <1>3. CASE status # "AWAITING_REVIEW"
    <2>1. B(status) = {} /\ Shown = {}
      BY <1>3, TypeParts DEF Shown, Life!Blockers, Inv, Statuses
    <2> HIDE DEF B
    <2> QED BY <1>1, <2>1
  <1> QED BY <1>2, <1>3

LEMMA MoveStep ==
  ASSUME Agree, Agree', status' = status \/ <<status, status'>> \in Moves
  PROVE  [Life!Next]_(Life!vars)
  <1>1. CASE status' = status
    <2>1. Shown' = Shown
      BY <1>1 DEF Agree
    <2> QED BY <1>1, <2>1 DEF Life!vars, Shown
  <1>2. ASSUME NEW s, status' = s, <<status, s>> \in Moves PROVE Life!Next
    <2>1. Life!Enter("invoice", s)
      BY <1>2 DEF Life!Enter, TheInvoice, Shown, Agree
    <2>2. "invoice" \in TheInvoice /\ [i \in TheInvoice |-> status]["invoice"] = status
      BY DEF TheInvoice
    <2>3. \/ s \in Life!After(status, Life!Definitions) \cup Life!After(status, Life!Corrections)
          \/ status = "COMMERCIALLY_VALIDATED" /\ s \in Life!After("CLASSIFIED", Life!Definitions)
      BY <1>2, Edges
    <2> QED BY <2>1, <2>2, <2>3 DEF Life!Next, Life!Transition, Life!Correct, Life!Classify
  <1> QED BY <1>1, <1>2

LEMMA ReviewMoves ==
  /\ \A a, rs : EnsureReview(a, rs) => status' = status \/ <<status, status'>> \in Moves
  /\ \A a : FailAnalysis(a) => status' = status \/ <<status, status'>> \in Moves
  /\ \A rs : Finish(rs) => status' = status \/ <<status, status'>> \in Moves
  <1>1. \A a, rs : EnsureReview(a, rs) => status' = status \/ <<status, status'>> \in Moves
    <2> SUFFICES ASSUME NEW a, NEW rs, EnsureReview(a, rs), status' # status PROVE <<status, status'>> \in Moves
      OBVIOUS
    <2>1. status = "CLASSIFIED" /\ status' \in {"AWAITING_REVIEW", "READY_FOR_SAGA"}
      BY DEF EnsureReview
    <2> QED BY <2>1 DEF Moves
  <1> QED BY <1>1 DEF FailAnalysis, Finish, Moves

LEMMA NextMoves == ASSUME [Next]_vars PROVE status' = status \/ <<status, status'>> \in Moves
  <1>1. CASE ProcessInvoice
    <2>1. /\ status = "COMMERCIALLY_VALIDATED"
          /\ status' \in {"CLASSIFIED", "AWAITING_REVIEW", "READY_FOR_SAGA"}
      BY <1>1 DEF ProcessInvoice, ApplyClassification, ApplyClassificationBlock
    <2> QED BY <2>1 DEF Moves
  <1>2. ASSUME NEW p \in proc, Request(p) \/ LoseProcess(p)
        PROVE  status' = status \/ <<status, status'>> \in Moves
    BY <1>2, ReviewMoves
       DEF Request, Prepare, OpenManualReview, Publish, FailUnpublished, LoseProcess, invoiceVars, Moves
  <1>3. CASE \E a \in Ids : Load(a)
    BY <1>3 DEF Load, invoiceVars
  <1>4. ASSUME NEW b \in busy, Work(b) \/ LoseWorker(b)
        PROVE  status' = status \/ <<status, status'>> \in Moves
    BY <1>4, ReviewMoves DEF Work, Skip, CompleteAnalysis, Fail, LoseWorker, invoiceVars
  <1>5. CASE Human
    <2>1. CASE HumanRequest \/ RepeatReanalysis
      BY <2>1 DEF HumanRequest, RepeatReanalysis, invoiceVars
    <2>2. CASE PrepareReanalysis
      BY <2>2 DEF PrepareReanalysis, Moves
    <2>3. CASE \/ \E d \in Lines : ReviewClassification(d)
               \/ \E ds \in SUBSET Lines : ApproveAll(ds)
      BY <2>3, ReviewMoves DEF ReviewClassification, ApproveAll
    <2> QED BY <1>5, <2>1, <2>2, <2>3 DEF Human
  <1>6. CASE Export
    BY <1>6 DEF Export, Moves
  <1>7. CASE UNCHANGED vars
    BY <1>7 DEF vars, invoiceVars
  <1> QED BY <1>1, <1>2, <1>3, <1>4, <1>5, <1>6, <1>7 DEF Next

\* The policy, the AI and the accountant move the invoice along the declared edges only,
\* and whichever of them routes it to review opens the task in the same step: a process
\* or a worker that comes late finds the invoice elsewhere and leaves it (ApplyClassification,
\* ensureAccountingReviewTx, OpenManualReview and the review commands write the status
\* without consulting the table).
THEOREM Refinement == Spec => ImplementsLifecycle
  <1>1. Inv /\ Init => Life!Init
    <2> SUFFICES ASSUME Inv, Init PROVE Life!Init
      OBVIOUS
    <2>1. Agree
      BY TasksShown
    <2> QED BY <2>1 DEF Init, Life!Init, TheInvoice, Agree, Shown
  <1>2. Inv' => Agree'
    BY TasksShown, PTL
  <1>3. Inv /\ Inv' /\ [Next]_vars => [Life!Next]_(Life!vars)
    <2> SUFFICES ASSUME Inv, Inv', [Next]_vars PROVE [Life!Next]_(Life!vars)
      OBVIOUS
    <2> QED BY <1>2, TasksShown, NextMoves, MoveStep
  <1> QED BY <1>1, <1>3, InitInv, SpecInv, PTL DEF Spec, ImplementsLifecycle, Life!Spec
=============================================================================

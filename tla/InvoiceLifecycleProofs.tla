----------------------- MODULE InvoiceLifecycleProofs -----------------------
(***************************************************************************)
(* What follows from InvoiceLifecycle, for any invoices and any statuses   *)
(* they start in.  The components implement it, so this holds of each of   *)
(* them: the accountant's inbox shows what an invoice waits for, an export *)
(* is never taken back, and only a correction moves an invoice backward.   *)
(***************************************************************************)
EXTENDS InvoiceLifecycle, Naturals, TLAPS

\* The tasks of a status, one of which may have been put to wait.
TaskOfStatus ==
    \A i \in Invoices :
       \/ active[i] = TasksOf(status[i])
       \/ \E t \in Awaitable : /\ TasksOf(status[i]) = {Task(t, "OPEN")}
                               /\ active[i] = {Task(t, "WAITING")}

\* The longest way from an ingested invoice to a status.
Depth(s) == CASE s = "DOWNLOADED" -> 0
              [] s = "ARCHIVED" -> 1
              [] s = "MATCHING" -> 2
              [] s \in {"AWAITING_CONTRACT", "AWAITING_MATCH_CONFIRM"} -> 3
              [] s = "DEDUPE_CHECKED" -> 4
              [] s \in {"DUPLICATE", "HEADER_READ"} -> 5
              [] s = "LINES_READ" -> 6
              [] s = "COMMERCIAL_VALIDATING" -> 7
              [] s = "AWAITING_COMMERCIAL_REVIEW" -> 8
              [] s = "COMMERCIALLY_VALIDATED" -> 9
              [] s = "CLASSIFIED" -> 10
              [] s = "AWAITING_REVIEW" -> 11
              [] s = "READY_FOR_SAGA" -> 12
              [] s = "EXPORTING" -> 13
              [] s = "EXPORTED" -> 14

Terminal == {"EXPORTED", "DUPLICATE"}

Inv == /\ status \in [Invoices -> {status[i] : i \in Invoices}]
       /\ active \in [Invoices -> {active[i] : i \in Invoices}]
       /\ TaskOfStatus

----------------------------------------------------------------------------
LEMMA Entered ==
  ASSUME Inv, NEW i \in Invoices, NEW s, Enter(i, s)
  PROVE  /\ status'[i] = s /\ active'[i] = TasksOf(s)
         /\ \A j \in Invoices \ {i} : status'[j] = status[j] /\ active'[j] = active[j]
         /\ status' \in [Invoices -> {status'[j] : j \in Invoices}]
         /\ active' \in [Invoices -> {active'[j] : j \in Invoices}]
  BY DEF Enter, Inv

\* Every step but a wait is one entry of one invoice into a status that the table, the
\* corrections or a classification decided at once allow.
Next1(s) == After(s, Definitions) \cup After(s, Corrections)
            \cup (IF s = "COMMERCIALLY_VALIDATED" THEN After("CLASSIFIED", Definitions) ELSE {})

LEMMA NextCases ==
  ASSUME Next
  PROVE  \E i \in Invoices : Await(i) \/ \E s \in Next1(status[i]) : Enter(i, s)
  <1>1. PICK i \in Invoices : Transition(i) \/ Classify(i) \/ Correct(i) \/ Await(i)
    BY DEF Next
  <1>2. CASE Transition(i)
    BY <1>2 DEF Transition, Next1
  <1>3. CASE Classify(i)
    <2>1. PICK s \in After("CLASSIFIED", Definitions) : Enter(i, s)
      BY <1>3 DEF Classify
    <2>2. s \in Next1(status[i])
      BY <1>3 DEF Classify, Next1
    <2> QED BY <2>1, <2>2
  <1>4. CASE Correct(i)
    BY <1>4 DEF Correct, Next1
  <1> QED BY <1>1, <1>2, <1>3, <1>4

LEMMA InitInv == Init => Inv
  BY DEF Init, Inv, TaskOfStatus

LEMMA NextInv == Inv /\ [Next]_vars => Inv'
  <1> SUFFICES ASSUME Inv, [Next]_vars PROVE Inv'
    OBVIOUS
  <1>1. ASSUME NEW i \in Invoices, NEW s, Enter(i, s) PROVE Inv'
    <2>1. /\ status'[i] = s /\ active'[i] = TasksOf(s)
          /\ \A j \in Invoices \ {i} : status'[j] = status[j] /\ active'[j] = active[j]
          /\ status' \in [Invoices -> {status'[j] : j \in Invoices}]
          /\ active' \in [Invoices -> {active'[j] : j \in Invoices}]
      BY <1>1, Entered
    <2>2. TaskOfStatus'
      <3>1. TaskOfStatus
        BY DEF Inv
      <3>2. ASSUME NEW j \in Invoices
            PROVE  \/ active'[j] = TasksOf(status'[j])
                   \/ \E t \in Awaitable : /\ TasksOf(status'[j]) = {Task(t, "OPEN")}
                                           /\ active'[j] = {Task(t, "WAITING")}
        <4>1. CASE j = i
          BY <2>1, <4>1
        <4>2. CASE j # i
          BY <2>1, <3>1, <4>2 DEF TaskOfStatus
        <4> QED BY <4>1, <4>2
      <3> QED BY <3>2 DEF TaskOfStatus
    <2> QED BY <2>1, <2>2 DEF Inv
  <1>2. ASSUME NEW i \in Invoices, Await(i) PROVE Inv'
    <2>1. PICK t \in Awaitable : /\ active[i] = {Task(t, "OPEN")}
                                 /\ active' = [active EXCEPT ![i] = {Task(t, "WAITING")}]
                                 /\ status' = status
      BY <1>2 DEF Await
    <2>2. TasksOf(status[i]) = {Task(t, "OPEN")}
      <3>1. \A u \in Awaitable : Task(u, "WAITING") # Task(t, "OPEN")
        BY DEF Task
      <3> QED BY <2>1, <3>1 DEF Inv, TaskOfStatus
    <2>3. /\ active'[i] = {Task(t, "WAITING")}
          /\ \A j \in Invoices \ {i} : active'[j] = active[j]
          /\ active' \in [Invoices -> {active'[j] : j \in Invoices}]
      BY <2>1 DEF Inv
    <2> QED BY <2>1, <2>2, <2>3 DEF Inv, TaskOfStatus
  <1>3. CASE UNCHANGED vars
    BY <1>3 DEF vars, Inv, TaskOfStatus
  <1> QED BY <1>1, <1>2, <1>3, NextCases

LEMMA SpecInv == Spec => []Inv
  BY InitInv, NextInv, PTL DEF Spec

\* An invoice has the active tasks of its status and no other: the one blocker a human
\* must clear, open or put to wait, and none where a machine goes on or nobody does.
THEOREM TasksFollowStatus == Spec => []TaskOfStatus
  BY SpecInv, PTL DEF Inv

----------------------------------------------------------------------------
LEMMA TableDescends ==
  \A d \in Definitions : Depth(d[1]) < Depth(d[2])
  BY DEF Definitions, Depth

LEMMA DepthIsNat == ASSUME NEW s, \E d \in Definitions : s \in {d[1], d[2]} PROVE Depth(s) \in Nat
  BY DEF Definitions, Depth

\* The table has no circle (transitionDefinitions): every step but a correction takes an
\* invoice deeper, so that without corrections it passes each status once.
THEOREM OnlyCorrectionsGoBack ==
  Spec => [][\A i \in Invoices : \/ status'[i] = status[i]
                                 \/ Depth(status'[i]) > Depth(status[i])
                                 \/ <<status[i], status'[i]>> \in Corrections]_vars
  <1>1. ASSUME Inv, Next
        PROVE  \A i \in Invoices : \/ status'[i] = status[i]
                                   \/ Depth(status'[i]) > Depth(status[i])
                                   \/ <<status[i], status'[i]>> \in Corrections
    <2>1. ASSUME NEW i \in Invoices, NEW s \in Next1(status[i]), Enter(i, s)
          PROVE  Depth(s) > Depth(status[i]) \/ <<status[i], s>> \in Corrections
      <3>1. CASE s \in After(status[i], Definitions)
        <4>1. PICK d \in Definitions : d[1] = status[i] /\ d[2] = s
          BY <3>1 DEF After
        <4> QED BY <4>1, TableDescends, DepthIsNat
      <3>2. CASE s \in After(status[i], Corrections)
        BY <3>2 DEF After, Corrections
      <3>3. CASE status[i] = "COMMERCIALLY_VALIDATED" /\ s \in After("CLASSIFIED", Definitions)
        <4>1. s \in {"AWAITING_REVIEW", "READY_FOR_SAGA"}
          BY <3>3 DEF After, Definitions
        <4> QED BY <3>3, <4>1 DEF Depth
      <3> QED BY <2>1, <3>1, <3>2, <3>3 DEF Next1
    <2> QED BY <1>1, <2>1, NextCases, Entered DEF Await
  <1> QED BY <1>1, SpecInv, PTL DEF Spec

\* An export is confirmed or stays: nothing takes an invoice out of EXPORTING, or moves
\* one that is exported or a duplicate (the guards of the reanalysis and of the jobs).
THEOREM ExportsAreIrrevocable ==
  Spec => [][\A i \in Invoices : /\ status[i] = "EXPORTING" => status'[i] \in {"EXPORTING", "EXPORTED"}
                                 /\ status[i] \in Terminal => status'[i] = status[i]]_vars
  <1>1. ASSUME Inv, Next
        PROVE  \A i \in Invoices : /\ status[i] = "EXPORTING" => status'[i] \in {"EXPORTING", "EXPORTED"}
                                   /\ status[i] \in Terminal => status'[i] = status[i]
    <2>1. \A d \in Definitions \cup Corrections : /\ d[1] = "EXPORTING" => d[2] = "EXPORTED"
                                                 /\ d[1] \notin Terminal
      BY DEF Definitions, Corrections, Terminal
    <2>2. ASSUME NEW s, NEW u \in After(s, Definitions) \cup After(s, Corrections)
          PROVE  (s = "EXPORTING" => u = "EXPORTED") /\ s \notin Terminal
      BY <2>1 DEF After
    <2>3. ASSUME NEW s, NEW u \in Next1(s)
          PROVE  (s = "EXPORTING" => u = "EXPORTED") /\ s \notin Terminal
      BY <2>2, <2>3 DEF Next1, Terminal
    <2> QED BY <1>1, <2>3, NextCases, Entered DEF Await
  <1> QED BY <1>1, SpecInv, PTL DEF Spec
=============================================================================

------------------------ MODULE ContractIngestionProofs ------------------------
(***************************************************************************)
(* Proofs about ContractIngestion, for every set of workers and accountants*)
(* and every bound.  ConfirmedAsReviewed is not inductive: that a discarded*)
(* document is not confirmed rests on what an open form says while its     *)
(* revision is the document's, and that a replay does not make a dossier of*)
(* nothing on the contract the request was answered with (Forms).          *)
(***************************************************************************)
EXTENDS ContractIngestion, TLAPS

Roles == {"BASE_CONTRACT", "ANNEX"}
FormStages == {"idle", "open", "confirm", "activate", "announce"}

Shapes == /\ work \in [Workers -> [stage : {"idle", "extract"}, job : Nat, attempt : Nat]]
          /\ form \in [Accountants -> [stage : FormStages, rev : Nat, attempt : Nat, role : Roles]]
          /\ contract \in [attempt : Nat, by : Accountants \cup {"none"}, role : Roles]

\* A form that has the document's revision was opened before no discard; what comes
\* after the confirmation in a request, and the notice, follow a confirmation.
Forms == /\ \A h \in Accountants :
               /\ form[h].stage # "idle" /\ form[h].rev = rev => ~discarded
               /\ form[h].stage \in {"activate", "announce"} => status = "CONFIRMED"
         /\ notice = "queued" => status = "CONFIRMED"
         /\ contract.by # "none" => contract # NoContract
         /\ contract # NoContract => contract.by \in Accountants

Inv == TypeOK /\ Shapes /\ AttemptsFollowDocument /\ Forms /\ ConfirmedAsReviewed

----------------------------------------------------------------------------
LEMMA AttemptsRange == Attempts \subseteq Nat \ {0}
  BY BoundsAssumption DEF Attempts

LEMMA FirstAttempt == \A n \in Attempts : \A m \in 1 .. n : m \in Attempts
  BY BoundsAssumption DEF Attempts

LEMMA InitInv == Init => Inv
  <1> SUFFICES ASSUME Init PROVE Inv
    OBVIOUS
  <1> USE DEF Init
  <1>1. TypeOK
    <2>1. \A a \in Attempts : attempts[a] = "none" /\ a > 0
      BY AttemptsRange
    <2>2. attempts \in [Attempts -> {"none", "STARTED", "SUCCEEDED", "FAILED"}]
      OBVIOUS
    <2>3. 1 .. rev = {1}
      OBVIOUS
    <2>4. \A w \in Workers : work[w].stage = "idle"
      BY DEF NoWork
    <2>5. \A h \in Accountants : form[h].rev <= rev /\ form[h].attempt <= latest
      BY DEF NoForm
    <2> QED BY <2>1, <2>2, <2>3, <2>4, <2>5 DEF TypeOK
  <1>2. Shapes
    BY DEF Shapes, NoWork, NoForm, NoContract, Roles, FormStages
  <1>3. AttemptsFollowDocument
    BY DEF AttemptsFollowDocument
  <1>4. Forms
    BY DEF Forms, NoForm, NoContract
  <1>5. ConfirmedAsReviewed
    BY DEF ConfirmedAsReviewed
  <1> QED BY <1>1, <1>2, <1>3, <1>4, <1>5 DEF Inv

----------------------------------------------------------------------------
\* Steps that only move jobs and let workers go.
LEMMA JobsKeepInv ==
  ASSUME Inv, UNCHANGED <<docVars, contractVars, rows, form>>,
         queued' \subseteq rows, archived' \subseteq rows,
         work' = work \/ \E w \in Workers : Stop(w)
  PROVE  Inv'
  <1> USE DEF Inv, docVars, contractVars
  <1>1. /\ work' \in [Workers -> [stage : {"idle", "extract"}, job : Nat, attempt : Nat]]
        /\ \A w \in Workers : work'[w].stage = "extract" => work'[w] = work[w]
    BY DEF Shapes, Stop, NoWork
  <1>2. TypeOK'
    BY <1>1 DEF TypeOK
  <1>3. Shapes'
    BY <1>1 DEF Shapes
  <1>4. AttemptsFollowDocument' /\ ConfirmedAsReviewed'
    BY DEF AttemptsFollowDocument, ConfirmedAsReviewed
  <1>5. Forms'
    BY DEF Forms
  <1> QED BY <1>2, <1>3, <1>4, <1>5

\* A failed delivery stays among the jobs there are rows for.
LEMMA RetriesHaveRows ==
  ASSUME Inv, NEW j \in rows, RetryOrGiveUp(j)
  PROVE  queued' \subseteq rows /\ archived' \subseteq rows
  BY DEF Inv, TypeOK, RetryOrGiveUp

LEMMA WorkersHaveRows ==
  ASSUME Inv, NEW w \in Workers, work[w].stage = "extract"
  PROVE  work[w].job \in rows /\ work[w].attempt \in 1 .. latest
  BY DEF Inv, TypeOK

LEMMA SkipInv == ASSUME Inv, NEW j \in rows, Skip(j) PROVE Inv'
  <1>1. queued' \subseteq rows /\ archived' \subseteq rows /\ work' = work
    BY DEF Skip, Inv, TypeOK
  <1> QED BY <1>1, JobsKeepInv DEF Skip

LEMMA RefuseInv == ASSUME Inv, NEW j \in rows, Refuse(j) PROVE Inv'
  BY RetriesHaveRows, JobsKeepInv DEF Refuse

LEMMA BeginFailsInv == ASSUME Inv, NEW j \in rows, BeginFails(j) PROVE Inv'
  BY RetriesHaveRows, JobsKeepInv DEF BeginFails

LEMMA RedeliverInv == ASSUME Inv, NEW j \in rows, Redeliver(j) PROVE Inv'
  <1>1. queued' \subseteq rows /\ archived' \subseteq rows /\ work' = work
    BY DEF Redeliver, Inv, TypeOK
  <1> QED BY <1>1, JobsKeepInv DEF Redeliver

LEMMA OvertakenInv == ASSUME Inv, NEW w \in Workers, Overtaken(w) PROVE Inv'
  <1>1. queued' \subseteq rows /\ archived' \subseteq rows
    BY RetriesHaveRows, WorkersHaveRows DEF Overtaken
  <1> QED BY <1>1, JobsKeepInv DEF Overtaken

LEMMA LoseWorkerInv == ASSUME Inv, NEW w \in Workers, LoseWorker(w) PROVE Inv'
  <1>1. queued' \subseteq rows /\ archived' \subseteq rows
    BY RetriesHaveRows, WorkersHaveRows DEF LoseWorker
  <1>2. UNCHANGED <<docVars, contractVars, rows, form>> /\ Stop(w)
    BY DEF LoseWorker
  <1> QED BY <1>1, <1>2, JobsKeepInv

----------------------------------------------------------------------------
\* A document that was not confirmed and changes, but not into a confirmed one.
\* No form has the new revision, and there is no contract before or after.
LEMMA OpenDocument ==
  ASSUME Inv, status # "CONFIRMED", status' # "CONFIRMED",
         UNCHANGED <<contractVars, form>>, rev' = rev + 1
  PROVE  Forms' /\ ConfirmedAsReviewed'
  <1> USE DEF Inv, contractVars
  <1>1. \A h \in Accountants : form[h].rev \in Nat /\ form[h].rev <= rev /\ rev \in Nat
    BY DEF TypeOK, Shapes
  <1>2. Forms'
    BY <1>1 DEF Forms
  <1>3. ConfirmedAsReviewed'
    BY DEF ConfirmedAsReviewed, NoContract
  <1> QED BY <1>2, <1>3

LEMMA BeginExtractionInv ==
  ASSUME Inv, NEW w \in Workers, NEW j \in rows, BeginExtraction(w, j)
  PROVE  Inv'
  <1> USE DEF Inv, BeginExtraction
  <1>0. /\ latest \in Nat /\ latest' = latest + 1 /\ latest' \in Attempts
        /\ rev \in Nat /\ rev' = rev + 1
    BY AttemptsRange DEF TypeOK
  <1>1. /\ work' \in [Workers -> [stage : {"idle", "extract"}, job : Nat, attempt : Nat]]
        /\ \A v \in Workers : work'[v] = work[v]
                              \/ (work'[v].attempt = latest' /\ work'[v].job \in rows)
    BY <1>0 DEF Shapes, TypeOK
  <1>2. /\ attempts' = Claimed(latest') /\ UNCHANGED <<contractVars, form, rows, discarded, archived>>
        /\ queued' \subseteq rows /\ status' = "EXTRACTING"
    BY <1>0 DEF TypeOK
  <1>3. \A a \in Attempts : /\ attempts'[a] \in {"none", "STARTED", "SUCCEEDED", "FAILED"}
                            /\ attempts'[a] = "STARTED" <=> a = latest'
                            /\ attempts'[a] = "none" <=> a > latest'
    <2> SUFFICES ASSUME NEW a \in Attempts
                 PROVE  /\ attempts'[a] \in {"none", "STARTED", "SUCCEEDED", "FAILED"}
                        /\ attempts'[a] = "STARTED" <=> a = latest'
                        /\ attempts'[a] = "none" <=> a > latest'
      OBVIOUS
    <2>1. attempts'[a] = IF a = latest' THEN "STARTED"
                         ELSE IF a = latest /\ status = "EXTRACTING" /\ attempts[a] = "STARTED"
                              THEN "FAILED" ELSE attempts[a]
      BY <1>2 DEF Claimed
    <2>2. a \in Nat /\ attempts[a] \in {"none", "STARTED", "SUCCEEDED", "FAILED"}
      BY AttemptsRange DEF TypeOK
    <2>3. attempts[a] = "none" <=> a > latest
      BY DEF TypeOK
    <2>4. attempts[a] = "STARTED" <=> status = "EXTRACTING" /\ a = latest
      BY DEF AttemptsFollowDocument
    <2> QED BY <1>0, <2>1, <2>2, <2>3, <2>4
  <1>4. attempts' \in [Attempts -> {"none", "STARTED", "SUCCEEDED", "FAILED"}]
    BY <1>2, <1>3 DEF Claimed
  <1>5. TypeOK'
    <2>1. rows' \subseteq 1 .. rev' /\ queued' \subseteq rows' /\ archived' \subseteq rows'
      BY <1>0, <1>2 DEF TypeOK
    <2>2. \A v \in Workers : work'[v].stage = "extract" => work'[v].attempt \in 1 .. latest' /\ work'[v].job \in rows'
      BY <1>0, <1>1, <1>2, AttemptsRange DEF TypeOK
    <2>3. \A h \in Accountants : form'[h].rev <= rev' /\ form'[h].attempt <= latest'
      BY <1>0, <1>2 DEF TypeOK, Shapes
    <2>4. \A a \in Attempts : attempts'[a] = "none" <=> a > latest'
      BY <1>3
    <2> QED BY <1>0, <1>2, <1>4, <2>1, <2>2, <2>3, <2>4 DEF TypeOK, contractVars
  <1>6. Shapes'
    BY <1>1, <1>2 DEF Shapes, contractVars
  <1>7. AttemptsFollowDocument'
    BY <1>2, <1>3 DEF AttemptsFollowDocument
  <1>8. Forms' /\ ConfirmedAsReviewed'
    BY <1>0, <1>2, OpenDocument
  <1> QED BY <1>5, <1>6, <1>7, <1>8

\* The end of an attempt that still owns the document.
LEMMA EndInv ==
  ASSUME Inv, NEW w \in Workers, work[w].stage = "extract", Owns(w),
         NEW outcome, NEW s, End(w, outcome, s),
         \/ outcome = "SUCCEEDED" /\ s = "READY_FOR_REVIEW"
         \/ outcome = "FAILED" /\ s = "EXTRACTION_FAILED",
         queued' \subseteq rows, archived' \subseteq rows
  PROVE  Inv'
  <1> USE DEF Inv, End
  <1>0. /\ latest \in Attempts /\ latest # 0 /\ work[w].attempt = latest /\ latest' = latest
        /\ rev \in Nat /\ rev' = rev + 1 /\ status = "EXTRACTING" /\ status' = s
    BY WorkersHaveRows, AttemptsRange DEF TypeOK, Owns
  <1>1. /\ work' \in [Workers -> [stage : {"idle", "extract"}, job : Nat, attempt : Nat]]
        /\ \A v \in Workers : work'[v].stage = "extract" => work'[v] = work[v]
    BY DEF Shapes, Stop, NoWork
  <1>2. /\ attempts' = [attempts EXCEPT ![latest] = outcome]
        /\ UNCHANGED <<contractVars, form, rows, discarded>>
    BY <1>0
  <1>3. /\ attempts' \in [Attempts -> {"none", "STARTED", "SUCCEEDED", "FAILED"}]
        /\ attempts'[latest] = outcome
        /\ \A a \in Attempts \ {latest} : attempts'[a] = attempts[a]
    BY <1>0, <1>2 DEF TypeOK
  <1>4. TypeOK'
    <2>1. \A a \in Attempts : attempts'[a] = "none" <=> a > latest'
      BY <1>0, <1>3, AttemptsRange DEF TypeOK
    <2>2. \A v \in Workers : work'[v].stage = "extract" => work'[v].attempt \in 1 .. latest' /\ work'[v].job \in rows'
      BY <1>0, <1>1, <1>2 DEF TypeOK
    <2>3. \A h \in Accountants : form'[h].rev <= rev' /\ form'[h].attempt <= latest'
      BY <1>0, <1>2 DEF TypeOK, Shapes
    <2>4. rows' \subseteq 1 .. rev'
      BY <1>0, <1>2 DEF TypeOK
    <2> QED BY <1>0, <1>2, <1>3, <2>1, <2>2, <2>3, <2>4 DEF TypeOK, contractVars
  <1>5. Shapes'
    BY <1>1, <1>2 DEF Shapes, contractVars
  <1>6. AttemptsFollowDocument'
    BY <1>0, <1>3 DEF AttemptsFollowDocument
  <1>7. Forms' /\ ConfirmedAsReviewed'
    BY <1>0, <1>2, OpenDocument
  <1> QED BY <1>4, <1>5, <1>6, <1>7

LEMMA CompleteExtractionInv == ASSUME Inv, NEW w \in Workers, CompleteExtraction(w) PROVE Inv'
  <1>1. queued' \subseteq rows /\ archived' \subseteq rows
    BY DEF CompleteExtraction, Inv, TypeOK
  <1> QED BY <1>1, EndInv DEF CompleteExtraction

LEMMA FailExtractionInv == ASSUME Inv, NEW w \in Workers, FailExtraction(w) PROVE Inv'
  <1>1. work[w].stage = "extract" /\ work[w].job \in rows
    BY WorkersHaveRows DEF FailExtraction
  <1>2. queued' \subseteq rows /\ archived' \subseteq rows
    BY <1>1, RetriesHaveRows DEF FailExtraction, Inv, TypeOK
  <1> QED BY <1>1, <1>2, EndInv DEF FailExtraction

LEMMA LeaseEndsInv == ASSUME Inv, LeaseEnds PROVE Inv'
  <1> USE DEF Inv, LeaseEnds, contractVars, jobVars
  <1>1. TypeOK'
    BY DEF TypeOK
  <1>2. Shapes'
    BY DEF Shapes
  <1>3. AttemptsFollowDocument' /\ ConfirmedAsReviewed'
    BY DEF AttemptsFollowDocument, ConfirmedAsReviewed
  <1>4. Forms'
    BY DEF Forms
  <1> QED BY <1>1, <1>2, <1>3, <1>4

----------------------------------------------------------------------------
LEMMA RetryExtractionInv == ASSUME Inv, RetryExtraction PROVE Inv'
  <1> USE DEF Inv, RetryExtraction
  <1>1. rev \in Nat /\ rev' = rev + 1 /\ rows' = rows \cup {rev'} /\ latest' = latest
    BY DEF TypeOK
  <1>2. TypeOK'
    <2>1. rows' \subseteq 1 .. rev' /\ queued' \subseteq rows' /\ archived' \subseteq rows'
      <3>1. rows \subseteq 1 .. rev /\ queued \subseteq rows /\ archived \subseteq rows
        BY DEF TypeOK
      <3>2. queued' = queued \cup {rev'} /\ archived' = archived
        BY <1>1
      <3> HIDE DEF Inv, RetryExtraction
      <3> QED BY <1>1, <3>1, <3>2
    <2>2. \A w \in Workers : work'[w].stage = "extract" => work'[w].attempt \in 1 .. latest' /\ work'[w].job \in rows'
      BY <1>1 DEF TypeOK
    <2>3. \A h \in Accountants : form'[h].rev <= rev' /\ form'[h].attempt <= latest'
      BY <1>1 DEF TypeOK, Shapes
    <2> QED BY <1>1, <2>1, <2>2, <2>3 DEF TypeOK, contractVars
  <1>3. Shapes'
    BY DEF Shapes, contractVars
  <1>4. AttemptsFollowDocument'
    BY DEF AttemptsFollowDocument
  <1>5. Forms' /\ ConfirmedAsReviewed'
    BY OpenDocument
  <1> QED BY <1>2, <1>3, <1>4, <1>5

LEMMA DiscardDocumentInv == ASSUME Inv, DiscardDocument PROVE Inv'
  <1> USE DEF Inv, DiscardDocument
  <1>1. rev \in Nat /\ rev' = rev + 1 /\ latest' = latest
    BY DEF TypeOK
  <1>2. TypeOK'
    <2>1. rows' \subseteq 1 .. rev'
      BY <1>1 DEF TypeOK, jobVars
    <2>2. \A h \in Accountants : form'[h].rev <= rev' /\ form'[h].attempt <= latest'
      BY <1>1 DEF TypeOK, Shapes
    <2> QED BY <1>1, <2>1, <2>2 DEF TypeOK, contractVars, jobVars
  <1>3. Shapes'
    BY DEF Shapes, contractVars
  <1>4. AttemptsFollowDocument'
    BY DEF AttemptsFollowDocument
  <1>5. Forms' /\ ConfirmedAsReviewed'
    BY <1>1, OpenDocument DEF jobVars
  <1> QED BY <1>2, <1>3, <1>4, <1>5

\* A form that moves on with the document it has, outside of the confirmation itself.
LEMMA FormKeepsInv ==
  ASSUME Inv, UNCHANGED <<docVars, contract, jobVars, work>>,
         NEW h \in Accountants, NEW stage \in FormStages, At(h, stage),
         stage # "idle" => form[h].stage # "idle",
         stage \in {"activate", "announce"} => status = "CONFIRMED",
         dossier' \in BOOLEAN, announced' \in BOOLEAN,
         dossier' # dossier \/ announced' # announced => status = "CONFIRMED",
         notice' = notice
  PROVE  Inv'
  <1> USE DEF Inv, docVars, jobVars
  <1>1. /\ form' \in [Accountants -> [stage : FormStages, rev : Nat, attempt : Nat, role : Roles]]
        /\ \A g \in Accountants : /\ form'[g].rev = form[g].rev /\ form'[g].attempt = form[g].attempt
                                  /\ g # h => form'[g] = form[g]
        /\ form'[h].stage = stage
    BY DEF Shapes, At
  <1>2. TypeOK'
    BY <1>1 DEF TypeOK
  <1>3. Shapes'
    BY <1>1 DEF Shapes
  <1>4. AttemptsFollowDocument'
    BY DEF AttemptsFollowDocument
  <1>5. Forms'
    BY <1>1 DEF Forms
  <1>6. ConfirmedAsReviewed'
    <2>1. status = "CONFIRMED" => contract.by \in Accountants
      BY DEF ConfirmedAsReviewed, Forms
    <2>2. CASE stage = "idle"
      BY <1>1, <2>1, <2>2 DEF ConfirmedAsReviewed
    <2>3. CASE stage # "idle"
      BY <1>1, <2>1, <2>3 DEF ConfirmedAsReviewed
    <2> QED BY <2>2, <2>3
  <1> QED BY <1>2, <1>3, <1>4, <1>5, <1>6

LEMMA OpenFormInv == ASSUME Inv, NEW h \in Accountants, OpenForm(h) PROVE Inv'
  <1> USE DEF Inv, OpenForm
  <1>1. PICK role \in Roles :
          form' = [form EXCEPT ![h] = [stage |-> "open", rev |-> rev, attempt |-> latest, role |-> role]]
    BY DEF Roles
  <1>2. rev \in Nat /\ latest \in Nat /\ status = "READY_FOR_REVIEW" /\ ~discarded
    <2>1. rev \in Nat /\ latest \in Attempts \cup {0}
      BY DEF TypeOK
    <2> QED BY <2>1, AttemptsRange
  <1>3. /\ form' \in [Accountants -> [stage : FormStages, rev : Nat, attempt : Nat, role : Roles]]
        /\ form'[h] = [stage |-> "open", rev |-> rev, attempt |-> latest, role |-> role]
        /\ \A g \in Accountants \ {h} : form'[g] = form[g]
    BY <1>1, <1>2 DEF Shapes, FormStages
  <1>4. UNCHANGED <<docVars, contractVars, jobVars, work>>
    OBVIOUS
  <1>5. TypeOK'
    BY <1>2, <1>3, <1>4 DEF TypeOK, docVars, contractVars, jobVars
  <1>6. Shapes'
    BY <1>3, <1>4 DEF Shapes, contractVars
  <1>7. AttemptsFollowDocument'
    BY <1>4 DEF AttemptsFollowDocument, docVars
  <1>8. Forms'
    BY <1>2, <1>3, <1>4 DEF Forms, docVars, contractVars
  <1>9. ConfirmedAsReviewed'
    BY <1>2, <1>4 DEF ConfirmedAsReviewed, docVars, contractVars
  <1> QED BY <1>5, <1>6, <1>7, <1>8, <1>9

LEMMA SubmitInv == ASSUME Inv, NEW h \in Accountants, Submit(h) PROVE Inv'
  <1>1. PICK stage \in {"idle", "confirm"} : At(h, stage)
    BY DEF Submit
  <1>2. stage \in FormStages /\ dossier \in BOOLEAN /\ announced \in BOOLEAN
    BY DEF FormStages, Inv, TypeOK
  <1> QED BY <1>1, <1>2, FormKeepsInv DEF Submit, contractVars

\* The transaction that makes the contract.
LEMMA ConfirmInv ==
  ASSUME Inv, NEW h \in Accountants, form[h].stage = "confirm", Reviewable(h),
         status' = "CONFIRMED", rev' = rev + 1,
         contract' = [attempt |-> latest, by |-> h, role |-> form[h].role],
         notice' \in {"queued", "none"}, At(h, "activate"),
         UNCHANGED <<discarded, latest, leased, attempts, dossier, announced, jobVars, work>>
  PROVE  Inv'
  <1> USE DEF Inv, jobVars
  <1>1. /\ rev \in Nat /\ latest \in Nat /\ latest # 0 /\ attempts[latest] = "SUCCEEDED"
        /\ status = "READY_FOR_REVIEW" /\ form[h].rev = rev /\ ~discarded
    BY AttemptsRange DEF TypeOK, Reviewable, AttemptsFollowDocument, Forms
  <1>2. /\ form' \in [Accountants -> [stage : FormStages, rev : Nat, attempt : Nat, role : Roles]]
        /\ \A g \in Accountants : form'[g].rev = form[g].rev /\ form'[g].attempt = form[g].attempt
    BY DEF Shapes, At, FormStages
  <1>3. /\ contract' # NoContract /\ contract'.by = h /\ contract'.attempt = latest /\ h # "none"
        /\ contract' \in [attempt : Nat, by : Accountants \cup {"none"}, role : Roles]
    BY <1>1, NamesAssumption DEF NoContract, Shapes
  <1>4. TypeOK'
    <2>1. rows' \subseteq 1 .. rev'
      BY <1>1 DEF TypeOK
    <2>2. \A g \in Accountants : form'[g].rev <= rev' /\ form'[g].attempt <= latest'
      BY <1>1, <1>2 DEF TypeOK, Shapes
    <2>3. ~leased'
      BY <1>1 DEF TypeOK
    <2> QED BY <1>1, <2>1, <2>2, <2>3 DEF TypeOK
  <1>5. Shapes'
    BY <1>2, <1>3 DEF Shapes
  <1>6. AttemptsFollowDocument'
    BY <1>1 DEF AttemptsFollowDocument
  <1>7. Forms'
    BY <1>1, <1>3 DEF Forms
  <1>8. ConfirmedAsReviewed'
    BY <1>1, <1>2, <1>3 DEF ConfirmedAsReviewed
  <1> QED BY <1>4, <1>5, <1>6, <1>7, <1>8

LEMMA ConfirmDocumentInv == ASSUME Inv, NEW h \in Accountants, ConfirmDocument(h) PROVE Inv'
  <1> USE DEF ConfirmDocument
  <1>1. CASE status' = "CONFIRMED" /\ rev' = rev + 1 /\ At(h, "activate")
             /\ contract' = [attempt |-> latest, by |-> h, role |-> form[h].role]
             /\ notice' = IF form[h].role = "BASE_CONTRACT" THEN "queued" ELSE "none"
    BY <1>1, ConfirmInv
  <1>2. CASE At(h, "open") /\ UNCHANGED <<status, rev, contract, notice>>
    <2>1. "open" \in FormStages /\ dossier \in BOOLEAN /\ announced \in BOOLEAN
      BY DEF FormStages, Inv, TypeOK
    <2> QED BY <1>2, <2>1, FormKeepsInv DEF docVars
  <1> QED BY <1>1, <1>2

LEMMA ReplayInv == ASSUME Inv, NEW h \in Accountants, Replay(h) PROVE Inv'
  <1>1. PICK stage \in {"idle", "activate"} : At(h, stage) /\ (stage = "activate" => contract.by = h)
    BY DEF Replay
  <1>2. stage = "activate" => status = "CONFIRMED"
    BY <1>1, NamesAssumption DEF Inv, Forms, ConfirmedAsReviewed
  <1>3. stage \in FormStages /\ dossier \in BOOLEAN /\ announced \in BOOLEAN
    BY DEF FormStages, Inv, TypeOK
  <1> QED BY <1>1, <1>2, <1>3, FormKeepsInv DEF Replay, contractVars

LEMMA ActivateInv ==
  ASSUME Inv, NEW h \in Accountants, ActivateConfirmedContract(h) \/ Announce(h)
  PROVE  Inv'
  <1>1. status = "CONFIRMED"
    BY DEF ActivateConfirmedContract, Announce, Inv, Forms
  <1>2. {"announce", "idle"} \subseteq FormStages /\ dossier \in BOOLEAN /\ announced \in BOOLEAN
    BY DEF FormStages, Inv, TypeOK
  <1>3. CASE ActivateConfirmedContract(h)
    BY <1>1, <1>2, <1>3, FormKeepsInv DEF ActivateConfirmedContract
  <1>4. CASE Announce(h)
    BY <1>1, <1>2, <1>4, FormKeepsInv DEF Announce
  <1> QED BY <1>3, <1>4

LEMMA LoseRequestInv == ASSUME Inv, NEW h \in Accountants, LoseRequest(h) PROVE Inv'
  <1>1. PICK stage \in {"open", "idle"} : At(h, stage)
    BY DEF LoseRequest
  <1>2. stage \in FormStages /\ dossier \in BOOLEAN /\ announced \in BOOLEAN
    BY DEF FormStages, Inv, TypeOK
  <1> QED BY <1>1, <1>2, FormKeepsInv DEF LoseRequest, contractVars

LEMMA ProcessNoticeInv == ASSUME Inv, ProcessNotice PROVE Inv'
  <1> USE DEF Inv, ProcessNotice, docVars, jobVars
  <1>1. status = "CONFIRMED"
    BY DEF Forms
  <1>2. announced' \in BOOLEAN /\ notice' \in {"done", "archived"}
    BY DEF TypeOK
  <1>3. TypeOK'
    BY <1>2 DEF TypeOK
  <1>4. Shapes' /\ AttemptsFollowDocument'
    BY DEF Shapes, AttemptsFollowDocument
  <1>5. Forms' /\ ConfirmedAsReviewed'
    BY <1>1, <1>2 DEF Forms, ConfirmedAsReviewed
  <1> QED BY <1>3, <1>4, <1>5

----------------------------------------------------------------------------
LEMMA StutterInv == ASSUME Inv, UNCHANGED vars PROVE Inv'
  <1>1. queued' \subseteq rows /\ archived' \subseteq rows
    BY DEF vars, jobVars, Inv, TypeOK
  <1> QED BY <1>1, JobsKeepInv DEF vars, jobVars

LEMMA NextInv == Inv /\ [Next]_vars => Inv'
  <1> SUFFICES ASSUME Inv, Next PROVE Inv'
    BY StutterInv
  <1>1. CASE \E j \in rows : Skip(j) \/ BeginFails(j) \/ Refuse(j) \/ Redeliver(j)
    BY <1>1, SkipInv, BeginFailsInv, RefuseInv, RedeliverInv
  <1>2. CASE \E w \in Workers : Extract(w) \/ LoseWorker(w) \/ \E j \in rows : BeginExtraction(w, j)
    BY <1>2, CompleteExtractionInv, FailExtractionInv, OvertakenInv, LoseWorkerInv, BeginExtractionInv
       DEF Extract
  <1>3. CASE ExpireLease \/ Overrun
    BY <1>3, LeaseEndsInv DEF ExpireLease, Overrun
  <1>4. CASE RetryExtraction \/ DiscardDocument
    BY <1>4, RetryExtractionInv, DiscardDocumentInv
  <1>5. CASE \E h \in Accountants : OpenForm(h) \/ Submit(h) \/ Confirm(h) \/ LoseRequest(h)
    BY <1>5, OpenFormInv, SubmitInv, ConfirmDocumentInv, ReplayInv, ActivateInv, LoseRequestInv
       DEF Confirm
  <1>6. CASE ProcessNotice
    BY <1>6, ProcessNoticeInv
  <1> QED BY <1>1, <1>2, <1>3, <1>4, <1>5, <1>6 DEF Next

LEMMA SpecInv == Spec => []Inv
  BY InitInv, NextInv, PTL DEF Spec

\* Attempts are numbered as they start, and no form or job has a revision the document
\* never had (contract_extraction_attempts, contract_source_documents.revision).
THEOREM TypeCorrect == Spec => []TypeOK
  BY SpecInv, PTL DEF Inv

\* The history of attempts tells what the document shows: late workers, ended leases and
\* repeated jobs leave one open attempt at most, the one the document is under.
THEOREM AttemptsFollow == Spec => []AttemptsFollowDocument
  BY SpecInv, PTL DEF Inv

\* A contract comes of one review of the latest proposal of a document that was not
\* discarded; dossier and announcement follow a confirmation (Store.ConfirmDocument).
THEOREM ContractIsReviewed == Spec => []ConfirmedAsReviewed
  BY SpecInv, PTL DEF Inv

----------------------------------------------------------------------------
(* A document is not forgotten.  A worker that lets go holds no job, so the*)
(* row of a retry, which is then the last request, is held by none.        *)

Idle == \A w \in Workers : work[w].stage = "idle" => work[w].job = 0
Waiting == Idle /\ ExtractionNotForgotten

LEMMA LastRequestIs ==
  ASSUME Inv, NEW m \in rows, \A k \in rows : k <= m
  PROVE  LastRequest = m
  <1>1. rows \subseteq Nat
    BY DEF Inv, TypeOK
  <1>2. LastRequest \in rows /\ \A k \in rows : k <= LastRequest
    BY DEF LastRequest
  <1> QED BY <1>1, <1>2

\* Steps that hand a job back, or nothing: no worker takes one.
LEMMA HandedBack ==
  ASSUME Inv, Waiting, UNCHANGED status, UNCHANGED latest,
         work' = work \/ \E w \in Workers : Stop(w),
         rows' = rows, archived \subseteq archived',
         status = "UPLOADED" => \A k \in queued : (\A w \in Workers : work[w].job # k) => k \in queued' \cup archived',
         status = "EXTRACTING" => \/ work' = work /\ queued \cup archived \subseteq queued' \cup archived'
                                  \/ queued' \cup archived' # {}
  PROVE  Waiting'
  <1> USE DEF Inv, Waiting
  <1>1. \A v \in Workers : work'[v] = work[v] \/ work'[v] = NoWork
    BY DEF Shapes, Stop
  <1>2. Idle'
    BY <1>1 DEF Idle, NoWork
  <1>3. ASSUME status' = "UPLOADED"
        PROVE  \/ LastRequest' \in queued' /\ \A v \in Workers : work'[v].job # LastRequest'
               \/ LastRequest' \in archived'
    <2>1. LastRequest' = LastRequest
      BY DEF LastRequest
    <2>2. CASE LastRequest \in archived
      BY <2>1, <2>2
    <2>3. CASE LastRequest \in queued /\ \A v \in Workers : work[v].job # LastRequest
      <3>1. LastRequest # 0
        BY <2>3 DEF TypeOK
      <3> QED BY <1>1, <1>3, <2>1, <2>3, <3>1 DEF NoWork
    <2> QED BY <1>3, <2>2, <2>3 DEF ExtractionNotForgotten
  <1>4. ASSUME status' = "EXTRACTING"
        PROVE  \/ \E v \in Workers : work'[v].stage = "extract" /\ work'[v].attempt = latest'
               \/ queued' \cup archived' # {}
    BY <1>4 DEF ExtractionNotForgotten
  <1> QED BY <1>2, <1>3, <1>4 DEF ExtractionNotForgotten

\* Steps of the accountant on a document that keeps its status.
LEMMA UntouchedJobs ==
  ASSUME Inv, Waiting, UNCHANGED <<status, latest, rows, queued, archived, work>>
  PROVE  Waiting'
  BY HandedBack

LEMMA RetryHolds ==
  ASSUME NEW j, RetryOrGiveUp(j)
  PROVE  /\ queued \subseteq queued' \cup archived' /\ archived \subseteq archived'
         /\ queued' \cup archived' # {}
  BY DEF RetryOrGiveUp

LEMMA WaitingNext == ASSUME Inv, Waiting, Next PROVE Waiting'
  <1> USE DEF Waiting
  <1>1. ASSUME NEW j \in rows, Skip(j) PROVE Waiting'
    BY <1>1, HandedBack DEF Skip, docVars
  <1>2. ASSUME NEW j \in rows, Refuse(j) PROVE Waiting'
    <2>1. status = "EXTRACTING" /\ queued' \cup archived' # {} /\ archived \subseteq archived'
      BY <1>2, RetryHolds DEF Refuse, Busy
    <2> QED BY <1>2, <2>1, HandedBack DEF Refuse, docVars
  <1>3. ASSUME NEW j \in rows, Redeliver(j) \/ BeginFails(j) PROVE Waiting'
    <2>1. queued \cup archived \subseteq queued' \cup archived' /\ archived \subseteq archived'
      BY <1>3, RetryHolds DEF Redeliver, BeginFails
    <2>2. status = "UPLOADED" => \A k \in queued : k \in queued' \cup archived'
      BY <2>1
    <2> QED BY <1>3, <2>1, <2>2, HandedBack DEF Redeliver, BeginFails, docVars
  <1>4. ASSUME NEW w \in Workers, CompleteExtraction(w) \/ FailExtraction(w) PROVE Waiting'
    <2>1. status' # "UPLOADED" /\ status' # "EXTRACTING" /\ Stop(w)
      BY <1>4 DEF CompleteExtraction, FailExtraction, End
    <2>2. Idle'
      BY <2>1 DEF Inv, Shapes, Stop, Idle, NoWork
    <2> QED BY <2>1, <2>2 DEF ExtractionNotForgotten
  <1>5. ASSUME NEW w \in Workers, Overtaken(w) \/ LoseWorker(w) PROVE Waiting'
    <2>1. Stop(w) /\ RetryOrGiveUp(work[w].job) /\ UNCHANGED <<status, latest, rows>>
      BY <1>5 DEF Overtaken, LoseWorker, docVars
    <2>2. /\ \A k \in queued : k \in queued' \cup archived'
          /\ archived \subseteq archived' /\ queued' \cup archived' # {}
      BY <2>1, RetryHolds
    <2> QED BY <2>1, <2>2, HandedBack
  <1>6. ASSUME NEW w \in Workers, NEW j \in rows, BeginExtraction(w, j) PROVE Waiting'
    <2>1. /\ status' = "EXTRACTING" /\ latest' = latest + 1
          /\ work' = [work EXCEPT ![w] = [stage |-> "extract", job |-> j, attempt |-> latest + 1]]
      BY <1>6 DEF BeginExtraction
    <2>2. work'[w].stage = "extract" /\ work'[w].attempt = latest' /\ \A v \in Workers \ {w} : work'[v] = work[v]
      BY <2>1 DEF Inv, Shapes
    <2> QED BY <2>1, <2>2 DEF ExtractionNotForgotten, Idle
  <1>7. ASSUME LeaseEnds PROVE Waiting'
    BY <1>7, UntouchedJobs DEF LeaseEnds, jobVars
  <1>8. ASSUME RetryExtraction PROVE Waiting'
    <2>1. /\ status' = "UPLOADED" /\ rev + 1 \in queued' /\ work' = work
          /\ rows' = rows \cup {rev + 1} /\ rows \subseteq 1 .. rev /\ rev \in Nat
      BY <1>8 DEF RetryExtraction, Inv, TypeOK
    <2>2. \A w \in Workers : work[w].job # rev + 1
      <3> TAKE w \in Workers
      <3>1. CASE work[w].stage = "extract"
        BY <2>1, <3>1 DEF Inv, TypeOK
      <3>2. CASE work[w].stage = "idle"
        BY <2>1, <3>2 DEF Idle
      <3> QED BY <3>1, <3>2 DEF Inv, Shapes
    <2>3. LastRequest' = rev + 1
      <3>1. Inv'
        BY <1>8, RetryExtractionInv
      <3>2. PICK m \in rows' : m = rev + 1
        BY <2>1
      <3>3. \A k \in rows' : k <= m
        BY <2>1, <3>2
      <3>4. LastRequest' \in rows' /\ \A k \in rows' : k <= LastRequest'
        BY <3>3 DEF LastRequest
      <3> QED BY <2>1, <3>2, <3>3, <3>4
    <2> QED BY <2>1, <2>2, <2>3 DEF ExtractionNotForgotten, Idle
  <1>9. ASSUME DiscardDocument PROVE Waiting'
    BY <1>9, UntouchedJobs DEF DiscardDocument, jobVars
  <1>10. ASSUME NEW h \in Accountants, OpenForm(h) \/ Submit(h) \/ Confirm(h) \/ LoseRequest(h)
         PROVE  Waiting'
    <2>1. UNCHANGED <<latest, rows, queued, archived, work>>
      BY <1>10 DEF OpenForm, Submit, Confirm, ConfirmDocument, Replay, ActivateConfirmedContract,
                   Announce, LoseRequest, docVars, jobVars
    <2>2. UNCHANGED status \/ status' = "CONFIRMED"
      BY <1>10 DEF OpenForm, Submit, Confirm, ConfirmDocument, Replay, ActivateConfirmedContract,
                   Announce, LoseRequest, docVars
    <2>3. CASE status' = "CONFIRMED"
      BY <2>1, <2>3 DEF ExtractionNotForgotten, Idle
    <2> QED BY <2>1, <2>2, <2>3, UntouchedJobs
  <1>11. ASSUME ProcessNotice PROVE Waiting'
    BY <1>11, UntouchedJobs DEF ProcessNotice, docVars, jobVars
  <1> QED BY <1>1, <1>2, <1>3, <1>4, <1>5, <1>6, <1>7, <1>8, <1>9, <1>10, <1>11
          DEF Next, Extract, ExpireLease, Overrun

LEMMA SpecWaiting == Spec => []Waiting
  <1>1. Init => Waiting
    <2> SUFFICES ASSUME Init PROVE Waiting
      OBVIOUS
    <2>1. status = "UPLOADED" /\ queued = {1} /\ \A w \in Workers : work[w].job = 0
      BY DEF Init, NoWork
    <2>2. LastRequest = 1
      BY InitInv, LastRequestIs DEF Init
    <2> QED BY <2>1, <2>2 DEF Waiting, Idle, ExtractionNotForgotten
  <1>2. Inv /\ Waiting /\ [Next]_vars => Waiting'
    <2>1. Inv /\ Waiting /\ UNCHANGED vars => Waiting'
      BY UntouchedJobs DEF vars, docVars, jobVars
    <2> QED BY <2>1, WaitingNext
  <1> QED BY <1>1, <1>2, SpecInv, PTL DEF Spec

\* A document that waits for its extraction keeps the job of its last request, or that
\* job was given up before an attempt began; one under extraction has a worker or a job
\* (Service.RetryExtraction and Store.CreateDocument write the row with the status; the
\* handler returns the error of what it could not record).
THEOREM NoExtractionForgotten == Spec => []ExtractionNotForgotten
  BY SpecWaiting, PTL DEF Waiting
=============================================================================

----------------------- MODULE CommercialValidationProofs -----------------------
(***************************************************************************)
(* Proofs about CommercialValidation, for every set of workers, every set  *)
(* of findings and every bound.  CorrectionsAreSeen is not inductive: that *)
(* a verdict is not older than the correction rests on what each worker has*)
(* read so far (Sound), and that a rerun has a row to send on the revision *)
(* counting the reruns (Counted).                                          *)
(***************************************************************************)
EXTENDS CommercialValidation, TLAPS

All == Findings \cup {"coverage"}
Seens == UNION {[S -> Nat] : S \in SUBSET Source}
Runs == [saved : BOOLEAN, rev : Nat, seen : Seens, blocking : SUBSET All, excepted : SUBSET All]
Works == [stage : {"idle", "load", "read", "save"}, job : Jobs, rev : Nat, read : 0 .. 4, seen : Seens]

Fresh(seen) == \A s \in DOMAIN seen : seen[s] >= asked[s]

\* What a worker holds: the sources it has read, in their order, and none of them older
\* than the request while the invoice is the one it loaded.
Sound(v) == /\ v \in Works /\ v.rev <= rev /\ v.job \in rows
            /\ v.stage \in {"load", "read"} => v.read < 4
            /\ DOMAIN v.seen = {Sources[n] : n \in 1 .. v.read}
            /\ v.rev = rev => Fresh(v.seen)

Shapes == /\ runs \in [Jobs -> Runs]
          /\ work \in [Workers -> Works] /\ \A w \in Workers : Sound(work[w])
          /\ \A s \in Source : asked[s] <= inputs[s]
          /\ 0 \in rows

\* Each rerun moved the revision twice.
Counted == /\ reruns \in 0 .. MaxReruns
           /\ status = "COMMERCIAL_VALIDATING" => rev = 2 * reruns + 1
           /\ status = "AWAITING_COMMERCIAL_REVIEW" => rev = 2 * reruns + 2

Inv == TypeOK /\ Shapes /\ Counted /\ ReviewHasItsTask /\ ValidatedHasBasis /\ CorrectionsAreSeen

----------------------------------------------------------------------------
LEMMA SourceNames ==
  /\ Len(Sources) = 4
  /\ \A n \in 1 .. 4 : Sources[n] \in Source
  /\ \A S \in SUBSET Source, f \in [Source -> Nat] : [s \in S |-> f[s]] \in Seens
  /\ "terms" \in Source
  <1>1. Len(Sources) = 4 /\ \A n \in 1 .. 4 : Sources[n] \in Source
    BY DEF Sources, Source
  <1>2. "terms" \in Source
    <2>1. Sources[1] = "terms" /\ 1 \in 1 .. 4
      BY DEF Sources
    <2> QED BY <1>1, <2>1
  <1>3. ASSUME NEW S \in SUBSET Source, NEW f \in [Source -> Nat]
        PROVE  [s \in S |-> f[s]] \in Seens
    <2>1. [s \in S |-> f[s]] \in [S -> Nat]
      OBVIOUS
    <2> QED BY <2>1 DEF Seens
  <1> QED BY <1>1, <1>2, <1>3

LEMMA Empty == <<>> \in Seens /\ DOMAIN <<>> = {}
  <1>1. <<>> \in [{} -> Nat] /\ {} \in SUBSET Source
    OBVIOUS
  <1> QED BY <1>1 DEF Seens

LEMMA JobsRange == Jobs \subseteq Nat /\ {0, 1} \subseteq Jobs
  BY BoundsAssumption DEF Jobs

\* A worker that holds nothing.
LEMMA IdleSound == ASSUME rev \in Nat, 0 \in rows PROVE Sound(NoWork)
  <1>1. NoWork \in Works
    BY Empty, JobsRange DEF NoWork, Works
  <1>2. {Sources[n] : n \in 1 .. NoWork.read} = {}
    BY DEF NoWork
  <1> QED BY <1>1, <1>2, Empty DEF Sound, NoWork, Fresh

LEMMA BlockingFindings ==
  ASSUME kind \in {"contract", "waived", "issued"}, NEW seen
  PROVE  Blocking(seen) \subseteq SUBSET All
  <1>1. CASE kind = "issued"
    BY <1>1 DEF Blocking, All
  <1>2. CASE kind = "waived"
    BY <1>2 DEF Blocking, All
  <1>3. CASE kind = "contract" /\ seen["terms"] = 0
    <2>1. Blocking(seen) = {fs \cup {"coverage"} : fs \in SUBSET Findings}
      BY <1>3 DEF Blocking
    <2> QED BY <2>1 DEF All
  <1>4. CASE kind = "contract" /\ seen["terms"] # 0
    BY <1>4 DEF Blocking, All
  <1> QED BY <1>1, <1>2, <1>3, <1>4

LEMMA InitInv == Init => Inv
  <1> SUFFICES ASSUME Init PROVE Inv
    OBVIOUS
  <1> USE DEF Init
  <1>1. inputs \in [Source -> Nat] /\ asked \in [Source -> Nat] /\ \A s \in Source : asked[s] <= inputs[s]
    <2>1. inputs \in [Source -> Nat]
      OBVIOUS
    <2> QED BY <2>1
  <1>2. NoRun \in Runs /\ NoRun.rev = 0 /\ NoRun.blocking = {} /\ NoRun.excepted = {}
    BY Empty DEF NoRun, Runs
  <1>3. runs \in [Jobs -> Runs] /\ \A j \in Jobs : runs[j] = NoRun
    BY <1>2
  <1>4. rev = 1 /\ rev \in Nat
    OBVIOUS
  <1>5. work \in [Workers -> Works] /\ \A w \in Workers : work[w] = NoWork /\ Sound(work[w])
    BY <1>4, IdleSound DEF Sound
  <1>6. TypeOK
    <2>1. \A j \in Jobs : /\ runs[j].blocking \subseteq Findings \cup {"coverage"}
                          /\ runs[j].excepted \subseteq runs[j].blocking
                          /\ runs[j].rev < rev
      BY <1>2, <1>3
    <2>2. \A w \in Workers : /\ work[w].stage \in {"idle", "load", "read", "save"}
                             /\ work[w].job \in Jobs /\ work[w].rev <= rev
                             /\ DOMAIN work[w].seen = {Sources[n] : n \in 1 .. work[w].read}
      BY <1>5 DEF Sound, Works
    <2>3. task \in [Jobs -> {"none", "OPEN", "WAITING", "RESOLVED"}]
      OBVIOUS
    <2>4. last \in Jobs /\ rows \subseteq Jobs /\ queued \subseteq rows /\ archived \subseteq rows
      BY JobsRange
    <2> QED BY <1>1, <1>4, <2>1, <2>2, <2>3, <2>4 DEF TypeOK
  <1>7. Shapes
    BY <1>1, <1>3, <1>5 DEF Shapes
  <1>8. Counted
    BY BoundsAssumption DEF Counted
  <1>9. ReviewHasItsTask
    BY DEF ReviewHasItsTask, Active
  <1>10. ValidatedHasBasis /\ CorrectionsAreSeen
    BY DEF ValidatedHasBasis, CorrectionsAreSeen
  <1> QED BY <1>6, <1>7, <1>8, <1>9, <1>10 DEF Inv

----------------------------------------------------------------------------
\* Steps of the queue and of a worker before it saves: what it holds stays sound.
LEMMA WorkKeepsInv ==
  ASSUME Inv, UNCHANGED <<kind, status, rev, inputs, asked, reviewVars, rows, reruns>>,
         queued' \subseteq rows, archived' \subseteq rows,
         work' = work \/ \E w \in Workers : \E v : Sound(v) /\ work' = [work EXCEPT ![w] = v]
  PROVE  Inv'
  <1> USE DEF Inv, reviewVars
  <1>1. work' \in [Workers -> Works] /\ \A w \in Workers : Sound(work'[w])
    BY DEF Shapes, Sound
  <1>2. \A w \in Workers : Sound(work[w])'
    BY <1>1 DEF Sound, Fresh
  <1>3. TypeOK'
    <2>1. \A w \in Workers : /\ work'[w].stage \in {"idle", "load", "read", "save"}
                             /\ work'[w].job \in Jobs /\ work'[w].rev <= rev'
                             /\ DOMAIN work'[w].seen = {Sources[n] : n \in 1 .. work'[w].read}
      BY <1>1 DEF Sound, Works
    <2> QED BY <2>1 DEF TypeOK
  <1>4. Shapes'
    BY <1>1, <1>2 DEF Shapes
  <1>5. Counted'
    BY DEF Counted
  <1>6. ReviewHasItsTask'
    BY DEF ReviewHasItsTask, Active
  <1>7. ValidatedHasBasis' /\ CorrectionsAreSeen'
    BY DEF ValidatedHasBasis, CorrectionsAreSeen
  <1> QED BY <1>3, <1>4, <1>5, <1>6, <1>7

LEMMA StopKeepsInv ==
  ASSUME Inv, UNCHANGED <<kind, status, rev, inputs, asked, reviewVars, rows, reruns>>,
         queued' \subseteq rows, archived' \subseteq rows,
         NEW w \in Workers, Stop(w)
  PROVE  Inv'
  <1>1. Sound(NoWork)
    BY IdleSound DEF Inv, TypeOK, Shapes
  <1> QED BY <1>1, WorkKeepsInv DEF Stop

LEMMA TakeInv == ASSUME Inv, NEW w \in Workers, NEW j \in Jobs, Take(w, j) PROVE Inv'
  <1> USE DEF Inv, Take
  <1>1. queued' \subseteq rows /\ archived' \subseteq rows /\ rev \in Nat
    BY DEF TypeOK
  <1>2. CASE status = "COMMERCIAL_VALIDATING"
    <2> DEFINE v == [stage |-> "load", job |-> j, rev |-> rev, read |-> 0, seen |-> <<>>]
    <2>1. v \in Works /\ {Sources[n] : n \in 1 .. v.read} = {}
      BY <1>1, Empty DEF Works
    <2>2. Sound(v)
      BY <1>1, <2>1, Empty DEF Sound, Fresh, TypeOK
    <2>3. work' = [work EXCEPT ![w] = v]
      BY <1>2
    <2> QED BY <1>1, <2>2, <2>3, WorkKeepsInv DEF budgetVars
  <1>3. CASE status # "COMMERCIAL_VALIDATING"
    BY <1>1, <1>3, WorkKeepsInv DEF budgetVars
  <1> QED BY <1>2, <1>3

LEMMA LoadInvoiceInv == ASSUME Inv, NEW w \in Workers, LoadInvoice(w) PROVE Inv'
  <1> USE DEF Inv, LoadInvoice
  <1>1. queued' \subseteq rows /\ archived' \subseteq rows
    BY DEF TypeOK
  <1>2. CASE work[w].rev = rev
    <2> DEFINE v == [work[w] EXCEPT !.stage = "read"]
    <2>1. Sound(work[w]) /\ work[w].stage = "load"
      BY DEF Shapes
    <2>2. /\ v \in Works /\ v.rev = work[w].rev /\ v.read = work[w].read /\ v.seen = work[w].seen
          /\ work[w].read < 4
      BY <2>1 DEF Sound, Works
    <2>3. Sound(v)
      BY <2>1, <2>2 DEF Sound
    <2>4. work' = [work EXCEPT ![w] = v]
      BY <1>2
    <2> QED BY <1>1, <2>3, <2>4, WorkKeepsInv DEF budgetVars
  <1>3. CASE work[w].rev # rev
    BY <1>1, <1>3, StopKeepsInv DEF budgetVars
  <1> QED BY <1>2, <1>3

LEMMA ReadInputInv == ASSUME Inv, NEW w \in Workers, ReadInput(w) PROVE Inv'
  <1> DEFINE n == work[w].read + 1
             s == Sources[n]
             over == n = Len(Sources) \/ (s = "terms" /\ NoSnapshot)
             seen == [x \in DOMAIN work[w].seen \cup {s} |-> IF x = s THEN inputs[s] ELSE work[w].seen[x]]
             v == [stage |-> IF over THEN "save" ELSE "read", job |-> work[w].job,
                   rev |-> work[w].rev, read |-> n, seen |-> seen]
  <1>1. Sound(work[w]) /\ work[w].stage = "read" /\ work[w] \in Works /\ work[w].read < 4
    BY DEF ReadInput, Inv, Shapes, Sound
  <1>2. n \in 1 .. 4 /\ s \in Source /\ inputs \in [Source -> Nat]
    BY <1>1, SourceNames DEF Inv, TypeOK, Works
  <1>3. work[w].seen \in Seens
    BY <1>1 DEF Works
  <1>4. PICK S \in SUBSET Source : work[w].seen \in [S -> Nat]
    BY <1>3 DEF Seens
  <1>5. seen \in [S \cup {s} -> Nat] /\ DOMAIN seen = DOMAIN work[w].seen \cup {s}
    BY <1>2, <1>4
  <1>6. seen \in Seens
    <2> HIDE DEF seen
    <2>1. S \cup {s} \in SUBSET Source
      BY <1>2
    <2> QED BY <1>5, <2>1 DEF Seens
  <1>7. {Sources[m] : m \in 1 .. n} = {Sources[m] : m \in 1 .. work[w].read} \cup {s}
    <2>1. 1 .. n = (1 .. work[w].read) \cup {n}
      BY <1>1 DEF Works
    <2> QED BY <2>1
  <1>8. work[w].rev = rev => Fresh(seen)
    <2>1. inputs[s] >= asked[s]
      BY <1>2 DEF Inv, Shapes, TypeOK
    <2>2. work[w].rev = rev => \A x \in DOMAIN work[w].seen : work[w].seen[x] >= asked[x]
      BY <1>1 DEF Sound, Fresh
    <2> QED BY <1>5, <2>1, <2>2 DEF Fresh
  <1>9. /\ v.read = n /\ v.seen = seen /\ v.stage = (IF over THEN "save" ELSE "read")
        /\ v.rev = work[w].rev /\ v.job = work[w].job
        /\ v \in Works
    BY <1>1, <1>2, <1>6 DEF Works
  <1>10. v.stage = "read" => v.read < 4
    BY <1>2, <1>9, SourceNames
  <1>11. DOMAIN v.seen = {Sources[m] : m \in 1 .. v.read}
    BY <1>1, <1>5, <1>7, <1>9 DEF Sound
  <1>12. Sound(v)
    BY <1>1, <1>8, <1>9, <1>10, <1>11 DEF Sound
  <1>13. work' = [work EXCEPT ![w] = v]
    BY DEF ReadInput
  <1>14. queued' \subseteq rows /\ archived' \subseteq rows
    BY DEF ReadInput, Inv, TypeOK
  <1> QED BY <1>12, <1>13, <1>14, WorkKeepsInv DEF ReadInput, budgetVars

LEMMA CrashInv == ASSUME Inv, NEW w \in Workers, Crash(w) PROVE Inv'
  <1>1. work[w].job \in rows /\ queued \subseteq rows /\ archived \subseteq rows
    BY DEF Inv, Shapes, Sound, TypeOK
  <1>2. queued' \subseteq rows /\ archived' \subseteq rows
    BY <1>1 DEF Crash
  <1> QED BY <1>2, StopKeepsInv DEF Crash

LEMMA RedeliverInv == ASSUME Inv, NEW j \in Jobs, Redeliver(j) PROVE Inv'
  <1>1. queued' \subseteq rows /\ archived' \subseteq rows /\ work' = work
    BY DEF Redeliver, Inv, TypeOK
  <1> QED BY <1>1, WorkKeepsInv DEF Redeliver

----------------------------------------------------------------------------
\* Steps that change the invoice, and leave what was asked of the validation alone.  No
\* worker has the new revision, if there is one.
LEMMA WorkersStaySound ==
  ASSUME Inv, rev' = rev \/ (rev' = rev + 1), rows \subseteq rows',
         rev' = rev => \A s \in Source : asked'[s] = asked[s]
  PROVE  \A v : Sound(v) => Sound(v)'
  <1> SUFFICES ASSUME NEW v, Sound(v) PROVE Sound(v)'
    OBVIOUS
  <1>1. v \in Works /\ rev \in Nat /\ v.rev \in Nat /\ v.rev <= rev /\ v.job \in rows
    BY DEF Sound, Works, Inv, TypeOK
  <1>2. DOMAIN v.seen \subseteq Source
    <2>1. v.seen \in Seens
      BY <1>1 DEF Works
    <2> QED BY <2>1 DEF Seens
  <1>3. v.rev = rev' => Fresh(v.seen)'
    BY <1>1, <1>2 DEF Sound, Fresh
  <1> QED BY <1>1, <1>3 DEF Sound

\* The run of a job that has none and whose invoice is as the worker loaded it.
LEMMA SaveNewRunInv ==
  ASSUME Inv, NEW w \in Workers, Current(w), Stop(w),
         NEW blocking \in Blocking(work[w].seen),
         runs' = [runs EXCEPT ![work[w].job] =
                    [saved |-> TRUE, rev |-> work[w].rev, seen |-> work[w].seen,
                     blocking |-> blocking, excepted |-> {}]],
         last' = work[w].job, rev' = rev + 1,
         \/ blocking = {} /\ status' = "COMMERCIALLY_VALIDATED" /\ UNCHANGED task
         \/ /\ blocking # {} /\ status' = "AWAITING_COMMERCIAL_REVIEW" /\ Active = {}
            /\ task' = [task EXCEPT ![work[w].job] = "OPEN"],
         UNCHANGED <<kind, inputs, asked, rows, queued, archived, budgetVars>>
  PROVE  Inv'
  <1> USE DEF Inv, budgetVars
  <1> DEFINE j == work[w].job
             run == [saved |-> TRUE, rev |-> work[w].rev, seen |-> work[w].seen,
                     blocking |-> blocking, excepted |-> {}]
  <1>1. /\ work[w] \in Works /\ j \in Jobs /\ work[w].rev = rev /\ rev \in Nat /\ Sound(work[w])
        /\ status = "COMMERCIAL_VALIDATING"
    BY DEF Shapes, Sound, Works, Current, TypeOK
  <1>2. blocking \subseteq All
    BY BlockingFindings DEF TypeOK
  <1>3. run \in Runs
    BY <1>1, <1>2 DEF Runs, Works
  <1>4. runs' \in [Jobs -> Runs] /\ runs'[j] = run /\ \A k \in Jobs \ {j} : runs'[k] = runs[k]
    BY <1>1, <1>3 DEF Shapes
  <1>5. /\ task' \in [Jobs -> {"none", "OPEN", "WAITING", "RESOLVED"}]
        /\ status' = "AWAITING_COMMERCIAL_REVIEW" => Active' = {j}
        /\ status' # "AWAITING_COMMERCIAL_REVIEW" => Active' = {}
    <2>1. task \in [Jobs -> {"none", "OPEN", "WAITING", "RESOLVED"}] /\ Active = {}
      BY <1>1 DEF TypeOK, ReviewHasItsTask
    <2> QED BY <1>1, <2>1 DEF Active
  <1>6. Sound(NoWork)
    BY <1>1, IdleSound DEF Shapes
  <1>7. work' \in [Workers -> Works] /\ \A v \in Workers : Sound(work'[v])
    BY <1>6 DEF Stop, Shapes, Sound
  <1>8. \A v \in Workers : Sound(work[v])'
    BY <1>1, <1>7, WorkersStaySound
  <1>9. TypeOK'
    <2>1. \A k \in Jobs : /\ runs'[k].blocking \subseteq Findings \cup {"coverage"}
                          /\ runs'[k].excepted \subseteq runs'[k].blocking
                          /\ runs'[k].rev < rev'
      <3> SUFFICES ASSUME NEW k \in Jobs
                   PROVE  /\ runs'[k].blocking \subseteq All
                          /\ runs'[k].excepted \subseteq runs'[k].blocking
                          /\ runs'[k].rev < rev'
        BY DEF All
      <3>1. CASE k = j
        BY <1>1, <1>2, <1>4, <3>1
      <3>2. CASE k # j
        <4>1. runs[k] \in Runs /\ runs'[k] = runs[k]
          BY <1>4, <3>2 DEF Shapes
        <4> QED BY <1>1, <4>1 DEF TypeOK, Runs, All
      <3> QED BY <3>1, <3>2
    <2>2. \A v \in Workers : /\ work'[v].stage \in {"idle", "load", "read", "save"}
                             /\ work'[v].job \in Jobs /\ work'[v].rev <= rev'
                             /\ DOMAIN work'[v].seen = {Sources[n] : n \in 1 .. work'[v].read}
      BY <1>7, <1>8 DEF Sound, Works
    <2>3. last' \in Jobs /\ rev' \in Nat
      BY <1>1
    <2> QED BY <1>5, <2>1, <2>2, <2>3 DEF TypeOK
  <1>10. Shapes'
    BY <1>4, <1>7, <1>8 DEF Shapes
  <1>11. Counted'
    BY <1>1 DEF Counted
  <1>12. ReviewHasItsTask'
    BY <1>5 DEF ReviewHasItsTask
  <1>13. ValidatedHasBasis'
    BY <1>1, <1>4 DEF ValidatedHasBasis
  <1>14. CorrectionsAreSeen'
    BY <1>1, <1>4 DEF CorrectionsAreSeen, Sound, Fresh
  <1> QED BY <1>9, <1>10, <1>11, <1>12, <1>13, <1>14

LEMMA SaveRunInv == ASSUME Inv, NEW w \in Workers, SaveRun(w) PROVE Inv'
  <1>1. CASE runs[work[w].job].saved \/ ~Current(w)
    <2>1. UNCHANGED <<status, rev, reviewVars>>
      BY <1>1 DEF SaveRun
    <2>2. queued' \subseteq rows /\ archived' \subseteq rows
      BY DEF SaveRun, Inv, TypeOK
    <2> QED BY <2>1, <2>2, StopKeepsInv DEF SaveRun, budgetVars
  <1>2. CASE ~(runs[work[w].job].saved \/ ~Current(w))
    <2>1. PICK blocking \in Blocking(work[w].seen) :
            /\ runs' = [runs EXCEPT ![work[w].job] =
                          [saved |-> TRUE, rev |-> work[w].rev, seen |-> work[w].seen,
                           blocking |-> blocking, excepted |-> {}]]
            /\ last' = work[w].job /\ rev' = rev + 1
            /\ \/ blocking = {} /\ status' = "COMMERCIALLY_VALIDATED" /\ UNCHANGED task
               \/ /\ blocking # {} /\ status' = "AWAITING_COMMERCIAL_REVIEW" /\ Active = {}
                  /\ task' = [task EXCEPT ![work[w].job] = "OPEN"]
      BY <1>2 DEF SaveRun
    <2> QED BY <1>2, <2>1, SaveNewRunInv DEF SaveRun
  <1> QED BY <1>1, <1>2

----------------------------------------------------------------------------
LEMMA ChangeInputInv == ASSUME Inv, NEW s \in Source, ChangeInput(s) PROVE Inv'
  <1> USE DEF Inv, ChangeInput, reviewVars, jobVars
  <1>1. /\ inputs' \in [Source -> Nat]
        /\ \A x \in Source : inputs'[x] >= inputs[x] /\ inputs[x] \in Nat /\ asked[x] \in Nat
    BY DEF TypeOK
  <1>2. \A w \in Workers : Sound(work[w])'
    BY WorkersStaySound DEF Shapes
  <1>3. TypeOK'
    BY <1>1 DEF TypeOK
  <1>4. Shapes'
    BY <1>1, <1>2 DEF Shapes
  <1>5. Counted' /\ ReviewHasItsTask' /\ ValidatedHasBasis' /\ CorrectionsAreSeen'
    BY DEF Counted, ReviewHasItsTask, Active, ValidatedHasBasis, CorrectionsAreSeen
  <1> QED BY <1>3, <1>4, <1>5

LEMMA WaitForCorrectionInv == ASSUME Inv, NEW r \in Jobs, WaitForCorrection(r) PROVE Inv'
  <1> USE DEF Inv, WaitForCorrection, jobVars, budgetVars
  <1>1. PICK j \in Jobs : task[j] = "OPEN" /\ task' = [task EXCEPT ![j] = "WAITING"]
    OBVIOUS
  <1>2. task' \in [Jobs -> {"none", "OPEN", "WAITING", "RESOLVED"}] /\ Active' = Active
    BY <1>1 DEF TypeOK, Active
  <1>3. \A w \in Workers : Sound(work[w])'
    BY WorkersStaySound DEF Shapes
  <1>4. TypeOK'
    BY <1>2 DEF TypeOK
  <1>5. Shapes'
    BY <1>3 DEF Shapes
  <1>6. Counted' /\ ReviewHasItsTask' /\ ValidatedHasBasis' /\ CorrectionsAreSeen'
    BY <1>2 DEF Counted, ReviewHasItsTask, ValidatedHasBasis, CorrectionsAreSeen
  <1> QED BY <1>4, <1>5, <1>6

LEMMA ResolvedTasks ==
  ASSUME TypeOK, ResolveTasks
  PROVE  /\ task' \in [Jobs -> {"none", "OPEN", "WAITING", "RESOLVED"}]
         /\ Active' = {}
  BY DEF TypeOK, ResolveTasks, Active

LEMMA RerunInv == ASSUME Inv, NEW r \in Jobs, Rerun(r) PROVE Inv'
  <1> USE DEF Inv, Rerun
  <1>1. /\ rev = 2 * reruns + 2 /\ rev' = rev + 1 /\ reruns' = reruns + 1
        /\ reruns \in 0 .. MaxReruns /\ reruns < MaxReruns
        /\ status' = "COMMERCIAL_VALIDATING"
    BY DEF Counted, UnderReview
  <1>2. rev' \in Jobs /\ rev \in Nat /\ rev' = 2 * reruns' + 1 /\ reruns' \in 0 .. MaxReruns
    BY <1>1, BoundsAssumption DEF Jobs
  <1>3. task' \in [Jobs -> {"none", "OPEN", "WAITING", "RESOLVED"}] /\ Active' = {}
    BY ResolvedTasks
  <1>4. \A w \in Workers : Sound(work[w])'
    BY <1>1, <1>2, WorkersStaySound DEF Shapes
  <1>5. TypeOK'
    <2>1. \A j \in Jobs : /\ runs'[j].blocking \subseteq Findings \cup {"coverage"}
                          /\ runs'[j].excepted \subseteq runs'[j].blocking
                          /\ runs'[j].rev < rev'
      BY <1>1, <1>2 DEF TypeOK, Shapes, Runs
    <2>2. \A w \in Workers : /\ work'[w].stage \in {"idle", "load", "read", "save"}
                             /\ work'[w].job \in Jobs /\ work'[w].rev <= rev'
                             /\ DOMAIN work'[w].seen = {Sources[n] : n \in 1 .. work'[w].read}
      BY <1>4 DEF Sound, Works
    <2>3. rows' \subseteq Jobs /\ queued' \subseteq rows' /\ archived' \subseteq rows'
      BY <1>1, <1>2 DEF TypeOK
    <2>4. asked' \in [Source -> Nat] /\ inputs' \in [Source -> Nat] /\ rev' \in Nat /\ last' \in Jobs
          /\ kind' \in {"contract", "waived", "issued"}
      BY <1>1, <1>2 DEF TypeOK
    <2> QED BY <1>1, <1>3, <2>1, <2>2, <2>3, <2>4 DEF TypeOK
  <1>6. Shapes'
    <2>1. \A s \in Source : asked'[s] <= inputs'[s]
      BY DEF TypeOK
    <2> QED BY <1>4, <2>1 DEF Shapes
  <1>7. Counted'
    BY <1>1, <1>2 DEF Counted
  <1>8. ReviewHasItsTask' /\ ValidatedHasBasis' /\ CorrectionsAreSeen'
    BY <1>1, <1>3 DEF ReviewHasItsTask, ValidatedHasBasis, CorrectionsAreSeen
  <1> QED BY <1>5, <1>6, <1>7, <1>8

LEMMA AcceptExceptionInv ==
  ASSUME Inv, NEW r \in Jobs, NEW f \in All, AcceptException(r, f)
  PROVE  Inv'
  <1> USE DEF Inv, AcceptException, jobVars, budgetVars
  <1>1. /\ r = last /\ runs[r].saved /\ status = "AWAITING_COMMERCIAL_REVIEW" /\ rev \in Nat
        /\ f \in runs[r].blocking /\ runs[r] \in Runs /\ r \in Jobs
    BY DEF UnderReview, Latest, Exceptable, TypeOK, Shapes
  <1>2. /\ runs' = [runs EXCEPT ![r].excepted = @ \cup {f}]
        /\ UNCHANGED <<kind, inputs, asked, last, rows, queued, archived, work, reruns>>
    OBVIOUS
  <1>3. /\ runs' \in [Jobs -> Runs]
        /\ \A k \in Jobs : /\ runs'[k].blocking = runs[k].blocking /\ runs'[k].rev = runs[k].rev
                           /\ runs'[k].seen = runs[k].seen /\ runs'[k].saved = runs[k].saved
                           /\ k # r => runs'[k].excepted = runs[k].excepted
        /\ runs'[r].excepted = runs[r].excepted \cup {f}
    BY <1>1, <1>2 DEF Shapes, Runs, All
  <1>4. \/ /\ runs[r].blocking \subseteq runs'[r].excepted
           /\ status' = "COMMERCIALLY_VALIDATED" /\ rev' = rev + 1 /\ ResolveTasks
        \/ UNCHANGED <<status, rev, task>>
    OBVIOUS
  <1> HIDE DEF AcceptException
  <1>5. /\ task' \in [Jobs -> {"none", "OPEN", "WAITING", "RESOLVED"}]
        /\ Active' = IF status' = "AWAITING_COMMERCIAL_REVIEW" THEN {last'} ELSE {}
    <2>1. CASE ResolveTasks /\ status' = "COMMERCIALLY_VALIDATED"
      BY <2>1, ResolvedTasks
    <2>2. CASE UNCHANGED <<status, rev, task>>
      BY <1>2, <2>2 DEF TypeOK, ReviewHasItsTask, Active
    <2> QED BY <1>4, <2>1, <2>2
  <1>6. \A w \in Workers : Sound(work[w])'
    BY <1>2, <1>4, WorkersStaySound DEF Shapes
  <1>7. TypeOK'
    <2>1. \A j \in Jobs : /\ runs'[j].blocking \subseteq Findings \cup {"coverage"}
                          /\ runs'[j].excepted \subseteq runs'[j].blocking
                          /\ runs'[j].rev < rev'
      BY <1>1, <1>3, <1>4 DEF TypeOK, Shapes, Runs
    <2>2. \A w \in Workers : /\ work'[w].stage \in {"idle", "load", "read", "save"}
                             /\ work'[w].job \in Jobs /\ work'[w].rev <= rev'
                             /\ DOMAIN work'[w].seen = {Sources[n] : n \in 1 .. work'[w].read}
      BY <1>2, <1>6 DEF Sound, Works
    <2>3. rev' \in Nat /\ status' \in {"COMMERCIAL_VALIDATING", "AWAITING_COMMERCIAL_REVIEW", "COMMERCIALLY_VALIDATED"}
      BY <1>1, <1>4
    <2> QED BY <1>2, <1>5, <2>1, <2>2, <2>3 DEF TypeOK
  <1>8. Shapes'
    BY <1>2, <1>3, <1>6 DEF Shapes
  <1>9. Counted'
    BY <1>1, <1>2, <1>4 DEF Counted
  <1>10. ReviewHasItsTask'
    BY <1>5 DEF ReviewHasItsTask
  <1>11. ValidatedHasBasis'
    BY <1>1, <1>2, <1>3, <1>4 DEF ValidatedHasBasis, TypeOK
  <1>12. CorrectionsAreSeen'
    BY <1>1, <1>2, <1>3 DEF CorrectionsAreSeen
  <1> QED BY <1>7, <1>8, <1>9, <1>10, <1>11, <1>12

----------------------------------------------------------------------------
LEMMA StutterInv == ASSUME Inv, UNCHANGED vars PROVE Inv'
  <1>1. queued' \subseteq rows /\ archived' \subseteq rows
    BY DEF vars, jobVars, Inv, TypeOK
  <1> QED BY <1>1, WorkKeepsInv DEF vars, jobVars, budgetVars

LEMMA NextInv == Inv /\ [Next]_vars => Inv'
  <1> SUFFICES ASSUME Inv, Next PROVE Inv'
    BY StutterInv
  <1>1. CASE \E w \in Workers : Process(w) \/ Crash(w) \/ \E j \in Jobs : Take(w, j)
    BY <1>1, LoadInvoiceInv, ReadInputInv, SaveRunInv, CrashInv, TakeInv DEF Process
  <1>2. CASE \E j \in Jobs : Redeliver(j)
    BY <1>2, RedeliverInv
  <1>3. CASE Accountant
    BY <1>3, ChangeInputInv, WaitForCorrectionInv, RerunInv, AcceptExceptionInv DEF Accountant, All
  <1> QED BY <1>1, <1>2, <1>3 DEF Next

LEMMA SpecInv == Spec => []Inv
  BY InitInv, NextInv, PTL DEF Spec

\* Exceptions are to findings that block, and no worker, run or job has a revision the
\* invoice never had.
THEOREM TypeCorrect == Spec => []TypeOK
  BY SpecInv, PTL DEF Inv

\* Only the findings of the latest run decide (SaveRun, AcceptException): a validated
\* invoice has none that blocks and is not excepted.
THEOREM BasisOfValidation == Spec => []ValidatedHasBasis
  BY SpecInv, PTL DEF Inv

\* An invoice under review has one active task, that of its latest run, and another has
\* none (validation_tasks_one_active_per_invoice).
THEOREM OneReviewTask == Spec => []ReviewHasItsTask
  BY SpecInv, PTL DEF Inv

\* The run that answers a rerun read every input after the accountant asked for it, however
\* slow its worker was (SaveRun compares the revision LoadInput read).
THEOREM VerdictIsFresh == Spec => []CorrectionsAreSeen
  BY SpecInv, PTL DEF Inv

----------------------------------------------------------------------------
(* A validation is not forgotten.  A job is not newer than the revision its*)
(* worker loaded, and a run is saved under a job older than the invoice:   *)
(* the job of the current revision can be taken for stale by nobody.       *)

Ordered == /\ \A j \in Jobs : runs[j].saved => j < rev
           /\ \A j \in rows : j <= rev
           /\ \A w \in Workers : work[w].job <= work[w].rev
           /\ status = "COMMERCIAL_VALIDATING" => rev \in rows

Assigned == Ordered /\ ValidationHasJob

Holds(w) == work[w].stage # "idle" /\ work[w].job = rev /\ work[w].rev = rev

LEMMA Kinds ==
  ASSUME Inv
  PROVE  /\ rev \in Nat /\ rows \subseteq Nat
         /\ \A w \in Workers : work[w].job \in Nat /\ work[w].rev \in Nat /\ work[w].rev <= rev
         /\ NoWork.job = 0 /\ NoWork.rev = 0 /\ NoWork.stage = "idle"
  BY JobsRange DEF Inv, TypeOK, Shapes, Works, Sound, NoWork

\* Steps that leave the invoice alone and in which no worker that holds its job lets go,
\* unless the job is handed back.
LEMMA HandedBack ==
  ASSUME Inv, Assigned, UNCHANGED <<status, rev, runs, rows>>,
         NEW w \in Workers, NEW v,
         work' = work \/ (work' = [work EXCEPT ![w] = v] /\ v.job <= v.rev),
         status = "COMMERCIAL_VALIDATING" /\ rev \in queued \cup archived
            => rev \in queued' \cup archived' \/ (work' = [work EXCEPT ![w] = v] /\ Holds(w)'),
         status = "COMMERCIAL_VALIDATING" /\ Holds(w) => Holds(w)' \/ rev \in queued' \cup archived'
  PROVE  Assigned'
  <1> USE DEF Assigned
  <1>1. work \in [Workers -> Works]
    BY DEF Inv, Shapes
  <1>2. \A u \in Workers : work'[u] = work[u] \/ (u = w /\ work'[u].job <= work'[u].rev)
    BY <1>1
  <1>3. Ordered'
    BY <1>2 DEF Ordered
  <1>4. ASSUME status' = "COMMERCIAL_VALIDATING"
        PROVE  rev' \in queued' \cup archived' \/ \E u \in Workers : Holds(u)'
    <2>1. rev \in queued \cup archived \/ \E u \in Workers : Holds(u)
      BY <1>4 DEF ValidationHasJob, Holds
    <2>2. ASSUME NEW u \in Workers, Holds(u), u # w PROVE Holds(u)'
      BY <1>2, <2>2 DEF Holds
    <2> QED BY <1>4, <2>1, <2>2
  <1> QED BY <1>3, <1>4 DEF ValidationHasJob, Holds

LEMMA TakeAssigned ==
  ASSUME Inv, Assigned, NEW w \in Workers, NEW j \in Jobs, Take(w, j) PROVE Assigned'
  <1> USE DEF Take
  <1> DEFINE v == [stage |-> "load", job |-> j, rev |-> rev, read |-> 0, seen |-> <<>>]
  <1>1. /\ UNCHANGED <<status, rev, runs, rows, archived>> /\ queued' = queued \ {j}
        /\ work[w].stage = "idle" /\ j \in rows
    BY DEF reviewVars, Inv, TypeOK
  <1>2. j <= rev
    BY <1>1 DEF Assigned, Ordered
  <1>3. CASE status = "COMMERCIAL_VALIDATING"
    <2>1. work' = [work EXCEPT ![w] = v]
      BY <1>3
    <2>2. j = rev => Holds(w)'
      BY <1>1, <2>1 DEF Holds, Inv, Shapes
    <2>3. v.job <= v.rev
      BY <1>2
    <2>4. ~Holds(w)
      BY <1>1 DEF Holds
    <2> HIDE DEF Take, v
    <2> QED BY <1>1, <2>1, <2>2, <2>3, <2>4, HandedBack
  <1>4. CASE status # "COMMERCIAL_VALIDATING"
    BY <1>1, <1>4, HandedBack
  <1> QED BY <1>3, <1>4

LEMMA ReadAssigned ==
  ASSUME Inv, Assigned, NEW w \in Workers, LoadInvoice(w) \/ ReadInput(w) PROVE Assigned'
  <1>1. UNCHANGED <<status, rev, runs, rows, queued, archived>>
    BY DEF LoadInvoice, ReadInput, reviewVars
  <1>2. work[w].job <= work[w].rev /\ work \in [Workers -> Works]
    BY DEF Assigned, Ordered, Inv, Shapes
  <1>3. CASE LoadInvoice(w) /\ work[w].rev = rev
    <2> DEFINE v == [work[w] EXCEPT !.stage = "read"]
    <2>1. work' = [work EXCEPT ![w] = v] /\ v.job = work[w].job /\ v.rev = work[w].rev /\ v.stage = "read"
      BY <1>2, <1>3 DEF LoadInvoice, Works
    <2>2. Holds(w) => Holds(w)'
      BY <1>1, <1>2, <2>1 DEF Holds
    <2> HIDE DEF v
    <2> QED BY <1>1, <1>2, <2>1, <2>2, HandedBack
  <1>4. CASE LoadInvoice(w) /\ work[w].rev # rev
    <2>1. Stop(w) /\ ~Holds(w)
      BY <1>4 DEF LoadInvoice, Holds
    <2>2. NoWork.job <= NoWork.rev
      BY Kinds
    <2> QED BY <1>1, <2>1, <2>2, HandedBack DEF Stop
  <1>5. CASE ReadInput(w)
    <2>1. PICK v : /\ work' = [work EXCEPT ![w] = v] /\ v.job = work[w].job /\ v.rev = work[w].rev
                   /\ v.stage # "idle"
      BY <1>5 DEF ReadInput
    <2>2. Holds(w) => Holds(w)'
      BY <1>1, <1>2, <2>1 DEF Holds
    <2> QED BY <1>1, <1>2, <2>1, <2>2, HandedBack
  <1> QED BY <1>3, <1>4, <1>5

\* The holder of the invoice's job finds neither its run nor another invoice.
LEMMA SaveRunAssigned ==
  ASSUME Inv, Assigned, NEW w \in Workers, SaveRun(w) PROVE Assigned'
  <1>1. /\ UNCHANGED <<rows, queued, archived>> /\ Stop(w)
        /\ rev \in Nat /\ work[w].job <= work[w].rev /\ work[w].rev <= rev /\ work[w].job \in Jobs
        /\ work[w].job \in Nat /\ work[w].rev \in Nat
        /\ work \in [Workers -> Works] /\ NoWork.job <= NoWork.rev
    BY Kinds DEF SaveRun, Assigned, Ordered, Inv, TypeOK, Shapes
  <1>2. CASE runs[work[w].job].saved \/ ~Current(w)
    <2>1. UNCHANGED <<status, rev, runs>>
      BY <1>2 DEF SaveRun, reviewVars
    <2>2. status = "COMMERCIAL_VALIDATING" => ~Holds(w)
      BY <1>1, <1>2 DEF Assigned, Ordered, Holds, Current
    <2> QED BY <1>1, <2>1, <2>2, HandedBack DEF Stop
  <1>3. CASE ~(runs[work[w].job].saved \/ ~Current(w))
    <2>1. /\ \A j \in Jobs : runs'[j].saved => runs[j].saved \/ j = work[w].job
          /\ rev' = rev + 1 /\ status' # "COMMERCIAL_VALIDATING"
      BY <1>3 DEF SaveRun, Inv, Shapes
    <2>2. \A j \in Jobs : j \in Nat
      BY JobsRange
    <2>3. \A u \in Workers : work'[u].job <= work'[u].rev
      BY <1>1 DEF Stop, Assigned, Ordered
    <2>4. \A j \in rows : j \in Nat
      BY Kinds
    <2> QED BY <1>1, <2>1, <2>2, <2>3, <2>4 DEF Assigned, Ordered, ValidationHasJob
  <1> QED BY <1>2, <1>3

LEMMA CrashAssigned ==
  ASSUME Inv, Assigned, NEW w \in Workers, Crash(w) PROVE Assigned'
  <1>1. /\ UNCHANGED <<status, rev, runs, rows>> /\ Stop(w) /\ NoWork.job <= NoWork.rev
        /\ queued \cup archived \cup {work[w].job} \subseteq queued' \cup archived'
    BY Kinds DEF Crash, reviewVars
  <1>2. Holds(w) => rev \in queued' \cup archived'
    BY <1>1 DEF Holds
  <1> QED BY <1>1, <1>2, HandedBack DEF Stop

LEMMA AccountantAssigned ==
  ASSUME Inv, Assigned, Accountant PROVE Assigned'
  <1> USE DEF Assigned
  <1>0. rev \in Nat /\ rows \subseteq Nat /\ Jobs \subseteq Nat
    BY Kinds, JobsRange
  <1>1. ASSUME NEW s \in Source, ChangeInput(s) PROVE Assigned'
    BY <1>1 DEF ChangeInput, reviewVars, jobVars, Ordered, ValidationHasJob
  <1>2. ASSUME NEW r \in Jobs, WaitForCorrection(r) PROVE Assigned'
    BY <1>2 DEF WaitForCorrection, jobVars, Ordered, ValidationHasJob
  <1>3. ASSUME NEW r \in Jobs, Rerun(r) PROVE Assigned'
    <2>1. /\ UNCHANGED <<runs, work, archived>> /\ rev' = rev + 1
          /\ rows' = rows \cup {rev'} /\ queued' = queued \cup {rev'}
      BY <1>0, <1>3 DEF Rerun
    <2>2. Ordered'
      BY <1>0, <2>1 DEF Ordered
    <2> QED BY <2>1, <2>2 DEF ValidationHasJob
  <1>4. ASSUME NEW r \in Jobs, NEW f \in All, AcceptException(r, f) PROVE Assigned'
    <2>1. /\ UNCHANGED <<rows, queued, archived, work>>
          /\ rev' = rev \/ rev' = rev + 1
          /\ status' # "COMMERCIAL_VALIDATING"
          /\ \A j \in Jobs : runs'[j].saved = runs[j].saved
      BY <1>4 DEF AcceptException, UnderReview, jobVars, Inv, Shapes, Runs
    <2>2. Ordered'
      BY <1>0, <2>1 DEF Ordered
    <2> QED BY <2>1, <2>2 DEF ValidationHasJob
  <1> QED BY <1>1, <1>2, <1>3, <1>4 DEF Accountant, All

LEMMA NextAssigned == Inv /\ Assigned /\ [Next]_vars => Assigned'
  <1> SUFFICES ASSUME Inv, Assigned, [Next]_vars PROVE Assigned'
    OBVIOUS
  <1>1. CASE \E w \in Workers : Process(w) \/ Crash(w) \/ \E j \in Jobs : Take(w, j)
    BY <1>1, ReadAssigned, SaveRunAssigned, CrashAssigned, TakeAssigned DEF Process
  <1>2. CASE \E j \in Jobs : Redeliver(j)
    BY <1>2 DEF Redeliver, reviewVars, Assigned, Ordered, ValidationHasJob
  <1>3. CASE Accountant
    BY <1>3, AccountantAssigned
  <1>4. CASE UNCHANGED vars
    BY <1>4 DEF vars, reviewVars, jobVars, Assigned, Ordered, ValidationHasJob
  <1> QED BY <1>1, <1>2, <1>3, <1>4 DEF Next

LEMMA SpecAssigned == Spec => []Assigned
  <1>1. Init => Assigned
    BY JobsRange DEF Init, Assigned, Ordered, ValidationHasJob, NoRun, NoWork
  <1> QED BY <1>1, NextAssigned, SpecInv, PTL DEF Spec

\* The validation an invoice waits for has its job, whatever was taken for stale, refused
\* or saved under an older job before (ProcessContinuation, LoadInput, SaveRun and the
\* row Store.Resolve writes with a rerun).
THEOREM NoValidationForgotten == Spec => []ValidationHasJob
  BY SpecAssigned, PTL DEF Assigned

----------------------------------------------------------------------------
(* Refinement: the life of an invoice.                                     *)

LEMMA Edges ==
  /\ {"COMMERCIALLY_VALIDATED", "AWAITING_COMMERCIAL_REVIEW"}
       \subseteq Life!After("COMMERCIAL_VALIDATING", Life!Definitions)
  /\ "COMMERCIALLY_VALIDATED" \in Life!After("AWAITING_COMMERCIAL_REVIEW", Life!Definitions)
  /\ "COMMERCIAL_VALIDATING" \in Life!After("AWAITING_COMMERCIAL_REVIEW", Life!Corrections)
  /\ "COMMERCIAL_REVIEW" \in Life!Awaitable
  <1>1. /\ {<<"COMMERCIAL_VALIDATING", "COMMERCIALLY_VALIDATED">>,
           <<"COMMERCIAL_VALIDATING", "AWAITING_COMMERCIAL_REVIEW">>,
           <<"AWAITING_COMMERCIAL_REVIEW", "COMMERCIALLY_VALIDATED">>} \subseteq Life!Definitions
        /\ <<"AWAITING_COMMERCIAL_REVIEW", "COMMERCIAL_VALIDATING">> \in Life!Corrections
    BY DEF Life!Definitions, Life!Corrections
  <1> QED BY <1>1 DEF Life!After, Life!Awaitable

\* The active tasks with which an invoice enters the statuses of this component.
LEMMA EntryTasks ==
  /\ Life!TasksOf("COMMERCIAL_VALIDATING") = {}
  /\ Life!TasksOf("COMMERCIALLY_VALIDATED") = {}
  /\ Life!TasksOf("AWAITING_COMMERCIAL_REVIEW") = {Task("COMMERCIAL_REVIEW", "OPEN")}
  <1> DEFINE B(s) == {x \in Life!Blockers : x[1] = s}
  <1>1. /\ B("COMMERCIAL_VALIDATING") = {} /\ B("COMMERCIALLY_VALIDATED") = {}
        /\ B("AWAITING_COMMERCIAL_REVIEW") = {<<"AWAITING_COMMERCIAL_REVIEW", "COMMERCIAL_REVIEW">>}
    BY DEF Life!Blockers
  <1>2. \A s : Life!TasksOf(s) = {Task(b[2], "OPEN") : b \in B(s)}
    BY DEF Life!TasksOf, Life!Task, Task
  <1> HIDE DEF B
  <1>3. <<"AWAITING_COMMERCIAL_REVIEW", "COMMERCIAL_REVIEW">>[2] = "COMMERCIAL_REVIEW"
    OBVIOUS
  <1> QED BY <1>1, <1>2, <1>3

LEMMA EnterStep ==
  ASSUME NEW s, status' = s, ActiveTasks' = Life!TasksOf(s),
         s \in Life!After(status, Life!Definitions) \cup Life!After(status, Life!Corrections)
  PROVE  Life!Next
  <1>1. Life!Enter("invoice", s)
    BY DEF Life!Enter, TheInvoice, ActiveTasks
  <1>2. "invoice" \in TheInvoice /\ [i \in TheInvoice |-> status]["invoice"] = status
    BY DEF TheInvoice
  <1> QED BY <1>1, <1>2 DEF Life!Next, Life!Transition, Life!Correct

LEMMA StillStep ==
  ASSUME status' = status, ActiveTasks' = ActiveTasks
  PROVE  UNCHANGED Life!vars
  BY DEF Life!vars, ActiveTasks, TheInvoice

\* Only the active tasks are shown: one, of the latest run, or none.
LEMMA ShownTask ==
  ASSUME TypeOK, ReviewHasItsTask
  PROVE  ActiveTasks = IF status = "AWAITING_COMMERCIAL_REVIEW" THEN {Task("COMMERCIAL_REVIEW", task[last])} ELSE {}
  BY DEF ActiveTasks, ReviewHasItsTask

LEMMA ShownNext ==
  ASSUME Inv'
  PROVE  ActiveTasks' = IF status' = "AWAITING_COMMERCIAL_REVIEW" THEN {Task("COMMERCIAL_REVIEW", task'[last'])} ELSE {}
  BY DEF ActiveTasks, ReviewHasItsTask, Inv

LEMMA SaveRunLife ==
  ASSUME Inv, Inv', NEW w \in Workers, SaveRun(w) PROVE [Life!Next]_(Life!vars)
  <1>1. CASE UNCHANGED <<status, rev, reviewVars>>
    BY <1>1, StillStep DEF ActiveTasks, Active, reviewVars
  <1>2. ASSUME Current(w), status' = "COMMERCIALLY_VALIDATED"
        PROVE  Life!Next
    <2>1. ActiveTasks' = {}
      BY <1>2, ShownNext
    <2> QED BY <1>2, <2>1, Edges, EntryTasks, EnterStep DEF Current
  <1>3. ASSUME Current(w), status' = "AWAITING_COMMERCIAL_REVIEW", last' = work[w].job,
               task' = [task EXCEPT ![work[w].job] = "OPEN"]
        PROVE  Life!Next
    <2>1. work[w].job \in Jobs
      BY DEF Inv, Shapes, Works
    <2>2. task'[last'] = "OPEN"
      BY <1>3, <2>1 DEF Inv, TypeOK
    <2>3. ActiveTasks' = {Task("COMMERCIAL_REVIEW", "OPEN")}
      BY <1>3, <2>2, ShownNext
    <2> QED BY <1>3, <2>3, Edges, EntryTasks, EnterStep DEF Current
  <1> QED BY <1>1, <1>2, <1>3 DEF SaveRun

LEMMA WaitLife ==
  ASSUME Inv, Inv', NEW r \in Jobs, WaitForCorrection(r) PROVE Life!Next
  <1>1. PICK j \in Jobs : task[j] = "OPEN" /\ task' = [task EXCEPT ![j] = "WAITING"]
    BY DEF WaitForCorrection
  <1>2. /\ status' = "AWAITING_COMMERCIAL_REVIEW" /\ status = "AWAITING_COMMERCIAL_REVIEW"
        /\ last' = last /\ j = last
    BY <1>1 DEF WaitForCorrection, UnderReview, Inv, ReviewHasItsTask, Active
  <1>3. task[last] = "OPEN" /\ task'[last'] = "WAITING"
    BY <1>1, <1>2 DEF Inv, TypeOK
  <1>4. /\ ActiveTasks = {Life!Task("COMMERCIAL_REVIEW", "OPEN")}
        /\ ActiveTasks' = {Life!Task("COMMERCIAL_REVIEW", "WAITING")}
    BY <1>2, <1>3, ShownTask, ShownNext DEF Inv, Life!Task, Task
  <1>5. Life!Await("invoice")
    BY <1>2, <1>4, Edges DEF Life!Await, TheInvoice, ActiveTasks
  <1> QED BY <1>5 DEF Life!Next, TheInvoice

\* Every step of the validation is a step of the declared life of the invoice, its task
\* included, or shows in neither: no save, rerun or exception of a stale run or form moves
\* the invoice along an edge that is not declared, and a review task that waits for a
\* correction is never opened again (the store writes status and task itself, and only
\* the guards of SaveRun, ResolveCommercialReview and one_active_per_invoice stand there).
THEOREM Refinement == Spec => ImplementsLifecycle
  <1>1. Init => Life!Init
    BY EntryTasks DEF Init, Life!Init, TheInvoice, ActiveTasks, Active
  <1>2. Inv /\ Inv' /\ [Next]_vars => [Life!Next]_(Life!vars)
    <2> SUFFICES ASSUME Inv, Inv', [Next]_vars PROVE [Life!Next]_(Life!vars)
      OBVIOUS
    <2>1. ASSUME UNCHANGED <<status, task, last>> PROVE UNCHANGED Life!vars
      BY <2>1, StillStep DEF ActiveTasks, Active
    <2>2. CASE \E w \in Workers : Process(w) \/ Crash(w) \/ \E j \in Jobs : Take(w, j)
      BY <2>1, <2>2, SaveRunLife DEF Process, LoadInvoice, ReadInput, Crash, Take, reviewVars
    <2>3. CASE \E j \in Jobs : Redeliver(j)
      BY <2>1, <2>3 DEF Redeliver, reviewVars
    <2>4. CASE UNCHANGED vars
      BY <2>1, <2>4 DEF vars, reviewVars
    <2>5. ASSUME NEW s \in Source, ChangeInput(s) PROVE UNCHANGED Life!vars
      BY <2>1, <2>5 DEF ChangeInput, reviewVars
    <2>6. ASSUME NEW r \in Jobs, Rerun(r) PROVE Life!Next
      <3>1. status = "AWAITING_COMMERCIAL_REVIEW" /\ status' = "COMMERCIAL_VALIDATING"
        BY <2>6 DEF Rerun, UnderReview
      <3>2. ActiveTasks' = {}
        BY <3>1, ShownNext
      <3> QED BY <3>1, <3>2, Edges, EntryTasks, EnterStep
    <2>7. ASSUME NEW r \in Jobs, NEW f, AcceptException(r, f) PROVE [Life!Next]_(Life!vars)
      <3>1. CASE UNCHANGED <<status, rev, task, last>>
        BY <2>1, <3>1
      <3>2. CASE status' = "COMMERCIALLY_VALIDATED"
        <4>1. ActiveTasks' = {} /\ status = "AWAITING_COMMERCIAL_REVIEW"
          BY <2>7, <3>2, ShownNext DEF AcceptException, UnderReview
        <4> QED BY <3>2, <4>1, Edges, EntryTasks, EnterStep
      <3> QED BY <2>7, <3>1, <3>2 DEF AcceptException
    <2> QED BY <2>2, <2>3, <2>4, <2>5, <2>6, <2>7, WaitLife DEF Next, Accountant
  <1> QED BY <1>1, <1>2, SpecInv, PTL DEF Spec, ImplementsLifecycle, Life!Spec
=============================================================================

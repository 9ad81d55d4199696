-------------------------- MODULE InvoiceLifecycle --------------------------
(***************************************************************************)
(* What the accountant may rely on, whoever acts on an invoice: its status *)
(* moves along the declared transitions and corrections only, and a status *)
(* that waits for a human comes and goes with its task, in one step.  The  *)
(* code consults the transition table for the automatic transitions and    *)
(* the waiver; every other transaction writes the status itself.           *)
(***************************************************************************)
EXTENDS StateMachine

CONSTANTS Invoices,
          Starts      \* the statuses an invoice may start in

VARIABLES status,     \* invoices.pipeline_status
          active      \* its validation tasks that are not resolved

vars == <<status, active>>

Init == /\ status \in [Invoices -> Starts]
        /\ active = [i \in Invoices |-> TasksOf(status[i])]

\* The old task is resolved and the new one opened with the change of status.
Enter(i, s) == /\ status' = [status EXCEPT ![i] = s]
               /\ active' = [active EXCEPT ![i] = TasksOf(s)]

Transition(i) == \E s \in After(status[i], Definitions) : Enter(i, s)

\* A classification that is decided at once goes through CLASSIFIED in its transaction.
Classify(i) == /\ status[i] = "COMMERCIALLY_VALIDATED"
               /\ \E s \in After("CLASSIFIED", Definitions) : Enter(i, s)

Correct(i) == \E s \in After(status[i], Corrections) : Enter(i, s)

Await(i) == \E t \in Awaitable : /\ active[i] = {Task(t, "OPEN")}
                                 /\ active' = [active EXCEPT ![i] = {Task(t, "WAITING")}]
                                 /\ UNCHANGED status

Next == \E i \in Invoices : Transition(i) \/ Classify(i) \/ Correct(i) \/ Await(i)

Spec == Init /\ [][Next]_vars
=============================================================================

----------------------------- MODULE Deliveries -----------------------------
(***************************************************************************)
(* What Diana promises of the messages ANAF delivers, however they are     *)
(* listed, claimed and retried: each one meets one fate and keeps it.  It  *)
(* becomes the canonical invoice of its supplier, number and day, or a     *)
(* duplicate of the one that is, or it is refused; and once closed nobody  *)
(* takes it up again.                                                      *)
(***************************************************************************)
CONSTANTS Docs,
          Identity    \* supplier, number and issue day

VARIABLES fate,       \* what became of each: CANONICAL, DUPLICATE, REFUSED; none yet, at most one
          closed      \* the messages no job will look at again

vars == <<fate, closed>>

Init == fate = [d \in Docs |-> {}] /\ closed = {}

Taken(d) == \E e \in Docs : Identity[e] = Identity[d] /\ fate[e] = {"CANONICAL"}

\* The invoice exists before its message is closed.
Import(d) == /\ fate[d] = {}
             /\ fate' = [fate EXCEPT ![d] = {IF Taken(d) THEN "DUPLICATE" ELSE "CANONICAL"}]
             /\ UNCHANGED closed

Close(d) == /\ fate[d] \in {{"CANONICAL"}, {"DUPLICATE"}} /\ d \notin closed
            /\ closed' = closed \cup {d}
            /\ UNCHANGED fate

Refuse(d) == /\ fate[d] = {}
             /\ fate' = [fate EXCEPT ![d] = {"REFUSED"}]
             /\ closed' = closed \cup {d}

Next == \E d \in Docs : Import(d) \/ Close(d) \/ Refuse(d)

Spec == Init /\ [][Next]_vars
=============================================================================

------------------------------ MODULE Handoff ------------------------------
(***************************************************************************)
(* What the transactional outbox promises to the rest of Diana: a          *)
(* continuation recorded by a business transaction is handed to the queue  *)
(* at least once before it is settled, and a settled or abandoned one      *)
(* stays so.  Copies may still be delivered after the settlement, by a     *)
(* dispatcher whose lease ran out while it was publishing.                 *)
(***************************************************************************)
EXTENDS Naturals

CONSTANT Items

VARIABLES state,    \* "absent", "accepted", "settled" or "abandoned"
          copies    \* how many times the item reached the queue

vars == <<state, copies>>

Init == /\ state = [i \in Items |-> "absent"]
        /\ copies = [i \in Items |-> 0]

Accept(i) == /\ state[i] = "absent"
             /\ state' = [state EXCEPT ![i] = "accepted"]
             /\ UNCHANGED copies

Deliver(i) == /\ state[i] # "absent"
              /\ copies' = [copies EXCEPT ![i] = @ + 1]
              /\ UNCHANGED state

Settle(i) == /\ state[i] = "accepted"
             /\ copies[i] > 0
             /\ state' = [state EXCEPT ![i] = "settled"]
             /\ UNCHANGED copies

Abandon(i) == /\ state[i] = "accepted"
              /\ state' = [state EXCEPT ![i] = "abandoned"]
              /\ UNCHANGED copies

Next == \E i \in Items : Accept(i) \/ Deliver(i) \/ Settle(i) \/ Abandon(i)

Spec == Init /\ [][Next]_vars
=============================================================================

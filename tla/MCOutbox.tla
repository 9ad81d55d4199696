------------------------------ MODULE MCOutbox ------------------------------
(***************************************************************************)
(* An instance of Outbox: two worker processes whose hostname:pid texts    *)
(* differ.                                                                 *)
(***************************************************************************)
EXTENDS Outbox, TLC

CONSTANTS d1, d2

DistinctOwners == d1 :> "host-a:1" @@ d2 :> "host-b:1"
=============================================================================

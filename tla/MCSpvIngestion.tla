--------------------------- MODULE MCSpvIngestion ---------------------------
(* Instances of SpvIngestion: two deliveries of one business invoice, and  *)
(* a malformed one; two worker processes.                                  *)
EXTENDS SpvIngestion, TLC

CONSTANTS d1, d2, w1, w2

OneInvoice == [d \in Docs |-> "N1"]
Processes == (w1 :> "host1") @@ (w2 :> "host2")
=============================================================================

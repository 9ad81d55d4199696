------------------------ MODULE MCContractMatching ------------------------
(***************************************************************************)
(* Instances of ContractMatching, by what the documents say.               *)
(* ReceivedAndIssued: a received invoice with a compatible contract and    *)
(* one in another currency, beside an issued one that fits the second.     *)
(* WithExpired: the received invoice's second contract is expired.         *)
(* TwoInvoices: one received invoice fits both contracts, the other one.   *)
(* Siblings: two received invoices wait for the same contract, which is in *)
(* another currency for one of them; nothing fits the second contract.     *)
(***************************************************************************)
EXTENDS ContractMatching, TLC

CONSTANTS i1, i2, c1, c2

ReceivedAndIssued ==
    [outgoing |-> {i2}, kind |-> i1 :> (c1 :> "compatible" @@ c2 :> "incompatible")
                              @@ i2 :> (c1 :> "other" @@ c2 :> "compatible")]
WithExpired ==
    [outgoing |-> {i2}, kind |-> i1 :> (c1 :> "compatible" @@ c2 :> "expired")
                              @@ i2 :> (c1 :> "other" @@ c2 :> "compatible")]
TwoInvoices ==
    [outgoing |-> {}, kind |-> i1 :> (c1 :> "compatible" @@ c2 :> "compatible")
                            @@ i2 :> (c1 :> "incompatible" @@ c2 :> "other")]
Siblings ==
    [outgoing |-> {}, kind |-> i1 :> (c1 :> "compatible" @@ c2 :> "other")
                            @@ i2 :> (c1 :> "incompatible" @@ c2 :> "other")]
PassCases == {ReceivedAndIssued, WithExpired, Siblings}
LostCases == {TwoInvoices}
=============================================================================

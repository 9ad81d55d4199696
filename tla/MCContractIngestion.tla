-------------------------- MODULE MCContractIngestion --------------------------
(* An instance of ContractIngestion: two workers that may hold the same    *)
(* document one after the other, and two accountants who review it.        *)
EXTENDS ContractIngestion

CONSTANTS w1, w2, h1, h2
=============================================================================

------------------------ MODULE MCCommercialValidation ------------------------
(* An instance of CommercialValidation: two workers that may hold the same *)
(* or different jobs, two findings, of which coverage is one.              *)
EXTENDS CommercialValidation

CONSTANTS w1, w2, f1
=============================================================================

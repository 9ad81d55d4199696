---------------------- MODULE MCClassificationWorkflow ----------------------
(* Instances of ClassificationWorkflow.                                    *)
(* One: an invoice with one row to decide, with every interference at once.*)
(* Two: an invoice with two rows, of which an answer, a review or an       *)
(* approval may cover either, under a fault and a reanalysis or a request. *)
EXTENDS ClassificationWorkflow

CONSTANTS d1, d2

Invoice(ds, l, r, f) == [lines |-> ds, loops |-> l, requests |-> r, faults |-> f]

One == Invoice({d1}, 1, 1, 1)
Two(l, r) == Invoice({d1, d2}, l, r, 1)

PassCases == {One, Two(1, 0), Two(0, 1)}
StuckCases == {Invoice({d1}, 0, 0, 1)}
SupersededCases == {Invoice({d1}, 1, 0, 0)}
=============================================================================

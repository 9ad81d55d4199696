------------------------- MODULE MCInvoicePipeline -------------------------
(* Instances of InvoicePipeline: the .cfg files only choose the bounds.    *)
EXTENDS InvoicePipeline
=============================================================================

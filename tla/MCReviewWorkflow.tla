------------------------- MODULE MCReviewWorkflow -------------------------
(* The runs of ReviewWorkflow use it as it is. *)
EXTENDS ReviewWorkflow
===========================================================================

----------------------------- MODULE MCReviewRun -----------------------------
(* Two runs and two streaming clients; no symmetry, since the run also checks
   liveness. *)
EXTENDS ReviewRun
==============================================================================

--------------------------- MODULE MCReviewedEvidence ---------------------------
(* Values of the constants for the model checker. *)
EXTENDS ReviewedEvidence

CONSTANTS api, vllm, refresh, reviewer
=============================================================================

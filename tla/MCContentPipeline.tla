-------------------------- MODULE MCContentPipeline --------------------------
(* TLC instance of ContentPipeline: two versions of the text are enough for a *)
(* summary to be out of date.                                                 *)
EXTENDS ContentLifecycle, TLC

CONSTANTS v1, v2

Symmetry == Permutations({v1, v2})
=============================================================================

------------------------- MODULE MCTaskQueueContract -------------------------
(* TLC instance of the refinement: two rows that may share a key, two workers. *)
EXTENDS TaskQueueContract, TLC

Symmetry == Permutations(Tasks) \cup Permutations(Workers)
=============================================================================

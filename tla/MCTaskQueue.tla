----------------------------- MODULE MCTaskQueue -----------------------------
(* TLC instance of TaskQueue: the constants are in the .cfg files; workers are *)
(* interchangeable, and so are rows, keys and ids being model values.          *)
EXTENDS TaskQueue, TLC

Symmetry == Permutations(Tasks) \cup Permutations(Workers)
=============================================================================

----------------------------- MODULE MCServices ------------------------------
(* TLC instance of the services: the sizes of the scenes.                      *)
EXTENDS Services, TLC

CONSTANTS m1, m2, k1, k2   \* handlers and keys of MetadataMerge

\* A handler that writes the whole document beside one that merges and does not own the
\* preview keys (cfg).
Touched == [h \in {m1, m2} |-> IF h = m1 THEN {k1, k2} ELSE {k1}]

OneProvider == <<"spotify">>

SceneFaults ==
  [s \in Scenes |-> CASE s = "bookmarks" -> 3
                      [] s \in {"first minutes", "week", "answers"} -> 1
                      [] OTHER -> 2]
=============================================================================

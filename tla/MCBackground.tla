---------------------------- MODULE MCBackground ----------------------------
(* TLC instance of what runs in the background: the sizes of the scenes.       *)
EXTENDS Background, TLC

CONSTANTS w1, w2

\* All news items tell one story.
OneStory == [i \in Items |-> 1]

SceneFaults ==
  [s \in Scenes |-> CASE s = "stale" -> 3
                      [] s = "shelf" -> 1
                      [] OTHER -> 2]

Symmetry == Permutations({w1, w2})
=============================================================================

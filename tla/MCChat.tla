------------------------------- MODULE MCChat -------------------------------
(* TLC instance of the chat, the app's session and its lists: the sizes.    *)
EXTENDS Chat, TLC

\* Two of the three contents have one timestamp.
Stamps == <<1, 2, 2>>

SceneFaults == [s \in {"client", "list"} |-> 1]

Symmetry == Permutations(Requests)
=============================================================================

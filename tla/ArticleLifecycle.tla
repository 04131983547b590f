--------------------------- MODULE ArticleLifecycle ---------------------------
(***************************************************************************)
(* What a reader of the feed is promised about one long-form article: its   *)
(* status only moves forward, a rejected article stays rejected, and it is  *)
(* completed only when its image has been drawn.                            *)
(***************************************************************************)
VARIABLES
  stage,   \* the article's status
  drawn    \* its image exists

lifecycleVars == <<stage, drawn>>

Init == stage = "new" /\ drawn = FALSE

\* The text is extracted; before the summary exists this may happen again.
Extract ==
  /\ stage \in {"new", "processing"}
  /\ stage' = "processing"
  /\ UNCHANGED drawn

Reject ==
  /\ stage \in {"new", "processing"}
  /\ stage' \in {"failed", "skipped"}
  /\ UNCHANGED drawn

Summarize ==
  /\ stage = "processing"
  /\ stage' = IF drawn THEN "completed" ELSE "awaiting_image"
  /\ UNCHANGED drawn

Draw ==
  /\ stage \in {"awaiting_image", "completed"}
  /\ drawn' = TRUE
  /\ UNCHANGED stage

Publish ==
  /\ stage = "awaiting_image" /\ drawn
  /\ stage' = "completed"
  /\ UNCHANGED drawn

Next == Extract \/ Reject \/ Summarize \/ Draw \/ Publish

Spec == Init /\ [][Next]_lifecycleVars
===============================================================================

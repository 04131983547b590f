---------------------------- MODULE MediaInvariant ----------------------------
(***************************************************************************)
(* Why nothing that was heard is lost: the inductive invariant behind      *)
(* HeardAndSummarized of MediaPipeline.                                    *)
(*                                                                         *)
(* What holds depends on how much has gone wrong.  Undisturbed, the tasks  *)
(* follow each other and only one of hearing, summarizing and having a     *)
(* summary is true at a time.  After one disturbance two of them may       *)
(* overlap, but a summary that is not of all the words has somebody who    *)
(* will make a new one.  After more, only that the content is settled in   *)
(* the end is left.                                                        *)
(***************************************************************************)
EXTENDS MediaPipeline

\* As many interruptions as a task has retries, at most, and a retry at least; the end of a task
\* is recorded before anybody hands over to it again.
Bearable ==
  /\ Kind \in {"podcast", "tweet"}
  /\ MaxRetries \in Nat \ {0} /\ MaxFaults \in Nat /\ MaxFaults <= MaxRetries
  /\ "late" \notin Disturbances

Words == {"body", "speech"}
Statuses == {"new", "processing"} \cup Settled
Places == {"idle", "extract", "media", "save", "report", "fail", "hear", "fetch", "transcribe",
           "unlink", "degrade", "text_only", "summarize", "empty", "reuse", "write", "ok", "retry"}
Copies == [status : Statuses, text : SUBSET Words, summary : SUBSET Words, video : BOOLEAN]

\* A task that runs stands somewhere, and one of each queue runs at a time.
Types ==
  /\ spoken \in BOOLEAN /\ video \in BOOLEAN /\ audio \in BOOLEAN
  /\ status \in Statuses /\ text \in SUBSET Words /\ summary \in SUBSET Words
  /\ task \in [Kinds -> {"none", "pending", "running"}] /\ pc \in [Kinds -> Places]
  /\ tries \in [Kinds -> Nat] /\ mem \in [Kinds -> Copies]
  /\ faults \in Nat /\ faults <= MaxFaults
  /\ \A k \in Kinds : task[k] = "running" <=> pc[k] # "idle"
  /\ task["process"] = "running" => task["summarize"] # "running"
  /\ task["media"] = "running" => task["transcribe"] # "running"

-----------------------------------------------------------------------------
(* With any number of disturbances *)

\* k's task will do more than end.
Going(k) ==
  \/ task[k] = "pending"
  \/ task[k] = "running" /\ pc[k] \notin {"ok", "retry"}
  \/ task[k] = "running" /\ pc[k] = "retry" /\ tries[k] < MaxRetries

\* A failure that is not a podcast's costs a disturbance, so the last retry does not fail.
RetriesArePaid ==
  \A k \in Kinds : (Kind = "tweet" \/ k # "media") =>
    tries[k] <= faults /\ (pc[k] \in {"report", "retry"} => tries[k] < faults)

SomebodyGoesOn ==
  /\ status \notin Settled => \E k \in Kinds : Going(k)
  /\ pc["process"] = "save" => Going("media") \/ task["summarize"] = "pending"

Tweet == Kind = "tweet"

\* What there is to summarize when everything was read and heard.
Full == IF ~spoken THEN {"body"} ELSE IF Tweet THEN {"body", "speech"} ELSE {"speech"}

\* Where the handlers of a podcast and of a post can stand.
Labelled ==
  /\ pc["process"] \in {"idle", "extract", "media", "summarize", "report", "retry", "ok",
                        "save", "fail"}
  /\ pc["media"] \in {"idle", "fetch", "transcribe", "summarize", "degrade", "text_only", "ok",
                      "retry", "hear", "fail"}
  /\ pc["transcribe"] \in {"idle", "hear", "unlink", "summarize", "degrade", "text_only", "ok",
                           "retry"}
  /\ pc["summarize"] \in {"idle", "empty", "reuse", "write", "ok", "retry"}
  /\ Tweet => pc["process"] \notin {"save", "fail"} /\ pc["media"] \notin {"hear", "fail"}
  /\ ~Tweet => /\ pc["media"] \notin {"fetch", "transcribe", "degrade", "text_only"}
               /\ task["transcribe"] = "none"
  /\ ~spoken =>
       /\ task["media"] = "none" /\ task["transcribe"] = "none"
       /\ pc["process"] \notin {"media", "save", "fail"}

\* What the row and the copies can hold; a post's text is read before its video is fetched.
Texts ==
  /\ text = {} \/ text = Full \/ (Tweet /\ text = {"body"})
  /\ \A k \in Kinds :
       mem[k].text = {} \/ mem[k].text = Full \/ (Tweet /\ mem[k].text = {"body"})
  /\ Tweet =>
       /\ mem["process"].text \subseteq text
       /\ pc["media"] = "fetch" => mem["media"].text = text
       /\ pc["transcribe"] = "hear" => mem["transcribe"].text = text
       /\ (task["media"] # "none" \/ task["transcribe"] # "none"
             \/ pc["process"] \in {"media", "summarize"}) => text # {}
       /\ pc["process"] = "summarize" => text = Full
       /\ pc["transcribe"] \in {"unlink", "summarize"} => text = Full
       /\ pc["transcribe"] \in {"hear", "unlink"} => audio
       /\ pc["media"] = "transcribe" => audio
  /\ ~Tweet /\ pc["summarize"] = "write" => text = Full

-----------------------------------------------------------------------------
(* With less than two *)

Hearing == Going("media") \/ Going("transcribe")
Summing == Going("summarize")

\* PROCESS_CONTENT has not handed over; it has nothing more to do.
Before == task["process"] = "pending" \/ pc["process"] \in {"extract", "media", "report", "retry"}
Over == task["process"] = "none" \/ pc["process"] = "ok"

\* Hearing, summarizing and having a summary exclude each other.
OneAtATime ==
  /\ ~(Hearing /\ Summing) /\ ~(Hearing /\ summary # {}) /\ ~(Summing /\ summary # {})

\* Nothing has gone wrong.
Undisturbed ==
  /\ OneAtATime
  /\ Before => task["media"] = "none" /\ task["transcribe"] = "none"
  /\ ~Over => summary = {}
  /\ task["summarize"] # "none" => Over /\ ~Hearing
  /\ task["transcribe"] # "none" => ~Going("media")
  /\ spoken =>
       /\ task["process"] = "pending" => text = {}
       /\ pc["process"] \in {"extract", "media", "save"} => mem["process"].text = {}
       /\ pc["process"] # "summarize"
  /\ pc["process"] # "fail"
  /\ pc["process"] = "save" => pc["media"] # "summarize"
  /\ Tweet /\ (task["media"] # "none" \/ task["transcribe"] # "none") => video

\* Which tasks may overlap after one disturbance.
Ordered ==
  /\ Before => OneAtATime
  /\ ~(Hearing /\ Summing /\ summary # {})
  /\ ~Over => ~(Going("media") /\ Going("transcribe"))
  /\ Going("media") /\ Going("transcribe") => ~Summing /\ summary = {}
  /\ pc["summarize"] = "reuse" => ~Hearing /\ faults = 1 /\ summary = text /\ text # {}
  /\ pc["summarize"] = "write" => mem["summarize"].text = text /\ text # {}

\* A copy that will be written back holds no older summary than the row.
Remembered ==
  /\ summary \in {{}, text}
  /\ pc["process"] # "idle" => mem["process"].summary \in {{}, mem["process"].text}
  /\ pc["process"] \in {"extract", "media", "save"} => mem["process"].summary = summary
  /\ pc["process"] = "save" /\ summary # {} => ~Summing /\ pc["media"] # "summarize"
  /\ pc["process"] = "summarize" => summary = {}
  /\ pc["media"] \in {"hear", "fetch"} => mem["media"].summary \in {{}, summary}
  /\ pc["transcribe"] = "hear" => mem["transcribe"].summary \in {{}, summary}

\* A post is summarized without its video only after a disturbance, and then nobody hears it
\* any more.
WithoutVideo ==
  /\ Tweet /\ text # Full =>
       (~Summing /\ summary = {}) \/ (faults = 1 /\ Over /\ ~Hearing)
  /\ (pc["media"] \in {"degrade", "text_only"} \/ (Tweet /\ pc["media"] = "summarize")) =>
       faults = 1 /\ Over /\ ~Going("transcribe")
  /\ pc["transcribe"] \in {"degrade", "text_only"} => faults = 1 /\ Over /\ ~Going("media")
  /\ task["transcribe"] = "pending" /\ ~audio => faults = 1 /\ Over /\ ~Going("media")
  /\ Tweet =>
       \/ video
       \/ ~ \/ pc["process"] = "media"
            \/ pc["process"] = "extract" /\ mem["process"].video
            \/ task["media"] = "pending" \/ task["transcribe"] = "pending"
            \/ pc["media"] \in {"fetch", "transcribe"}
            \/ pc["transcribe"] \in {"hear", "unlink", "summarize"}
  /\ Tweet => pc["media"] # "retry" /\ pc["transcribe"] # "retry"
  /\ Tweet /\ pc["media"] = "fetch" => mem["media"].video
  /\ pc["transcribe"] = "hear" => mem["transcribe"].video

\* Who will summarize what the summary does not have.
Awaited ==
  /\ (status = "done" /\ summary # text) =>
       Hearing \/ task["summarize"] = "pending" \/ pc["summarize"] = "write"
  /\ (text = {} \/ pc["summarize"] = "empty") => status # "done"

NothingForgotten ==
  /\ faults = 0 => Undisturbed
  /\ faults < 2 => Ordered /\ Remembered /\ WithoutVideo /\ Awaited

MediaInv ==
  Types /\ RetriesArePaid /\ SomebodyGoesOn /\ Labelled /\ Texts /\ NothingForgotten
===============================================================================

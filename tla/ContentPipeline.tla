--------------------------- MODULE ContentPipeline ---------------------------
(***************************************************************************)
(* One long-form article on its way through PROCESS_CONTENT, SUMMARIZE and  *)
(* GENERATE_IMAGE: app/pipeline/worker.py, app/pipeline/handlers/summarize, *)
(* .../generate_image, app/services/long_form_images.py.                    *)
(*                                                                          *)
(* The queue is used as TaskContract promises it: per kind the article has  *)
(* at most one active task, run by one worker at a time, run again when it   *)
(* is interrupted.  Tasks of different kinds run concurrently.  A handler is *)
(* cut at its commits and at its long external calls; what it remembers from *)
(* one part to the next is in mem.                                          *)
(*                                                                          *)
(* Text is a version of the extracted body; a summary is the version it was  *)
(* made from, which is what summarization_input_fingerprint records.        *)
(***************************************************************************)
EXTENDS Naturals

CONSTANTS
  Texts,        \* versions of the body that extraction may return
  NoText,       \* no body, or no summary
  MaxRetries,   \* settings.queue.max_retries
  Hazards,      \* which disturbances the environment may cause
  MaxFaults     \* bound on the number of disturbances in a behaviour

HazardKinds ==
  {"crash",      \* the process running a handler or a request is killed
   "outage",     \* a model provider or a database write fails for a while
   "handoff",    \* enqueueing the follow-up task raises
   "resubmit"}   \* a user submits the article again for analysis

ASSUME ConstantsAssumption ==
  /\ NoText \notin Texts
  /\ MaxRetries \in Nat
  /\ Hazards \subseteq HazardKinds
  /\ MaxFaults \in Nat

VARIABLES
  status, text, summary, art, visible,  \* the article's rows, its body and image file
  task, tries,                          \* per kind: its active task and retry_count
  pc, mem,                              \* per kind: the running handler
  hook,                                 \* a request between making it visible and the check
  analyzing,                            \* an ANALYZE_URL handler has decided on processing
  faults

article == <<status, text, summary, art, visible>>
queue   == <<task, tries>>
requests == <<hook, analyzing>>
vars    == <<article, queue, pc, mem, requests, faults>>

Kinds    == {"process", "summarize", "image"}
Statuses == {"new", "processing", "awaiting_image", "completed", "failed", "skipped"}
Returned == {"ok", "retry", "fatal"}
Labels   == Returned \cup {"idle", "extract", "report", "handoff", "empty", "reuse",
                           "write", "merge", "draw", "stamp"}
Memory   == [status: Statuses, text: Texts \cup {NoText}, summary: Texts \cup {NoText}]

Nothing == [status |-> "new", text |-> NoText, summary |-> NoText]

\* The row as a session loads it.
Loaded == [status |-> status, text |-> text, summary |-> summary]

Disturb(kind) == /\ kind \in Hazards
                 /\ faults < MaxFaults
                 /\ faults' = faults + 1

\* SQLAlchemy writes a column only if its new value differs from the loaded one.
Flush(old, new, current) == IF new = old THEN current ELSE new

\* Mutant of AfterSummary: the summary alone completes the article.
AfterSummaryWithoutArtwork == "completed"

\* status_after_summary, with has_generated_long_form_image.
AfterSummary == IF art THEN "completed" ELSE "awaiting_image"

\* Mutant of Eligible: the check forgets articles whose status still awaits the image.
EligibleOnlyCompleted ==
  /\ status = "completed"
  /\ visible /\ summary # NoText /\ ~ art /\ task["image"] = "none"

\* enqueue_visible_long_form_image_if_needed, all its conditions.
Eligible ==
  /\ status \in {"awaiting_image", "completed"}
  /\ visible
  /\ summary # NoText
  /\ ~ art
  /\ task["image"] = "none"

\* QueueService.enqueue as the pipeline sees it: absorbed by an active task of that kind.
Enqueue(k) ==
  IF task[k] = "none"
    THEN /\ task' = [task EXCEPT ![k] = "pending"]
         /\ tries' = [tries EXCEPT ![k] = 0]
    ELSE UNCHANGED queue

Init ==
  /\ status = "new"
  /\ text = NoText
  /\ summary = NoText
  /\ art = FALSE
  /\ visible \in BOOLEAN
  /\ task = [k \in Kinds |-> IF k = "process" THEN "pending" ELSE "none"]
  /\ tries = [k \in Kinds |-> 0]
  /\ pc = [k \in Kinds |-> "idle"]
  /\ mem = [k \in Kinds |-> Nothing]
  /\ hook = "idle"
  /\ analyzing = FALSE
  /\ faults = 0

-----------------------------------------------------------------------------
(* Running a task *)

\* A worker claims the task and its handler loads the row.
Begin(k, label) ==
  /\ task[k] = "pending"
  /\ task' = [task EXCEPT ![k] = "running"]
  /\ pc' = [pc EXCEPT ![k] = label]
  /\ mem' = [mem EXCEPT ![k] = Loaded]
  /\ UNCHANGED <<article, tries, requests, faults>>

At(k, label) == task[k] = "running" /\ pc[k] = label

Goto(k, label) == pc' = [pc EXCEPT ![k] = label]

\* finalize_task's bound
MayRetry(k) == tries[k] < MaxRetries

\* The worker records what the handler returned.
Finalize(k) ==
  /\ task[k] = "running" /\ pc[k] \in Returned
  /\ IF pc[k] = "retry" /\ MayRetry(k)
       THEN /\ task' = [task EXCEPT ![k] = "pending"]
            /\ tries' = [tries EXCEPT ![k] = @ + 1]
       ELSE /\ task' = [task EXCEPT ![k] = "none"]
            /\ UNCHANGED tries
  /\ Goto(k, "idle")
  /\ mem' = [mem EXCEPT ![k] = Nothing]
  /\ UNCHANGED <<article, requests, faults>>

\* The worker dies anywhere in the handler, or before the result is recorded; the
\* task's lease expires and it is claimed again.
Crash(k) ==
  /\ Disturb("crash")
  /\ task[k] = "running"
  /\ task' = [task EXCEPT ![k] = "pending"]
  /\ Goto(k, "idle")
  /\ mem' = [mem EXCEPT ![k] = Nothing]
  /\ UNCHANGED <<article, tries, requests>>

-----------------------------------------------------------------------------
(* PROCESS_CONTENT: extract without a session, then merge and commit. *)

BeginProcess == Begin("process", "extract")

CommitExtraction(v) ==
  /\ At("process", "extract")
  /\ status' = "processing"
  /\ text' = v
  /\ Goto("process", "handoff")
  /\ UNCHANGED <<summary, art, visible, queue, mem, requests, faults>>

\* _mark_article_extraction_failure, merged: the summary key is removed from the row if
\* it was there when the handler started.
SummaryAfterFailure == IF mem["process"].summary # NoText THEN NoText ELSE summary

CommitExtractionFailure ==
  /\ At("process", "extract")
  /\ status' = "failed"
  /\ summary' = SummaryAfterFailure
  /\ Goto("process", "ok")
  /\ UNCHANGED <<text, art, visible, queue, mem, requests, faults>>

\* The strategy asked for skip_processing, or only the feed was wanted.
CommitSkip ==
  /\ At("process", "extract")
  /\ status' = "skipped"
  /\ Goto("process", "ok")
  /\ UNCHANGED <<text, summary, art, visible, queue, mem, requests, faults>>

\* No strategy, a non-retryable error, or any exception of the extraction.
CommitRejection ==
  /\ At("process", "extract")
  /\ status' = "failed"
  /\ Goto("process", "report")
  /\ UNCHANGED <<text, summary, art, visible, queue, mem, requests, faults>>

\* The commit itself raises: process_content returns False, nothing is written.
ProcessError ==
  /\ Disturb("outage")
  /\ At("process", "extract")
  /\ Goto("process", "report")
  /\ UNCHANGED <<article, queue, mem, requests>>

\* Mutant of ReportProcess: a False result always ends the task.
ReportDone ==
  /\ At("process", "report")
  /\ Goto("process", "ok")
  /\ UNCHANGED <<article, queue, mem, requests, faults>>

\* After a False result the handler looks at the row once more.
ReportProcess ==
  /\ At("process", "report")
  /\ Goto("process", IF status \in {"failed", "skipped", "completed"} THEN "ok" ELSE "retry")
  /\ UNCHANGED <<article, queue, mem, requests, faults>>

\* Mutant of EnqueueSummarize: the text's follow-up task is forgotten.
EnqueueNothing ==
  /\ At("process", "handoff")
  /\ Goto("process", "ok")
  /\ UNCHANGED <<article, queue, mem, requests, faults>>

EnqueueSummarize ==
  /\ At("process", "handoff")
  /\ Enqueue("summarize")
  /\ Goto("process", "ok")
  /\ UNCHANGED <<article, mem, requests, faults>>

EnqueueSummarizeFails ==
  /\ Disturb("handoff")
  /\ At("process", "handoff")
  /\ Goto("process", "report")
  /\ UNCHANGED <<article, queue, mem, requests>>

-----------------------------------------------------------------------------
(* SUMMARIZE *)

\* Where the loaded row leads; the body is found unless storage has lost it.
SummarizePath(found) ==
  IF status \in {"failed", "skipped"} \/ (status = "completed" /\ summary # NoText) THEN "ok"
  ELSE IF ~ found \/ text = NoText THEN "empty"
  ELSE IF summary = text THEN "reuse" ELSE "write"

BeginSummarize(found) ==
  Begin("summarize", SummarizePath(found))

\* _persist_failure with SKIPPED: refresh, drop the summary, commit.
SkipEmpty ==
  /\ At("summarize", "empty")
  /\ status' = "skipped"
  /\ summary' = NoText
  /\ Goto("summarize", "ok")
  /\ UNCHANGED <<text, art, visible, queue, mem, requests, faults>>

\* The fingerprint matches: no model call, and no follow-up task either.
ReuseSummary ==
  /\ At("summarize", "reuse")
  /\ status' = AfterSummary
  /\ Goto("summarize", "ok")
  /\ UNCHANGED <<text, summary, art, visible, queue, mem, requests, faults>>

\* _persist_retryable_failure
SummaryFailsForNow ==
  /\ Disturb("outage")
  /\ At("summarize", "write")
  /\ status' = "processing"
  /\ Goto("summarize", "retry")
  /\ UNCHANGED <<text, summary, art, visible, queue, mem, requests>>

\* _persist_failure with FAILED
SummaryFails ==
  /\ At("summarize", "write")
  /\ status' = "failed"
  /\ summary' = NoText
  /\ Goto("summarize", "fatal")
  /\ UNCHANGED <<text, art, visible, queue, mem, requests, faults>>

\* The model answered: the row is refreshed, then the article's links are ranked.
SummaryReturned ==
  /\ At("summarize", "write")
  /\ mem' = [mem EXCEPT !["summarize"].status = status]
  /\ Goto("summarize", "merge")
  /\ UNCHANGED <<article, queue, requests, faults>>

CommitSummary ==
  /\ At("summarize", "merge")
  /\ status' = Flush(mem["summarize"].status, AfterSummary, status)
  /\ summary' = mem["summarize"].text
  /\ Goto("summarize", "handoff")
  /\ UNCHANGED <<text, art, visible, queue, mem, requests, faults>>

\* Mutant of OfferImage: the summary's follow-up task is forgotten.
OfferNothing ==
  /\ At("summarize", "handoff")
  /\ Goto("summarize", "ok")
  /\ UNCHANGED <<article, queue, mem, requests, faults>>

OfferImage ==
  /\ At("summarize", "handoff")
  /\ IF Eligible THEN Enqueue("image") ELSE UNCHANGED queue
  /\ Goto("summarize", "ok")
  /\ UNCHANGED <<article, mem, requests, faults>>

\* The exception reaches the handler's outer except: a retryable failure.
OfferImageFails ==
  /\ Disturb("handoff")
  /\ At("summarize", "handoff")
  /\ Goto("summarize", "retry")
  /\ UNCHANGED <<article, queue, mem, requests>>

-----------------------------------------------------------------------------
(* GENERATE_IMAGE: the row is loaded once, before the picture is drawn. *)

\* Without a summary there is no prompt: "Skipped", which is a success.
BeginImage == Begin("image", IF summary = NoText THEN "ok" ELSE "draw")

DrawImage ==
  /\ At("image", "draw")
  /\ art' = TRUE
  /\ Goto("image", "stamp")
  /\ UNCHANGED <<status, text, summary, visible, queue, mem, requests, faults>>

DrawFails ==
  /\ Disturb("outage")
  /\ At("image", "draw")
  /\ Goto("image", "retry")
  /\ UNCHANGED <<article, queue, mem, requests>>

\* status_after_generated_artwork accepts the status this handler loaded.
ArtworkCompletes == mem["image"].status \in {"awaiting_image", "completed"}

StampImage ==
  /\ At("image", "stamp")
  /\ ArtworkCompletes
  /\ status' = Flush(mem["image"].status, "completed", status)
  /\ Goto("image", "ok")
  /\ UNCHANGED <<text, summary, art, visible, queue, mem, requests, faults>>

\* InvalidContentStatusTransition: the file stays, the task is retried.
RejectStamp ==
  /\ At("image", "stamp")
  /\ ~ ArtworkCompletes
  /\ Goto("image", "retry")
  /\ UNCHANGED <<article, queue, mem, requests, faults>>

-----------------------------------------------------------------------------
(* Requests *)

\* A user or a feed gets the article in its inbox: commit first, check afterwards.
AddToInbox ==
  /\ ~ visible /\ hook = "idle"
  /\ visible' = TRUE
  /\ hook' = "check"
  /\ UNCHANGED <<status, text, summary, art, queue, pc, mem, analyzing, faults>>

CheckAfterInbox ==
  /\ hook = "check"
  /\ IF Eligible THEN Enqueue("image") ELSE UNCHANGED queue
  /\ hook' = "idle"
  /\ UNCHANGED <<article, pc, mem, analyzing, faults>>

RequestDies ==
  /\ Disturb("crash")
  /\ hook = "check"
  /\ hook' = "idle"
  /\ UNCHANGED <<article, queue, pc, mem, analyzing>>

\* ANALYZE_URL of a submission with instructions: everything but a settled article is to
\* be processed again; the session is closed before the task is enqueued.
AnalyzeSubmission ==
  /\ Disturb("resubmit")
  /\ ~ analyzing
  /\ status \notin {"skipped", "failed", "completed"}
  /\ analyzing' = TRUE
  /\ UNCHANGED <<article, queue, pc, mem, hook>>

EnqueueProcess ==
  /\ analyzing
  /\ Enqueue("process")
  /\ analyzing' = FALSE
  /\ UNCHANGED <<article, pc, mem, hook, faults>>

-----------------------------------------------------------------------------
ProcessStep ==
  \/ BeginProcess
  \/ \E v \in Texts : CommitExtraction(v)
  \/ CommitExtractionFailure
  \/ CommitSkip
  \/ CommitRejection
  \/ ReportProcess
  \/ EnqueueSummarize

SummarizeStep ==
  \/ \E found \in BOOLEAN : BeginSummarize(found)
  \/ SkipEmpty
  \/ ReuseSummary
  \/ SummaryFails
  \/ SummaryReturned
  \/ CommitSummary
  \/ OfferImage

ImageStep == BeginImage \/ DrawImage \/ StampImage \/ RejectStamp

Fault ==
  \/ \E k \in Kinds : Crash(k)
  \/ RequestDies
  \/ ProcessError \/ EnqueueSummarizeFails
  \/ SummaryFailsForNow \/ OfferImageFails
  \/ DrawFails

Next ==
  \/ ProcessStep \/ SummarizeStep \/ ImageStep
  \/ \E k \in Kinds : Finalize(k)
  \/ AddToInbox \/ CheckAfterInbox \/ AnalyzeSubmission \/ EnqueueProcess
  \/ Fault

Spec == Init /\ [][Next]_vars

\* The content queue, for processing and summaries, and the image queue each have a worker
\* of their own; a request that was begun is carried out.
ContentQueue == ProcessStep \/ SummarizeStep \/ Finalize("process") \/ Finalize("summarize")
ImageQueue   == ImageStep \/ Finalize("image")

Fairness == WF_vars(ContentQueue) /\ WF_vars(ImageQueue) /\ WF_vars(CheckAfterInbox)

FairSpec == Spec /\ Fairness

-----------------------------------------------------------------------------
(* Properties *)

\* Every column, task and handler variable keeps its type (schema.py, contracts.py).
TypeOK ==
  /\ status \in Statuses
  /\ text \in Texts \cup {NoText}
  /\ summary \in Texts \cup {NoText}
  /\ art \in BOOLEAN /\ visible \in BOOLEAN
  /\ task \in [Kinds -> {"none", "pending", "running"}]
  /\ tries \in [Kinds -> 0..MaxRetries]
  /\ pc \in [Kinds -> Labels]
  /\ mem \in [Kinds -> Memory]
  /\ hook \in {"idle", "check"} /\ analyzing \in BOOLEAN
  /\ faults \in Nat

\* A completed article has its image, whatever is killed, retried or submitted again
\* meanwhile: "completed means artwork-ready" (content_status_state_machine.py).
CompletedHasArtwork == status = "completed" => art

\* An article in processing is on somebody's desk: a process or summarize task exists
\* that will move it on (worker.py, summarize.py).  While disturbances stay within the
\* retry budget.
NeverOrphaned ==
  status = "processing" => task["process"] # "none" \/ task["summarize"] # "none"

\* A visible article that waits for its image has a task, or a check still to come, that
\* will bring it: the summary's commit and the inbox row's commit each precede their own
\* check, so one of the two checks sees both (summarize.py, content_submission.py).
ImageOnItsWay ==
  status = "awaiting_image" /\ visible =>
    \/ task["image"] # "none"
    \/ At("summarize", "handoff")
    \/ hook = "check"

\* A visible article that waits for its image is completed in the end (generate_image.py).
AwaitingImageCompletes ==
  status = "awaiting_image" /\ visible ~> status = "completed"

\* Every article leaves the pipeline's intermediate states, unless nobody sees it.
EventuallySettles ==
  <>(\/ status \in {"completed", "failed", "skipped"}
     \/ status = "awaiting_image" /\ ~ visible)

\* Artwork completes an article only if its status is awaiting_image or completed: what
\* status_after_generated_artwork guards against.
ArtworkGuard ==
  [][StampImage => status \in {"awaiting_image", "completed"}]_vars
=============================================================================

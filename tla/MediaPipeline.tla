---------------------------- MODULE MediaPipeline ----------------------------
(***************************************************************************)
(* Content whose words must first be heard: a podcast episode, or a post   *)
(* with a video.  app/pipeline/worker.py, podcast_workers.py and the       *)
(* handlers process_podcast_media, download_tweet_video,                   *)
(* transcribe_tweet_video and summarize.                                   *)
(*                                                                         *)
(* As in ContentPipeline, a content has at most one active task of a kind, *)
(* a task that is interrupted runs again, and a handler is cut at its      *)
(* commits and long calls; mem is the row as its session loaded it.        *)
(***************************************************************************)
EXTENDS Naturals

CONSTANTS Kind,          \* "podcast" or "tweet"
          MaxRetries,    \* settings.queue.max_retries
          Disturbances,  \* subset of {"crash", "outage", "handoff", "late"}
          MaxFaults

VARIABLES spoken,    \* an episode without captions, a post with a video to transcribe
          status,    \* "done" stands for completed and awaiting_image
          text,      \* what there is to summarize: "body" (text or captions), "speech"
          summary,   \* what the summary was made from
          video,     \* has_video of a post
          audio,     \* its audio file is there
          task, tries, pc, mem,
          faults

row   == <<status, text, summary, video>>
queue == <<task, tries>>
vars  == <<spoken, row, audio, queue, pc, mem, faults>>

Kinds == {"process", "media", "transcribe", "summarize"}
Settled == {"done", "failed", "skipped"}
Disturb(d) == d \in Disturbances /\ faults < MaxFaults /\ faults' = faults + 1

Loaded == [status |-> status, text |-> text, summary |-> summary, video |-> video]
Nothing == [status |-> "new", text |-> {}, summary |-> {}, video |-> FALSE]

Init ==
  /\ spoken \in BOOLEAN
  /\ status = "new" /\ text = {} /\ summary = {}
  /\ video = FALSE /\ audio = FALSE
  /\ task = [k \in Kinds |-> IF k = "process" THEN "pending" ELSE "none"]
  /\ tries = [k \in Kinds |-> 0]
  /\ pc = [k \in Kinds |-> "idle"]
  /\ mem = [k \in Kinds |-> Nothing]
  /\ faults = 0

-----------------------------------------------------------------------------
(* Tasks *)

\* supervisor.conf starts one worker for the content queue and one for the
\* media queue.
SameQueue(k) == IF k \in {"process", "summarize"} THEN {"process", "summarize"}
                ELSE {"media", "transcribe"}

Begin(k, label) ==
  /\ task[k] = "pending" /\ \A other \in SameQueue(k) : task[other] # "running"
  /\ task' = [task EXCEPT ![k] = "running"]
  /\ pc' = [pc EXCEPT ![k] = label]
  /\ mem' = [mem EXCEPT ![k] = Loaded]
  /\ UNCHANGED <<spoken, row, audio, tries, faults>>

At(k, label) == task[k] = "running" /\ pc[k] = label
Goto(k, label) == pc' = [pc EXCEPT ![k] = label]

Finalize(k) ==
  /\ task[k] = "running" /\ pc[k] \in {"ok", "retry"}
  /\ IF pc[k] = "retry" /\ tries[k] < MaxRetries
     THEN task' = [task EXCEPT ![k] = "pending"] /\ tries' = [tries EXCEPT ![k] = @ + 1]
     ELSE task' = [task EXCEPT ![k] = "none"] /\ UNCHANGED tries
  /\ Goto(k, "idle") /\ mem' = [mem EXCEPT ![k] = Nothing]
  /\ UNCHANGED <<spoken, row, audio, faults>>

Crash(k) ==
  /\ task[k] = "running" /\ Disturb("crash")
  /\ task' = [task EXCEPT ![k] = "pending"]
  /\ Goto(k, "idle") /\ mem' = [mem EXCEPT ![k] = Nothing]
  /\ UNCHANGED <<spoken, row, audio, tries>>

\* QueueService.enqueue: absorbed by an active task of the kind.
Enqueue(k) ==
  IF task[k] = "none"
  THEN task' = [task EXCEPT ![k] = "pending"] /\ tries' = [tries EXCEPT ![k] = 0]
  ELSE UNCHANGED queue

\* The hand-offs: where a handler stands, what it enqueues, where it goes
\* on, and where an exception of the enqueue leads.  A task's end is recorded
\* milliseconds after its handler has returned: only with "late" does an
\* enqueue fall in between.
HandOff(k, label, next, then) ==
  /\ pc[next] \in {"ok", "retry"} => "late" \in Disturbances
  /\ At(k, label) /\ Enqueue(next) /\ Goto(k, then)
  /\ UNCHANGED <<spoken, row, audio, mem, faults>>

HandOffFails(k, label, then) ==
  /\ At(k, label) /\ Disturb("handoff") /\ Goto(k, then)
  /\ UNCHANGED <<spoken, row, audio, queue, mem>>

\* SQLAlchemy writes a column only if its value differs from the loaded one.
Flush(old, new, current) == IF new = old THEN current ELSE new

\* A handler that kept the row open through a long call writes all of
\* content_metadata from its copy: with what it heard, if anything.
WriteCopy(k, heard) ==
  /\ status' = Flush(mem[k].status, "processing", status)
  /\ text' = mem[k].text \cup heard /\ summary' = mem[k].summary /\ video' = mem[k].video

-----------------------------------------------------------------------------
(* PROCESS_CONTENT *)

BeginProcess == Begin("process", "extract")

\* should_reuse_existing_summary
Reusable(now) ==
  mem["process"].summary # {} /\ (mem["process"].summary = now \/ mem["process"].text = now)

\* The commit that merges the handler's changes into the row, and what follows.
Commit(now, next) ==
  LET reuse == next = "summarize" /\ Reusable(now)
  IN /\ status' = IF reuse THEN "done" ELSE "processing"
     /\ text' = text \cup now /\ UNCHANGED summary
     /\ Goto("process", IF next = "none" \/ reuse THEN "ok" ELSE next)

ReadPost ==
  /\ Kind = "tweet" /\ At("process", "extract")
  /\ LET now == mem["process"].text \cup {"body"}
     IN Commit(now, IF spoken /\ "speech" \notin now THEN "media" ELSE "summarize")
  /\ video' = Flush(mem["process"].video, spoken, video)
  /\ UNCHANGED <<spoken, audio, queue, mem, faults>>

EnqueueDownload == Kind = "tweet" /\ HandOff("process", "media", "media", "ok")
EnqueueDownloadFails == Kind = "tweet" /\ HandOffFails("process", "media", "report")
EnqueueSummarize == HandOff("process", "summarize", "summarize", "ok")
EnqueueSummarizeFails == HandOffFails("process", "summarize", "report")

\* An episode with captions needs no download (_prepare_youtube_podcast_for_summary).
ReadCaptions ==
  /\ Kind = "podcast" /\ ~spoken /\ At("process", "extract")
  /\ Commit(mem["process"].text \cup {"body"}, "summarize")
  /\ UNCHANGED <<spoken, video, audio, queue, mem, faults>>

\* Any other: the row is saved as it was loaded, the media task enqueued, and
\* what this handler changed is merged and saved again.
SaveEpisode ==
  /\ Kind = "podcast" /\ spoken /\ At("process", "extract")
  /\ status' = "processing" /\ text' = mem["process"].text /\ summary' = mem["process"].summary
  /\ Goto("process", "media")
  /\ UNCHANGED <<spoken, video, audio, queue, mem, faults>>

EnqueueMedia == Kind = "podcast" /\ HandOff("process", "media", "media", "save")
EnqueueMediaFails == Kind = "podcast" /\ HandOffFails("process", "media", "fail")

SaveEpisodeAgain ==
  /\ At("process", "save")
  /\ Commit(mem["process"].text, IF mem["process"].text = {} THEN "none" ELSE "summarize")
  /\ UNCHANGED <<spoken, video, audio, queue, mem, faults>>

\* Extraction failed or the content is to be skipped; or the enqueue raised.
Reject(s) ==
  /\ At("process", "extract") \/ (s = "failed" /\ At("process", "fail"))
  /\ status' = s /\ Goto("process", "ok")
  /\ UNCHANGED <<spoken, text, summary, video, audio, queue, mem, faults>>

\* After a False result the handler looks at the row.
Report ==
  /\ At("process", "report")
  /\ Goto("process", IF status \in Settled THEN "ok" ELSE "retry")
  /\ UNCHANGED <<spoken, row, audio, queue, mem, faults>>

-----------------------------------------------------------------------------
(* PROCESS_PODCAST_MEDIA: download and transcription under one lease *)

\* Minutes pass before a retry and in a transcription; the second save of
\* PROCESS_CONTENT comes milliseconds after its enqueue.
SavedMeanwhile == ~At("process", "save")

BeginMedia ==
  /\ Kind = "podcast" /\ (tries["media"] > 0 => SavedMeanwhile)
  /\ Begin("media", "hear")

StoreTranscript ==
  /\ Kind = "podcast" /\ At("media", "hear") /\ SavedMeanwhile
  /\ WriteCopy("media", {"speech"}) /\ Goto("media", "summarize")
  /\ UNCHANGED <<spoken, audio, queue, mem, faults>>

\* No audio, or any exception: failed for now.
MediaFails ==
  /\ Kind = "podcast" /\ (At("media", "hear") \/ At("media", "fail"))
  /\ tries["media"] > 0 => SavedMeanwhile
  /\ status' = "failed" /\ Goto("media", "retry")
  /\ UNCHANGED <<spoken, text, summary, video, audio, queue, mem, faults>>

\* Mutant of EnqueueTranscript: the transcript is stored and nobody told.
KeepTranscript ==
  /\ Kind = "podcast" /\ At("media", "summarize") /\ Goto("media", "ok")
  /\ UNCHANGED <<spoken, row, audio, queue, mem, faults>>

EnqueueTranscript == Kind = "podcast" /\ HandOff("media", "summarize", "summarize", "ok")
EnqueueTranscriptFails == Kind = "podcast" /\ HandOffFails("media", "summarize", "fail")

-----------------------------------------------------------------------------
(* DOWNLOAD_TWEET_VIDEO_AUDIO and TRANSCRIBE_TWEET_VIDEO *)

BeginDownload ==
  Kind = "tweet" /\ Begin("media", IF video THEN "fetch" ELSE "summarize")

Download ==
  /\ At("media", "fetch")
  /\ WriteCopy("media", {}) /\ audio' = TRUE /\ Goto("media", "transcribe")
  /\ UNCHANGED <<spoken, queue, mem, faults>>

EnqueueTranscribe == HandOff("media", "transcribe", "transcribe", "ok")

BeginTranscribe == Begin("transcribe", IF audio THEN "hear" ELSE "degrade")

Transcribe ==
  /\ At("transcribe", "hear")
  /\ WriteCopy("transcribe", {"speech"}) /\ Goto("transcribe", "unlink")
  /\ UNCHANGED <<spoken, audio, queue, mem, faults>>

Unlink ==
  /\ At("transcribe", "unlink")
  /\ audio' = FALSE /\ Goto("transcribe", "summarize")
  /\ UNCHANGED <<spoken, row, queue, mem, faults>>

\* Whatever is raised, the post is summarized without its video.
Raises(k) ==
  \/ /\ At(k, IF k = "media" THEN "fetch" ELSE "hear")
     /\ Disturb("outage") /\ Goto(k, "degrade")
     /\ UNCHANGED <<spoken, row, audio, queue, mem>>
  \/ k = "media" /\ HandOffFails(k, "transcribe", "degrade")
  \/ k = "transcribe" /\ HandOffFails(k, "summarize", "degrade")

\* _degrade_to_text_summary
Degrade(k) ==
  /\ At(k, "degrade")
  /\ video' = FALSE /\ status' = "processing" /\ Goto(k, "text_only")
  /\ UNCHANGED <<spoken, text, summary, audio, queue, mem, faults>>

EnqueueText(k) ==
  \/ HandOff(k, "text_only", "summarize", "ok")
  \/ Kind = "tweet" /\ k # "process" /\ HandOff(k, "summarize", "summarize", "ok")
EnqueueTextFails(k) == HandOffFails(k, "text_only", "retry")

-----------------------------------------------------------------------------
(* SUMMARIZE *)

\* A completed content that has a summary is left alone; one that awaits its
\* image is not.
BeginSummarize(complete) ==
  Begin("summarize",
    IF status \in {"failed", "skipped"} \/ (status = "done" /\ complete /\ summary # {}) THEN "ok"
    ELSE IF text = {} THEN "empty"
    ELSE IF summary = text THEN "reuse" ELSE "write")

SkipEmpty ==
  /\ At("summarize", "empty")
  /\ status' = "skipped" /\ summary' = {} /\ Goto("summarize", "ok")
  /\ UNCHANGED <<spoken, text, video, audio, queue, mem, faults>>

ReuseSummary ==
  /\ At("summarize", "reuse")
  /\ status' = "done" /\ Goto("summarize", "ok")
  /\ UNCHANGED <<spoken, text, summary, video, audio, queue, mem, faults>>

\* The model answers; the row is refreshed, merged and committed.
Summarize ==
  /\ At("summarize", "write")
  /\ status' = "done" /\ summary' = mem["summarize"].text /\ Goto("summarize", "ok")
  /\ UNCHANGED <<spoken, text, video, audio, queue, mem, faults>>

SummaryFailsForNow ==
  /\ At("summarize", "write") /\ Disturb("outage")
  /\ status' = "processing" /\ Goto("summarize", "retry")
  /\ UNCHANGED <<spoken, text, summary, video, audio, queue, mem>>

SummaryFails ==
  /\ At("summarize", "write")
  /\ status' = "failed" /\ summary' = {} /\ Goto("summarize", "ok")
  /\ UNCHANGED <<spoken, text, video, audio, queue, mem, faults>>

-----------------------------------------------------------------------------
Next ==
  \/ \E k \in Kinds : Finalize(k) \/ Crash(k)
  \/ BeginProcess \/ ReadPost
  \/ EnqueueDownload \/ EnqueueDownloadFails \/ EnqueueSummarize \/ EnqueueSummarizeFails
  \/ ReadCaptions \/ SaveEpisode \/ EnqueueMedia \/ EnqueueMediaFails \/ SaveEpisodeAgain
  \/ \E s \in {"failed", "skipped"} : Reject(s)
  \/ Report
  \/ BeginMedia \/ StoreTranscript \/ MediaFails \/ EnqueueTranscript \/ EnqueueTranscriptFails
  \/ BeginDownload \/ Download \/ EnqueueTranscribe \/ BeginTranscribe \/ Transcribe \/ Unlink
  \/ \E k \in {"media", "transcribe"} : Raises(k) \/ Degrade(k) \/ EnqueueText(k) \/ EnqueueTextFails(k)
  \/ \E c \in BOOLEAN : BeginSummarize(c)
  \/ SkipEmpty \/ ReuseSummary \/ Summarize \/ SummaryFailsForNow \/ SummaryFails

Spec == Init /\ [][Next]_vars

-----------------------------------------------------------------------------
AtRest == \A k \in Kinds : task[k] = "none"

\* When its last task has ended a content is settled, and what was heard is in
\* the summary of one that is done: no hand-off between the process, media,
\* transcription and summary tasks loses it while the disturbances stay within
\* the retry budget.  After a second disturbance a summary that is under way
\* may absorb the transcript's task.
HeardAndSummarized ==
  AtRest => /\ status \in Settled
            /\ status = "done" /\ faults < 2 => summary = text
=============================================================================

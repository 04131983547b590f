------------------------ MODULE ContentPipelineProofs ------------------------
(***************************************************************************)
(* The pipeline of an article for every set of texts and every retry bound. *)
(* CompletedHasArtwork holds in every mixture and number of disturbances;   *)
(* while providers and the database fail no more often than a task may be   *)
(* retried, no article is orphaned, every visible one gets its image, and   *)
(* the handlers implement the lifecycle.                                    *)
(***************************************************************************)
EXTENDS ContentLifecycle, TLAPS

TaskStates == {"none", "pending", "running"}

\* CompletedHasArtwork made inductive: between the drawing and the commit the file
\* exists already.  The first two conjuncts say that Goto and Enqueue take effect.
Drawn == /\ pc \in [Kinds -> Labels]
         /\ task \in [Kinds -> TaskStates]
         /\ At("image", "stamp") => art
         /\ CompletedHasArtwork

LEMMA DrawnInit == Init => Drawn
BY DEF Init, Drawn, Kinds, Labels, TaskStates, At, CompletedHasArtwork

\* An enqueue leaves the tasks typed and starts none.
LEMMA EnqueueStartsNothing ==
  ASSUME task \in [Kinds -> TaskStates], NEW k \in Kinds,
         Enqueue(k) \/ UNCHANGED queue
  PROVE  /\ task' \in [Kinds -> TaskStates]
         /\ task'["image"] = "running" => task["image"] = "running"
BY DEF Enqueue, queue, TaskStates, Kinds

\* A step that moves one handler anywhere but before the stamp keeps Drawn, if it
\* completes the article only when the image exists.
LEMMA GotoKeepsDrawn ==
  ASSUME Drawn, NEW k \in Kinds, NEW l \in Labels \ {"stamp"}, Goto(k, l),
         art' = art, task' \in [Kinds -> TaskStates],
         task'["image"] = "running" => task["image"] = "running" \/ k = "image",
         status' = "completed" => art
  PROVE  Drawn'
<1>1. pc' \in [Kinds -> Labels]
  BY DEF Drawn, Goto
<1>2. At("image", "stamp")' => art'
  <2>1. CASE k = "image"
    BY <2>1 DEF Drawn, Goto, At, Kinds
  <2>2. CASE k # "image"
    BY <2>2 DEF Drawn, Goto, At, Kinds
  <2> QED BY <2>1, <2>2
<1> QED BY <1>1, <1>2 DEF Drawn, CompletedHasArtwork

\* A step of the requests moves no handler.
LEMMA RequestKeepsDrawn ==
  ASSUME Drawn, pc' = pc, art' = art, status' = status,
         task' \in [Kinds -> TaskStates],
         task'["image"] = "running" => task["image"] = "running"
  PROVE  Drawn'
BY DEF Drawn, At, CompletedHasArtwork

\* The labels that precede no stamp.
LEMMA PlainLabels ==
  {"idle", "ok", "retry", "fatal", "extract", "report", "handoff", "empty", "reuse",
   "write", "merge", "draw"} = Labels \ {"stamp"}
BY DEF Labels, Returned

LEMMA BeginKeepsDrawn ==
  ASSUME Drawn, NEW k \in Kinds, NEW l \in Labels \ {"stamp"}, Begin(k, l)
  PROVE  Drawn'
<1>1. /\ task' \in [Kinds -> TaskStates]
      /\ task'["image"] = "running" => task["image"] = "running" \/ k = "image"
  BY DEF Begin, Drawn, TaskStates, Kinds
<1>2. Goto(k, l) /\ art' = art /\ status' = status
  BY DEF Begin, Goto, article
<1> QED BY <1>1, <1>2, GotoKeepsDrawn DEF Drawn, CompletedHasArtwork

LEMMA FinalizeKeepsDrawn ==
  ASSUME Drawn, NEW k \in Kinds, Finalize(k)
  PROVE  Drawn'
<1>1. /\ task' \in [Kinds -> TaskStates]
      /\ task'["image"] = "running" => task["image"] = "running" \/ k = "image"
  BY DEF Finalize, Drawn, TaskStates, Kinds
<1>2. Goto(k, "idle") /\ art' = art /\ status' = status
  BY DEF Finalize, article
<1> QED BY <1>1, <1>2, GotoKeepsDrawn, PlainLabels DEF Drawn, CompletedHasArtwork

LEMMA CrashKeepsDrawn ==
  ASSUME Drawn, NEW k \in Kinds, Crash(k)
  PROVE  Drawn'
<1>1. /\ task' \in [Kinds -> TaskStates]
      /\ task'["image"] = "running" => task["image"] = "running" \/ k = "image"
  BY DEF Crash, Drawn, TaskStates, Kinds
<1>2. Goto(k, "idle") /\ art' = art /\ status' = status
  BY DEF Crash, article
<1> QED BY <1>1, <1>2, GotoKeepsDrawn, PlainLabels DEF Drawn, CompletedHasArtwork

\* The handlers' other steps: each names the kind it moves and the label it moves to.
LEMMA ProcessKeepsDrawn ==
  ASSUME Drawn, ProcessStep \/ ProcessError \/ EnqueueSummarizeFails
  PROVE  Drawn'
<1> USE PlainLabels
<1>0. "process" \in Kinds /\ "summarize" \in Kinds
  BY DEF Kinds
<1>1. CASE BeginProcess
  BY <1>1, <1>0, BeginKeepsDrawn DEF BeginProcess
<1>2. ASSUME NEW v \in Texts, CommitExtraction(v)
      PROVE  Drawn'
  BY <1>2, <1>0, GotoKeepsDrawn DEF CommitExtraction, queue, Drawn
<1>3. CASE CommitExtractionFailure
  BY <1>3, <1>0, GotoKeepsDrawn DEF CommitExtractionFailure, queue, Drawn
<1>4. CASE CommitSkip
  BY <1>4, <1>0, GotoKeepsDrawn DEF CommitSkip, queue, Drawn
<1>5. CASE CommitRejection
  BY <1>5, <1>0, GotoKeepsDrawn DEF CommitRejection, queue, Drawn
<1>6. CASE ReportProcess
  <2>1. PICK l \in {"ok", "retry"} : Goto("process", l)
    BY <1>6 DEF ReportProcess
  <2> QED
    BY <1>6, <2>1, <1>0, GotoKeepsDrawn
       DEF ReportProcess, article, queue, Drawn, CompletedHasArtwork
<1>7. CASE EnqueueSummarize
  <2>1. /\ task' \in [Kinds -> TaskStates]
        /\ task'["image"] = "running" => task["image"] = "running"
    BY <1>7, <1>0, EnqueueStartsNothing DEF EnqueueSummarize, Drawn
  <2> QED
    BY <1>7, <2>1, <1>0, GotoKeepsDrawn
       DEF EnqueueSummarize, article, Drawn, CompletedHasArtwork
<1>8. CASE ProcessError
  BY <1>8, <1>0, GotoKeepsDrawn DEF ProcessError, article, queue, Drawn, CompletedHasArtwork
<1>9. CASE EnqueueSummarizeFails
  BY <1>9, <1>0, GotoKeepsDrawn
     DEF EnqueueSummarizeFails, article, queue, Drawn, CompletedHasArtwork
<1> QED BY <1>1, <1>2, <1>3, <1>4, <1>5, <1>6, <1>7, <1>8, <1>9 DEF ProcessStep

LEMMA SummarizeKeepsDrawn ==
  ASSUME Drawn, SummarizeStep \/ SummaryFailsForNow \/ OfferImageFails
  PROVE  Drawn'
<1> USE PlainLabels
<1>0. "summarize" \in Kinds /\ "image" \in Kinds
  BY DEF Kinds
<1>1. ASSUME NEW found \in BOOLEAN, BeginSummarize(found)
      PROVE  Drawn'
  <2>1. SummarizePath(found) \in {"ok", "empty", "reuse", "write"}
    BY DEF SummarizePath
  <2> QED BY <1>1, <2>1, <1>0, BeginKeepsDrawn DEF BeginSummarize
<1>2. CASE SkipEmpty
  BY <1>2, <1>0, GotoKeepsDrawn DEF SkipEmpty, queue, Drawn
<1>3. CASE ReuseSummary
  BY <1>3, <1>0, GotoKeepsDrawn DEF ReuseSummary, AfterSummary, queue, Drawn
<1>4. CASE SummaryFails
  BY <1>4, <1>0, GotoKeepsDrawn DEF SummaryFails, queue, Drawn
<1>5. CASE SummaryReturned
  BY <1>5, <1>0, GotoKeepsDrawn
     DEF SummaryReturned, article, queue, Drawn, CompletedHasArtwork
<1>6. CASE CommitSummary
  BY <1>6, <1>0, GotoKeepsDrawn
     DEF CommitSummary, AfterSummary, Flush, queue, Drawn, CompletedHasArtwork
<1>7. CASE OfferImage
  <2>1. /\ task' \in [Kinds -> TaskStates]
        /\ task'["image"] = "running" => task["image"] = "running"
    BY <1>7, <1>0, EnqueueStartsNothing DEF OfferImage, Drawn
  <2> QED
    BY <1>7, <2>1, <1>0, GotoKeepsDrawn DEF OfferImage, article, Drawn, CompletedHasArtwork
<1>8. CASE SummaryFailsForNow
  BY <1>8, <1>0, GotoKeepsDrawn DEF SummaryFailsForNow, queue, Drawn
<1>9. CASE OfferImageFails
  BY <1>9, <1>0, GotoKeepsDrawn
     DEF OfferImageFails, article, queue, Drawn, CompletedHasArtwork
<1> QED BY <1>1, <1>2, <1>3, <1>4, <1>5, <1>6, <1>7, <1>8, <1>9 DEF SummarizeStep

LEMMA ImageKeepsDrawn ==
  ASSUME Drawn, ImageStep \/ DrawFails
  PROVE  Drawn'
<1> USE PlainLabels
<1>0. "image" \in Kinds
  BY DEF Kinds
<1>1. CASE BeginImage
  <2>1. PICK l \in {"ok", "draw"} : Begin("image", l)
    BY <1>1 DEF BeginImage
  <2> QED BY <2>1, <1>0, BeginKeepsDrawn
<1>2. CASE DrawImage
  <2>1. pc' \in [Kinds -> Labels]
    BY <1>2 DEF DrawImage, Goto, Drawn, Labels
  <2> QED BY <1>2, <2>1 DEF DrawImage, queue, Drawn, CompletedHasArtwork
\* The only step that completes an article without looking at the file: it is at "stamp".
<1>3. CASE StampImage
  <2>1. art
    BY <1>3 DEF StampImage, Drawn
  <2> QED BY <1>3, <2>1, <1>0, GotoKeepsDrawn DEF StampImage, queue, Drawn
<1>4. CASE RejectStamp
  BY <1>4, <1>0, GotoKeepsDrawn DEF RejectStamp, article, queue, Drawn, CompletedHasArtwork
<1>5. CASE DrawFails
  BY <1>5, <1>0, GotoKeepsDrawn DEF DrawFails, article, queue, Drawn, CompletedHasArtwork
<1> QED BY <1>1, <1>2, <1>3, <1>4, <1>5 DEF ImageStep

LEMMA RequestsKeepDrawn ==
  ASSUME Drawn, AddToInbox \/ CheckAfterInbox \/ AnalyzeSubmission \/ EnqueueProcess \/ RequestDies
  PROVE  Drawn'
<1>0. "process" \in Kinds /\ "image" \in Kinds
  BY DEF Kinds
<1>1. /\ task' \in [Kinds -> TaskStates]
      /\ task'["image"] = "running" => task["image"] = "running"
  BY <1>0, EnqueueStartsNothing
     DEF Drawn, AddToInbox, CheckAfterInbox, AnalyzeSubmission, EnqueueProcess, RequestDies, queue
<1>2. pc' = pc /\ art' = art /\ status' = status
  BY DEF AddToInbox, CheckAfterInbox, AnalyzeSubmission, EnqueueProcess, RequestDies, article
<1> QED BY <1>1, <1>2, RequestKeepsDrawn

LEMMA DrawnStep == Drawn /\ [Next]_vars => Drawn'
<1> SUFFICES ASSUME Drawn, [Next]_vars PROVE Drawn'
  OBVIOUS
<1>1. CASE UNCHANGED vars
  BY <1>1 DEF vars, article, queue, Drawn, At, CompletedHasArtwork
<1>2. CASE ProcessStep \/ ProcessError \/ EnqueueSummarizeFails
  BY <1>2, ProcessKeepsDrawn
<1>3. CASE SummarizeStep \/ SummaryFailsForNow \/ OfferImageFails
  BY <1>3, SummarizeKeepsDrawn
<1>4. CASE ImageStep \/ DrawFails
  BY <1>4, ImageKeepsDrawn
<1>5. CASE \E k \in Kinds : Finalize(k) \/ Crash(k)
  BY <1>5, FinalizeKeepsDrawn, CrashKeepsDrawn
<1>6. CASE AddToInbox \/ CheckAfterInbox \/ AnalyzeSubmission \/ EnqueueProcess \/ RequestDies
  BY <1>6, RequestsKeepDrawn
<1> QED BY <1>1, <1>2, <1>3, <1>4, <1>5, <1>6 DEF Next, Fault

\* A completed article has its image, however often its handlers are killed, retried and
\* run side by side: the status is derived from the file, or written after it.
THEOREM CompletedMeansDrawn == Spec => []CompletedHasArtwork
<1>1. Drawn => CompletedHasArtwork
  BY DEF Drawn
<1> QED BY <1>1, DrawnInit, DrawnStep, PTL DEF Spec

-----------------------------------------------------------------------------
(* Articles that are not lost *)

\* Outages only, and no more of them than retries.
Bearable == Hazards \subseteq {"outage"} /\ MaxFaults <= MaxRetries

Typed ==
  /\ task \in [Kinds -> TaskStates]
  /\ pc \in [Kinds -> Labels]
  /\ tries \in [Kinds -> Nat]
  /\ mem \in [Kinds -> Memory]
  /\ status \in Statuses /\ summary \in Texts \cup {NoText}
  /\ visible \in BOOLEAN /\ art \in BOOLEAN
  /\ faults \in 0..MaxFaults
  /\ analyzing = FALSE
  /\ text \in Texts \cup {NoText}
  /\ \A k \in Kinds : task[k] # "running" => pc[k] = "idle"

\* A handler asks for a retry after an outage only, so it always gets one.
RetriesAreLeft ==
  \A k \in Kinds : /\ tries[k] <= faults
                   /\ pc[k] = "retry" => tries[k] < faults

\* Processing: up to its hand-off nothing else is under way.
ProcessStage ==
  /\ task["process"] = "pending" => status = "new"
  /\ pc["process"] \in {"extract", "retry"} => status = "new"
  /\ pc["process"] = "report" =>
       status = "failed" \/ (status = "new" /\ tries["process"] < faults)
  /\ pc["process"] = "handoff" => status = "processing" /\ task["summarize"] = "none"
  /\ status = "new" => task["summarize"] = "none" /\ task["image"] = "none" /\ summary = NoText /\ ~art

\* The summary: an article in processing is before its hand-off or in these hands.
Summarizing == task["summarize"] = "pending" \/ pc["summarize"] \in {"empty", "write", "merge", "retry"}

SummarizeStage ==
  /\ Summarizing => status = "processing"
  /\ pc["summarize"] # "reuse"
  /\ pc["summarize"] \in {"write", "merge"} => mem["summarize"].text # NoText
  /\ pc["summarize"] = "merge" => mem["summarize"].status = "processing"
  /\ pc["summarize"] = "handoff" => status \in {"awaiting_image", "completed"}
  /\ status = "processing" =>
       /\ pc["process"] = "handoff" \/ Summarizing
       /\ summary = NoText /\ ~art /\ task["image"] = "none"

\* The image: it is drawn for an article that awaits it, and completes it.
ImageStage ==
  /\ task["image"] = "pending" => status = "awaiting_image" /\ ~art
  /\ pc["image"] \in {"idle", "draw", "stamp", "ok", "retry"}
  /\ task["image"] = "running" => pc["image"] # "idle"
  /\ pc["image"] \in {"draw", "stamp"} =>
       status = "awaiting_image" /\ mem["image"].status = "awaiting_image"
  /\ pc["image"] \in {"draw", "retry"} => status = "awaiting_image" /\ ~art
  /\ pc["image"] = "ok" => status = "completed"
  /\ status = "awaiting_image" => summary # NoText /\ (art => pc["image"] = "stamp")
  /\ status \in {"failed", "skipped"} => task["image"] = "none"

Delivery ==
  /\ Typed /\ RetriesAreLeft /\ Drawn
  /\ ProcessStage /\ SummarizeStage /\ ImageStage /\ ImageOnItsWay

\* What is to be shown of a step, besides Drawn.
Delivered == /\ Typed /\ RetriesAreLeft
             /\ ProcessStage /\ SummarizeStage /\ ImageStage /\ ImageOnItsWay

\* A summary is begun for an article in processing, which has none yet; so there is nothing
\* to reuse.
LEMMA BeginSummarizeDelivers ==
  ASSUME Bearable, Delivery, NEW found \in BOOLEAN, BeginSummarize(found)
  PROVE  Delivered'
<1> DEFINE l == SummarizePath(found)
<1>1. task["summarize"] = "pending" /\ status = "processing" /\ summary = NoText
  BY DEF BeginSummarize, Begin, Delivery, SummarizeStage, Summarizing
<1>2. l \in {"empty", "write"} /\ (l = "write" => text # NoText)
  BY <1>1 DEF SummarizePath
<1>3. /\ task' = [task EXCEPT !["summarize"] = "running"]
      /\ pc' = [pc EXCEPT !["summarize"] = l]
      /\ mem' = [mem EXCEPT !["summarize"] = Loaded]
      /\ status' = status /\ text' = text /\ summary' = summary /\ art' = art
      /\ visible' = visible /\ tries' = tries /\ hook' = hook
      /\ analyzing' = analyzing /\ faults' = faults
  BY DEF BeginSummarize, Begin, article, requests
<1> HIDE DEF l
<1>4. Typed' /\ RetriesAreLeft'
  BY <1>2, <1>3, SMTT(30)
     DEF Delivery, Typed, RetriesAreLeft, Loaded, Statuses, TaskStates, Labels, Returned, Kinds, Memory
<1>5. ProcessStage' /\ ImageStage' /\ ImageOnItsWay'
  BY <1>1, <1>2, <1>3, SMTT(30)
     DEF Delivery, Typed, ProcessStage, ImageStage, ImageOnItsWay, TaskStates, Labels, Returned,
         Kinds, Memory, At
<1>6. SummarizeStage'
  BY <1>1, <1>2, <1>3, SMTT(30)
     DEF Delivery, Typed, SummarizeStage, Summarizing, Loaded, TaskStates, Labels, Returned, Kinds, Memory
<1> QED BY <1>4, <1>5, <1>6 DEF Delivered

\* PROCESS_CONTENT: it takes a new article to its hand-off, or settles it.
LEMMA ProcessDelivers ==
  ASSUME Bearable, Delivery, ProcessStep \/ ProcessError
  PROVE  Delivered'
<1> USE ConstantsAssumption
    DEF Delivery, Delivered, Bearable, Typed, RetriesAreLeft, Drawn, CompletedHasArtwork, ProcessStage,
        SummarizeStage, Summarizing, ImageStage, ImageOnItsWay, Statuses, TaskStates, Labels,
        Returned, Kinds, Memory, At, Goto, article, queue, requests
<1>1. CASE BeginProcess
  BY <1>1 DEF BeginProcess, Begin, Loaded
<1>2. ASSUME NEW v \in Texts, CommitExtraction(v)
      PROVE  Delivered'
  BY <1>2 DEF CommitExtraction
<1>3. CASE CommitExtractionFailure
  BY <1>3 DEF CommitExtractionFailure, SummaryAfterFailure
<1>4. CASE CommitSkip
  BY <1>4 DEF CommitSkip
<1>5. CASE CommitRejection
  BY <1>5 DEF CommitRejection
<1>6. CASE ReportProcess
  BY <1>6 DEF ReportProcess
<1>7. CASE EnqueueSummarize
  BY <1>7 DEF EnqueueSummarize, Enqueue
<1>8. CASE ProcessError
  BY <1>8 DEF ProcessError, Disturb
<1> QED BY <1>1, <1>2, <1>3, <1>4, <1>5, <1>6, <1>7, <1>8 DEF ProcessStep

\* SUMMARIZE: it moves the article on from processing, and its check follows.
LEMMA SummarizeDelivers ==
  ASSUME Bearable, Delivery, SummarizeStep \/ SummaryFailsForNow
  PROVE  Delivered'
<1> USE ConstantsAssumption
    DEF Delivery, Delivered, Bearable, Typed, RetriesAreLeft, Drawn, CompletedHasArtwork, ProcessStage,
        SummarizeStage, Summarizing, ImageStage, ImageOnItsWay, Statuses, TaskStates, Labels,
        Returned, Kinds, Memory, At, Goto, article, queue, requests
<1>1. ASSUME NEW found \in BOOLEAN, BeginSummarize(found)
      PROVE  Delivered'
  BY <1>1, BeginSummarizeDelivers
<1>2. CASE SkipEmpty
  BY <1>2 DEF SkipEmpty
<1>3. CASE ReuseSummary
  BY <1>3 DEF ReuseSummary
<1>4. CASE SummaryFails
  BY <1>4 DEF SummaryFails
<1>5. CASE SummaryReturned
  BY <1>5 DEF SummaryReturned
<1>6. CASE CommitSummary
  BY <1>6 DEF CommitSummary, Flush, AfterSummary
<1>7. CASE OfferImage
  BY <1>7 DEF OfferImage, Enqueue, Eligible
<1>8. CASE SummaryFailsForNow
  BY <1>8 DEF SummaryFailsForNow, Disturb
<1> QED BY <1>1, <1>2, <1>3, <1>4, <1>5, <1>6, <1>7, <1>8 DEF SummarizeStep

\* GENERATE_IMAGE: the status it loaded is still the status when it writes.
LEMMA ImageDelivers ==
  ASSUME Bearable, Delivery, ImageStep \/ DrawFails
  PROVE  Delivered'
<1> USE ConstantsAssumption
    DEF Delivery, Delivered, Bearable, Typed, RetriesAreLeft, Drawn, CompletedHasArtwork, ProcessStage,
        SummarizeStage, Summarizing, ImageStage, ImageOnItsWay, Statuses, TaskStates, Labels,
        Returned, Kinds, Memory, At, Goto, article, queue, requests
<1>1. CASE BeginImage
  BY <1>1 DEF BeginImage, Begin, Loaded
<1>2. CASE DrawImage
  BY <1>2 DEF DrawImage
<1>3. CASE StampImage
  BY <1>3 DEF StampImage, Flush, ArtworkCompletes
<1>4. CASE RejectStamp
  BY <1>4 DEF RejectStamp, ArtworkCompletes
<1>5. CASE DrawFails
  BY <1>5 DEF DrawFails, Disturb
<1> QED BY <1>1, <1>2, <1>3, <1>4, <1>5 DEF ImageStep

\* The inbox row is visible before its check, and the check sees what was committed.
LEMMA RequestDelivers ==
  ASSUME Bearable, Delivery, AddToInbox \/ CheckAfterInbox
  PROVE  Delivered'
<1> USE ConstantsAssumption
    DEF Delivery, Delivered, Bearable, Typed, RetriesAreLeft, Drawn, CompletedHasArtwork, ProcessStage,
        SummarizeStage, Summarizing, ImageStage, ImageOnItsWay, Statuses, TaskStates, Labels,
        Returned, Kinds, Memory, At, Goto, article, queue, requests
<1>1. CASE AddToInbox
  BY <1>1 DEF AddToInbox
<1>2. CASE CheckAfterInbox
  BY <1>2 DEF CheckAfterInbox, Enqueue, Eligible
<1> QED BY <1>1, <1>2

\* A handler that asked for a retry gets one, so a task ends only when its handler is done.
LEMMA FinalizeDelivers ==
  ASSUME Bearable, Delivery, NEW k \in Kinds, Finalize(k)
  PROVE  Delivered'
<1> USE ConstantsAssumption
    DEF Delivery, Delivered, Bearable, Typed, RetriesAreLeft, Drawn, CompletedHasArtwork, ProcessStage,
        SummarizeStage, Summarizing, ImageStage, ImageOnItsWay, Statuses, TaskStates, Labels,
        Returned, Kinds, Memory, At, Goto, article, queue, requests
<1>1. CASE k = "process"
  BY <1>1 DEF Finalize, MayRetry, Nothing
<1>2. CASE k = "summarize"
  BY <1>2 DEF Finalize, MayRetry, Nothing
<1>3. CASE k = "image"
  BY <1>3 DEF Finalize, MayRetry, Nothing
<1> QED BY <1>1, <1>2, <1>3

\* Nothing else is disturbed, and nobody submits the article again.
LEMMA NothingElseHappens ==
  ASSUME Bearable, Delivery
  PROVE  /\ ~ \E k \in Kinds : Crash(k)
         /\ ~ (RequestDies \/ EnqueueSummarizeFails \/ OfferImageFails)
         /\ ~ (AnalyzeSubmission \/ EnqueueProcess)
BY DEF Bearable, Delivery, Typed, Crash, RequestDies, EnqueueSummarizeFails, OfferImageFails,
       AnalyzeSubmission, EnqueueProcess, Disturb

LEMMA DeliveryInit == Init => Delivery
<1> SUFFICES ASSUME Init PROVE Delivery
  OBVIOUS
<1>1. Drawn
  BY DrawnInit
<1>2. Typed
  <2>1. Nothing \in Memory /\ status \in Statuses
    BY DEF Init, Nothing, Memory, Statuses
  <2>2. faults \in 0..MaxFaults
    BY ConstantsAssumption DEF Init
  <2> QED BY <2>1, <2>2 DEF Init, Typed, TaskStates, Labels, Returned, Kinds
<1> QED
  BY <1>1, <1>2, ConstantsAssumption
     DEF Init, Delivery, RetriesAreLeft, CompletedHasArtwork, ProcessStage, SummarizeStage,
         Summarizing, ImageStage, ImageOnItsWay, Kinds, At

LEMMA DeliveryStep == Bearable /\ Delivery /\ [Next]_vars => Delivery'
<1> SUFFICES ASSUME Bearable, Delivery, [Next]_vars PROVE Delivery'
  OBVIOUS
<1>1. Drawn'
  BY DrawnStep DEF Delivery
<1>2. Delivered'
  <2>1. CASE UNCHANGED vars
    BY <2>1 DEF vars, article, queue, requests, Delivery, Delivered, Typed, RetriesAreLeft,
                ProcessStage, SummarizeStage, Summarizing, ImageStage, ImageOnItsWay, At
  <2>2. CASE ProcessStep \/ ProcessError
    BY <2>2, ProcessDelivers
  <2>3. CASE SummarizeStep \/ SummaryFailsForNow
    BY <2>3, SummarizeDelivers
  <2>4. CASE ImageStep \/ DrawFails
    BY <2>4, ImageDelivers
  <2>5. CASE AddToInbox \/ CheckAfterInbox
    BY <2>5, RequestDelivers
  <2>6. CASE \E k \in Kinds : Finalize(k)
    BY <2>6, FinalizeDelivers
  <2> QED BY <2>1, <2>2, <2>3, <2>4, <2>5, <2>6, NothingElseHappens DEF Next, Fault
<1> QED BY <1>1, <1>2 DEF Delivery, Delivered

LEMMA DeliveryAlways == ASSUME Bearable PROVE Spec => []Delivery
<1>1. Delivery /\ [Next]_vars => Delivery'
  BY DeliveryStep
<1> QED BY <1>1, DeliveryInit, PTL DEF Spec

\* While a task outlives the outages it meets, no article is left in processing with
\* nobody at work on it (worker.py, summarize.py, queue.py finalize_task).
THEOREM ArticlesAreNotOrphaned == ASSUME Bearable PROVE Spec => []NeverOrphaned
<1>1. Delivery => NeverOrphaned
  <2> SUFFICES ASSUME Delivery, status = "processing" PROVE NeverOrphaned
    BY DEF NeverOrphaned
  <2>1. pc["process"] # "idle" \/ task["summarize"] = "pending" \/ pc["summarize"] # "idle"
    BY DEF Delivery, SummarizeStage, Summarizing
  <2> QED BY <2>1 DEF Delivery, Typed, NeverOrphaned, Kinds, TaskStates
<1> QED BY <1>1, DeliveryAlways, PTL

\* Under the same condition a visible article that awaits its image has an image task, or a
\* check still to come: whichever of summary and inbox row is committed last, its check sees
\* both (long_form_images.py enqueue_visible_long_form_image_if_needed).
THEOREM ImagesAreOnTheirWay == ASSUME Bearable PROVE Spec => []ImageOnItsWay
<1>1. Delivery => ImageOnItsWay
  BY DEF Delivery
<1> QED BY <1>1, DeliveryAlways, PTL

-----------------------------------------------------------------------------
(* The article as its reader sees it *)

Moves == [Lifecycle!Next]_(Lifecycle!lifecycleVars)

\* PROCESS_CONTENT meets a new article, and extracts or rejects it.
LEMMA ProcessMoves == ASSUME Delivery, ProcessStep \/ ProcessError PROVE Moves
<1> USE DEF Moves, Delivery, ProcessStage, At, article
<1>1. CASE \E v \in Texts : CommitExtraction(v)
  <2>1. Lifecycle!Extract
    BY <1>1 DEF CommitExtraction, Lifecycle!Extract
  <2> QED BY <2>1 DEF Lifecycle!Next
<1>2. CASE CommitExtractionFailure \/ CommitSkip \/ CommitRejection
  <2>1. Lifecycle!Reject
    BY <1>2 DEF CommitExtractionFailure, CommitSkip, CommitRejection, Lifecycle!Reject
  <2> QED BY <2>1 DEF Lifecycle!Next
<1>3. CASE BeginProcess \/ ReportProcess \/ EnqueueSummarize \/ ProcessError
  BY <1>3 DEF BeginProcess, Begin, ReportProcess, EnqueueSummarize, ProcessError,
              Lifecycle!lifecycleVars
<1> QED BY <1>1, <1>2, <1>3 DEF ProcessStep

\* SUMMARIZE meets an article in processing: what it decides from the row it loaded is
\* decided from the row as it is.
LEMMA SummarizeMoves ==
  ASSUME Delivery, SummarizeStep \/ SummaryFailsForNow PROVE Moves
<1> USE DEF Moves, Delivery, SummarizeStage, Summarizing, At, article
<1>1. CASE SkipEmpty \/ SummaryFails
  <2>1. Lifecycle!Reject
    BY <1>1 DEF SkipEmpty, SummaryFails, Lifecycle!Reject
  <2> QED BY <2>1 DEF Lifecycle!Next
<1>2. CASE CommitSummary
  <2>1. Lifecycle!Summarize
    BY <1>2 DEF CommitSummary, Flush, AfterSummary, Lifecycle!Summarize
  <2> QED BY <2>1 DEF Lifecycle!Next
<1>3. CASE SummaryFailsForNow
  BY <1>3 DEF SummaryFailsForNow, Lifecycle!lifecycleVars
<1>4. ~ ReuseSummary
  BY DEF ReuseSummary
<1>5. CASE (\E found \in BOOLEAN : BeginSummarize(found)) \/ SummaryReturned \/ OfferImage
  BY <1>5 DEF BeginSummarize, Begin, SummaryReturned, OfferImage, Lifecycle!lifecycleVars
<1> QED BY <1>1, <1>2, <1>3, <1>4, <1>5 DEF SummarizeStep

\* GENERATE_IMAGE meets an article that awaits its image.
LEMMA ImageMoves == ASSUME Delivery, ImageStep \/ DrawFails PROVE Moves
<1> USE DEF Moves, Delivery, ImageStage, At, article
<1>1. CASE DrawImage
  <2>1. Lifecycle!Draw
    BY <1>1 DEF DrawImage, Lifecycle!Draw
  <2> QED BY <2>1 DEF Lifecycle!Next
<1>2. CASE StampImage
  <2>1. art
    BY <1>2 DEF StampImage, Drawn
  <2>2. Lifecycle!Publish
    BY <1>2, <2>1 DEF StampImage, Flush, Lifecycle!Publish
  <2> QED BY <2>2 DEF Lifecycle!Next
<1>3. CASE BeginImage \/ RejectStamp \/ DrawFails
  BY <1>3 DEF BeginImage, Begin, RejectStamp, DrawFails, Lifecycle!lifecycleVars
<1> QED BY <1>1, <1>2, <1>3 DEF ImageStep

LEMMA StepMoves == Bearable /\ Delivery /\ [Next]_vars => Moves
<1> SUFFICES ASSUME Bearable, Delivery, [Next]_vars PROVE Moves
  OBVIOUS
<1>1. CASE UNCHANGED vars
  BY <1>1 DEF vars, article, Moves, Lifecycle!lifecycleVars
<1>2. CASE AddToInbox \/ CheckAfterInbox \/ \E k \in Kinds : Finalize(k)
  BY <1>2 DEF AddToInbox, CheckAfterInbox, Finalize, article, Moves, Lifecycle!lifecycleVars
<1>3. CASE ProcessStep \/ ProcessError
  BY <1>3, ProcessMoves
<1>4. CASE SummarizeStep \/ SummaryFailsForNow
  BY <1>4, SummarizeMoves
<1>5. CASE ImageStep \/ DrawFails
  BY <1>5, ImageMoves
<1> QED BY <1>1, <1>2, <1>3, <1>4, <1>5, NothingElseHappens DEF Next, Fault

\* What a reader of the feed may rely on: handlers that decide from rows loaded minutes before
\* still move the article forward only, and complete it only with its image (worker.py,
\* summarize.py, generate_image.py, content_status_state_machine.py).
THEOREM LifecycleImplemented == ASSUME Bearable PROVE Spec => ImplementsLifecycle
<1>1. Init => Lifecycle!Init
  BY DEF Init, Lifecycle!Init
<1>2. Delivery /\ [Next]_vars => [Lifecycle!Next]_(Lifecycle!lifecycleVars)
  BY StepMoves DEF Moves
<1> QED
  BY <1>1, <1>2, DeliveryAlways, PTL DEF Spec, ImplementsLifecycle, Lifecycle!Spec
==============================================================================

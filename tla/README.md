# A verification project for Newsly

Newsly is a FastAPI backend with Postgres, a fleet of worker processes, an iOS client and a Go CLI. It collects
articles, podcasts and news, and brings each of them through a chain of background tasks: analyse, process,
transcribe, summarize, draw an image. Around that chain are chats, discovery of feeds, X bookmarks and a personal
library. This directory holds TLA+ models of the parts in which concurrency, failure and order matter, the TLC runs
that check them on small instances, and TLAPS proofs of the most important results for every value of the constants.

Paths below are relative to the repository root. Run `tlc -config X.cfg M` for a model-checking run and
`tlapm M.tla` for the proofs of a module.

1. Inventory — 2. Modules — 3. Runs — 4. Fairness — 5. Proofs — 6. What the models showed — 7. What is not modelled

## 1. Inventory: the system's components

| Component | State it keeps | Operations | Interacts through |
|---|---|---|---|
| **Task queue** `app/services/queue.py`, table in `app/models/schema.py` | `processing_tasks` rows: status, dedupe key, retry count, lease (`locked_by`, `lease_expires_at`), `available_at`, `started_at`; one rotation cursor per service object | enqueue, dequeue, renew_lease, finalize_task, complete_task, retry_task, cleanup_old_tasks, statistics | Postgres rows, `pg_notify` |
| **Workers** `app/pipeline/sequential_task_processor.py`, `scripts/run_workers.py` | the envelope of the current task, a heartbeat thread | poll, claim, run the handler, renew in the background, finalize, survive database errors | the queue's rows |
| **Watchdog** `scripts/watchdog_queue_recovery.py` | nothing between cycles; ORM objects within one | move media tasks, requeue stale tasks, post to Slack, commit | the queue's rows, without locks |
| **Long-form pipeline** `app/pipeline/worker.py`, `handlers/summarize.py`, `handlers/generate_image.py`, `services/content_status_state_machine.py`, `services/long_form_images.py`, `services/content_lifecycle.py` | `contents.status`, metadata (summary, fingerprint), image files | PROCESS_CONTENT, SUMMARIZE, GENERATE_IMAGE, the image check after an inbox change | enqueues follow-up tasks; shared `contents` row |
| **Metadata merge and bodies** `services/content_metadata_merge.py`, `services/content_bodies.py` | the metadata JSON; `content_bodies` rows and the objects they name | diff a handler's changes and apply them to the latest snapshot; put, point, strip, resolve | called by every handler; object storage |
| **Submission, scraping, URL analysis** `services/content_submission.py`, `scraping/base.py`, `pipeline/workflows/analyze_url_workflow.py` | `contents`, `content_status` (inbox) rows | create or reuse a row, add to inbox, enqueue analysis or processing, subscribe to a feed | queue, image check |
| **Media handlers** `pipeline/podcast_workers.py`, `handlers/process_podcast_media.py`, `handlers/*tweet_video.py` | audio and video files, transcript | download, transcribe, hand over to SUMMARIZE | queue, `contents` |
| **Checkout** `pipeline/checkout.py` | `contents.checked_out_*` | a lease on content rows | no production caller |
| **News** `services/news_*.py`, `handlers/process_news_item.py`, `handlers/enrich_news_item_article.py` | news items: status, metadata, representative, cluster size | ingest, enrich, summarize, relate, attach discussions | queue |
| **Chat, council, deep research** `routers/api/chat.py`, `services/chat_agent.py`, `services/council_chat.py`, `services/dig_deeper.py` | messages with a status; child sessions and the council row | send, answer in a background task or a queue worker, poll; start, select, retry, follow up | server process memory, rows, queue |
| **Authentication, CLI link** `routers/auth.py`, `services/cli_link.py`, `client/.../APIClient.swift`, `KeychainManager.swift` | link sessions, API keys; the app's keychain | start, approve, claim, expire; request, refresh, log out | rows, HTTP |
| **X integration** `services/x_integration.py` | OAuth grant, sync cursor, ledger of synced posts | connect, refresh, sync, look a tweet up, disconnect | queue, remote API |
| **Feeds, discovery, onboarding** `services/onboarding.py`, `services/feed_discovery.py`, `services/weekly_discovery_chat.py`, `client/.../OnboardingViewModel.swift` | feed configurations, runs, suggestions, the weekly chat, the app's saved progress | search, suggest, answer, subscribe, backfill, poll, complete | queue, providers, HTTP |
| **Read state, knowledge, library** `repositories/knowledge_repository.py`, `services/personal_markdown_library.py` | per-user rows; markdown files | save, remove, reconcile the files | rows, file system |
| **Providers** (models, images, speech, search, HTTP) | circuit breakers, caches and tokens of podcast search; otherwise none | remote calls | return values |
| **API, queries, administration** `queries/`, `repositories/`, `routers/` | - | cursor-paginated lists, read paths, operator commands | HTTP |
| **Scrapers and strategies; iOS client, Go CLI; migrations** | the app's lists | parsing, user interface, loading pages | HTTP |

How they fit together: a request or a scraper writes a row and *then* enqueues a task. A worker claims the
task, its handler loads rows in one transaction, makes calls that take seconds or minutes, writes in
another transaction, and enqueues the next task in a third. The task's own outcome is recorded in a fourth.
Nothing ties these transactions together except the queue's promise to run an interrupted task again.

The behaviours that are hard here follow from that:

* **Leases and time.** A task belongs to a worker for `worker_timeout_seconds`, renewed by a daemon thread.
  A dead worker's lease must run out, a live worker's must not, and `finalize_task` does not check who holds it.
* **Load, then commit.** `finalize_task`, the watchdog and every handler compute from a loaded row and write
  later. SQLAlchemy writes only attributes that changed since the load, so the row can end up as a mixture.
* **Hand-offs.** Each stage commits its result before the next task exists; a crash or an error in between
  leaves work that only a retry can recover, and the retry may take another path through the code.
* **Absorbed enqueues.** The unique index over active dedupe keys absorbs an enqueue while a task of that key
  runs, although the running handler has read its input already.
* **Two checks, two commits.** An image is wanted when an article is both summarized and visible. The two facts
  are committed by different processes, each of which checks afterwards.
* **Requests that overlap.** Endpoints are asynchronous and await model calls between what they read and what they
  write (chat, council); the app polls, times out, is killed and resumes; threads share breakers and tokens.
* **Two stores.** Bodies and markdown files live outside the database; the row and the file change apart.

What makes each component correct, in the order of importance this project gives them:

* queue and workers: at most one active row per dedupe key; a task runs in one worker at a time; a failed run
  is repeated at most `max_retries` times; a settled task stays settled; every accepted task is settled in
  the end; no row is left where `dequeue` cannot find it; no retry bucket is forgotten;
* pipeline: a completed article has its image; no article is left in `processing` or `awaiting_image` without a
  task that will move it on; status moves forward only; what was heard is in the summary;
* submissions: a new row has somebody who goes on with it; news: no item hides for ever, a story is shown once;
* chat: no message stays `processing` while nobody works on it, an answer stays an answer, a turn sees the settled
  turns before it; council: a candidate is an answer of its own branch;
* sign-in, linking, X: a session ends only for a reason, a linked CLI holds the key that was minted for it,
  a disconnect is final, a grant is lost only with a token that was never stored, no bookmark is passed over;
* onboarding and discovery: who is told that all is done has the feeds that were chosen; one weekly chat;
* metadata, bodies, library: a merge loses nothing but what is committed in its window, a readable body stays readable, the files on disk can be
  repaired.

`PROJECT.json` lists the hazards with the line at which each of them bites and the properties that would notice.

## 2. Modules

| Module | Role | Properties checked |
|---|---|---|
| `TaskQueue` | queue rows, workers with heartbeat threads, watchdog, operator calls, clock | `TypeOK`, `ActiveKeyUnique`, `ExclusiveExecution`, `TerminalIsFinal`, `Reclaimable`, `BoundedOvershoot`, `EventuallySettles` |
| `TaskContract`, `TaskQueueContract` | the abstract queue that enqueueing code may rely on; the refinement mapping | `ImplementsContract` |
| `RetryBuckets` | the order in which `dequeue` looks at retry counts | `SteadyRotation` |
| `ContentPipeline` | one article through three kinds of tasks, requests and resubmissions | `CompletedHasArtwork`, `NeverOrphaned`, `ImageOnItsWay`, `AwaitingImageCompletes`, `EventuallySettles` |
| `ArticleLifecycle`, `ContentLifecycle` | the abstract article that a reader of the feed may rely on; the refinement mapping | `ImplementsLifecycle` |
| `MetadataMerge` | handlers that change one metadata document at the same time | `NothingLost` |
| `ContentBodies` | bodies in a bucket or on a disk, and the rows that name them | `BodyStays` |
| `Intake` | submissions, subscriptions, scrapes and analyses of one URL | `NothingStranded`, `SubmissionSettles` |
| `MediaPipeline`, `MediaInvariant` | a podcast episode or a post with a video, up to its summary; why nothing that was heard is lost | `HeardAndSummarized` |
| `NewsClusters` | news items from ingestion to a place in the feed | `NoMutualHiding`, `NeverForgotten`, `OneRepresentative`, `CountsMembers`, `MetadataKept`, `EventuallySettled` |
| `ChatTurns` | the turns of one chat session | `NothingAbandoned`, `ContextSound`, `BoundedRepeats`, `AnswerStays`, `QueuedIsSettled` |
| `CouncilChat` | a chat forked into one branch per persona | `CandidatesAreReal`, `RowMatchesSession`, `AnsweredBranchShownOnce` |
| `CliLink` | one QR session between app, CLI and key store | `LinkedWithKey`, `NoStrayKey` |
| `ClientSession` | the app's tokens, requests and shared refresh | `SessionKept` |
| `FeedPaging` | a list of the app and the pages it is made of | `NothingHidden` |
| `XSync` | the OAuth grant and the bookmark synchronization | `DisconnectHolds`, `GrantKept`, `NothingPassedOver`, `BookmarksArrive` |
| `Onboarding` | a new user's first minutes | `OnboardedWithSources`, `DiscoveryAnswers` |
| `FeedDiscovery` | suggested feeds, their answers, the weekly chat | `OneWeeklySession`, `SubscribedHasFeed` |
| `PersonalLibrary` | markdown files that follow saves and chats | `LibraryRepaired` |
| `PodcastSearch` | providers with circuit breakers, a cache, a shared token | `FailingIsSpared`, `RefusedIsNotReused` |
| `Background`, `Chat`, `Services` | compositions: components side by side, one of them on the scene (section 3) | the properties named by component in section 3 |
| `MC*` and `*.cfg` | instances for TLC | |
| `*Proofs` | theorems about the module of that name (section 5) | |

The modules share conventions. `Hazards` or `Disturbances` names what may go wrong in a run, and `MaxFaults` bounds
how often; `Disturb(d)` is the guard of every such action. A handler is cut at its commits and at its long calls, and
`job`, `mem` or `call` holds what its session had loaded. A queue task outside `TaskQueue` is what `TaskContract`
promises of it: it is claimed, settled or repeated, and repeated when its worker dies. So the timed queue
need not be multiplied with every service, and `ImplementsContract` says when that is justified.

### TaskQueue

Every column a decision depends on is a function on `Tasks`. Timestamps are kept relative to the database clock:
`lease[t]` is the time left, `available[t]` the delay left, `age[t]` the time since `started_at`. `Tick` moves them
all, so there is no clock to bound. `locked_by` and `lease_expires_at` are always written together, so a cleared
lease is `locked_by = NoWorker`.

| Action | Code |
|---|---|
| `Enqueue` | `QueueService.enqueue`; an absorbed enqueue writes nothing and is no step |
| `Claim` | `dequeue` plus the start of the heartbeat thread and the handler |
| `Renew`, `HeartbeatDies` | one round of `_lease_heartbeat`'s thread with `renew_lease`; an exception in it |
| `LoadForFinalize`, `CommitFinalize` | the two ends of `finalize_task`'s session |
| `FinalizeMissing`, `FinalizeRejected`, `FinalizeDbError` | row gone; index violated or row deleted at commit; `OperationalError` |
| `Crash` | the worker process is killed; supervisor starts another with the same `worker_id` |
| `WatchdogLoad`, `WatchdogCommit`, `WatchdogRollback` | `_requeue_stale_tasks` and the commit of the cycle after the Slack call |
| `RetryTask`, `CompleteTask`, `Cleanup` | the other operations of the service |
| `Tick` | time passes; unless the hazard `pause` is on, not past a due heartbeat |

`Flush(old, new, current)` is SQLAlchemy's unit of work: a column is written only if its new value differs from
the loaded one. It decides what a stale finalization leaves in the row.

`Hazards` names the disturbances a run allows and `MaxFaults` bounds their number. Properties promised only in a
restricted environment say so: `Quiet` means that workers may die and finalizing transactions may be lost, and
nothing else. Outside `Quiet` they are false of this code: with a late heartbeat two workers run one task, and the
slower one's `finalize_task` overwrites what the faster one recorded. What still holds there is `BoundedOvershoot`
with two workers or one retry, `Reclaimable` with two workers and neither watchdog nor operators (both in the scene stale
of `background`) and, always, `ActiveKeyUnique`.

Abstractions: `Claim` takes any claimable row, since the order is `RetryBuckets`' subject; the retry delay is any
element of `Delays` (the code takes the handler's choice or a backoff); an invalid payload is a fatal outcome; the
watchdog's families of task types are loaded in one step, with one staleness limit; `complete_task`, `retry_task`
and `cleanup_old_tasks` are atomic (no production code calls them but the gateway, and their sessions make no call
in between); idle waits and notifications choose when a poll happens and are covered by interleaving.

### RetryBuckets

A bucket is the set of claimable rows with one retry count. `Dequeue(avail, lost)` is one call that found the
buckets `avail` non-empty while other workers took all rows of `lost`. Between calls the list changes freely, as
it does in the table. `skipped` is a history variable: how often in a row, with an unchanged list, a bucket was
not reached.

### ContentPipeline

One long-form article. Text is a version of the extracted body; a summary is identified with the version it
was made from, which is what `summarization_input_fingerprint` records. Each kind of task has a worker's view
(`pc`, `mem`): handlers are cut at their commits and at their long external calls, and `mem` is what they loaded.

| Actions | Code |
|---|---|
| `BeginProcess`, `CommitExtraction`, `CommitExtractionFailure`, `CommitSkip`, `CommitRejection`, `ProcessError`, `ReportProcess`, `EnqueueSummarize(Fails)` | `ContentWorker.process_content`, `_process_article`, `ProcessContentHandler.handle` |
| `BeginSummarize`, `SkipEmpty`, `ReuseSummary`, `SummaryFailsForNow`, `SummaryFails`, `SummaryReturned`, `CommitSummary`, `OfferImage(Fails)` | `SummarizeHandler.handle` |
| `BeginImage`, `DrawImage`, `DrawFails`, `StampImage`, `RejectStamp` | `GenerateImageHandler.handle`, `_generate_infographic` |
| `AddToInbox`, `CheckAfterInbox`, `RequestDies` | `submit_user_content` for an existing row |
| `AnalyzeSubmission`, `EnqueueProcess` | `AnalyzeUrlWorkflow.run` for a submission with instructions: the status check, and the enqueue after the session is closed |
| `Finalize`, `Crash` | the worker around the handler |

Abstractions: the row exists and its process task is pending at the start; loads directly followed by their commit
are one step; metadata other than the summary is left out; `art` stands for the image file, which is what
`has_generated_long_form_image` looks for; storage may have lost a body, in which case SUMMARIZE skips. Not in the
model: the reuse of a summary by `process_content` (it needs a legacy body inside the metadata, which storage
strips), articles whose classification or missing fields make the image check leave them out, dig-deeper requests;
podcasts and posts with a video are `MediaPipeline`. The model lets a process and a summarize task of the article run at the same time:
`supervisor.conf` starts one content worker, but `--worker-slot` exists to start more, and nothing in the handlers
depends on there being one. A killed ANALYZE_URL handler counts as one that is still to enqueue.

`ArticleLifecycle` is what a reader of the feed may rely on; `ContentLifecycle` maps the pipeline onto it.

### MediaPipeline

A podcast episode or a post with a video, whose words must be heard before they can be summarized. `spoken` is drawn at
the beginning, as are captions. Process, media, download, transcription and summary tasks each have a view `mem` of the
row as their session loaded it; a handler that keeps the row open through a long call writes all of
`content_metadata` back. An exception on the way to a transcript degrades a post to its text. The milliseconds between a
handler's return and its finalization, into which an enqueue could fall and be absorbed, are the disturbance `late`,
which no run allows.

### Intake

A row is named by the request that inserted it. `FindExisting`, `InsertRow`, `InsertConflict`, `EnterInbox`,
`MergeIntoTask` and `InsertTask` are the steps of `submit_user_content`, `ScrapeFindsArticle`, `ScrapeInserts` and
`ScrapeEnqueues` those of `_save_items_with_stats`, the rest are the analysis task. `race` lets two requests insert at
once, `twin` a scraper that looks for the URL under another type, `death` a request that dies between its commits,
`crash` a worker. The mark `subscribe_to_feed` of the row is committed by the submission, survives every merge of metadata
and is read twice: by the analysis when it begins, with its payload, and by PROCESS_CONTENT when it loads the row
(`BeginProcess`), which subscribes instead of summarizing (`worker.py:546-579`, in `Processed`). `reading` is what such a
task has read, and `heard`, a history variable, are the rows whose mark a task has read. Of the rest of the content
pipeline only the outcome is kept.

### MetadataMerge and ContentBodies

`MetadataMerge` is `compute_metadata_patch` and `refresh_merge_content_metadata` with overlapping handlers. `ReadLatest`
is a plain SELECT, an object is stored after it, and `Commit` follows: any other handler may commit in between. `Wholesale`
are handlers that write their snapshot back. Two ghosts: `wanted` is the document with every change applied when its handler
commits, and `torn` are the keys whose last change was committed while another handler was between its read and its
commit (`job[h].passed` collects what passes a handler). `NothingLost` says that only those can be lost.

`ContentBodies` is the text that is taken out of that document. Per variant it keeps what is inline, what the
row names, and what is stored under each digest's key: nothing, a whole object or a torn file. Objects are never
deleted. `Put` and `Commit` are apart, the latter moves the pointer and strips the inline text at once. With `Local`, a
file is truncated and then written. `crash` is a death between two calls, `death` one inside a write.

### NewsClusters

Ingestion, enrichment, discussions, summaries and clusters of news items. Which items tell one story is the constant
`Story`; embeddings are left out. The finalizing transaction of `process_news_item` loads its candidates one by one
(`job[w].met`), which decides what its flush writes. Disturbances: `crash` and `failure` of a handler, `duplicate` (the
enrichment handler enqueues without deduplication, so a repeated run makes two tasks), `scraper` (dies between commit and
enqueue), `rescrape` (a listed item is met again).

`raw_metadata` is one column that everybody writes whole, from what the session has loaded: a scraper that meets the item
again, whatever its status (`MeetAgain` loads, `Rescrape` commits), enrichment, discussion, summary, and the payload on the
cluster that goes to the representative (`Tells`). `behind` is a history variable: the rows that were committed since a
session loaded them. `MetadataKept` says that only a session which is behind drops a key; no session is made to lose by its
own earlier commit.

### ChatTurns and CouncilChat

`ChatTurns` is one session. A prompt is a row and a *run*; the kind of the run says who serves it: the agent, the
assistant, deep research (all in the server's memory), or a dig-deeper task of the queue. `run[r].context` is the
history that was read, `known[r]` what the user had seen answered when asking. A restart ends every run of the server and
leaves its rows, a worker's death makes the queue run the task again, a database error strikes while an outcome is recorded.

`CouncilChat` is one council with a branch per persona. Rows carry ids in the order of creation and `of`, the row they
are a copy of, which is what "shown twice" means. `StartCouncil` commits all children at once, the personas answer in
parallel, `SelectBranch`, `SendFollowUp` and retries overlap with them. The unit of work of a retry is modelled with what
it loaded before its model call, what it expired and what it set.

### CliLink, ClientSession, FeedPaging

`CliLink`: minting commits before approving does, so an approval is two steps; a poll is a read and a commit; the answer
that reveals the key may be lost. Overlapping approvals are the disturbance `overlap`.

`ClientSession`: tokens are numbers of the pair they belong to. `FindTask`, `UseCached` and `StartTask` are the three
answers of `RefreshCoordinator` to a 401, in which only the registration of a task is atomic. The launch check
is a caller of its own. An answer may be lost (`loss`), or be a 200 that cannot be decoded (`garbled`): of a refresh
(`RefreshUnread`), of the first `/auth/me` (`LaunchUnread`, which keeps the tokens) or of what a launching app asks from its
refresh on (`LaunchMisreads`, which logs out). The server keeps no session: it accepts any token it issued that has not expired.

`FeedPaging`: the server's side is the sort by (timestamp, id) and the cursor's filter, the app's side the appending of
pages with a removal of duplicates, the loading flags, and the optimistic removal of what is marked as read. `steady` is
a ghost: contents that could be seen since the first page was asked for.

### XSync

The OAuth grant with its rotating refresh token, and a synchronization that reads pages down to the cursor, submits oldest
first, and moves the cursor at the end. Agents are sync tasks and tweet lookups: both refresh the same grant. `refresh`,
`active` and the loaded copies decide what a flush writes after a disconnect or a new exchange. X replaces the refresh token
before its answer arrives: `RefreshLost` loses the answer, `Fails` and `AgentDies` strike before the commit too, and each of
them sets the history variable `lost`. The next refresh is then refused and deactivates the connection.

### Onboarding and FeedDiscovery

`Onboarding` composes the app (its step, its saved progress, its polling and resuming), the endpoints, the discovery
worker and the backfill. `FeedDiscovery` is a week: discovery tasks, which are not deduplicated, each with its run;
the enrichment of onboarding beside them; the endpoints that subscribe, dismiss and clear; and the weekly chat. What is found
is any set of feeds. The endpoints run one at a time, each queue has the single worker of `supervisor.conf`; the disturbances
`race` and `workers` drop that and are used by no run.

The request that completes onboarding goes on in one session after an error it swallowed. `ConfigureFails` tells three cases
apart: a failure inside the transaction leaves the session unusable (`broken`), so the flag is not set; when the connection
is gone after the commit, at the read-back, the row is stored, its id is unknown, and the session works on (`closed`) as soon
as the database does. `missed`, a history variable, are the feeds of the last case.

### PersonalLibrary

Saves, chats and names of contents in the database, files on disk. A call commits its change and reconciles one content;
a chat turn reconciles all. A reconciliation reads the reasons, then loads and scans, then deletes and writes file by
file (`ReadReasons`, `Scan`, `DeleteStale`, `Rewrite`, `Write`); any other step may fall in between. Archiving a chat
and storing another title reconcile nothing. `alone` is a ghost: whether anything else happened since the call began.

### PodcastSearch

Each thread asks the providers in order: check the breaker, call, record. `failures` and `openUntil` are the breaker's
state, as in the code not reset when a period ends. Spotify's token is shared, dropped by whoever is refused and fetched
under a lock. Time is a tick counter bounded by `MaxTime`. `asked` is a ghost: calls since the circuit was last closed
by a success or a period's end.

## 3. Runs

The components share no state but the queue, whose contract stands in for it. So several instances are checked
in one run: a variable `scene` is drawn at the beginning and never changes, only the component on the scene takes
steps, and the others stay in one initial state. A property of a component is `scene = ... => Component!Property`.
`Background`, `Chat` and `Services` are such compositions. They fix which disturbances a scene has, since a property
depends on that, and leave everything else (sets, retry bounds, windows, the number of disturbances `Faults[scene]`) to
constants, so that the theorems of section 5 are about the very formulas that the runs check. `MCLive` composes in the
same way for TLC alone.

Passing runs:

| Run | Environment and bounds | Shows | Size |
|---|---|---|---|
| `queue_quiet` | 2 rows, 2 workers, 1 key, crashes and lost finalizations (2 faults), `MaxRetries` 2, lease 3, beat 1 | `TypeOK`, `ExclusiveExecution`, `TerminalIsFinal`, `ImplementsContract` | 11 thousand states |
| `queue_shared` | 2 rows of one key, 1 worker, every hazard with the watchdog and operators (2 faults) | `ActiveKeyUnique` | 190 thousand |
| `background` | 8 scenes, see below | `SteadyRotation`, `BoundedOvershoot`, `Reclaimable`, `NoNewsLost`, `OneRepresentative`, `MetadataKept`, `BodyStays`, `LibraryRepaired` | 840 thousand |
| `pipeline_storm` | crashes, outages, failed hand-offs, resubmissions in any mixture (2 faults), `MaxRetries` 1, two texts | `CompletedHasArtwork` | 200 thousand |
| `chat` | 5 scenes | `NothingAbandoned`, `ContextSound`, `BoundedRepeats`, `AnswerStays`, `CouncilRowSound`, `AnsweredBranchShownOnce`, `SessionKept`, `NothingHidden` | 1 million |
| `services` | 13 scenes | `NothingStranded`, `ProviderIsSpared`, `ConnectionFollowsUser`, `NothingPassedOver`, `LinkedWithKey`, `HeardAndSummarized`, `OnboardedWithSources`, `OneWeeklySession`, `SubscribedHasFeed`, `NothingLost` | 2.1 million |
| `live` | 6 scenes, fairness | `NeverOrphaned`, `ImageOnItsWay`, `AwaitingImageCompletes`, `ArticleSettles`, `ImplementsLifecycle`, `TasksSettle`, `IntakeSettles`, `BookmarksArrive` | 51 thousand |

Scenes:

| Run | Scene | Instance |
|---|---|---|
| `background` | stale | `TaskQueue`: 1 row, 2 workers, late and dead heartbeats too, 3 faults, `MaxRetries` 1 |
| | buckets | `RetryBuckets`: `MaxRetries` 3, the default setting |
| | cluster | `NewsClusters`: 3 items of one story, 1 worker; crash, failure, duplicate (2) |
| | press | `NewsClusters`: 2 items, 2 workers; crash, failure, scraper, rescrape (2) |
| | bucket, disk | `ContentBodies`: 2 handlers, 2 texts, with objects (death anywhere) or files (death between writes) (2) |
| | page, shelf | `PersonalLibrary`: two calls about one content; one call at a time over two contents; failure, edit |
| `chat` | turns | `ChatTurns`: 3 requests of all kinds; restart, worker, database (1) |
| | overlap, storm | `CouncilChat`: 2 personas; two overlapping retries; or a second start, restarts and failed retries |
| | client | `ClientSession`: 2 requests and the launch, 3 pairs of tokens; loss, garbled, restart, expire (1) |
| | list | `FeedPaging`: 3 contents, two with one timestamp, pages of one row; again, failure (1) |
| `services` | podcasts | `PodcastSearch`: 2 threads, 1 provider with a token, threshold 2; outage, revoke (2) |
| | bookmarks, grant | `XSync`: one agent over 4 posts with failures, deaths and reconnections (3); two agents that refresh one grant and die (2) |
| | link, tangled | `CliLink`: 3 approvals; lost answers; and approvals that die (2) |
| | gate, rush | `Intake`: two submissions, a subscription and a scrape of one URL; crashes; and everything (2) |
| | merge | `MetadataMerge`: 2 handlers, 2 keys, one of them preserved |
| | episode, post | `MediaPipeline`: crash, outage, handoff (2), `MaxRetries` 2 |
| | first minutes | `Onboarding`: 2 runs, 2 sources; kill, loss, outage, crash (1) |
| | week, answers | `FeedDiscovery`: two discoveries in a week; two suggestions answered together; crash, outage, elsewhere (1) |
| `live` | article | `ContentPipeline`: outages within the retry budget (2 of 2) |
| | queue, turns, news, bookmarks, gate | the components named above with 1 or 2 faults |

Properties that join parts: `NoNewsLost` is `NoMutualHiding` in both news scenes and `NeverForgotten` in cluster;
`OneRepresentative` adds `CountsMembers`; `CouncilRowSound` is `CandidatesAreReal` and, in overlap, `RowMatchesSession`;
`ConnectionFollowsUser` is `DisconnectHolds` and, in bookmarks, `GrantKept`; `ProviderIsSpared` is `FailingIsSpared` and
`RefusedIsNotReused`; `OnboardedWithSources` adds `DiscoveryAnswers`; `TasksSettle` is `EventuallySettles` of the queue and
`QueuedIsSettled` of the chat; `IntakeSettles` is `EventuallySettled` of the news and `SubmissionSettles` of the submissions.

Why the bounds are enough to be interesting. Two workers, handlers, threads or requests are what a race over one row
needs, two rows what a key conflict needs, and three items or requests let a third one meet what two have left. A lease of two or three
ticks with a heartbeat every tick lets a lease be renewed, run out under a live worker, and run out after a crash. The
retry bound is reached, so the last retry and the failure after it happen. Faults are few, but two in one behaviour let
a second disturbance hit the recovery from the first. Two versions of a text are what an out-of-date summary or body
needs; two contents with one timestamp make the cursor's tie-break matter; 4 posts are more than a window of 2; the
cooldown of 2 ticks within 5 lets a circuit open, close and open again. In the scenes with one fault a larger bound
only multiplied the states, except where section 6 says what a second fault breaks. The proved properties (section 5) do
not depend on these bounds.

Each property of a passing run has at least one mutant in `PROJECT.json`: a definition changed the way a plausible bug
would change the code, with which TLC finds the property violated under the run's own configuration.

Runs that are expected to find a violation, each of one statement the repository makes:

| Run and property | Statement | What the code does |
|---|---|---|
| `queue_watchdog`: `RequeuesOnlyProcessing` | "Requeue stale processing tasks" (`scripts/watchdog_queue_recovery.py:182`) | rows are loaded, Slack is called, then the session commits without a re-check: a task finished in between goes back to pending and runs again |
| `pipeline_guard`: `ArtworkGuard` | artwork "can only complete content from `awaiting_image` or `completed`" (`content_status_state_machine.py:56`) | the guard looks at the status loaded minutes before; a resubmitted article in `processing` is completed |
| `pipeline_handoff`: `AwaitingImageCompletes` | SUMMARIZE leads to GENERATE_IMAGE (`docs/architecture.md:712`), which moves the article to `completed` | the enqueue of the image task fails once; the retry finds the fingerprint unchanged, returns success and offers no image: the article stays in `awaiting_image` |
| `intake_subscribe`: `SubscriptionKept` | "Feed subscription queued" (`content_submission.py:317` and its test) | the subscription is merged into a PROCESS_CONTENT task that has read the row already (`worker.py:144-152`): the mark stays in the row and no task reads it |
| `feed_recent`: `PagesAdvance` | "Pagination cursor for next page" (`routers/api/read_status.py:116`) | the cursor of the recently read list keeps the read time only inside a hash, so the next page is the first one again |

Deadlock is checked in the queue and background runs; in the news scenes of `background`, `NewsRest` stutters, because
there is nothing left to do when every item is settled. The other runs switch the check off since their systems really stop:
a settled article, an answered chat, a used link session, a list at its end.

## 4. Fairness

`TaskQueue!Fairness`: the clock advances; a live worker keeps polling (`run`'s loop), renews when due (the thread's
loop) and finishes its handler; a watchdog cycle ends. The claim is weakly fair as a whole and not per row. That is
enough for `EventuallySettles` because the run has finitely many rows and each has a bounded number of retries;
with an endless supply of new rows the order of `dequeue` matters, which is why `RetryBuckets` is a module.
That handlers finish is an assumption: the code sets timeouts on its remote calls but not on a handler.

`ContentPipeline!Fairness`: processing and summaries share the content queue, images have their own
(`app/pipeline/task_specs.py`), and each queue has at least one worker (`supervisor.conf`), which does something as long
as there is something to do; nothing says that it prefers one kind. A request that added the article to an inbox goes
on to its check. Outcomes of extraction and of the model are free choices, with no fairness in favour of success.

`ChatTurns!Fairness`: a run that began goes on (`RunStep`), in the server or in its worker. `NewsClusters!Fairness`:
scrapers go on to their enqueue and workers poll. `XSync!Fairness`: an agent goes on, and a sync is begun again and again
(`SF` on `Begin(a, TRUE)`, since a disconnect or another agent may disable it in between): the scheduler enqueues
them for ever. `Intake!Fairness`: a request that began goes on (nobody needs to send one), analysis workers poll, the
pipeline ends. Nowhere is there fairness on crashes, errors, users or operators.

In `live` the components off the scene stay in states in which nothing fair is enabled, so the conjunction of all
fairness conditions is, in each behaviour, that of the component on the scene; the article's conditions are restricted to
its scene because its first task is pending from the start.

## 5. Proofs

The theorems hold for every number of rows, workers, threads, agents, keys, requests, items, posts, runs and texts,
every length of lease and heartbeat, every threshold, window, retry bound and bound on faults. What is assumed of the
constants is a named assumption of the module that declares them, which TLC evaluates in the runs:

| Assumption | Why the code justifies it |
|---|---|
| `BeatAssumption` (`TaskQueue`): the renewal interval is shorter than the lease | `_lease_heartbeat` renews at a third of the lease, but never more often than every 5 seconds: a lease of 5 seconds or less would break it |
| `SearchAssumption` (`Services`): finitely many threads; threshold and cooldown are at least 1 | `settings.py` bounds both from below, a process has a bounded pool of threads |
| `SyncAssumption`: a sync reads at least one bookmark | pages times page size, both constants of `x_integration.py` |
| `DiscoveryAssumption`: no run has the id 0, which stands for "no run" | ids are serial from 1 |
| `StaleAssumption` (`Background`): finitely many workers, at least one; `max_retries` is a natural number; no row is `NoTask` | a process per slot; the setting's type |
| `NewsAssumption`: no item is `NoItem`, no worker is an item | a representative is a row or NULL; the sessions of scrapers are named by items |
| `LibraryAssumption`: contents have ids that can be ordered | serial ids; a reconciliation goes through them in order |
| `CouncilAssumption` (`Chat`): a council has personas | `start_council_chat` asks for at least two |
| `ListAssumption`: finitely many contents, numbers as ids and timestamps, a page has a row at least | rows of a table; the endpoints bound `limit` from below |

What may go wrong is part of each statement. In the queue and the article it is a hypothesis; in the compositions it is the
scene's set of disturbances, the largest one we know the property to hold for.

| Theorem | Statement | Environment |
|---|---|---|
| *TaskQueueProofs* | | |
| `TypeCorrect`, `ActiveKeysUnique` | `[]TypeOK`, `[]ActiveKeyUnique` | any |
| `ExclusiveWhenQuiet`, `RetryBudgetWhenQuiet`, `ReclaimableWhenQuiet` | `[]ExclusiveExecution`, `[]RetryBudget`, `[]Reclaimable` | `Quiet` |
| `TerminalWhenQuiet`, `ContractImplemented` | `TerminalIsFinal`, `ImplementsContract` | `Quiet` |
| *ContentPipelineProofs* | | |
| `CompletedMeansDrawn` | `[]CompletedHasArtwork` | any |
| `ArticlesAreNotOrphaned`, `ImagesAreOnTheirWay`, `LifecycleImplemented` | `[]NeverOrphaned`, `[]ImageOnItsWay`, `ImplementsLifecycle` | `Bearable` |
| *ChatProofs* | of `ChatSpec`: | |
| `TurnsTypeCorrect`, `TurnsNothingAbandoned`, `TurnsContextSound`, `TurnsBoundedRepeats`, `TurnsAnswerStays` | the properties of those names, of `ChatTurns` alone too | any |
| `SessionIsKept` | `SessionKept` | lost and unreadable answers, restarts, expired tokens |
| `CouncilRowIsSound` | `[]CouncilRowSound` | overlap: retries that overlap, branches that fail; storm: restarts, failed retries, second starts |
| `BranchesAreShownOnce` | `[]AnsweredBranchShownOnce` | both |
| `NothingIsHidden` | `[]NothingHidden` | pages asked for again, failures |
| *BackgroundProofs* | of `BackgroundSpec`: | |
| `RotationIsSteady` | `[]SteadyRotation` | rows come, go and are lost to other workers between dequeues |
| `OvershootIsBounded` | `[]BoundedOvershoot` | late and dead heartbeats, crashes, lost finalizations; at most two workers or at most one retry |
| `NoNewsGetLost` | `[]NoNewsLost` | cluster: one worker, tasks fail, die and run again; press: any number of workers, no second run after a commit |
| `StoriesAreToldOnce` | `[]OneRepresentative` (with `CountsMembers`) | cluster |
| `MetadataIsKept` | `MetadataKept` | both |
| `BodiesStayReadable` | `BodyStays` | bucket: a death anywhere; disk: a death between two writes |
| `LibraryGetsRepaired` | `[]LibraryRepaired` | calls overlap and fail, contents are renamed |
| *ServicesProofs* | of `ServicesSpec`: | |
| `ProvidersAreSpared` | `[]ProviderIsSpared` | outages, revoked tokens |
| `EveryLinkHasItsKey` | `[]LinkedWithKey` | lost answers; dying approvals |
| `NobodyStrandsARow` | `[]NothingStranded` | dying workers |
| `ConnectionIsTheUsers` | `[]ConnectionFollowsUser` | bookmarks: one agent that fails or dies at any step, reconnections; grant: any number of agents that may die |
| `NoBookmarkIsPassedOver` | `[]NothingPassedOver` | failing syncs, removed bookmarks, reconnections |
| `NobodyIsLeftWaiting` | `[]OnboardedWithSources` (with `DiscoveryAnswers`) | kill, loss, outage, crash |
| `WeekHasOneChat`, `AnswersAreKept` | `[]OneWeeklySession`, `[]SubscribedHasFeed` | crash, outage, feeds added elsewhere |
| `MediaIsHeard` | `[]HeardAndSummarized` | `MediaBearable`: crash, outage, lost hand-over |
| `MergesLoseNothing` | `[]NothingLost` | any overlap, no wholesale writer |

`Quiet` is `Hazards \subseteq {"crash", "dberror"}`: workers may die and finalizing transactions may be lost.
`Bearable` is `Hazards \subseteq {"outage"} /\ MaxFaults <= MaxRetries`: no more outages than retries.
`MediaBearable` asks for at least one retry and for no more disturbances than retries, which the instances that TLC checks
meet with two of each; it is a hypothesis because with more disturbances than retries a task can be given up.
`NewsClustersProofs`, `FeedDiscoveryProofs` and `PersonalLibraryProofs` state the results of their components alone, for
every set of disturbances that does not contain the named ones (`OneProcessClusters`, `ManyProcessesHideNothing`,
`OnlyStaleSessionsDrop`, `OneChatPerWeek`, `SubscriptionsAreKept`, `LibraryIsRepaired`). The theorems of the compositions instantiate these modules
and show, action by action, that a step of the scene is a step of the component.

**TaskQueueProofs.** `TypeOK` is inductive by itself: one lemma for each group of actions. `ActiveKeyUnique` is
inductive together with it. Every step that makes a row active either has `~KeyTaken` as its guard (the index) or
leaves an active row active, and the stale finalization needs a look at `Flush`: when it leaves the row's status
alone, the set of active rows does not change.

`ExclusiveExecution` is far from inductive: nothing in it says why a second worker cannot
claim. The strengthening `QuietInv` says that a worker which is not idle holds its row (`HoldsRow`): the row is
`processing` and locked by it, its heartbeat thread is alive, the claimed retry count is the row's, and the lease exceeds
the time to the next heartbeat by exactly `LeaseTicks - BeatTicks`, so that it cannot reach zero first. It also says that
what a finalizing session has loaded is still what the row says (`SnapshotCurrent`), which makes `finalize_task`'s two
halves as good as one. From the same invariant follow the retry bound, the finality of settled tasks (nobody is left who
could write), `Reclaimable` (only its owner clears a lease, and with it the status) and the step simulation for
`TaskContract`: claims map to Start, commits to Settle or Repeat, every end without a commit to Interrupt, and
heartbeats, loads and ticks to stuttering. Where `Quiet` is used, the watchdog, the manual operations and the
heartbeat hazards are simply not enabled.

**ContentPipelineProofs.** `CompletedHasArtwork` needs `Drawn`: an image handler that is at its stamping step has its
file, and so nobody who computes a status from `art` or from that handler can be wrong, because `art` is never
withdrawn. Crashes, resubmissions and failed hand-offs do not touch `art`, which is why this one property
survives every mixture of them.

`NeverOrphaned` and `ImageOnItsWay` relate the status of the article to tasks and handlers in
every intermediate step. The invariant `Delivery` describes the stages: with which status, text and tasks each handler
step of processing, summarizing and drawing can coincide (`ProcessStage`, `SummarizeStage`, `ImageStage`), and that
no task has been tried more often than there were outages (`RetriesAreLeft`), so that in a `Bearable` run no retry is
the last one. Since a handler's loaded status is then still the article's, each of its commits is a step of
`ArticleLifecycle`, and everything else stutters: `LifecycleImplemented`.

**ChatProofs, turns.** `IInv` is `Core` (types, that a run's row is a row of its own request, which states of a run go with
which status of the row, and that deaths are faults), `Settled` (a prompt the user saw answered is settled), `ContextSound`,
`NothingAbandoned` and `Repeats` (a request has at most as many rows as its worker has died, and one more once its run
has begun). `AnswerStays` is an action property from the same invariant.

**The app's session.** `ClientInv` follows the verdict of the server through everybody who waits for it. Refreshes that are
under way together end alike, since a token expires for all who carry it (`OneFate`); so who is refused has been refused
for good, and whoever is about to end the session has a reason (`EndsForReason`). Who asks again after a refresh carries a token
that is accepted (`AgainAccepted`), which is why a second 401 never logs out by mistake.

**Councils.** `CouncilInv` holds for any set of disturbances: whatever may still become a candidate (the result of a start, a
candidate of a row, what a retry has loaded or heard) is an answer that its own branch keeps (`AnswersGiven`), and copies
lie below a branch's fork, its own turns above (`IdsInOrder`), so that nothing is shown twice. That the row *matches the
session* needs the calm scene: one council and no failed retry (`OneCouncil`). The scenes differ in their sets and
disturbances only, so the lemmas are about `Council(S, R, D)`, an instance with parameters.

**The unread list.** The order by timestamp and id has a last row and a first page, for any set of rows (`LastOf`,
`FirstOf`, by a minimal counterexample). `ListInv`: nothing that was steady lies above the cursor of the list or of a call
and is neither shown nor read (`Reached`), a page that was served leaves out only what comes after its last row
(`PageCovers`), and a refresh that will replace the list is on its way alone (`RefreshAlone`).

**NewsClustersProofs.** One handler at a time (`SoleInv`): what it has loaded of its candidates is still what they say
(`Current`), and an item stands only for items of its own story (`SameStory`); then the finalizing transaction chooses the
representative the story has, or becomes it, and counts its members right. With several workers none of this holds. The
second invariant, `OnceInv`, lives on the life of a task instead: an item has one task at most (`OneTask`), what a process
holds has no task and no other process (`Handled`), what it met as a candidate is in the feed (`Chosen`), and a row that
hides is ready and hides behind one in the feed (`Flat`). A row that is still being settled is behind nobody, so two rows
cannot choose each other. This is why a *second* run after a commit, harmless with one worker, is
excluded there: with both, two items can come to hide behind each other (section 6). `OnlyStaleSessionsDrop` rests on
`Copies`: a session that is not behind has every key of the rows it goes on with. Each commit of a row either is the
session's own or puts the others behind.

**FeedDiscoveryProofs.** `ChatInv`: one task at a time (`OneAtATime`), and one that is about to open a chat has found none
(`OpensForNone`). `SubscribeInv`: a suggestion that is marked, or a request between insert and mark, has its feed
(`MarksWait`).

**PersonalLibraryProofs.** As long as nobody has disturbed a call, what it read is what the database says (`ReadsHold`),
everything not yet deleted or written is in its list (`WorkLeft`), and the file of the content it is at is either
missing or right (`HalfWritten`). Any other step ends its being alone, and with it what is claimed of it.

**BackgroundProofs, retry counts.** A worker is able to retry a row while the count it claimed is below the limit, whatever
the count is by now. `StepsArePaid`: beyond the limit the count, and the count that a finalizing session has loaded, plus the
number of able workers stays within the bound, for every such step uses up an able worker, and a claim there adds none. It is inductive
only with `FewWorkersOrRetries` (section 6).

**BackgroundProofs, stored bodies.** `BodyInv`: a handler carries every inline text along, so the commit that strips them
loses none, and what it has put is stored (`HandlerCarries`); a torn file is one that somebody is writing (`TornIsWritten`),
and a row names only objects that were put (`RowsNameObjects`). In the bucket scene there are no files (`NoFiles`).

**Retry buckets.** How long a bucket has waited says nothing without how far the rotation still is from
it. `RotationInv` bounds the sum (`Waiting`): `skipped[b] + Rotated(b, listed) <= Cardinality(listed)`. A dequeue that
passes a bucket over moves the cursor one place nearer to it.

**ServicesProofs, podcast search.** `SearchInv` counts, in each state of a circuit, the failures recorded and the calls
under way (`CallsAreCounted`); a token that is asked for again is newer than the refused one (`TokensGrow`).

**CLI link.** `LinkInv`: a session with a key has been approved (`KeyMeansApproved`), one key at a time is
minted and only while the session has none (`MintsForNone`), an answer on its way carries the session's key
(`OnItsWay`) and a linked CLI holds it (`HoldsItsKey`). A death after minting leaves a stray key, but no session names
it; so `NoKeyStrays` is added where approvals do not die.

**Submissions.** `GateInv`: the URL has one row, which all tasks and requests are about (`OneRow`), only submissions
insert (`FromSubmissions`), and a new row is in somebody's hand in every intermediate state (`NewIsInHand`).

**X.** `ConnectionInv` says of one agent that, while no replaced token was lost, the token it goes on with is accepted (`AgentIsServed`), that a
callback's token is nobody else's (`CallbackIsAlone`) and that connection and user agree (`ConnectionKept`). In grant
`active` can only have been set by the user, whatever the agents carry. `ShelfInv` orders the bookmarks: what is not saved is
newer than everything saved (`InOrder`) and fits the window (`FitsWindow`), and what a sync has still to submit is in its
list or came later (`SyncSees`); so the cursor it sets at the end has nothing behind it (`CursorIsPassed`).

**Onboarding.** `FirstInv`: the app waits for the run that it names (`OneRunAtATime`), a page of suggestions shows those of a
completed run (`PageShowsRun`), an app that waits has somebody who asks for it (`SomebodyAsks`), and a request whose session
still works has counted only feeds that exist, and all that are behind it but the missed ones (`RequestCounts`).

**Media.** `MediaInv`, in a module of its own, depends on how much has gone wrong. With any number of disturbances
within the retries, a content that is not settled has a task that will do more than end (`SomebodyGoesOn`): a failure
that is not a podcast's own costs a disturbance, so the last retry does not fail (`RetriesArePaid`). Undisturbed, hearing
the words, summarizing them and having a summary exclude each other (`OneAtATime`). One disturbance lets two tasks
overlap, because an interrupted handler hands over a second time; then the argument needs which of them can (`Ordered`),
that no copy of the row which is still to be written back holds an older summary than the row (`Remembered`), that a post
is summarized without its video only when nobody hears it any more (`WithoutVideo`), and that a summary which is not of
all the words has somebody who will make a new one (`Awaited`). At rest nobody is left, so the summary is of all the
words. After a second disturbance this last part is false, and the property does not ask for it. The lemmas hold for both
kinds of content (`Media(K, F)`), one for each part of the invariant and in it one step for each handler's step.

**Metadata.** A merge applies the difference to what it has read last. `MergeInv` adds to `NothingLost` that a handler changes
only keys it touches, and that what it is going to write (`MergedIsCurrent`), or what a wholesale writer has read
(`SnapshotIsCurrent`), is right for each key which has not passed it and is not torn: a commit passes everybody else under
way, and repairs what it writes itself.

**Model-checked only.** Liveness under fairness and `ENABLED` are out of the prover's reach, and so is what a recursive
definition computes for every input. Every invariant and every action
property that is not one of liveness is stated by a theorem; `Reclaimable` is proved in a quiet environment, and with late and
dead heartbeats it is only checked, for two workers: it could not be proved for every number of them, since
it is false with three (section 6).

## 6. What the models showed

Five disagreements with something the repository says are findings in `PROJECT.json` (the violation runs above). The
following are properties one might expect that the code does not have. Each is excluded by a named disturbance
or a bound that no passing run crosses, or named as an exception in the statement of the property, so that the properties
that are checked say what the code does promise.

*Queue and pipeline*

* A retry bucket starves when the list of non-empty buckets changes at the wrong moments: with the lists {0, 1, 2} and
  {1, 2} in turn the cursor never reaches bucket 1 (`queue.py:136`). `SteadyRotation` counts dequeues with one list.
* A row can be `processing` without a lease, which `dequeue` never selects (`Reclaimable` fails): with three
  workers and late or dead heartbeats, with two and the watchdog, or after manual operations. It takes a stale
  finalization whose flush writes the cleared lease but, the status being what it loaded, not the status.
* With three workers and `max_retries` of 2 the retry count passes the bound of `BoundedOvershoot`: a session that loaded an
  early count writes it back, incremented, below the limit while another one carries a count above it, and the row can be
  claimed and retried anew. `supervisor.conf` starts one worker per queue; two workers stay within the bound.
* Outages that outlast the retries of SUMMARIZE leave an article in `processing` with no task. The remedy is
  `scripts/reconcile_stale_long_form_processing.py`, which an operator runs.
* A podcast or post can stay unsummarized when an enqueue falls between a handler's return and its finalization
  (`late`), or when two faults hit the same hand-over.

*News and submissions*

* A cluster can be two levels deep for a while when a handler fails between its writes; the next member repairs it.
* Two items can hide behind each other, and their story is then not in the feed at all: two content workers, and a task that
  its dead worker's successor runs again after the commit (`duplicate` in press). `supervisor.conf` starts one content
  worker, with which `NoMutualHiding` is proved; `run_workers.py --worker-slot` can start more.
* A scraped row that was committed before a crash is found again by the next scrape, which enqueues nothing for it.
* Keys of `raw_metadata` are lost when sessions overlap: a scraper that loaded an item before a handler's commit writes
  it back without what was added (`news_ingestion.py:573`), ready items included; with two workers the payload on the cluster
  takes from the representative what another one has just committed (`news_relations.py:608`). `MetadataKept` names these
  sessions in its statement. The model has one session of a scraper per item and takes `_mark_processing_failure` as one step.
* A subscription looked up again with an un-normalised `feed_url` is not recognised as the same.

*Chat and councils*

* Overlapping council retries overwrite each other's candidate in the council row, and with a failed retry
  `RowMatchesSession` is lost until the next one. Selecting a branch before it has answered shows the turns
  above the fork twice.

*App, CLI, X*

* Overlapping approvals of one link session strand all keys but the last one (`NoStrayKey` with `overlap`).
* A logout during a refresh can be followed by the refreshed tokens being stored. "Old refresh token is invalidated"
  (`routers/auth.py:262`) describes nothing the stateless server does: it accepts each token until it expires.
* A refresh that ends before it is registered stays registered, and later requests wait for its old result (`stale`); a
  user who signs in again while requests of the last session are under way can be signed out by them (`overlap`).
* An app that is starting and cannot decode the answer to its refresh, or to `/auth/me` after it, logs out with tokens that
  are valid (`AuthenticationViewModel.swift:183-190`); `SessionKept` names this case.
* A refresh of X whose answer is lost after the provider replaced the token, or whose commit fails, costs the connection at
  the next refresh, without a death and without overlap (`x_integration.py:861-884`); `GrantKept` names it by `lost`.
* When the refresh in the background overlaps `loadNextPage`, the list can end with a content missing, and it shows a page
  twice when two loads overlap (`BaseContentListViewModel.swift:85`, disturbance `overlap`); it keeps the old
  filter's items when the filter changes during a load (`:91`), and `ContentListViewModel.markAsRead` (`:139-166`) uses
  an index that it computed before its request.
* X bookmarks are passed over when one that was removed is added again behind the cursor, or when more than the page
  limit arrives between two syncs.

*Onboarding and discovery*

* A user who acts while the answer to a poll is on its way is thrown back (`late`, `OnboardingViewModel.swift:227`).
* A source whose row is committed but cannot be read back, because only its own connection failed, is stored and left out of
  the backfill, while onboarding is answered as complete (`scraper_configs.py:374-381`, `onboarding.py:609-610`);
  `OnboardedWithSources` names it as missed.
* The exception of the news seeds is swallowed without a rollback, and the request then fails with a 500.
* Two discovery workers can write two weekly chats; a crash between the commit of the session and its seed message leaves
  it without one for ever; a rerun that finds nothing becomes the newest run and hides the suggestions of the last one.

*Metadata, files, providers*

* A merge loses what is committed between its plain SELECT (`content_metadata_merge.py:105`) and its commit, with a PUT to the
  object store in between; a handler that writes its whole snapshot back (the posts with a video) loses the keys of every
  handler it overlaps with. `NothingLost` names both by `torn`.
* A death inside the rewrite of a local body tears the file that a row names, until somebody stores that body again. A
  legacy inline text that a long handler carries along can replace a newer pointer.
* Library: archiving a chat and storing another title reconcile nothing; two overlapping reconciliations leave stale
  files, delete the file of a content saved between the reading of the reasons and the scan, or write two names for one
  content. Any later undisturbed call repairs it, which is what `LibraryRepaired` says.
* Podcast search: a degraded answer is cached as long as a full one; when a cooldown ends every waiting thread
  asks at once; a late success closes a circuit that has just opened.

Where the code is exposed without a property of its own, because one is either implied by those above or would only
restate the code: an enqueue absorbed by a running task other than the subscription (`queue.py:270`); a claim by lease
expiry is no retry (`queue.py:390`); share-and-chat requests are removed before their enqueues (`summarize.py:512`); news
relations computed from candidates loaded earlier (`news_relations.py:624`); the X cursor's bound (`x_integration.py:512`);
keys of overlapping approvals (`cli_link.py:164`); rows scraped before a crash (`scraping/base.py:245`); the wholesale
writers (`content_metadata_merge.py:75`); assistant answers in server memory (`chat.py:1073`).

## 7. What is not modelled

The map covers about a tenth of the repository's Python lines. Most of the rest is code without a state that two actors share
or a step can leave half done: prompts and provider clients, parsing and extraction strategies, scrapers,
API schemas and presentation, query builders, migrations, reports, evaluation and test-data scripts, the app's
views. A model of these would be a transliteration of string handling, and its properties would hold by construction.
What they can return is a free choice in the modules that call them.

Parts with state that were left out:

* **Content checkout**: its lease is implemented, but no production path calls it.
* **Insight reports**: one call, one commit. Saves made while a report is generated are in no report and
  not counted for the next one, and a crash after the commit repeats it, since manual and nightly runs use different keys.
* **Sign-in**: Apple's identity check, PKCE state, E2E signing; each is one request against one row.
* **Assistant tools, image and audio generation for chats, narration, usage counters**: single writes, or no state.
* **`queue_control.py`** and other operator scripts: rows edited by hand, with the system stopped or not. `manual` in
  `TaskQueue` stands for the operations of the service they call.
* **Embeddings**: similarity is the relation `Story`, fixed in a run, symmetric and transitive; thresholds are not.

What could come next: the scrapers' own state, the assistant's tools, and bounds on how often a provider is asked.

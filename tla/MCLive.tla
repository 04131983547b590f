------------------------------- MODULE MCLive --------------------------------
(***************************************************************************)
(* TLC instance for what must happen in the end.  Each behaviour exercises *)
(* one component, chosen at the beginning; the others stay in initial      *)
(* states that enable nothing fair, so the fairness of all of them is that *)
(* of the one on the scene.  The article's constants are in the cfg: no    *)
(* crash, and no more outages than retries.                                *)
(***************************************************************************)
EXTENDS ContentLifecycle, Integers, TLC

CONSTANTS t1, t2, w1, w2, noTask, NoWorker, d1, NoKey,
          r1, r2, v1, v2,
          i1, i2, NoItem, p1, p2, f1, s1, noRow

VARIABLES scene,
          \* TaskQueue
          rowStatus, dedupe_key, retry_count, locked_by, lease, available, age,
          workerPc, job, beating, due, seen, watch, queueFaults,
          \* ChatTurns
          rows, run, known, turnFaults, deaths,
          \* NewsClusters
          newsStatus, rep, size, meta, enrich, process, newsJob, scrape, behind, newsFaults,
          \* XSync
          shelf, valid, issued, lost, active, refresh, expired, exchange, wanted,
          cursor, saved, ledger, xJob, xFaults,
          \* Intake
          type, inStatus, flag, inbox, queued, reading, analysis, req, heard, inFaults

queueVars == <<rowStatus, dedupe_key, retry_count, locked_by, lease, available, age,
               workerPc, job, beating, due, seen, watch, queueFaults>>
turnVars == <<rows, run, known, turnFaults, deaths>>
newsVars == <<newsStatus, rep, size, meta, enrich, process, newsJob, scrape, behind, newsFaults>>
xVars == <<shelf, valid, issued, lost, active, refresh, expired, exchange, wanted,
           cursor, saved, ledger, xJob, xFaults>>
inVars == <<type, inStatus, flag, inbox, queued, reading, analysis, req, heard, inFaults>>
allVars == <<scene, vars, queueVars, turnVars, newsVars, xVars, inVars>>

-----------------------------------------------------------------------------
\* Killed workers and lost finalizations.
Queue == INSTANCE TaskQueue
  WITH Tasks <- {t1, t2}, Workers <- {w1}, Keys <- {d1}, MaxRetries <- 1,
       LeaseTicks <- 2, BeatTicks <- 1, Delays <- {1}, StaleTicks <- 0,
       Hazards <- {"crash", "dberror"}, MaxFaults <- 1, NoTask <- noTask,
       status <- rowStatus, pc <- workerPc, faults <- queueFaults

\* Prompts that are served in the server's memory or from the queue.
Turns == INSTANCE ChatTurns
  WITH Requests <- {r1, r2}, Kinds <- {"agent", "queued"},
       Disturbances <- {"restart", "worker"}, MaxFaults <- 1, faults <- turnFaults

News == INSTANCE NewsClusters
  WITH Items <- {i1, i2}, Story <- [i \in {i1, i2} |-> 1], Workers <- {w1},
       Disturbances <- {"crash", "failure", "duplicate"}, MaxFaults <- 1,
       status <- newsStatus, job <- newsJob, faults <- newsFaults

Bookmarks == INSTANCE XSync
  WITH Posts <- 2, Window <- 2, MaxGrants <- 2, Agents <- {w1},
       Disturbances <- {"crash", "failure", "remove"}, MaxFaults <- 2,
       job <- xJob, faults <- xFaults

Gate == INSTANCE Intake
  WITH Plain <- {p1, p2}, Feeds <- {f1}, Scrapes <- {s1}, MaxTries <- 2,
       Disturbances <- {"crash"}, MaxFaults <- 1, NoRow <- noRow,
       status <- inStatus, process <- queued, task <- analysis, faults <- inFaults

-----------------------------------------------------------------------------
\* Off the scene nobody is connected to X.
Unconnected ==
  /\ shelf = << >> /\ valid = {} /\ issued = 1 /\ lost = FALSE
  /\ active = FALSE /\ refresh = 0 /\ expired = FALSE
  /\ exchange = Bookmarks!NoExchange /\ wanted = "disconnected"
  /\ cursor = 0 /\ saved = {} /\ ledger = {}
  /\ xJob = [a \in {w1} |-> Bookmarks!Idle]
  /\ xFaults = 0

LiveInit ==
  /\ scene \in {"article", "queue", "turns", "news", "bookmarks", "gate"}
  /\ Init /\ Queue!Init /\ Turns!Init /\ News!Init /\ Gate!Init
  /\ IF scene = "bookmarks" THEN Bookmarks!Init ELSE Unconnected

LiveNext ==
  /\ UNCHANGED scene
  /\ IF scene = "article" THEN Next ELSE UNCHANGED vars
  /\ IF scene = "queue" THEN Queue!Next ELSE UNCHANGED queueVars
  /\ IF scene = "turns" THEN Turns!Next ELSE UNCHANGED turnVars
  /\ IF scene = "news" THEN News!Next ELSE UNCHANGED newsVars
  /\ IF scene = "bookmarks" THEN Bookmarks!Next ELSE UNCHANGED xVars
  /\ IF scene = "gate" THEN Gate!Next ELSE UNCHANGED inVars

\* Off the scene the article's first task is not taken.
LiveFairness ==
  /\ WF_vars(scene = "article" /\ ContentQueue)
  /\ WF_vars(scene = "article" /\ ImageQueue)
  /\ WF_vars(scene = "article" /\ CheckAfterInbox)
  /\ Queue!Fairness /\ Turns!Fairness
  /\ News!Fairness /\ Bookmarks!Fairness /\ Gate!Fairness

LiveSpec == LiveInit /\ [][LiveNext]_allVars /\ LiveFairness

-----------------------------------------------------------------------------
\* The article leaves the intermediate states, unless nobody sees it.
ArticleSettles == scene = "article" => EventuallySettles

\* Every accepted task is completed or failed, and a dig-deeper request is answered or
\* failed, whichever workers die.
TasksSettle == Queue!EventuallySettles /\ Turns!QueuedIsSettled

\* Every ingested news item becomes ready or fails for good, and every submitted URL is
\* processed, skipped or fails.
IntakeSettles == News!EventuallySettled /\ Gate!SubmissionSettles

\* Every bookmark becomes a content, unless the connection is lost.
BookmarksArrive == Bookmarks!BookmarksArrive
=============================================================================

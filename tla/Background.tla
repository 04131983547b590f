----------------------------- MODULE Background ------------------------------
(***************************************************************************)
(* The queue in rough environments, the order of dequeue, and what tasks   *)
(* and requests leave behind them: clusters of news, stored bodies, files  *)
(* of the personal library.  They share no state, so each behaviour        *)
(* exercises one of them, chosen at the beginning.  Which disturbances a   *)
(* scene has is fixed here, how large it is a parameter.                   *)
(***************************************************************************)
EXTENDS RetryBuckets, Integers

CONSTANTS Faults,                                              \* per scene: bound on disturbances
          Tasks, QueueWorkers, Keys, QueueRetries, LeaseTicks, BeatTicks, Delays, StaleTicks,
          NoTask, NoWorker, NoKey,                             \* stale
          Items, Pressed, Story, Drainer, Drainers, NoItem,    \* cluster, press
          Handlers, Texts, NoText,                             \* bucket, disk
          Saved, Shelved, Calls, Caller, Names                 \* page, shelf

\* A worker per slot and process, finitely many and at least one; max_retries is not negative.
ASSUME StaleAssumption ==
  /\ QueueRetries \in Nat /\ NoTask \notin Tasks
  /\ IsFiniteSet(QueueWorkers) /\ QueueWorkers # {}

\* A representative is another row, or NULL; a worker is not a row.
ASSUME NewsAssumption ==
  /\ NoItem \notin Items \cup Pressed
  /\ ({Drainer} \cup Drainers) \cap (Items \cup Pressed) = {}

\* Ids of contents are serial.
ASSUME LibraryAssumption == Saved \cup Shelved \subseteq Nat

VARIABLES scene,
          \* TaskQueue
          status, dedupe_key, retry_count, locked_by, lease, available, age,
          pc, job, beating, due, seen, watch, faults,
          \* NewsClusters
          newsStatus, rep, size, meta, enrich, process, newsJob, scrape, behind, newsFaults,
          \* ContentBodies
          inline, pointer, object, persisting, bodyFaults,
          \* PersonalLibrary
          saved, chats, name, files, call, fileFaults

queueVars == <<status, dedupe_key, retry_count, locked_by, lease, available, age,
               pc, job, beating, due, seen, watch, faults>>
newsVars == <<newsStatus, rep, size, meta, enrich, process, newsJob, scrape, behind, newsFaults>>
bodyVars == <<inline, pointer, object, persisting, bodyFaults>>
fileVars == <<saved, chats, name, files, call, fileFaults>>
allVars == <<scene, vars, queueVars, newsVars, bodyVars, fileVars>>

-----------------------------------------------------------------------------
\* Workers whose heartbeats that die or come late.
Stale == INSTANCE TaskQueue
  WITH Workers <- QueueWorkers, MaxRetries <- QueueRetries,
       Hazards <- {"crash", "dberror", "beatdeath", "pause"}, MaxFaults <- Faults["stale"]

\* Items of one story with one content worker, as supervisor.conf starts it.
Cluster == INSTANCE NewsClusters
  WITH Workers <- {Drainer},
       Disturbances <- {"crash", "failure", "duplicate"}, MaxFaults <- Faults["cluster"],
       status <- newsStatus, job <- newsJob, faults <- newsFaults

\* Several workers, scrapers that die and items that are met again.
Press == INSTANCE NewsClusters
  WITH Items <- Pressed, Workers <- Drainers,
       Disturbances <- {"crash", "failure", "rescrape", "scraper"}, MaxFaults <- Faults["press"],
       status <- newsStatus, job <- newsJob, faults <- newsFaults

\* Bodies in object storage, whose writers may die anywhere.
Bucket == INSTANCE ContentBodies
  WITH Local <- FALSE,
       Disturbances <- {"crash", "death"}, MaxFaults <- Faults["bucket"],
       job <- persisting, faults <- bodyFaults

\* Bodies in files, whose writers die between two writes.
Disk == INSTANCE ContentBodies
  WITH Local <- TRUE,
       Disturbances <- {"crash"}, MaxFaults <- Faults["disk"],
       job <- persisting, faults <- bodyFaults

\* Calls that reconcile the files of one content at the same time.
Page == INSTANCE PersonalLibrary
  WITH Items <- Saved,
       Disturbances <- {"failure", "edit"}, MaxFaults <- Faults["page"], faults <- fileFaults

\* Calls one after the other over several contents.
Shelf == INSTANCE PersonalLibrary
  WITH Items <- Shelved, Calls <- {Caller},
       Disturbances <- {"failure", "edit"}, MaxFaults <- Faults["shelf"], faults <- fileFaults

-----------------------------------------------------------------------------
Scenes == {"stale", "buckets", "cluster", "press", "bucket", "disk", "page", "shelf"}

BackgroundInit ==
  /\ scene \in Scenes
  /\ Init /\ Stale!Init
  /\ IF scene = "press" THEN Press!Init ELSE Cluster!Init
  /\ Bucket!Init
  /\ scene \notin {"bucket", "disk"} => inline = Bucket!Nothing
  /\ IF scene = "shelf" THEN Shelf!Init ELSE Page!Init
  /\ scene \notin {"page", "shelf"} => \A i \in DOMAIN name : name[i] = CHOOSE n \in Names : TRUE

BackgroundNext ==
  /\ UNCHANGED scene
  /\ \/ scene = "buckets" /\ Next
     \/ scene # "buckets" /\ UNCHANGED vars
  /\ \/ scene = "stale" /\ Stale!Next
     \/ scene # "stale" /\ UNCHANGED queueVars
  /\ \/ scene = "cluster" /\ Cluster!Next
     \/ scene = "press" /\ Press!Next
     \/ scene \notin {"cluster", "press"} /\ UNCHANGED newsVars
  /\ \/ scene = "bucket" /\ Bucket!Next
     \/ scene = "disk" /\ Disk!Next
     \/ scene \notin {"bucket", "disk"} /\ UNCHANGED bodyVars
  /\ \/ scene = "page" /\ Page!Next
     \/ scene = "shelf" /\ Shelf!Next
     \/ scene \notin {"page", "shelf"} /\ UNCHANGED fileVars

\* When every item is settled there is nothing left to do for the news.
NewsRest == scene \in {"cluster", "press"} /\ UNCHANGED allVars

BackgroundSpec == BackgroundInit /\ [][BackgroundNext \/ NewsRest]_allVars

-----------------------------------------------------------------------------
\* Late and dead heartbeats: with two workers or with one retry, one extra retry per additional
\* worker at most.
BoundedOvershoot == scene = "stale" => Stale!BoundedOvershoot

\* A claimed task can be claimed again when its worker is gone, although the finalizations
\* of two workers overlap, by late or dead heartbeats.  It is false with three of them.
Reclaimable == scene = "stale" => Stale!Reclaimable

\* No news item is lost: none hides behind an item that hides behind it, and one that is
\* not settled has somebody who goes on with it.
NoNewsLost ==
  /\ scene = "cluster" => Cluster!NoMutualHiding /\ Cluster!NeverForgotten
  /\ scene = "press" => Press!NoMutualHiding

\* A story is in the feed once, with the number of rows behind it.
OneRepresentative ==
  scene = "cluster" => Cluster!OneRepresentative /\ Cluster!CountsMembers

\* What raw_metadata of a news item has is dropped only by a session that had loaded the
\* row before somebody else's commit.
MetadataKept ==
  [][/\ scene = "cluster" => Cluster!MetadataGrows
     /\ scene = "press" => Press!MetadataGrows]_allVars

\* A body that can be read can be read for ever.
BodyStays ==
  [][/\ scene = "bucket" => Bucket!BodyKept
     /\ scene = "disk" => Disk!BodyKept]_allVars

\* A call that ran alone leaves exactly the files that belong to its contents.
LibraryRepaired ==
  /\ scene = "page" => Page!LibraryRepaired
  /\ scene = "shelf" => Shelf!LibraryRepaired
=============================================================================

---------------------------- MODULE NewsClusters ----------------------------
(***************************************************************************)
(* Short news items: ingestion by a scraper, enrichment with the linked    *)
(* article, summarization, and the clusters in which items of one story    *)
(* hide behind a representative.  The feed shows rows that are ready and   *)
(* have no representative.  A handler is cut at its commits and at its     *)
(* long calls; job[w] is what its session has loaded, scrape[i] what the   *)
(* session of a scraper has that met item i again.  raw_metadata is always *)
(* written whole, from what the session has: a session that loaded the row *)
(* before somebody else's commit drops what that commit added.             *)
(***************************************************************************)
EXTENDS Integers, FiniteSets

CONSTANTS Items,
          Story,         \* Story[i]: items with one key are of one story
          Workers,       \* processes that drain the content queue
          NoItem,
          Disturbances,  \* subset of {"crash", "failure", "duplicate", "rescrape", "scraper"}
          MaxFaults      \* bound on disturbances in a behaviour

VARIABLES status,   \* news_items.status
          rep,      \* representative_news_item_id
          size,     \* cluster_size
          meta,     \* keys of raw_metadata: {"body", "discussion", "summary"}
          enrich,   \* ENRICH_NEWS_ITEM_ARTICLE tasks: "owed", "pending", "none"
          process,  \* number of pending PROCESS_NEWS_ITEM tasks
          job,      \* what each worker does
          scrape,   \* the row as a scraper has loaded it that met the item again
          behind,   \* history: <<s, i>> when i was committed since session s loaded it
          faults

rowVars == <<status, rep, size, meta>>
vars == <<status, rep, size, meta, enrich, process, job, scrape, behind, faults>>

Parts == {"body", "discussion", "summary"}
Idle == [pc |-> "idle", item |-> NoItem, meta |-> {}, rep |-> NoItem,
         chosen |-> NoItem, copy |-> {}, met |-> {}, sizes |-> [i \in Items |-> 0],
         members |-> {}]
Away == [status |-> "absent", meta |-> {}]

Init ==
  /\ status = [i \in Items |-> "absent"]
  /\ rep = [i \in Items |-> NoItem]
  /\ size = [i \in Items |-> 1]
  /\ meta = [i \in Items |-> {}]
  /\ enrich = [i \in Items |-> "none"]
  /\ process = [i \in Items |-> 0]
  /\ job = [w \in Workers |-> Idle]
  /\ scrape = [i \in Items |-> Away]
  /\ behind = {}
  /\ faults = 0

Disturb(d) == d \in Disturbances /\ faults < MaxFaults /\ faults' = faults + 1

\* A session is named by its worker or, a scraper's, by the item that it met again.
Sessions == Workers \cup Items

\* Session s goes on with the raw_metadata of i that it has loaded.
Holds(s, i) ==
  \/ s \in Items /\ s = i /\ scrape[i].status # "absent"
  \/ s \in Workers /\ job[s].item = i
       /\ job[s].pc \in {"download", "discuss", "summarize", "chosen", "listed"}
  \/ s \in Workers /\ job[s].chosen = i /\ job[s].pc \in {"chosen", "listed"}

\* Session s ends, or commits the raw_metadata of these rows.
Overtakes(s, rows) ==
  behind' = {p \in Sessions \X Items :
               p[1] # s /\ (p \in behind \/ (p[2] \in rows /\ Holds(p[1], p[2])))}

-----------------------------------------------------------------------------
(* Ingestion *)

\* upsert_news_item inserts and commits; the enrichment task comes afterwards.
Ingest(i) ==
  /\ status[i] = "absent"
  /\ status' = [status EXCEPT ![i] = "new"]
  /\ enrich' = [enrich EXCEPT ![i] = "owed"]
  /\ UNCHANGED <<rep, size, meta, process, job, scrape, behind, faults>>

\* Mutant of EnqueueEnrichment: the task is enqueued for known items only.
EnqueueEnrichmentOfKnown(i) ==
  /\ enrich[i] = "owed"
  /\ enrich' = [enrich EXCEPT ![i] = IF status[i] = "new" THEN "none" ELSE "pending"]
  /\ UNCHANGED <<rowVars, process, job, scrape, behind, faults>>

EnqueueEnrichment(i) ==
  /\ enrich[i] = "owed"
  /\ enrich' = [enrich EXCEPT ![i] = "pending"]
  /\ UNCHANGED <<rowVars, process, job, scrape, behind, faults>>

\* The scraper dies between the commit and the enqueue.
ScraperDies(i) ==
  /\ Disturb("scraper")
  /\ enrich[i] = "owed"
  /\ enrich' = [enrich EXCEPT ![i] = "none"]
  /\ UNCHANGED <<rowVars, process, job, scrape, behind>>

\* The feed still lists the item, and upsert_news_item loads its row.
MeetAgain(i) ==
  /\ Disturb("rescrape")
  /\ status[i] # "absent" /\ scrape[i] = Away
  /\ scrape' = [scrape EXCEPT ![i] = [status |-> status[i], meta |-> meta[i]]]
  /\ UNCHANGED <<rowVars, enrich, process, job, behind>>

\* SQLAlchemy writes an attribute only if it differs from what was loaded.
Flush(old, new, current) == IF old = new THEN current ELSE new

\* upsert_news_item commits: unless it was ready the row is new again, and its metadata is
\* what was loaded, merged with what the feed says if that is news.  As the row was not
\* created no task is enqueued.
Rescrape(i, news) ==
  LET old == scrape[i]
  IN /\ old.status # "absent"
     /\ status' = [status EXCEPT ![i] =
          Flush(old.status, IF old.status = "ready" THEN "ready" ELSE "new", @)]
     /\ meta' = [meta EXCEPT ![i] = IF news THEN old.meta ELSE @]
     /\ scrape' = [scrape EXCEPT ![i] = Away]
     /\ Overtakes(i, IF news THEN {i} ELSE {})
     /\ UNCHANGED <<rep, size, enrich, process, job, faults>>

-----------------------------------------------------------------------------
(* Enrichment *)

Goto(w, pc) == job' = [job EXCEPT ![w].pc = pc]
Stop(w) == job' = [job EXCEPT ![w] = Idle] /\ Overtakes(w, {})

BeginEnrich(w, i) ==
  /\ job[w].pc = "idle" /\ enrich[i] = "pending"
  /\ enrich' = [enrich EXCEPT ![i] = "none"]
  /\ job' = [job EXCEPT ![w] = [Idle EXCEPT !.pc = "download", !.item = i, !.meta = meta[i]]]
  /\ UNCHANGED <<rowVars, process, scrape, behind, faults>>

\* The download yields a body, or fails softly unless there is a body already.
CommitEnrich(w, new) ==
  /\ job[w].pc = "download"
  /\ new \in IF "body" \in job[w].meta THEN {{}} ELSE {{}, {"body"}}
  /\ meta' = [meta EXCEPT ![job[w].item] = job[w].meta \cup new]
  /\ Overtakes(w, {job[w].item})
  /\ Goto(w, "enriched")
  /\ UNCHANGED <<status, rep, size, enrich, process, scrape, faults>>

\* dedupe=False: every run of the handler enqueues a process task.
EnqueueProcess(w) ==
  /\ job[w].pc = "enriched"
  /\ process' = [process EXCEPT ![job[w].item] = @ + 1]
  /\ Goto(w, "reporting")
  /\ UNCHANGED <<rowVars, enrich, scrape, behind, faults>>

ReportEnrich(w) ==
  /\ job[w].pc = "reporting"
  /\ Stop(w)
  /\ UNCHANGED <<rowVars, enrich, process, scrape, faults>>

\* The worker dies in the handler, or after the process task was enqueued.
EnrichDies(w) ==
  /\ \/ Disturb("crash") /\ job[w].pc \in {"download", "enriched"}
     \/ Disturb("duplicate") /\ job[w].pc = "reporting"
  /\ enrich' = [enrich EXCEPT ![job[w].item] = "pending"]
  /\ Stop(w)
  /\ UNCHANGED <<rowVars, process, scrape>>

-----------------------------------------------------------------------------
(* Summarization *)

BeginProcess(w, i) ==
  /\ job[w].pc = "idle" /\ process[i] > 0
  /\ process' = [process EXCEPT ![i] = @ - 1]
  /\ status' = [status EXCEPT ![i] = "processing"]
  /\ job' = [job EXCEPT ![w] = [Idle EXCEPT
               !.item = i, !.meta = meta[i], !.rep = rep[i], !.sizes = size,
               !.pc = IF "discussion" \in meta[i] THEN "summarize" ELSE "discuss"]]
  /\ UNCHANGED <<rep, size, meta, enrich, scrape, behind, faults>>

\* Mutant of StoreDiscussion: the handler goes on with the metadata it had before.
StoreDiscussionUnseen(w) ==
  LET i == job[w].item
  IN /\ job[w].pc = "discuss"
     /\ meta' = [meta EXCEPT ![i] = job[w].meta \cup {"discussion"}]
     /\ Overtakes(w, {i})
     /\ job' = [job EXCEPT ![w].pc = "summarize"]
     /\ UNCHANGED <<status, rep, size, enrich, process, scrape, faults>>

\* fetch_and_store_news_item_discussion adds a payload or an error payload to what the
\* session has and commits; then the item and its metadata are loaded again.
StoreDiscussion(w) ==
  LET i == job[w].item
  IN /\ job[w].pc = "discuss"
     /\ meta' = [meta EXCEPT ![i] = job[w].meta \cup {"discussion"}]
     /\ Overtakes(w, {i})
     /\ job' = [job EXCEPT ![w].pc = "summarize", ![w].meta = meta'[i], ![w].rep = rep[i],
                           ![w].sizes = size]
     /\ UNCHANGED <<status, rep, size, enrich, process, scrape, faults>>

\* Mutant of Candidates: rows that are not ready are considered too.
CandidatesOfAnyStatus(i) ==
  {j \in Items \ {i} : status[j] # "absent" /\ rep[j] = NoItem /\ Story[j] = Story[i]}

\* find_related_representative
Candidates(i) ==
  {j \in Items \ {i} : status[j] = "ready" /\ rep[j] = NoItem /\ Story[j] = Story[i]}

\* A session keeps the attributes of rows it has met; others are loaded now.
Reload(met, w) == [m \in Items |-> IF m \in met THEN job[w].sizes[m] ELSE size[m]]

\* The summary is there; the finalizing transaction looks for a representative
\* (and computes embeddings for it).
Choose(w, j) ==
  LET i == job[w].item
  IN /\ job[w].pc = "summarize"
     /\ j \in IF Candidates(i) = {} THEN {NoItem} ELSE Candidates(i)
     /\ job' = [job EXCEPT ![w].pc = "chosen", ![w].chosen = j, ![w].met = Candidates(i),
                           ![w].copy = IF j = NoItem THEN {} ELSE meta[j],
                           ![w].sizes = Reload({i}, w)]
     /\ UNCHANGED <<rowVars, enrich, process, scrape, behind, faults>>

Lead(w) == IF job[w].chosen = NoItem THEN job[w].item ELSE job[w].chosen

\* The item's own pointer is flushed, so list_cluster_members sees it.
ListMembers(w) ==
  /\ job[w].pc = "chosen"
  /\ LET i == job[w].item
         pointer(m) == IF m = i THEN job[w].chosen ELSE rep[m]
     IN job' = [job EXCEPT ![w].pc = "listed",
                  ![w].members = {Lead(w)} \cup {m \in Items : pointer(m) = Lead(w)},
                  ![w].sizes = Reload(job[w].met \cup {i}, w)]
  /\ UNCHANGED <<rowVars, enrich, process, scrape, behind, faults>>

\* The summary goes to the item, and to the representative a payload on its cluster.
Tells(w) ==
  meta' = [m \in Items |-> IF m = job[w].item THEN job[w].meta \cup {"summary"}
                           ELSE IF m = job[w].chosen THEN job[w].copy ELSE meta[m]]

\* Mutant of CommitSummary: the members' pointers are not written.
CommitSummaryOnly(w) ==
  /\ job[w].pc = "listed"
  /\ status' = [status EXCEPT ![job[w].item] = "ready"]
  /\ Tells(w) /\ Overtakes(w, {job[w].item, job[w].chosen})
  /\ Goto(w, "done")
  /\ UNCHANGED <<rep, size, enrich, process, scrape, faults>>

\* One commit: the metadata, the status, the pointers and sizes of the cluster.  A
\* member that was met as a candidate has lost its place to this lead meanwhile.
CommitSummary(w) ==
  LET i == job[w].item
      members == job[w].members
      n == Cardinality(members)
  IN /\ job[w].pc = "listed"
     /\ status' = [status EXCEPT ![i] = "ready"]
     /\ Tells(w) /\ Overtakes(w, {i, job[w].chosen})
     /\ rep' = [m \in Items |->
          IF m = i THEN Flush(job[w].rep, job[w].chosen, rep[m])
          ELSE IF m \in (members \cap job[w].met) \ {Lead(w)} THEN Lead(w) ELSE rep[m]]
     /\ size' = [m \in Items |->
          IF m \in members THEN Flush(job[w].sizes[m], n, size[m]) ELSE size[m]]
     /\ Goto(w, "done")
     /\ UNCHANGED <<enrich, process, scrape, faults>>

ReportProcess(w) ==
  /\ job[w].pc = "done"
  /\ Stop(w)
  /\ UNCHANGED <<rowVars, enrich, process, scrape, faults>>

\* An exception: the row is failed; the task is retried until its budget is used up.
ProcessFails(w, again) ==
  /\ Disturb("failure")
  /\ job[w].pc \in {"discuss", "summarize", "chosen", "listed"}
  /\ status' = [status EXCEPT ![job[w].item] = "failed"]
  /\ process' = [process EXCEPT ![job[w].item] = @ + (IF again THEN 1 ELSE 0)]
  /\ Stop(w)
  /\ UNCHANGED <<rep, size, meta, enrich, scrape>>

\* Mutant of ProcessDies: nobody takes the task up again.
ProcessDiesForGood(w) ==
  /\ \/ Disturb("crash") /\ job[w].pc \in {"discuss", "summarize", "chosen", "listed"}
     \/ Disturb("duplicate") /\ job[w].pc = "done"
  /\ Stop(w)
  /\ UNCHANGED <<rowVars, enrich, process, scrape>>

\* The worker dies: its transaction is gone, unless it dies after the commit; its task is
\* taken up again.
ProcessDies(w) ==
  /\ \/ Disturb("crash") /\ job[w].pc \in {"discuss", "summarize", "chosen", "listed"}
     \/ Disturb("duplicate") /\ job[w].pc = "done"
  /\ process' = [process EXCEPT ![job[w].item] = @ + 1]
  /\ Stop(w)
  /\ UNCHANGED <<rowVars, enrich, scrape>>

-----------------------------------------------------------------------------
WorkerStep(w) ==
  \/ \E i \in Items : BeginEnrich(w, i) \/ BeginProcess(w, i)
  \/ \E new \in SUBSET {"body"} : CommitEnrich(w, new)
  \/ EnqueueProcess(w)
  \/ ReportEnrich(w)
  \/ StoreDiscussion(w)
  \/ \E j \in Items \cup {NoItem} : Choose(w, j)
  \/ ListMembers(w)
  \/ CommitSummary(w)
  \/ ReportProcess(w)

Next ==
  \/ \E i \in Items : \/ Ingest(i) \/ EnqueueEnrichment(i)
                      \/ ScraperDies(i) \/ MeetAgain(i)
                      \/ \E news \in BOOLEAN : Rescrape(i, news)
  \/ \E w \in Workers : \/ WorkerStep(w) \/ EnrichDies(w) \/ ProcessDies(w)
                        \/ \E again \in BOOLEAN : ProcessFails(w, again)

\* Scrapers go on to their enqueue and workers poll.
Fairness ==
  /\ \A i \in Items : WF_vars(EnqueueEnrichment(i))
  /\ \A w \in Workers : WF_vars(WorkerStep(w))

Spec == Init /\ [][Next]_vars /\ Fairness

-----------------------------------------------------------------------------
(* Properties *)

TypeOK ==
  /\ status \in [Items -> {"absent", "new", "processing", "ready", "failed"}]
  /\ rep \in [Items -> Items \cup {NoItem}]
  /\ size \in [Items -> 1..Cardinality(Items)]
  /\ meta \in [Items -> SUBSET Parts]
  /\ enrich \in [Items -> {"none", "owed", "pending"}]
  /\ process \in [Items -> 0..(MaxFaults + 1)]
  /\ behind \subseteq {p \in Sessions \X Items : Holds(p[1], p[2])}
  /\ faults \in 0..MaxFaults

InFeed(i) == status[i] = "ready" /\ rep[i] = NoItem
Under(i) == {m \in Items : m = i \/ rep[m] = i}

\* Items never hide behind each other: a group of items always has one whose
\* representative is outside, so a story whose items are all ready is in the feed.
\* It relies on process_news_item taking a row out of ready while it runs.
NoMutualHiding ==
  \A group \in SUBSET Items : group # {} => \E i \in group : rep[i] \notin group

\* A story is in the feed at most once, when one process drains the queue.
OneRepresentative ==
  \A i, j \in Items : InFeed(i) /\ InFeed(j) /\ Story[i] = Story[j] => i = j

\* The size shown with a story is the number of rows behind it, with one process.
CountsMembers == \A i \in Items : InFeed(i) => size[i] = Cardinality(Under(i))

\* What raw_metadata has is dropped only by a session that had loaded the row before
\* somebody else's commit: no handler writes what it loaded before its own commit.
MetadataGrows ==
  \A i \in DOMAIN meta :
    meta[i] \subseteq meta'[i] \/ \E s \in Sessions : <<s, i>> \in behind \ behind'
MetadataKept == [][MetadataGrows]_vars

\* An item that is not settled has somebody who will go on with it, unless its
\* scraper died or met it again.
NeverForgotten ==
  \A i \in Items : status[i] \in {"new", "processing"} =>
    \/ enrich[i] # "none" \/ process[i] > 0
    \/ \E w \in Workers : job[w].item = i

\* Every ingested item becomes ready or fails for good.
EventuallySettled == \A i \in Items : status[i] = "new" ~> status[i] \in {"ready", "failed"}
=============================================================================

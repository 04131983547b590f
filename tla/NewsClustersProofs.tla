------------------------- MODULE NewsClustersProofs ---------------------------
(***************************************************************************)
(* Clusters of news for any number of items, stories and disturbances: in  *)
(* one process that may run a task again after its commit, and in any      *)
(* number of processes that do not.                                        *)
(***************************************************************************)
EXTENDS NewsClusters, TLAPS

Fields == {"pc", "item", "meta", "rep", "chosen", "copy", "met", "sizes", "members"}
Reading == {"discuss", "summarize", "chosen", "listed"}
Pcs == Reading \cup {"idle", "download", "enriched", "reporting", "done"}

JobTypes ==
  /\ DOMAIN job = Workers
  /\ \A w \in Workers :
       /\ DOMAIN job[w] = Fields
       /\ job[w].pc \in Pcs
       /\ job[w].item \in IF job[w].pc = "idle" THEN {NoItem} ELSE Items
       /\ job[w].pc \in {"chosen", "listed"} => job[w].chosen \in Items \cup {NoItem}

Types ==
  /\ status \in [Items -> {"absent", "new", "processing", "ready", "failed"}]
  /\ rep \in [Items -> Items \cup {NoItem}]
  /\ size = [m \in Items |-> size[m]]
  /\ DOMAIN meta = Items
  /\ enrich \in [Items -> {"none", "owed", "pending"}]
  /\ process \in [Items -> Nat]
  /\ DOMAIN scrape = Items
  /\ JobTypes

-----------------------------------------------------------------------------
(* What each action does to the job of its worker *)

Others(w) == DOMAIN job' = Workers /\ \A v \in Workers \ {w} : job'[v] = job[v]

LEMMA IdleFields ==
  /\ DOMAIN Idle = Fields /\ Idle.pc = "idle" /\ Idle.item = NoItem
  BY DEF Idle, Fields

LEMMA JobMoves ==
  ASSUME JobTypes, NEW w \in Workers, NEW r, job' = [job EXCEPT ![w] = r]
  PROVE  job'[w] = r /\ Others(w)
  BY DEF JobTypes, Others

LEMMA StopEffect ==
  ASSUME JobTypes, NEW w \in Workers, Stop(w)
  PROVE  Others(w) /\ job'[w] = Idle /\ JobTypes'
<1>1. Others(w) /\ job'[w] = Idle
  BY JobMoves DEF Stop
<1> QED BY <1>1, IdleFields DEF JobTypes, Others, Pcs

LEMMA GotoEffect ==
  ASSUME JobTypes, NEW w \in Workers, NEW pc \in Pcs \ {"idle", "chosen", "listed"}, Goto(w, pc),
         job[w].pc # "idle"
  PROVE  /\ Others(w) /\ job'[w].pc = pc /\ job'[w].item = job[w].item
         /\ job'[w].meta = job[w].meta /\ JobTypes'
<1> DEFINE r == [job[w] EXCEPT !.pc = pc]
<1>1. job' = [job EXCEPT ![w] = r] /\ DOMAIN job[w] = Fields
  BY DEF Goto, JobTypes
<1>2. /\ DOMAIN r = Fields /\ r.pc = pc /\ r.item = job[w].item /\ r.meta = job[w].meta
  BY <1>1 DEF Fields
<1>3. job'[w] = r /\ Others(w)
  BY <1>1, JobMoves
<1> HIDE DEF r
<1> QED BY <1>2, <1>3 DEF JobTypes, Others

LEMMA BeginEnrichEffect ==
  ASSUME JobTypes, NEW w \in Workers, NEW i \in Items, BeginEnrich(w, i)
  PROVE  /\ Others(w) /\ job'[w].pc = "download" /\ job'[w].item = i /\ job'[w].meta = meta[i]
         /\ JobTypes'
<1> DEFINE r == [Idle EXCEPT !.pc = "download", !.item = i, !.meta = meta[i]]
<1>1. DOMAIN r = Fields /\ r.pc = "download" /\ r.item = i /\ r.meta = meta[i]
  BY DEF Idle, Fields
<1>2. job'[w] = r /\ Others(w)
  BY JobMoves DEF BeginEnrich
<1> HIDE DEF r
<1> QED BY <1>1, <1>2 DEF JobTypes, Others, Pcs

LEMMA BeginProcessEffect ==
  ASSUME JobTypes, NEW w \in Workers, NEW i \in Items, BeginProcess(w, i)
  PROVE  /\ Others(w) /\ job'[w].pc \in {"summarize", "discuss"} /\ job'[w].item = i
         /\ job'[w].meta = meta[i] /\ job'[w].rep = rep[i] /\ job'[w].sizes = size
         /\ JobTypes'
<1>0. PICK pc : pc = IF "discussion" \in meta[i] THEN "summarize" ELSE "discuss"
  OBVIOUS
<1> DEFINE r == [Idle EXCEPT !.item = i, !.meta = meta[i], !.rep = rep[i], !.sizes = size,
                             !.pc = pc]
<1>1. /\ DOMAIN r = Fields /\ r.pc = pc /\ r.item = i /\ r.meta = meta[i] /\ r.rep = rep[i]
      /\ r.sizes = size
  BY DEF Idle, Fields
<1>2. job'[w] = r /\ Others(w)
  BY <1>0, JobMoves DEF BeginProcess
<1> HIDE DEF r
<1> QED BY <1>0, <1>1, <1>2 DEF JobTypes, Others, Pcs, Reading

LEMMA StoreDiscussionEffect ==
  ASSUME JobTypes, NEW w \in Workers, StoreDiscussion(w)
  PROVE  /\ Others(w) /\ job'[w].pc = "summarize" /\ job'[w].item = job[w].item
         /\ job'[w].meta = meta'[job[w].item] /\ job'[w].rep = rep[job[w].item]
         /\ job'[w].sizes = size /\ JobTypes'
<1>0. PICK i, m : i = job[w].item /\ m = meta'[i]
  OBVIOUS
<1> DEFINE r == [job[w] EXCEPT !.pc = "summarize", !.meta = m, !.rep = rep[i], !.sizes = size]
<1>1. job' = [job EXCEPT ![w] = r] /\ DOMAIN job[w] = Fields /\ job[w].item \in Items
  <2>1. job' = [job EXCEPT ![w].pc = "summarize", ![w].meta = meta'[job[w].item],
                           ![w].rep = rep[job[w].item], ![w].sizes = size]
    BY Zenon DEF StoreDiscussion
  <2>2. job[w].pc = "discuss"
    BY Zenon DEF StoreDiscussion
  <2> QED BY <1>0, <2>1, <2>2 DEF JobTypes
<1>2. /\ DOMAIN r = Fields /\ r.pc = "summarize" /\ r.item = i /\ r.meta = m /\ r.rep = rep[i]
      /\ r.sizes = size
  BY <1>0, <1>1 DEF Fields
<1>3. job'[w] = r /\ Others(w)
  BY <1>1, JobMoves
<1> HIDE DEF r
<1> QED BY <1>0, <1>1, <1>2, <1>3 DEF JobTypes, Others, Pcs, Reading

LEMMA ChooseEffect ==
  ASSUME JobTypes, NEW w \in Workers, NEW j \in Items \cup {NoItem}, Choose(w, j)
  PROVE  /\ Others(w) /\ job'[w].pc = "chosen" /\ job'[w].item = job[w].item
         /\ job'[w].meta = job[w].meta /\ job'[w].rep = job[w].rep
         /\ job'[w].chosen = j /\ job'[w].met = Candidates(job[w].item)
         /\ job'[w].copy = (IF j = NoItem THEN {} ELSE meta[j])
         /\ job'[w].sizes = Reload({job[w].item}, w) /\ JobTypes'
<1>0. PICK i, copy, met, sizes :
        /\ i = job[w].item /\ copy = (IF j = NoItem THEN {} ELSE meta[j])
        /\ met = Candidates(i) /\ sizes = Reload({i}, w)
  OBVIOUS
<1> DEFINE r == [job[w] EXCEPT !.pc = "chosen", !.chosen = j, !.met = met, !.copy = copy,
                               !.sizes = sizes]
<1>1. job' = [job EXCEPT ![w] = r] /\ DOMAIN job[w] = Fields /\ job[w].item \in Items
  BY <1>0 DEF Choose, JobTypes
<1>2. /\ DOMAIN r = Fields /\ r.pc = "chosen" /\ r.item = i /\ r.meta = job[w].meta
      /\ r.rep = job[w].rep /\ r.chosen = j /\ r.copy = copy /\ r.met = met
      /\ r.sizes = sizes
  BY <1>0, <1>1 DEF Fields
<1>3. job'[w] = r /\ Others(w)
  BY <1>1, JobMoves
<1> HIDE DEF r
<1>4. JobTypes'
  BY <1>0, <1>1, <1>2, <1>3 DEF JobTypes, Others, Pcs, Reading
<1> QED BY <1>0, <1>2, <1>3, <1>4

LEMMA ListMembersEffect ==
  ASSUME JobTypes, NEW w \in Workers, ListMembers(w)
  PROVE  LET i == job[w].item
             pointer(m) == IF m = i THEN job[w].chosen ELSE rep[m]
         IN /\ Others(w) /\ job'[w].pc = "listed" /\ job'[w].item = i
            /\ job'[w].meta = job[w].meta /\ job'[w].rep = job[w].rep
            /\ job'[w].chosen = job[w].chosen /\ job'[w].copy = job[w].copy
            /\ job'[w].met = job[w].met
            /\ job'[w].members = {Lead(w)} \cup {m \in Items : pointer(m) = Lead(w)}
            /\ job'[w].sizes = Reload(job[w].met \cup {i}, w)
            /\ JobTypes'
<1>0. PICK i, members, sizes :
        /\ i = job[w].item
        /\ members = {Lead(w)} \cup
             {m \in Items : (IF m = i THEN job[w].chosen ELSE rep[m]) = Lead(w)}
        /\ sizes = Reload(job[w].met \cup {i}, w)
  OBVIOUS
<1> DEFINE r == [job[w] EXCEPT !.pc = "listed", !.members = members, !.sizes = sizes]
<1>1. /\ job' = [job EXCEPT ![w] = r] /\ DOMAIN job[w] = Fields /\ job[w].item \in Items
      /\ job[w].chosen \in Items \cup {NoItem}
  BY <1>0 DEF ListMembers, JobTypes
<1>2. /\ DOMAIN r = Fields /\ r.pc = "listed" /\ r.item = i /\ r.meta = job[w].meta
      /\ r.rep = job[w].rep /\ r.chosen = job[w].chosen /\ r.copy = job[w].copy
      /\ r.met = job[w].met /\ r.members = members /\ r.sizes = sizes
  BY <1>0, <1>1 DEF Fields
<1>3. job'[w] = r /\ Others(w)
  BY <1>1, JobMoves
<1> HIDE DEF r
<1>4. JobTypes'
  BY <1>0, <1>1, <1>2, <1>3 DEF JobTypes, Others, Pcs, Reading
<1> QED BY <1>0, <1>2, <1>3, <1>4

\* The pointer of the item itself is the chosen one or what it was, and of the others only
\* those move that were met as candidates and listed as members.
LEMMA CommitSummaryEffect ==
  ASSUME Types, NEW w \in Workers, CommitSummary(w)
  PROVE  LET i == job[w].item
         IN /\ status' = [status EXCEPT ![i] = "ready"]
            /\ Tells(w) /\ Overtakes(w, {i, job[w].chosen})
            /\ rep' \in [Items -> Items \cup {NoItem}]
            /\ rep'[i] = Flush(job[w].rep, job[w].chosen, rep[i])
            /\ \A m \in Items \ {i} :
                 rep'[m] = IF m \in (job[w].members \cap job[w].met) \ {Lead(w)}
                             THEN Lead(w) ELSE rep[m]
            /\ size' = [m \in Items |-> size'[m]]
            /\ \A m \in Items : size'[m] =
                 IF m \in job[w].members
                   THEN Flush(job[w].sizes[m], Cardinality(job[w].members), size[m])
                   ELSE size[m]
            /\ Others(w) /\ job'[w].pc = "done" /\ job'[w].item = i /\ JobTypes'
            /\ UNCHANGED <<enrich, process, scrape>>
<1>1. /\ job[w].pc = "listed" /\ job[w].item \in Items
      /\ job[w].chosen \in Items \cup {NoItem}
  BY DEF CommitSummary, Types, JobTypes
<1>2. /\ Others(w) /\ job'[w].pc = "done" /\ job'[w].item = job[w].item /\ JobTypes'
  BY <1>1, GotoEffect DEF CommitSummary, Types, Pcs
<1>3. /\ status' = [status EXCEPT ![job[w].item] = "ready"]
      /\ Tells(w) /\ Overtakes(w, {job[w].item, job[w].chosen})
      /\ UNCHANGED <<enrich, process, scrape>>
  BY DEF CommitSummary
<1>4. rep' = [m \in Items |->
          IF m = job[w].item THEN Flush(job[w].rep, job[w].chosen, rep[m])
          ELSE IF m \in (job[w].members \cap job[w].met) \ {Lead(w)} THEN Lead(w) ELSE rep[m]]
  BY Zenon DEF CommitSummary
<1>5. size' = [m \in Items |->
          IF m \in job[w].members
            THEN Flush(job[w].sizes[m], Cardinality(job[w].members), size[m]) ELSE size[m]]
  BY Zenon DEF CommitSummary
<1>6. Lead(w) \in Items
  BY <1>1 DEF Lead
<1>7. Flush(job[w].rep, job[w].chosen, rep[job[w].item]) \in Items \cup {NoItem}
  BY <1>1 DEF Flush, Types
<1>8. rep' \in [Items -> Items \cup {NoItem}]
  BY <1>4, <1>6, <1>7 DEF Types
<1> QED BY <1>1, <1>2, <1>3, <1>4, <1>5, <1>8

Scrapes(i) ==
  \/ Ingest(i) \/ EnqueueEnrichment(i) \/ ScraperDies(i) \/ MeetAgain(i)
  \/ \E news \in BOOLEAN : Rescrape(i, news)

LEMMA NextScrapes ==
  Next <=> \/ \E i \in Items : Scrapes(i)
           \/ \E w \in Workers : \/ WorkerStep(w) \/ EnrichDies(w) \/ ProcessDies(w)
                                 \/ \E again \in BOOLEAN : ProcessFails(w, again)
  BY DEF Next, Scrapes

LEMMA TypesStep == Types /\ [Next]_vars => Types'
<1> SUFFICES ASSUME Types, [Next]_vars PROVE Types'
  OBVIOUS
<1>0. JobTypes
  BY DEF Types
<1>1. CASE UNCHANGED vars
  BY <1>1 DEF vars, rowVars, Types, JobTypes
<1>2. ASSUME NEW i \in Items,
             Ingest(i) \/ EnqueueEnrichment(i) \/ ScraperDies(i) \/ MeetAgain(i)
      PROVE  Types'
  BY <1>2 DEF Ingest, EnqueueEnrichment, ScraperDies, MeetAgain, rowVars, Types, JobTypes
<1>15. ASSUME NEW i \in Items, NEW news \in BOOLEAN, Rescrape(i, news) PROVE Types'
  <2>1. JobTypes' /\ UNCHANGED <<rep, size, enrich, process>>
    BY <1>0, <1>15 DEF Rescrape, JobTypes
  <2>2. status' \in [Items -> {"absent", "new", "processing", "ready", "failed"}]
    BY <1>15 DEF Rescrape, Flush, Types
  <2>3. DOMAIN meta' = Items /\ DOMAIN scrape' = Items
    BY <1>15 DEF Rescrape, Types
  <2> QED BY <2>1, <2>2, <2>3 DEF Types
<1>3. ASSUME NEW w \in Workers, NEW i \in Items, BeginEnrich(w, i) PROVE Types'
  BY <1>0, <1>3, BeginEnrichEffect DEF BeginEnrich, rowVars, Types
<1>4. ASSUME NEW w \in Workers, NEW i \in Items, BeginProcess(w, i) PROVE Types'
  <2>1. /\ process' = [process EXCEPT ![i] = @ - 1] /\ process[i] > 0
        /\ status' = [status EXCEPT ![i] = "processing"]
        /\ UNCHANGED <<rep, size, meta, enrich, scrape>>
    BY <1>4 DEF BeginProcess
  <2>2. JobTypes'
    BY <1>0, <1>4, BeginProcessEffect
  <2> QED BY <2>1, <2>2 DEF Types
<1>5. ASSUME NEW w \in Workers, NEW new, CommitEnrich(w, new) PROVE Types'
  <2>1. JobTypes'
    BY <1>0, <1>5, GotoEffect DEF CommitEnrich, Pcs
  <2> QED BY <1>5, <2>1 DEF CommitEnrich, Types
<1>6. ASSUME NEW w \in Workers, EnqueueProcess(w) PROVE Types'
  <2>1. JobTypes' /\ job[w].item \in Items
    BY <1>0, <1>6, GotoEffect DEF EnqueueProcess, Pcs, JobTypes
  <2> QED BY <1>6, <2>1 DEF EnqueueProcess, rowVars, Types
<1>7. ASSUME NEW w \in Workers, ReportEnrich(w) \/ ReportProcess(w) PROVE Types'
  BY <1>0, <1>7, StopEffect DEF ReportEnrich, ReportProcess, rowVars, Types
<1>8. ASSUME NEW w \in Workers, StoreDiscussion(w) PROVE Types'
  BY <1>0, <1>8, StoreDiscussionEffect DEF StoreDiscussion, Types
<1>9. ASSUME NEW w \in Workers, NEW j \in Items \cup {NoItem}, Choose(w, j) PROVE Types'
  BY <1>0, <1>9, ChooseEffect DEF Choose, rowVars, Types
<1>10. ASSUME NEW w \in Workers, ListMembers(w) PROVE Types'
  BY <1>0, <1>10, ListMembersEffect DEF ListMembers, rowVars, Types
<1>11. ASSUME NEW w \in Workers, CommitSummary(w) PROVE Types'
  BY <1>11, CommitSummaryEffect DEF Types, Tells
<1>12. ASSUME NEW w \in Workers, EnrichDies(w) PROVE Types'
  BY <1>0, <1>12, StopEffect DEF EnrichDies, rowVars, Types
<1>13. ASSUME NEW w \in Workers, NEW again \in BOOLEAN, ProcessFails(w, again) PROVE Types'
  <2>1. job[w].item \in Items
    BY <1>0, <1>13 DEF ProcessFails, JobTypes
  <2> QED BY <1>0, <1>13, <2>1, StopEffect DEF ProcessFails, Types
<1>14. ASSUME NEW w \in Workers, ProcessDies(w) PROVE Types'
  <2>1. job[w].item \in Items
    BY <1>0, <1>14 DEF ProcessDies, JobTypes
  <2> QED BY <1>0, <1>14, <2>1, StopEffect DEF ProcessDies, rowVars, Types
<1> QED
  BY <1>1, <1>2, <1>3, <1>4, <1>5, <1>6, <1>7, <1>8, <1>9, <1>10, <1>11, <1>12, <1>13, <1>14, <1>15
  DEF Next, WorkerStep

LEMMA InitTypes == Init => Types
<1> SUFFICES ASSUME Init PROVE Types
  OBVIOUS
<1>1. DOMAIN job = Workers /\ \A w \in Workers : job[w] = Idle
  BY DEF Init
<1>2. JobTypes
  BY <1>1, IdleFields DEF JobTypes, Pcs
<1> QED BY <1>2 DEF Init, Types

-----------------------------------------------------------------------------
(* One process, whose tasks may run again after their commit *)

Sole == \A v, w \in Workers : v = w

\* What the process has loaded, met and listed is what the rows still hold.
Current ==
  \A w \in Workers :
    /\ job[w].pc \in Reading =>
         /\ status[job[w].item] = "processing"
         /\ job[w].rep = rep[job[w].item] /\ job[w].sizes = size
    /\ job[w].pc \in {"chosen", "listed"} =>
         /\ job[w].met = Candidates(job[w].item)
         /\ job[w].chosen \in IF job[w].met = {} THEN {NoItem} ELSE job[w].met
    /\ job[w].pc = "listed" =>
         job[w].members = {Lead(w)} \cup
           {m \in Items : (IF m = job[w].item THEN job[w].chosen ELSE rep[m]) = Lead(w)}
    /\ job[w].pc = "done" => status[job[w].item] = "ready"
    /\ job[w].pc = "reporting" => process[job[w].item] > 0

SameStory == \A i \in Items : rep[i] # NoItem => Story[rep[i]] = Story[i]

SoleInv ==
  /\ Types /\ Current /\ SameStory
  /\ NoMutualHiding /\ NeverForgotten /\ OneRepresentative /\ CountsMembers

LEMMA SoleInit == ASSUME NoItem \notin Items PROVE Init => SoleInv
<1> SUFFICES ASSUME Init PROVE SoleInv
  OBVIOUS
<1>1. Types
  BY InitTypes
<1>2. \A i \in Items : status[i] = "absent" /\ rep[i] = NoItem
  BY DEF Init
<1>3. \A w \in Workers : job[w].pc = "idle"
  BY IdleFields DEF Init
<1>4. NoMutualHiding
  BY <1>2 DEF NoMutualHiding
<1> QED
  BY <1>1, <1>2, <1>3, <1>4
  DEF SoleInv, Current, SameStory, NeverForgotten, OneRepresentative, CountsMembers, InFeed, Reading

\* Nothing changes for the clusters when no row becomes or is ready by a step and no
\* pointer or size changes.
LEMMA ClustersRest ==
  ASSUME Types, UNCHANGED <<rep, size>>, Types',
         \A i \in Items : status'[i] = "ready" => status[i] = "ready",
         SameStory, NoMutualHiding, OneRepresentative, CountsMembers
  PROVE  SameStory' /\ NoMutualHiding' /\ OneRepresentative' /\ CountsMembers'
<1>1. \A i \in Items : (InFeed(i)' => InFeed(i)) /\ Under(i)' = Under(i)
  BY DEF InFeed, Under
<1>2. SameStory' /\ NoMutualHiding'
  BY DEF SameStory, NoMutualHiding
<1>3. OneRepresentative'
  BY <1>1 DEF OneRepresentative
<1>4. CountsMembers'
  BY <1>1 DEF CountsMembers
<1> QED BY <1>2, <1>3, <1>4

LEMMA CandidatesSame ==
  ASSUME Types, UNCHANGED rep, NEW i,
         \A j \in Items \ {i} : status'[j] = "ready" <=> status[j] = "ready"
  PROVE  Candidates(i)' = Candidates(i)
  BY DEF Candidates, Types

\* No scraper has met an item again.
Unmet == \A i \in Items : scrape[i].status = "absent"

LEMMA UnmetInit == Init => Unmet
  BY DEF Init, Unmet, Away

\* The scraper's steps concern no row that the process works on.
LEMMA IngestionCurrent ==
  ASSUME Disturbances \cap {"rescrape", "scraper"} = {}, Unmet, Types, Current, NEW i \in Items,
         Scrapes(i)
  PROVE  /\ Current'
         /\ \A j \in Items : /\ status'[j] = "ready" <=> status[j] = "ready"
                             /\ status[j] # "absent" => status'[j] = status[j]
         /\ UNCHANGED <<rep, size, process, job>>
         /\ \A j \in Items : /\ enrich[j] # "none" => enrich'[j] # "none"
                             /\ status[j] = "absent" /\ status'[j] # "absent" =>
                                  enrich'[j] # "none"
<1>1. Ingest(i) \/ EnqueueEnrichment(i)
  BY DEF Scrapes, ScraperDies, MeetAgain, Rescrape, Unmet, Disturb
<1>2. /\ \A j \in Items : /\ status'[j] = "ready" <=> status[j] = "ready"
                          /\ status[j] # "absent" => status'[j] = status[j]
      /\ UNCHANGED <<rep, size, process, job>>
      /\ \A j \in Items : /\ enrich[j] # "none" => enrich'[j] # "none"
                          /\ status[j] = "absent" /\ status'[j] # "absent" => enrich'[j] # "none"
  BY <1>1 DEF Ingest, EnqueueEnrichment, rowVars, Types
<1>3. \A j : Candidates(j)' = Candidates(j)
  BY <1>2 DEF Candidates
<1>4. \A w \in Workers : job[w].pc # "idle" => job[w].item \in Items
  BY DEF Types, JobTypes
<1>5. \A w \in Workers : Lead(w)' = Lead(w)
  BY <1>2 DEF Lead
<1>6. ASSUME NEW w \in Workers, job[w].pc \in Reading
      PROVE  status'[job[w].item] = "processing"
  BY <1>2, <1>4, <1>6 DEF Current, Reading
<1>7. ASSUME NEW w \in Workers, job[w].pc = "done" PROVE status'[job[w].item] = "ready"
  BY <1>2, <1>4, <1>7 DEF Current
<1>8. Current'
  BY <1>2, <1>3, <1>5, <1>6, <1>7 DEF Current
<1> QED BY <1>2, <1>8

\* The process begins, works on and gives up enrichment tasks.
LEMMA EnrichmentCurrent ==
  ASSUME Sole, Types, Current, NEW w \in Workers,
         \/ \E i \in Items : BeginEnrich(w, i)
         \/ \E new \in SUBSET {"body"} : CommitEnrich(w, new)
         \/ EnqueueProcess(w) \/ ReportEnrich(w) \/ EnrichDies(w)
  PROVE  Current'
<1>0. JobTypes /\ \A v \in Workers : v = w
  BY DEF Types, Sole
<1>1. ASSUME NEW i \in Items, BeginEnrich(w, i) PROVE Current'
  <2>1. job'[w].pc = "download" /\ job'[w].item = i
    BY <1>0, <1>1, BeginEnrichEffect
  <2> QED BY <1>0, <2>1 DEF Current, Reading
<1>2. ASSUME NEW new \in SUBSET {"body"}, CommitEnrich(w, new) PROVE Current'
  <2>1. job'[w].pc = "enriched"
    BY <1>0, <1>2, GotoEffect DEF CommitEnrich, Pcs
  <2> QED BY <1>0, <2>1 DEF Current, Reading
<1>3. ASSUME EnqueueProcess(w) PROVE Current'
  <2>1. job'[w].pc = "reporting" /\ job'[w].item = job[w].item /\ job[w].item \in Items
    BY <1>0, <1>3, GotoEffect DEF EnqueueProcess, Pcs, JobTypes
  <2>2. process'[job[w].item] > 0
    BY <1>3, <2>1 DEF EnqueueProcess, Types
  <2> QED BY <1>0, <2>1, <2>2 DEF Current, Reading
<1>4. ASSUME Stop(w) PROVE Current'
  <2>1. job'[w].pc = "idle"
    BY <1>0, <1>4, StopEffect, IdleFields
  <2> QED BY <1>0, <2>1 DEF Current, Reading
<1> QED BY <1>1, <1>2, <1>3, <1>4 DEF ReportEnrich, EnrichDies

\* The process begins and works on a summary.
LEMMA SummaryCurrent ==
  ASSUME NoItem \notin Items, Sole, Types, Current, NEW w \in Workers,
         \/ \E i \in Items : BeginProcess(w, i)
         \/ StoreDiscussion(w)
         \/ \E j \in Items \cup {NoItem} : Choose(w, j)
         \/ ListMembers(w)
  PROVE  Current'
<1>0. JobTypes /\ \A v \in Workers : v = w
  BY DEF Types, Sole
<1>1. ASSUME NEW i \in Items, BeginProcess(w, i) PROVE Current'
  <2>1. /\ job'[w].pc \in {"summarize", "discuss"} /\ job'[w].item = i
        /\ job'[w].rep = rep[i] /\ job'[w].sizes = size
    BY <1>0, <1>1, BeginProcessEffect
  <2>2. /\ status' = [status EXCEPT ![i] = "processing"] /\ UNCHANGED <<rep, size>>
    BY <1>1 DEF BeginProcess
  <2>3. status'[i] = "processing"
    BY <2>2 DEF Types
  <2> QED BY <1>0, <2>1, <2>2, <2>3 DEF Current, Reading
<1>2. ASSUME StoreDiscussion(w) PROVE Current'
  <2>1. /\ job'[w].pc = "summarize" /\ job'[w].item = job[w].item
        /\ job'[w].rep = rep[job[w].item]
        /\ job'[w].sizes = size
    BY <1>0, <1>2, StoreDiscussionEffect
  <2>2. UNCHANGED <<status, rep, size>> /\ job[w].pc = "discuss"
    BY <1>2 DEF StoreDiscussion
  <2> QED BY <1>0, <2>1, <2>2 DEF Current, Reading
<1>3. ASSUME NEW j \in Items \cup {NoItem}, Choose(w, j) PROVE Current'
  <2>1. /\ job'[w].pc = "chosen" /\ job'[w].item = job[w].item
        /\ job'[w].rep = job[w].rep
        /\ job'[w].chosen = j /\ job'[w].met = Candidates(job[w].item)
        /\ job'[w].sizes = Reload({job[w].item}, w)
    BY <1>0, <1>3, ChooseEffect
  <2>2. /\ UNCHANGED <<status, rep, size>> /\ job[w].pc = "summarize"
        /\ j \in IF Candidates(job[w].item) = {} THEN {NoItem} ELSE Candidates(job[w].item)
    BY <1>3 DEF Choose, rowVars
  <2>3. /\ status[job[w].item] = "processing" /\ job[w].rep = rep[job[w].item]
        /\ job[w].sizes = size
    BY <2>2 DEF Current, Reading
  <2>4. Reload({job[w].item}, w) = size
    BY <2>3 DEF Reload, Types
  <2>6. Candidates(job[w].item)' = Candidates(job[w].item)
    BY <2>1, <2>2 DEF Candidates
  <2> QED BY <1>0, <2>1, <2>2, <2>3, <2>4, <2>6 DEF Current, Reading
<1>4. ASSUME ListMembers(w) PROVE Current'
  <2>1. /\ job'[w].pc = "listed" /\ job'[w].item = job[w].item
        /\ job'[w].rep = job[w].rep
        /\ job'[w].chosen = job[w].chosen /\ job'[w].met = job[w].met
        /\ job'[w].members = {Lead(w)} \cup
             {m \in Items : (IF m = job[w].item THEN job[w].chosen ELSE rep[m]) = Lead(w)}
        /\ job'[w].sizes = Reload(job[w].met \cup {job[w].item}, w)
    BY <1>0, <1>4, ListMembersEffect
  <2>2. UNCHANGED <<status, rep, size>> /\ job[w].pc = "chosen"
    BY <1>4 DEF ListMembers, rowVars
  <2>3. /\ status[job[w].item] = "processing" /\ job[w].rep = rep[job[w].item]
        /\ job[w].sizes = size
        /\ job[w].met = Candidates(job[w].item)
        /\ job[w].chosen \in IF job[w].met = {} THEN {NoItem} ELSE job[w].met
    BY <2>2 DEF Current, Reading
  <2>4. Reload(job[w].met \cup {job[w].item}, w) = size
    BY <2>3 DEF Reload, Types
  <2>5. Candidates(job[w].item)' = Candidates(job[w].item) /\ Lead(w)' = Lead(w)
    BY <2>1, <2>2 DEF Candidates, Lead
  <2> QED BY <1>0, <2>1, <2>2, <2>3, <2>4, <2>5 DEF Current, Reading
<1> QED BY <1>1, <1>2, <1>3, <1>4

\* The commit moves the pointer of the item and nobody else's, and counts what is then
\* under the lead.
LEMMA CommitMoves ==
  ASSUME NoItem \notin Items, Types, Current, NEW w \in Workers, CommitSummary(w)
  PROVE  LET i == job[w].item
         IN /\ i \in Items /\ status[i] = "processing" /\ Lead(w) \in Items
            /\ job[w].chosen \in IF Candidates(i) = {} THEN {NoItem} ELSE Candidates(i)
            /\ rep' = [rep EXCEPT ![i] = job[w].chosen]
            /\ status' = [status EXCEPT ![i] = "ready"]
            /\ job[w].members = Under(Lead(w))'
            /\ \A m \in Items : size'[m] =
                 IF m \in job[w].members THEN Cardinality(job[w].members) ELSE size[m]
<1>1. /\ job[w].pc = "listed" /\ job[w].item \in Items
  BY DEF CommitSummary, Types, JobTypes
<1>2. /\ status[job[w].item] = "processing"
      /\ job[w].rep = rep[job[w].item] /\ job[w].sizes = size
      /\ job[w].met = Candidates(job[w].item)
      /\ job[w].chosen \in IF job[w].met = {} THEN {NoItem} ELSE job[w].met
      /\ job[w].members = {Lead(w)} \cup
           {m \in Items : (IF m = job[w].item THEN job[w].chosen ELSE rep[m]) = Lead(w)}
  BY <1>1 DEF Current, Reading
<1>3. Lead(w) \in Items
  BY <1>1, <1>2 DEF Lead, Candidates
<1>4. (job[w].members \cap job[w].met) \ {Lead(w)} = {}
  BY <1>2, <1>3 DEF Candidates
<1>5. /\ status' = [status EXCEPT ![job[w].item] = "ready"]
      /\ rep' \in [Items -> Items \cup {NoItem}]
      /\ rep'[job[w].item] = Flush(job[w].rep, job[w].chosen, rep[job[w].item])
      /\ \A m \in Items \ {job[w].item} :
           rep'[m] = IF m \in (job[w].members \cap job[w].met) \ {Lead(w)}
                       THEN Lead(w) ELSE rep[m]
      /\ \A m \in Items : size'[m] =
           IF m \in job[w].members
             THEN Flush(job[w].sizes[m], Cardinality(job[w].members), size[m])
             ELSE size[m]
  BY CommitSummaryEffect
<1>6. rep'[job[w].item] = job[w].chosen /\ \A m \in Items \ {job[w].item} : rep'[m] = rep[m]
  BY <1>2, <1>4, <1>5 DEF Flush
<1>7. rep' = [rep EXCEPT ![job[w].item] = job[w].chosen]
  BY <1>5, <1>6 DEF Types
<1>8. \A m \in Items : size'[m] =
           IF m \in job[w].members THEN Cardinality(job[w].members) ELSE size[m]
  BY <1>2, <1>5 DEF Flush
<1>9. PICK l : l = Lead(w)
  OBVIOUS
<1>10. job[w].members = {m \in Items : m = l \/ rep'[m] = l}
  BY <1>2, <1>3, <1>6, <1>9
<1>11. l = Lead(w)'
  <2>1. job'[w].chosen = job[w].chosen /\ job'[w].item = job[w].item
    <3>1. job' = [job EXCEPT ![w] = [job[w] EXCEPT !.pc = "done"]]
      BY DEF CommitSummary, Goto, Types, JobTypes
    <3> QED BY <3>1 DEF Types, JobTypes, Fields
  <2> QED BY <1>9, <2>1 DEF Lead
<1>12. job[w].members = Under(Lead(w))'
  BY <1>10, <1>11 DEF Under
<1> QED BY <1>1, <1>2, <1>3, <1>5, <1>7, <1>8, <1>12

LEMMA SoleSummary ==
  ASSUME NoItem \notin Items, Sole, SoleInv, NEW w \in Workers,
         \/ \E i \in Items : BeginProcess(w, i)
         \/ StoreDiscussion(w)
         \/ \E j \in Items \cup {NoItem} : Choose(w, j)
         \/ ListMembers(w)
  PROVE  SoleInv'
<1>0. JobTypes /\ Types /\ \A v \in Workers : v = w
  BY DEF SoleInv, Types, Sole
<1>1. Current'
  BY SummaryCurrent DEF SoleInv
<1>2. Types'
  BY TypesStep DEF SoleInv, Next, WorkerStep
<1>3. UNCHANGED <<rep, size, enrich>>
  <2>1. CASE StoreDiscussion(w)
    BY Zenon, <2>1 DEF StoreDiscussion
  <2>2. CASE ListMembers(w)
    BY <2>2 DEF ListMembers, rowVars
  <2>3. ASSUME NEW i \in Items, BeginProcess(w, i) PROVE UNCHANGED <<rep, size, enrich>>
    BY <2>3 DEF BeginProcess
  <2>4. ASSUME NEW j \in Items \cup {NoItem}, Choose(w, j) PROVE UNCHANGED <<rep, size, enrich>>
    BY <2>4 DEF Choose, rowVars
  <2> QED BY <2>1, <2>2, <2>3, <2>4
<1>4. ASSUME NEW i \in Items, BeginProcess(w, i)
      PROVE  /\ \A k \in Items : status'[k] = "ready" => status[k] = "ready"
             /\ NeverForgotten'
  <2>0. job'[w].item = i
    BY <1>0, <1>4, BeginProcessEffect
  <2>1. job[w].item = NoItem /\ job'[w].item = i
    BY <1>0, <1>4, <2>0 DEF BeginProcess, JobTypes
  <2>2. /\ process' = [process EXCEPT ![i] = @ - 1]
        /\ status' = [status EXCEPT ![i] = "processing"]
    BY <1>4 DEF BeginProcess
  <2>3. \A k \in Items \ {i} : status'[k] = status[k] /\ process'[k] = process[k]
    BY <1>0, <2>2 DEF Types
  <2>4. ASSUME NEW k \in Items \ {i}, status[k] \in {"new", "processing"}
        PROVE  enrich[k] # "none" \/ process[k] > 0
    BY <1>0, <2>1, <2>4 DEF SoleInv, NeverForgotten
  <2>5. NeverForgotten'
    BY <1>3, <2>1, <2>3, <2>4 DEF NeverForgotten
  <2>6. status'[i] = "processing"
    BY <1>0, <2>2 DEF Types
  <2> QED BY <2>3, <2>5, <2>6
<1>5. ASSUME ~\E i \in Items : BeginProcess(w, i)
      PROVE  /\ \A k \in Items : status'[k] = "ready" => status[k] = "ready"
             /\ NeverForgotten'
  <2>1. ASSUME StoreDiscussion(w)
        PROVE  UNCHANGED <<status, process>> /\ job'[w].item = job[w].item
    <3>1. UNCHANGED <<status, process>>
      BY Zenon, <2>1 DEF StoreDiscussion
    <3> QED BY <1>0, <2>1, <3>1, StoreDiscussionEffect
  <2>2. ASSUME NEW j \in Items \cup {NoItem}, Choose(w, j)
        PROVE  UNCHANGED <<status, process>> /\ job'[w].item = job[w].item
    BY <1>0, <2>2, ChooseEffect DEF Choose, rowVars
  <2>3. ASSUME ListMembers(w)
        PROVE  UNCHANGED <<status, process>> /\ job'[w].item = job[w].item
    <3>1. job'[w].item = job[w].item
      BY <1>0, <2>3, ListMembersEffect
    <3> QED BY <2>3, <3>1 DEF ListMembers, rowVars
  <2>4. CASE UNCHANGED <<status, process>> /\ job'[w].item = job[w].item
    BY <1>0, <1>3, <2>4 DEF SoleInv, NeverForgotten
  <2> QED BY <1>5, <2>1, <2>2, <2>3, <2>4
<1> QED BY <1>1, <1>2, <1>3, <1>4, <1>5, ClustersRest DEF SoleInv

LEMMA SoleEnd ==
  ASSUME NoItem \notin Items, Sole, SoleInv, NEW w \in Workers,
         \/ ReportProcess(w) \/ ProcessDies(w)
         \/ \E again \in BOOLEAN : ProcessFails(w, again)
  PROVE  SoleInv'
<1>0. JobTypes /\ Types /\ \A v \in Workers : v = w
  BY DEF SoleInv, Types, Sole
<1>1. Current'
  <2>1. Stop(w)
    BY DEF ReportProcess, ProcessDies, ProcessFails
  <2>2. job'[w].pc = "idle"
    BY <1>0, <2>1, StopEffect, IdleFields
  <2> QED BY <1>0, <2>2 DEF Current, Reading
<1>2. Types'
  BY TypesStep DEF SoleInv, Next, WorkerStep
<1>3. UNCHANGED <<rep, size, enrich>> /\ job[w].item \in Items
  BY <1>0 DEF ReportProcess, ProcessDies, ProcessFails, rowVars, JobTypes
<1>4. /\ \A k \in Items : status'[k] = "ready" => status[k] = "ready"
      /\ \A k \in Items \ {job[w].item} : status'[k] = status[k] /\ process'[k] = process[k]
      /\ status'[job[w].item] \in {"ready", "failed"} \/ process'[job[w].item] > 0
  <2>1. CASE ReportProcess(w)
    BY <1>0, <1>3, <2>1 DEF ReportProcess, rowVars, SoleInv, Current
  <2>2. CASE ProcessDies(w)
    BY <1>0, <1>3, <2>2 DEF ProcessDies, rowVars, Types
  <2>3. ASSUME NEW again \in BOOLEAN, ProcessFails(w, again)
        PROVE  /\ \A k \in Items : status'[k] = "ready" => status[k] = "ready"
               /\ \A k \in Items \ {job[w].item} :
                    status'[k] = status[k] /\ process'[k] = process[k]
               /\ status'[job[w].item] = "failed"
    BY <1>0, <1>3, <2>3 DEF ProcessFails, Types
  <2> QED BY <2>1, <2>2, <2>3
<1>5. ASSUME NEW k \in Items \ {job[w].item}, status[k] \in {"new", "processing"}
      PROVE  enrich[k] # "none" \/ process[k] > 0
  BY <1>0, <1>5 DEF SoleInv, NeverForgotten
<1>6. NeverForgotten'
  BY <1>3, <1>4, <1>5 DEF NeverForgotten
<1> QED BY <1>1, <1>2, <1>3, <1>4, <1>6, ClustersRest DEF SoleInv

LEMMA SoleCommit ==
  ASSUME NoItem \notin Items, Sole, SoleInv, NEW w \in Workers, CommitSummary(w)
  PROVE  SoleInv'
<1>1. PICK i, j, l, n, members :
        /\ i = job[w].item /\ j = job[w].chosen /\ l = Lead(w)
        /\ members = job[w].members /\ n = Cardinality(members)
  OBVIOUS
<1>2. /\ i \in Items /\ status[i] = "processing" /\ l \in Items
      /\ j \in IF Candidates(i) = {} THEN {NoItem} ELSE Candidates(i)
      /\ rep' = [rep EXCEPT ![i] = j] /\ status' = [status EXCEPT ![i] = "ready"]
      /\ \A m \in Items : size'[m] = IF m \in members THEN n ELSE size[m]
  BY <1>1, CommitMoves DEF SoleInv
<1>3. l = IF j = NoItem THEN i ELSE j
  BY <1>1 DEF Lead
<1>4. Types'
  BY TypesStep DEF SoleInv, Next, WorkerStep
<1>5. /\ rep'[i] = j /\ status'[i] = "ready"
      /\ \A m \in Items \ {i} : rep'[m] = rep[m] /\ status'[m] = status[m]
  BY <1>2 DEF SoleInv, Types
<1>6. members = {m \in Items : m = l \/ rep'[m] = l}
  <2>1. /\ job[w].met = Candidates(i)
        /\ members = {l} \cup {m \in Items : (IF m = i THEN j ELSE rep[m]) = l}
    BY <1>1 DEF SoleInv, Current, CommitSummary
  <2> QED BY <1>2, <1>5, <2>1
<1>7. /\ job'[w].pc = "done" /\ job'[w].item = i /\ UNCHANGED <<enrich, process>>
  BY <1>1, CommitSummaryEffect DEF SoleInv
<1>8. Current'
  BY <1>5, <1>7 DEF Sole, Current, Reading
<1>9. SameStory'
  BY <1>2, <1>5 DEF SoleInv, SameStory, Candidates
<1>10. NoMutualHiding'
  <2> SUFFICES ASSUME NEW group \in SUBSET Items, group # {}
               PROVE  \E m \in group : rep'[m] \notin group
    BY DEF NoMutualHiding
  <2>1. PICK m \in group : rep[m] \notin group
    BY DEF SoleInv, NoMutualHiding
  <2>2. CASE m # i
    BY <1>5, <2>1, <2>2
  <2>3. CASE m = i /\ j \notin group
    BY <1>5, <2>3
  <2>4. CASE m = i /\ j \in group
    BY <1>2, <1>5, <2>4 DEF Candidates
  <2> QED BY <2>2, <2>3, <2>4
<1>11. NeverForgotten'
  <2>1. ASSUME NEW k \in Items, k # i, status[k] \in {"new", "processing"}
        PROVE  enrich[k] # "none" \/ process[k] > 0
    BY <1>1, <2>1 DEF SoleInv, NeverForgotten, Sole
  <2> QED BY <1>5, <1>7, <2>1 DEF NeverForgotten
<1>12. \A k \in Items \ {i} : InFeed(k)' <=> InFeed(k)
  BY <1>5 DEF InFeed
<1>13. InFeed(i)' => Candidates(i) = {} /\ l = i
  BY <1>2, <1>3, <1>5 DEF InFeed, Candidates
<1>14. OneRepresentative'
  <2>1. ASSUME NEW k \in Items \ {i}, InFeed(k), Story[k] = Story[i] PROVE Candidates(i) # {}
    BY <2>1 DEF InFeed, Candidates
  <2> QED BY <1>12, <1>13, <2>1 DEF SoleInv, OneRepresentative
<1>15. CountsMembers'
  <2> SUFFICES ASSUME NEW k \in Items, InFeed(k)' PROVE size'[k] = Cardinality(Under(k)')
    BY DEF CountsMembers
  <2>1. Under(k)' = {m \in Items : m = k \/ rep'[m] = k}
    BY DEF Under
  <2>2. CASE k = l
    BY <1>1, <1>2, <1>6, <2>1, <2>2
  <2>3. CASE k # l
    <3>1. k # i /\ InFeed(k)
      BY <1>12, <1>13, <2>3
    <3>2. rep[k] = NoItem /\ rep'[k] = NoItem
      BY <1>5, <3>1 DEF InFeed
    <3>3. k \notin members
      BY <1>2, <1>6, <2>3, <3>2
    <3>4. rep[i] # k
      <4> SUFFICES ASSUME rep[i] = k PROVE FALSE
        OBVIOUS
      <4>1. k \in Candidates(i)
        BY <1>2, <3>1 DEF Candidates, InFeed, SoleInv, SameStory
      <4>2. j \in Candidates(i) /\ InFeed(j) /\ Story[j] = Story[k] /\ j = l
        BY <1>2, <1>3, <4>1 DEF Candidates, InFeed
      <4> QED BY <2>3, <3>1, <4>2 DEF SoleInv, OneRepresentative, Candidates
    <3>5. j # k
      BY <1>3, <2>3
    <3>6. Under(k)' = Under(k)
      BY <1>5, <2>1, <3>4, <3>5 DEF Under
    <3> QED BY <1>2, <3>1, <3>3, <3>6 DEF SoleInv, CountsMembers
  <2> QED BY <2>2, <2>3
<1> QED BY <1>4, <1>8, <1>9, <1>10, <1>11, <1>14, <1>15 DEF SoleInv

\* A row is ready after a step other than the commit only if it was, and has somebody who
\* goes on with it: the process, or one of the two queues.
LEMMA SoleIngestion ==
  ASSUME Disturbances \cap {"rescrape", "scraper"} = {}, Unmet, SoleInv, NEW i \in Items,
         Scrapes(i)
  PROVE  SoleInv'
<1>1. /\ Current'
      /\ \A j \in Items : /\ status'[j] = "ready" <=> status[j] = "ready"
                          /\ status[j] # "absent" => status'[j] = status[j]
      /\ UNCHANGED <<rep, size, process, job>>
      /\ \A j \in Items : /\ enrich[j] # "none" => enrich'[j] # "none"
                          /\ status[j] = "absent" /\ status'[j] # "absent" => enrich'[j] # "none"
  BY IngestionCurrent DEF SoleInv
<1>2. Types'
  BY TypesStep, NextScrapes DEF SoleInv
<1>3. NeverForgotten'
  BY <1>1 DEF SoleInv, NeverForgotten
<1> QED BY <1>1, <1>2, <1>3, ClustersRest DEF SoleInv

LEMMA SoleEnrichment ==
  ASSUME NoItem \notin Items, Sole, SoleInv, NEW w \in Workers,
         \/ \E i \in Items : BeginEnrich(w, i)
         \/ \E new \in SUBSET {"body"} : CommitEnrich(w, new)
         \/ EnqueueProcess(w) \/ ReportEnrich(w) \/ EnrichDies(w)
  PROVE  SoleInv'
<1>0. JobTypes /\ Types /\ \A v \in Workers : v = w
  BY DEF SoleInv, Types, Sole
<1>1. Current'
  BY EnrichmentCurrent DEF SoleInv
<1>2. Types'
  BY TypesStep DEF SoleInv, Next, WorkerStep
<1>3. UNCHANGED <<status, rep, size>>
  BY DEF BeginEnrich, CommitEnrich, EnqueueProcess, ReportEnrich, EnrichDies, rowVars
<1>4. ASSUME NEW k \in Items, status[k] \in {"new", "processing"}
      PROVE  enrich[k] # "none" \/ process[k] > 0 \/ job[w].item = k
  BY <1>0, <1>4 DEF SoleInv, NeverForgotten
<1>5. ASSUME NEW k \in Items, enrich[k] # "none" \/ process[k] > 0 \/ job[w].item = k
      PROVE  enrich'[k] # "none" \/ process'[k] > 0 \/ job'[w].item = k
  <2>1. ASSUME NEW i \in Items, BeginEnrich(w, i)
        PROVE  enrich'[k] # "none" \/ process'[k] > 0 \/ job'[w].item = k
    <3>1. job'[w].item = i /\ UNCHANGED process /\ enrich' = [enrich EXCEPT ![i] = "none"]
      BY <1>0, <2>1, BeginEnrichEffect DEF BeginEnrich
    <3>2. job[w].item # k
      BY <1>0, <2>1 DEF BeginEnrich, JobTypes
    <3> QED BY <1>0, <1>5, <3>1, <3>2 DEF Types
  <2>2. ASSUME NEW new \in SUBSET {"body"}, CommitEnrich(w, new)
        PROVE  enrich'[k] # "none" \/ process'[k] > 0 \/ job'[w].item = k
    BY <1>0, <1>5, <2>2, GotoEffect DEF CommitEnrich, Pcs
  <2>3. ASSUME EnqueueProcess(w)
        PROVE  enrich'[k] # "none" \/ process'[k] > 0 \/ job'[w].item = k
    <3>1. job'[w].item = job[w].item /\ UNCHANGED enrich
      BY <1>0, <2>3, GotoEffect DEF EnqueueProcess, Pcs
    <3>2. process' = [process EXCEPT ![job[w].item] = @ + 1]
      BY <2>3 DEF EnqueueProcess
    <3> QED BY <1>0, <1>5, <3>1, <3>2 DEF Types
  <2>4. ASSUME ReportEnrich(w)
        PROVE  enrich'[k] # "none" \/ process'[k] > 0 \/ job'[w].item = k
    <3>1. process[job[w].item] > 0 /\ UNCHANGED <<enrich, process>>
      BY <2>4 DEF ReportEnrich, SoleInv, Current
    <3> QED BY <1>5, <3>1
  <2>5. ASSUME EnrichDies(w)
        PROVE  enrich'[k] # "none" \/ process'[k] > 0 \/ job'[w].item = k
    <3>1. enrich' = [enrich EXCEPT ![job[w].item] = "pending"] /\ UNCHANGED process
      BY <2>5 DEF EnrichDies
    <3> QED BY <1>0, <1>5, <3>1 DEF Types
  <2> QED BY <2>1, <2>2, <2>3, <2>4, <2>5
<1>6. NeverForgotten'
  BY <1>3, <1>4, <1>5 DEF NeverForgotten
<1> QED BY <1>1, <1>2, <1>3, <1>6, ClustersRest DEF SoleInv

LEMMA ScrapeStays ==
  ASSUME NEW w \in Workers,
         \/ WorkerStep(w) \/ EnrichDies(w) \/ ProcessDies(w)
         \/ \E again \in BOOLEAN : ProcessFails(w, again)
  PROVE  UNCHANGED scrape
<1>1. StoreDiscussion(w) => UNCHANGED scrape
  BY Zenon DEF StoreDiscussion
<1>2. CommitSummary(w) => UNCHANGED scrape
  BY Zenon DEF CommitSummary
<1>3. \A j \in Items \cup {NoItem} : Choose(w, j) => UNCHANGED scrape
  BY Zenon DEF Choose
<1>4. \A i \in Items : BeginEnrich(w, i) \/ BeginProcess(w, i) => UNCHANGED scrape
  BY Zenon DEF BeginEnrich, BeginProcess
<1>5. \A new : CommitEnrich(w, new) => UNCHANGED scrape
  BY DEF CommitEnrich
<1>6. EnqueueProcess(w) \/ ReportEnrich(w) \/ ListMembers(w) \/ ReportProcess(w) =>
        UNCHANGED scrape
  BY Zenon DEF EnqueueProcess, ReportEnrich, ListMembers, ReportProcess
<1>7. EnrichDies(w) \/ ProcessDies(w) => UNCHANGED scrape
  BY Zenon DEF EnrichDies, ProcessDies
<1>8. \A again : ProcessFails(w, again) => UNCHANGED scrape
  BY DEF ProcessFails
<1> QED BY <1>1, <1>2, <1>3, <1>4, <1>5, <1>6, <1>7, <1>8 DEF WorkerStep

LEMMA SoleStep ==
  ASSUME NoItem \notin Items, Sole, Disturbances \cap {"rescrape", "scraper"} = {},
         SoleInv, Unmet, [Next]_vars
  PROVE  SoleInv' /\ Unmet'
<1>1. CASE UNCHANGED vars
  BY <1>1 DEF vars, rowVars, SoleInv, Types, JobTypes, Current, Reading, Candidates, Lead,
     SameStory, NoMutualHiding, NeverForgotten, OneRepresentative, CountsMembers, InFeed, Under,
     Unmet
<1>2. ASSUME NEW i \in Items, Scrapes(i) PROVE SoleInv' /\ Unmet'
  <2>1. Ingest(i) \/ EnqueueEnrichment(i)
    BY <1>2 DEF Scrapes, ScraperDies, MeetAgain, Rescrape, Unmet, Disturb
  <2>2. UNCHANGED scrape
    BY <2>1 DEF Ingest, EnqueueEnrichment
  <2> QED BY <1>2, <2>2, SoleIngestion DEF Unmet
<1>3. ASSUME NEW w \in Workers,
             \/ WorkerStep(w) \/ EnrichDies(w) \/ ProcessDies(w)
             \/ \E again \in BOOLEAN : ProcessFails(w, again)
      PROVE  SoleInv' /\ Unmet'
  BY <1>3, SoleEnrichment, SoleSummary, SoleCommit, SoleEnd, ScrapeStays DEF WorkerStep, Unmet
<1> QED BY <1>1, <1>2, <1>3, NextScrapes DEF Next

-----------------------------------------------------------------------------
(* Any number of processes, none of which runs a task again after its commit *)

Holding == Reading \cup {"download", "enriched"}
Unsettled == {"new", "processing", "failed"}

\* What a process holds has no task, and nobody else holds it.
Handled ==
  \A w \in Workers : job[w].pc \in Holding =>
    LET i == job[w].item
    IN /\ enrich[i] = "none" /\ process[i] = 0 /\ status[i] \in Unsettled
       /\ \A v \in Workers \ {w} : job[v].pc \in Holding => job[v].item # i

\* An item has one task at most, and none before its row or when it is ready.
OneTask ==
  \A i \in Items :
    /\ process[i] \in {0, 1}
    /\ process[i] = 1 => enrich[i] = "none"
    /\ process[i] = 1 \/ enrich[i] # "none" => status[i] \in Unsettled

\* A row that nobody will ever work on again, whatever its status becomes.
Settled(i) ==
  /\ status[i] # "absent" /\ enrich[i] = "none" /\ process[i] = 0
  /\ \A w \in Workers : job[w].pc \in Holding => job[w].item # i

\* The rows met as candidates keep their place, and are not under the lead.
Chosen ==
  \A w \in Workers : job[w].pc \in {"chosen", "listed"} =>
    /\ job[w].chosen \in job[w].met \cup {NoItem}
    /\ \A m \in job[w].met : m \in Items /\ Settled(m) /\ rep[m] = NoItem
    /\ job[w].pc = "listed" => job[w].members \cap job[w].met \subseteq {Lead(w)}

\* Rows hide when they are settled only, behind settled rows that do not.
Flat ==
  \A i \in Items : rep[i] # NoItem =>
    Settled(i) /\ Settled(rep[i]) /\ rep[rep[i]] = NoItem

OnceInv == Types /\ Handled /\ OneTask /\ Chosen /\ Flat

LEMMA OnceInit == Init => OnceInv
<1> SUFFICES ASSUME Init PROVE OnceInv
  OBVIOUS
<1>1. /\ Types
      /\ \A i \in Items : /\ status[i] = "absent" /\ rep[i] = NoItem
                          /\ process[i] = 0 /\ enrich[i] = "none"
  BY InitTypes DEF Init
<1>2. \A w \in Workers : job[w].pc = "idle"
  BY IdleFields DEF Init
<1> QED BY <1>1, <1>2 DEF OnceInv, Handled, OneTask, Chosen, Flat, Holding, Reading

LEMMA OnceHidesNothing == ASSUME NoItem \notin Items PROVE OnceInv => NoMutualHiding
<1> SUFFICES ASSUME OnceInv, NEW group \in SUBSET Items, NEW i \in group
             PROVE  \E m \in group : rep[m] \notin group
  BY DEF NoMutualHiding
<1>1. CASE rep[i] \in group
  BY <1>1 DEF OnceInv, Flat
<1> QED BY <1>1

\* Ready rows are settled.
LEMMA ReadySettled ==
  ASSUME OnceInv, NEW i \in Items, status[i] = "ready" PROVE Settled(i)
  BY DEF OnceInv, Types, Handled, OneTask, Settled, Unsettled

\* One process goes on with one item, which nobody else holds.
LEMMA OneItemMoves ==
  ASSUME OnceInv, NEW w \in Workers, NEW i \in Items, Others(w),
         job[w].pc \in Holding => job[w].item = i,
         \A v \in Workers \ {w} : job[v].pc \in Holding => job[v].item # i,
         \A k \in Items \ {i} : /\ status'[k] = status[k] /\ enrich'[k] = enrich[k]
                                /\ process'[k] = process[k],
         job'[w].pc \in Holding =>
           /\ job'[w].item = i /\ enrich'[i] = "none" /\ process'[i] = 0
           /\ status'[i] \in Unsettled,
         process'[i] \in {0, 1}, process'[i] = 1 => enrich'[i] = "none",
         process'[i] = 1 \/ enrich'[i] # "none" => status'[i] \in Unsettled
  PROVE  /\ Handled' /\ OneTask'
         /\ \A k \in Items \ {i} : Settled(k) => Settled(k)'
<1>1. \A v \in Workers : job[v].pc \in Holding => job[v].item \in Items
  BY DEF OnceInv, Types, JobTypes, Holding, Reading
<1>2. ASSUME NEW v \in Workers \ {w}, job[v].pc \in Holding
      PROVE  /\ enrich'[job[v].item] = "none" /\ process'[job[v].item] = 0
             /\ status'[job[v].item] \in Unsettled
             /\ \A u \in Workers \ {v} : job'[u].pc \in Holding => job'[u].item # job[v].item
  BY <1>1, <1>2 DEF OnceInv, Handled, Others
<1>3. Handled'
  BY <1>2 DEF Handled, Others
<1>4. OneTask'
  BY DEF OnceInv, OneTask
<1>5. ASSUME NEW k \in Items \ {i}, Settled(k) PROVE Settled(k)'
  BY <1>5 DEF Settled, Others
<1> QED BY <1>3, <1>4, <1>5

\* Nothing changes for the clusters when settled rows stay settled and no pointer moves.
LEMMA ChosenRest ==
  ASSUME OnceInv, NEW w \in Workers, Others(w), UNCHANGED rep,
         \A k \in Items : Settled(k) => Settled(k)',
         job'[w].pc \notin {"chosen", "listed"}
  PROVE  Chosen' /\ Flat'
<1>1. Chosen'
  BY DEF OnceInv, Chosen, Others, Lead
<1>2. \A k \in Items : rep[k] \in Items \cup {NoItem}
  BY DEF OnceInv, Types
<1>3. Flat'
  BY <1>2 DEF OnceInv, Flat
<1> QED BY <1>1, <1>3

LEMMA OnceIngestion == ASSUME OnceInv, NEW i \in Items, Scrapes(i) PROVE OnceInv'
<1>1. UNCHANGED <<rep, process, job>>
  BY DEF Scrapes, Ingest, EnqueueEnrichment, ScraperDies, MeetAgain, Rescrape, rowVars
<1>2. \A k \in Items \ {i} : status'[k] = status[k] /\ enrich'[k] = enrich[k]
  BY DEF Scrapes, Ingest, EnqueueEnrichment, ScraperDies, MeetAgain, Rescrape, rowVars, OnceInv,
     Types
<1>3. /\ status'[i] \in {status[i], "new"}
      /\ \/ enrich'[i] = enrich[i]
         \/ status[i] = "absent" /\ status'[i] = "new"
         \/ enrich[i] = "owed"
  <2>1. ASSUME NEW news \in BOOLEAN, Rescrape(i, news)
        PROVE  status'[i] \in {status[i], "new"} /\ enrich'[i] = enrich[i]
    <3>1. /\ UNCHANGED enrich
          /\ status'[i] = Flush(scrape[i].status,
               IF scrape[i].status = "ready" THEN "ready" ELSE "new", status[i])
      BY <2>1 DEF Rescrape, OnceInv, Types
    <3> QED BY <3>1 DEF Flush
  <2> QED BY <2>1 DEF Scrapes, Ingest, EnqueueEnrichment, ScraperDies, MeetAgain, rowVars,
          OnceInv, Types
<1>4. Types'
  BY TypesStep, NextScrapes DEF OnceInv
<1>5. \A w \in Workers : job[w].pc \in Holding => job[w].item \in Items
  BY DEF OnceInv, Types, JobTypes, Holding, Reading
<1>6. ASSUME NEW w \in Workers, job[w].pc \in Holding
      PROVE  enrich'[job[w].item] = "none" /\ status'[job[w].item] \in Unsettled
  BY <1>2, <1>3, <1>5, <1>6 DEF OnceInv, Handled, Unsettled
<1>7. Handled'
  BY <1>1, <1>6 DEF OnceInv, Handled
<1>8. OneTask'
  BY <1>1, <1>2, <1>3 DEF OnceInv, OneTask, Unsettled
<1>9. \A k \in Items : Settled(k) => Settled(k)'
  BY <1>1, <1>2, <1>3 DEF Settled
<1>10. \A k \in Items : rep[k] \in Items \cup {NoItem}
  BY DEF OnceInv, Types
<1>11. Chosen' /\ Flat'
  BY <1>1, <1>9, <1>10 DEF OnceInv, Chosen, Flat, Lead
<1> QED BY <1>4, <1>7, <1>8, <1>11 DEF OnceInv

\* The same for a process that goes on with what it has met, if all of that is settled.
LEMMA SettledMove ==
  ASSUME OnceInv, NEW w \in Workers, Others(w), UNCHANGED rep,
         \A k \in Items : Settled(k) => Settled(k)',
         job'[w].chosen \in job'[w].met \cup {NoItem},
         \A m \in job'[w].met : m \in Items /\ Settled(m) /\ rep[m] = NoItem,
         job'[w].pc = "listed" => job'[w].members \cap job'[w].met \subseteq {Lead(w)'}
  PROVE  Chosen' /\ Flat'
<1>1. Chosen'
  BY DEF OnceInv, Chosen, Others, Lead
<1>2. \A k \in Items : rep[k] \in Items \cup {NoItem}
  BY DEF OnceInv, Types
<1>3. Flat'
  BY <1>2 DEF OnceInv, Flat
<1> QED BY <1>1, <1>3

\* The item that the process begins with has a task, so nobody holds it.
LEMMA OnceBegin ==
  ASSUME OnceInv, NEW w \in Workers, NEW i \in Items, BeginEnrich(w, i) \/ BeginProcess(w, i)
  PROVE  OnceInv'
<1>0. JobTypes /\ Types
  BY DEF OnceInv, Types
<1>1. Types'
  BY TypesStep DEF OnceInv, Next, WorkerStep
<1>2. CASE BeginEnrich(w, i)
  <2>1. Others(w) /\ job'[w].pc = "download" /\ job'[w].item = i
    BY <1>0, <1>2, BeginEnrichEffect
  <2>2. /\ enrich[i] = "pending" /\ enrich' = [enrich EXCEPT ![i] = "none"]
        /\ UNCHANGED <<status, rep, process>> /\ job[w].pc = "idle" /\ ~Settled(i)
    BY <1>2 DEF BeginEnrich, rowVars, Settled
  <2>3. \A v \in Workers \ {w} : job[v].pc \in Holding => job[v].item # i
    BY <2>2 DEF OnceInv, Handled
  <2>4. process[i] = 0 /\ status[i] \in Unsettled
    BY <2>2 DEF OnceInv, OneTask
  <2>5. enrich'[i] = "none" /\ \A k \in Items \ {i} : enrich'[k] = enrich[k]
    BY <1>0, <2>2 DEF Types
  <2>6. Handled' /\ OneTask' /\ \A k \in Items \ {i} : Settled(k) => Settled(k)'
    BY <2>1, <2>2, <2>3, <2>4, <2>5, OneItemMoves DEF Holding, Reading
  <2> QED BY <1>1, <2>1, <2>2, <2>6, ChosenRest DEF OnceInv
<1>3. CASE BeginProcess(w, i)
  <2>1. Others(w) /\ job'[w].pc \in {"summarize", "discuss"} /\ job'[w].item = i
    BY <1>0, <1>3, BeginProcessEffect
  <2>2. /\ process[i] > 0 /\ process' = [process EXCEPT ![i] = @ - 1]
        /\ status' = [status EXCEPT ![i] = "processing"] /\ UNCHANGED <<rep, enrich>>
        /\ job[w].pc = "idle"
    BY <1>3 DEF BeginProcess
  <2>3. process[i] = 1 /\ enrich[i] = "none" /\ status[i] \in Unsettled
    BY <2>2 DEF OnceInv, OneTask
  <2>4. \A v \in Workers \ {w} : job[v].pc \in Holding => job[v].item # i
    BY <2>3 DEF OnceInv, Handled
  <2>5. /\ process'[i] = 0 /\ status'[i] = "processing"
        /\ \A k \in Items \ {i} : process'[k] = process[k] /\ status'[k] = status[k]
    BY <1>0, <2>2, <2>3 DEF Types
  <2>6. Handled' /\ OneTask' /\ \A k \in Items \ {i} : Settled(k) => Settled(k)'
    BY <2>1, <2>2, <2>3, <2>4, <2>5, OneItemMoves DEF Unsettled, Holding, Reading
  <2>7. \A k \in Items : Settled(k) => Settled(k)'
    BY <2>3, <2>6 DEF Settled
  <2> QED BY <1>1, <2>1, <2>2, <2>6, <2>7, ChosenRest DEF OnceInv
<1> QED BY <1>2, <1>3

\* A process goes on with the item that it holds.
LEMMA Held ==
  ASSUME OnceInv, NEW w \in Workers, job[w].pc \in Holding
  PROVE  LET i == job[w].item
         IN /\ i \in Items /\ enrich[i] = "none" /\ process[i] = 0 /\ status[i] \in Unsettled
            /\ ~Settled(i)
            /\ \A v \in Workers \ {w} : job[v].pc \in Holding => job[v].item # i
  BY DEF OnceInv, Handled, Types, JobTypes, Holding, Reading, Settled

LEMMA OnceEnrich ==
  ASSUME OnceInv, "duplicate" \notin Disturbances, NEW w \in Workers,
         \/ \E new \in SUBSET {"body"} : CommitEnrich(w, new)
         \/ EnqueueProcess(w) \/ EnrichDies(w)
  PROVE  OnceInv'
<1>0. JobTypes /\ Types
  BY DEF OnceInv, Types
<1>1. Types'
  BY TypesStep DEF OnceInv, Next, WorkerStep
<1>2. job[w].pc \in {"download", "enriched"}
  BY DEF CommitEnrich, EnqueueProcess, EnrichDies, Disturb
<1>3. PICK i : i = job[w].item
  OBVIOUS
<1>4. /\ i \in Items /\ enrich[i] = "none" /\ process[i] = 0 /\ status[i] \in Unsettled
      /\ ~Settled(i)
      /\ \A v \in Workers \ {w} : job[v].pc \in Holding => job[v].item # i
  BY <1>2, <1>3, Held DEF Holding
<1>5. UNCHANGED <<status, rep>>
  BY DEF CommitEnrich, EnqueueProcess, EnrichDies, rowVars
<1>6. ASSUME NEW new \in SUBSET {"body"}, CommitEnrich(w, new)
      PROVE  /\ Others(w) /\ job'[w].pc \notin {"chosen", "listed"} /\ Handled' /\ OneTask'
             /\ \A k \in Items \ {i} : Settled(k) => Settled(k)'
  <2>1. Others(w) /\ job'[w].pc = "enriched" /\ job'[w].item = i
    BY <1>0, <1>3, <1>6, GotoEffect DEF CommitEnrich, Pcs
  <2>2. UNCHANGED <<enrich, process>>
    BY <1>6 DEF CommitEnrich
  <2> QED BY <1>3, <1>4, <1>5, <2>1, <2>2, OneItemMoves
<1>7. ASSUME EnqueueProcess(w)
      PROVE  /\ Others(w) /\ job'[w].pc \notin {"chosen", "listed"} /\ Handled' /\ OneTask'
             /\ \A k \in Items \ {i} : Settled(k) => Settled(k)'
  <2>1. Others(w) /\ job'[w].pc = "reporting"
    BY <1>0, <1>7, GotoEffect DEF EnqueueProcess, Pcs
  <2>2. UNCHANGED enrich /\ process' = [process EXCEPT ![i] = @ + 1]
    BY <1>3, <1>7 DEF EnqueueProcess, rowVars
  <2>3. process'[i] = 1 /\ \A k \in Items \ {i} : process'[k] = process[k]
    BY <1>0, <1>4, <2>2 DEF Types
  <2> QED BY <1>3, <1>4, <1>5, <2>1, <2>2, <2>3, OneItemMoves DEF Holding, Reading
<1>8. ASSUME EnrichDies(w)
      PROVE  /\ Others(w) /\ job'[w].pc \notin {"chosen", "listed"} /\ Handled' /\ OneTask'
             /\ \A k \in Items \ {i} : Settled(k) => Settled(k)'
  <2>1. Others(w) /\ job'[w].pc = "idle"
    BY <1>0, <1>8, StopEffect, IdleFields DEF EnrichDies
  <2>2. UNCHANGED process /\ enrich' = [enrich EXCEPT ![i] = "pending"]
    BY <1>3, <1>8 DEF EnrichDies, rowVars
  <2>3. \A k \in Items \ {i} : enrich'[k] = enrich[k]
    BY <1>0, <2>2 DEF Types
  <2> QED BY <1>3, <1>4, <1>5, <2>1, <2>2, <2>3, OneItemMoves DEF Holding, Reading
<1> QED BY <1>1, <1>4, <1>5, <1>6, <1>7, <1>8, ChosenRest DEF OnceInv

LEMMA OnceSummary ==
  ASSUME NoItem \notin Items, OnceInv, NEW w \in Workers,
         \/ StoreDiscussion(w)
         \/ \E j \in Items \cup {NoItem} : Choose(w, j)
         \/ ListMembers(w)
  PROVE  OnceInv'
<1>0. JobTypes /\ Types
  BY DEF OnceInv, Types
<1>1. Types'
  BY TypesStep DEF OnceInv, Next, WorkerStep
<1>2. PICK i : i = job[w].item
  OBVIOUS
<1>3. ASSUME job[w].pc \in Reading
      PROVE  /\ i \in Items /\ enrich[i] = "none" /\ process[i] = 0 /\ status[i] \in Unsettled
             /\ ~Settled(i)
             /\ \A v \in Workers \ {w} : job[v].pc \in Holding => job[v].item # i
  BY <1>2, <1>3, Held DEF Holding, Reading
<1>4. ASSUME StoreDiscussion(w) PROVE OnceInv'
  <2>1. job[w].pc = "discuss" /\ UNCHANGED <<status, rep, enrich, process>>
    BY Zenon, <1>4 DEF StoreDiscussion
  <2>2. Others(w) /\ job'[w].pc = "summarize" /\ job'[w].item = i
    BY <1>0, <1>2, <1>4, StoreDiscussionEffect
  <2>3. Handled' /\ OneTask' /\ \A k \in Items \ {i} : Settled(k) => Settled(k)'
    BY <1>2, <1>3, <2>1, <2>2, OneItemMoves DEF Reading
  <2> QED BY <1>1, <1>3, <2>1, <2>2, <2>3, ChosenRest DEF OnceInv, Reading
<1>5. ASSUME NEW j \in Items \cup {NoItem}, Choose(w, j) PROVE OnceInv'
  <2>1. /\ Others(w) /\ job'[w].pc = "chosen" /\ job'[w].item = i
        /\ job'[w].chosen = j /\ job'[w].met = Candidates(i)
    BY <1>0, <1>2, <1>5, ChooseEffect
  <2>2. /\ job[w].pc = "summarize" /\ UNCHANGED <<status, rep, enrich, process>>
        /\ j \in Candidates(i) \cup {NoItem}
    BY <1>2, <1>5 DEF Choose, rowVars
  <2>3. Handled' /\ OneTask' /\ \A k \in Items \ {i} : Settled(k) => Settled(k)'
    BY <1>2, <1>3, <2>1, <2>2, OneItemMoves DEF Reading
  <2>4. \A k \in Items : Settled(k) => Settled(k)'
    BY <1>3, <2>2, <2>3 DEF Reading
  <2>5. \A m \in Candidates(i) : m \in Items /\ Settled(m) /\ rep[m] = NoItem
    BY ReadySettled DEF Candidates
  <2>6. Chosen' /\ Flat'
    BY <2>1, <2>2, <2>4, <2>5, SettledMove
  <2> QED BY <1>1, <2>3, <2>6 DEF OnceInv
<1>6. ASSUME ListMembers(w) PROVE OnceInv'
  <2>1. PICK l : l = Lead(w)
    OBVIOUS
  <2>2. /\ Others(w) /\ job'[w].pc = "listed" /\ job'[w].item = i
        /\ job'[w].chosen = job[w].chosen /\ job'[w].met = job[w].met
        /\ job'[w].members = {l} \cup {m \in Items : (IF m = i THEN job[w].chosen ELSE rep[m]) = l}
    BY <1>0, <1>2, <1>6, <2>1, ListMembersEffect
  <2>3. job[w].pc = "chosen" /\ UNCHANGED <<status, rep, enrich, process>>
    BY <1>6 DEF ListMembers, rowVars
  <2>4. Handled' /\ OneTask' /\ \A k \in Items \ {i} : Settled(k) => Settled(k)'
    BY <1>2, <1>3, <2>2, <2>3, OneItemMoves DEF Reading
  <2>5. /\ job[w].chosen \in job[w].met \cup {NoItem}
        /\ \A m \in job[w].met : m \in Items /\ Settled(m) /\ rep[m] = NoItem
    BY <2>3 DEF OnceInv, Chosen
  <2>6. i \notin job[w].met /\ l # NoItem
    BY <1>2, <1>3, <2>1, <2>3, <2>5 DEF Reading, Lead
  <2>7. job'[w].members \cap job'[w].met \subseteq {l}
    BY <2>2, <2>5, <2>6
  <2>8. Lead(w)' = l
    BY <1>2, <2>1, <2>2 DEF Lead
  <2>9. \A k \in Items : Settled(k) => Settled(k)'
    BY <1>3, <2>3, <2>4 DEF Reading
  <2>10. Chosen' /\ Flat'
    BY <2>2, <2>3, <2>5, <2>7, <2>8, <2>9, SettledMove
  <2> QED BY <1>1, <2>4, <2>10 DEF OnceInv
<1> QED BY <1>4, <1>5, <1>6

\* The item alone gets a pointer, to a settled row, which keeps its place.
LEMMA OnceCommit ==
  ASSUME NoItem \notin Items, OnceInv, NEW w \in Workers, CommitSummary(w)
  PROVE  OnceInv'
<1>1. Types'
  BY TypesStep DEF OnceInv, Next, WorkerStep
<1>2. PICK i, j : i = job[w].item /\ j = job[w].chosen
  OBVIOUS
<1>3. job[w].pc = "listed" /\ Types
  BY DEF CommitSummary, OnceInv
<1>4. /\ i \in Items /\ enrich[i] = "none" /\ process[i] = 0 /\ status[i] \in Unsettled
      /\ ~Settled(i)
      /\ \A v \in Workers \ {w} : job[v].pc \in Holding => job[v].item # i
  BY <1>2, <1>3, Held DEF Holding, Reading
<1>5. /\ j \in job[w].met \cup {NoItem}
      /\ \A m \in job[w].met : m \in Items /\ Settled(m) /\ rep[m] = NoItem
      /\ job[w].members \cap job[w].met \subseteq {Lead(w)}
  BY <1>2, <1>3 DEF OnceInv, Chosen
<1>6. /\ status' = [status EXCEPT ![i] = "ready"]
      /\ rep'[i] = Flush(job[w].rep, j, rep[i])
      /\ \A m \in Items \ {i} :
           rep'[m] = IF m \in (job[w].members \cap job[w].met) \ {Lead(w)} THEN Lead(w) ELSE rep[m]
      /\ Others(w) /\ job'[w].pc = "done" /\ UNCHANGED <<enrich, process>>
  BY <1>2, <1>3, CommitSummaryEffect
<1>8. rep[i] = NoItem
  BY <1>4 DEF OnceInv, Flat
<1>9. rep'[i] \in {j, NoItem} /\ \A m \in Items \ {i} : rep'[m] = rep[m]
  BY <1>5, <1>6, <1>8 DEF Flush
<1>10. status'[i] = "ready" /\ \A k \in Items \ {i} : status'[k] = status[k]
  BY <1>3, <1>4, <1>6 DEF Types
<1>11. Handled' /\ OneTask' /\ \A k \in Items \ {i} : Settled(k) => Settled(k)'
  BY <1>2, <1>4, <1>6, <1>10, OneItemMoves DEF Holding, Reading
<1>12. Settled(i)'
  BY <1>4, <1>6, <1>10 DEF Settled, Others, Holding, Reading
<1>13. Chosen'
  BY <1>4, <1>6, <1>9, <1>11 DEF OnceInv, Chosen, Others, Lead
<1>14. \A k \in Items : rep[k] \in Items \cup {NoItem}
  BY <1>3 DEF Types
<1>15. ASSUME NEW k \in Items, rep'[k] # NoItem
       PROVE  Settled(k)' /\ Settled(rep[k])' /\ rep'[rep'[k]] = NoItem
  <2>1. CASE k = i
    <3>1. rep'[i] = j /\ Settled(j) /\ rep[j] = NoItem /\ j \in Items \ {i}
      BY <1>4, <1>5, <1>9, <1>15, <2>1
    <3> QED BY <1>9, <1>11, <1>12, <2>1, <3>1
  <2>2. CASE k # i
    <3>1. /\ rep'[k] = rep[k] /\ rep[k] \in Items /\ Settled(k) /\ Settled(rep[k])
          /\ rep[rep[k]] = NoItem
      BY <1>9, <1>14, <1>15, <2>2 DEF OnceInv, Flat
    <3>2. rep[k] # i
      BY <1>4, <3>1
    <3> QED BY <1>9, <1>11, <2>2, <3>1, <3>2
  <2> QED BY <2>1, <2>2
<1> QED BY <1>1, <1>11, <1>13, <1>15 DEF OnceInv, Flat

LEMMA OnceEnd ==
  ASSUME OnceInv, "duplicate" \notin Disturbances, NEW w \in Workers,
         \/ ReportEnrich(w) \/ ReportProcess(w) \/ ProcessDies(w)
         \/ \E again \in BOOLEAN : ProcessFails(w, again)
  PROVE  OnceInv'
<1>0. JobTypes /\ Types
  BY DEF OnceInv, Types
<1>1. Types'
  BY TypesStep DEF OnceInv, Next, WorkerStep
<1>2. Stop(w) /\ UNCHANGED <<rep, enrich>>
  BY DEF ReportEnrich, ReportProcess, ProcessDies, ProcessFails, rowVars
<1>3. Others(w) /\ job'[w].pc = "idle"
  BY <1>0, <1>2, StopEffect, IdleFields
<1>4. PICK i : i = job[w].item
  OBVIOUS
<1>5. CASE ReportEnrich(w) \/ ReportProcess(w)
  <2>1. UNCHANGED <<status, process>>
    BY <1>5 DEF ReportEnrich, ReportProcess, rowVars
  <2>2. Handled'
    BY <1>2, <1>3, <2>1 DEF OnceInv, Handled, Others, Holding, Reading
  <2>3. OneTask'
    BY <1>2, <2>1 DEF OnceInv, OneTask
  <2>4. \A k \in Items : Settled(k) => Settled(k)'
    BY <1>2, <1>3, <2>1 DEF Settled, Others, Holding, Reading
  <2> QED BY <1>1, <1>2, <1>3, <2>2, <2>3, <2>4, ChosenRest DEF OnceInv
<1>6. ASSUME job[w].pc \in Reading, process'[i] \in {0, 1}, status'[i] \in Unsettled,
             \A k \in Items \ {i} : status'[k] = status[k] /\ process'[k] = process[k]
      PROVE  OnceInv'
  <2>1. /\ i \in Items /\ enrich[i] = "none" /\ ~Settled(i)
        /\ \A v \in Workers \ {w} : job[v].pc \in Holding => job[v].item # i
    BY <1>4, <1>6, Held DEF Holding
  <2>2. Handled' /\ OneTask' /\ \A k \in Items \ {i} : Settled(k) => Settled(k)'
    BY <1>2, <1>3, <1>4, <1>6, <2>1, OneItemMoves DEF Holding, Reading
  <2> QED BY <1>1, <1>2, <1>3, <2>1, <2>2, ChosenRest DEF OnceInv
<1>7. ASSUME job[w].pc \in Reading
      PROVE  i \in Items /\ process[i] = 0 /\ status[i] \in Unsettled
  BY <1>4, <1>7, Held DEF Holding
<1>8. CASE ProcessDies(w)
  <2>1. job[w].pc \in Reading /\ UNCHANGED status
    BY <1>8 DEF ProcessDies, Disturb, Reading, rowVars
  <2>2. process' = [process EXCEPT ![i] = @ + 1]
    BY <1>4, <1>8 DEF ProcessDies
  <2>3. process'[i] = 1 /\ \A k \in Items \ {i} : process'[k] = process[k]
    BY <1>0, <1>7, <2>1, <2>2 DEF Types
  <2> QED BY <1>6, <1>7, <2>1, <2>3
<1>9. ASSUME NEW again \in BOOLEAN, ProcessFails(w, again) PROVE OnceInv'
  <2>1. job[w].pc \in Reading /\ status' = [status EXCEPT ![i] = "failed"]
    BY <1>4, <1>9 DEF ProcessFails, Reading
  <2>2. process' = [process EXCEPT ![i] = @ + (IF again THEN 1 ELSE 0)]
    BY <1>4, <1>9 DEF ProcessFails
  <2>3. /\ process'[i] \in {0, 1} /\ status'[i] = "failed"
        /\ \A k \in Items \ {i} : status'[k] = status[k] /\ process'[k] = process[k]
    BY <1>0, <1>7, <2>1, <2>2 DEF Types
  <2> QED BY <1>6, <2>1, <2>3 DEF Unsettled
<1> QED BY <1>5, <1>8, <1>9

LEMMA OnceStep ==
  ASSUME NoItem \notin Items, "duplicate" \notin Disturbances, OnceInv, [Next]_vars
  PROVE  OnceInv'
<1>1. CASE UNCHANGED vars
  BY <1>1 DEF vars, rowVars, OnceInv, Types, JobTypes, Handled, OneTask, Chosen, Flat, Settled, Lead
<1>2. ASSUME NEW i \in Items, Scrapes(i) PROVE OnceInv'
  BY <1>2, OnceIngestion
<1>3. ASSUME NEW w \in Workers, NEW i \in Items, BeginEnrich(w, i) \/ BeginProcess(w, i)
      PROVE  OnceInv'
  BY <1>3, OnceBegin
<1>4. ASSUME NEW w \in Workers,
             \/ \E new \in SUBSET {"body"} : CommitEnrich(w, new)
             \/ EnqueueProcess(w) \/ EnrichDies(w)
      PROVE  OnceInv'
  BY <1>4, OnceEnrich
<1>5. ASSUME NEW w \in Workers,
             \/ StoreDiscussion(w) \/ \E j \in Items \cup {NoItem} : Choose(w, j)
             \/ ListMembers(w) \/ CommitSummary(w)
      PROVE  OnceInv'
  BY <1>5, OnceSummary, OnceCommit
<1>6. ASSUME NEW w \in Workers,
             \/ ReportEnrich(w) \/ ReportProcess(w) \/ ProcessDies(w)
             \/ \E again \in BOOLEAN : ProcessFails(w, again)
      PROVE  OnceInv'
  BY <1>6, OnceEnd
<1> QED BY <1>1, <1>2, <1>3, <1>4, <1>5, <1>6, NextScrapes DEF WorkerStep

-----------------------------------------------------------------------------
(* What is written to the metadata was read from it *)

\* What session s has of the raw_metadata of item i.
Copy(s, i) == IF s \in Items THEN scrape[s].meta
              ELSE IF job[s].item = i THEN job[s].meta ELSE job[s].copy

\* A session that is not behind has at least what the row has.
Copies ==
  \A s \in Sessions, i \in Items :
    Holds(s, i) /\ <<s, i>> \notin behind => meta[i] \subseteq Copy(s, i)

LEMMA CopiesInit == Init => Copies
<1> SUFFICES ASSUME Init PROVE Copies
  OBVIOUS
<1>1. \A w \in Workers : job[w].pc = "idle"
  BY IdleFields DEF Init
<1>2. \A i \in Items : scrape[i].status = "absent"
  BY DEF Init, Away
<1> QED BY <1>1, <1>2 DEF Copies, Holds

LEMMA OvertakesEffect ==
  ASSUME NEW s, NEW rows, Overtakes(s, rows), NEW t \in Sessions, NEW i \in Items
  PROVE  <<t, i>> \in behind' <=>
           t # s /\ (<<t, i>> \in behind \/ (i \in rows /\ Holds(t, i)))
  BY DEF Overtakes

\* Session s commits the metadata of some rows, ends or loads rows.
LEMMA SessionMoves ==
  ASSUME Copies, NEW s \in Sessions, NEW rows,
         \A t \in Sessions \ {s}, i \in Items :
           Holds(t, i)' => Holds(t, i) /\ Copy(t, i)' = Copy(t, i),
         \A i \in Items \ rows : meta'[i] = meta[i],
         \/ Overtakes(s, rows) /\ \A i \in Items : Holds(s, i)' => meta'[i] \subseteq Copy(s, i)'
         \/ /\ UNCHANGED <<meta, behind>>
            /\ \A i \in Items : Holds(s, i)' =>
                 \/ meta[i] \subseteq Copy(s, i)'
                 \/ Holds(s, i) /\ Copy(s, i)' = Copy(s, i)
  PROVE  Copies'
<1>1. CASE Overtakes(s, rows) /\ \A i \in Items : Holds(s, i)' => meta'[i] \subseteq Copy(s, i)'
  <2> SUFFICES ASSUME NEW t \in Sessions, NEW i \in Items, Holds(t, i)', <<t, i>> \notin behind'
               PROVE  meta'[i] \subseteq Copy(t, i)'
    BY DEF Copies, Sessions
  <2>1. CASE t = s
    BY <1>1, <2>1
  <2>2. CASE t # s
    <3>1. Holds(t, i) /\ Copy(t, i)' = Copy(t, i)
      BY <2>2
    <3>2. <<t, i>> \notin behind /\ i \notin rows
      BY <1>1, <2>2, <3>1, OvertakesEffect
    <3>3. meta'[i] = meta[i] /\ meta[i] \subseteq Copy(t, i)
      BY <3>1, <3>2 DEF Copies
    <3> QED BY <3>1, <3>3
  <2> QED BY <2>1, <2>2
<1>2. ASSUME UNCHANGED <<meta, behind>>,
             \A i \in Items : Holds(s, i)' =>
               \/ meta[i] \subseteq Copy(s, i)'
               \/ Holds(s, i) /\ Copy(s, i)' = Copy(s, i)
      PROVE  Copies'
  <2> SUFFICES ASSUME NEW t \in Sessions, NEW i \in Items, Holds(t, i)', <<t, i>> \notin behind'
               PROVE  meta'[i] \subseteq Copy(t, i)'
    BY DEF Copies, Sessions
  <2>1. ASSUME Holds(t, i), Copy(t, i)' = Copy(t, i) PROVE meta'[i] \subseteq Copy(t, i)'
    BY <1>2, <2>1 DEF Copies
  <2> QED BY <1>2, <2>1
<1> QED BY <1>1, <1>2

\* The other sessions, when one worker moves.
LEMMA OtherSessions ==
  ASSUME Workers \cap Items = {}, NEW w \in Workers, Others(w), UNCHANGED scrape,
         NEW t \in Sessions \ {w}, NEW i \in Items
  PROVE  (Holds(t, i)' => Holds(t, i)) /\ Copy(t, i)' = Copy(t, i)
<1>1. CASE t \in Items
  BY <1>1 DEF Holds, Copy
<1>2. CASE t \in Workers
  BY <1>2 DEF Holds, Copy, Others
<1> QED BY <1>1, <1>2 DEF Sessions

\* A worker that does not hold a row any more.
LEMMA LetsGo ==
  ASSUME Workers \cap Items = {}, Copies, NEW w \in Workers, NEW rows, Others(w),
         Overtakes(w, rows), UNCHANGED scrape, \A i \in Items \ rows : meta'[i] = meta[i],
         job'[w].pc \in {"idle", "enriched", "done"}
  PROVE  Copies'
<1>1. \A i \in Items : ~Holds(w, i)'
  BY DEF Holds
<1>2. \A t \in Sessions \ {w}, i \in Items :
        Holds(t, i)' => Holds(t, i) /\ Copy(t, i)' = Copy(t, i)
  BY OtherSessions
<1>3. w \in Sessions
  BY DEF Sessions
<1> QED BY <1>1, <1>2, <1>3, SessionMoves

LEMMA StopKeeps ==
  ASSUME Workers \cap Items = {}, Types, Copies, NEW w \in Workers, Stop(w),
         UNCHANGED <<meta, scrape>>
  PROVE  MetadataGrows /\ Copies'
<1>1. Others(w) /\ job'[w].pc = "idle" /\ Overtakes(w, {})
  BY StopEffect, IdleFields DEF Types, Stop
<1>2. Copies'
  BY <1>1, LetsGo
<1> QED BY <1>2 DEF MetadataGrows

\* A worker loads rows, or goes on with what it has.
LEMMA LoadKeeps ==
  ASSUME Workers \cap Items = {}, Copies, NEW w \in Workers, Others(w),
         UNCHANGED <<meta, scrape, behind>>,
         \A i \in Items : Holds(w, i)' =>
           \/ meta[i] \subseteq Copy(w, i)'
           \/ Holds(w, i) /\ Copy(w, i)' = Copy(w, i)
  PROVE  MetadataGrows /\ Copies'
<1>1. \A t \in Sessions \ {w}, i \in Items :
        Holds(t, i)' => Holds(t, i) /\ Copy(t, i)' = Copy(t, i)
  BY OtherSessions
<1>2. w \in Sessions
  BY DEF Sessions
<1>3. Copies'
  BY <1>1, <1>2, SessionMoves
<1> QED BY <1>3 DEF MetadataGrows

LEMMA CommitKeeps ==
  ASSUME Workers \cap Items = {}, Copies, NEW s \in Sessions, NEW rows, Overtakes(s, rows),
         \A i \in Items :
           \/ meta'[i] = meta[i]
           \/ Holds(s, i) /\ Copy(s, i) \subseteq meta'[i],
         DOMAIN meta = Items
  PROVE  MetadataGrows
<1> SUFFICES ASSUME NEW i \in Items, ~(meta[i] \subseteq meta'[i])
             PROVE  <<s, i>> \in behind \ behind'
  BY DEF MetadataGrows
<1>1. Holds(s, i) /\ <<s, i>> \in behind
  BY DEF Copies
<1>2. <<s, i>> \notin behind'
  BY OvertakesEffect
<1> QED BY <1>1, <1>2

\* The steps of the scrapers: a row that is met again is loaded as it is.
LEMMA ScrapeMetadata ==
  ASSUME Workers \cap Items = {}, Types, Copies, NEW i \in Items, Scrapes(i)
  PROVE  MetadataGrows /\ Copies'
<1>1. CASE Ingest(i) \/ EnqueueEnrichment(i) \/ ScraperDies(i)
  <2>1. UNCHANGED <<meta, job, scrape, behind>>
    BY <1>1 DEF Ingest, EnqueueEnrichment, ScraperDies, rowVars
  <2>2. Copies'
    BY <2>1 DEF Copies, Holds, Copy, Sessions
  <2> QED BY <2>1, <2>2 DEF MetadataGrows
<1>2. ASSUME UNCHANGED job, \A k \in Items \ {i} : scrape'[k] = scrape[k]
      PROVE  \A t \in Sessions \ {i}, k \in Items :
               Holds(t, k)' => Holds(t, k) /\ Copy(t, k)' = Copy(t, k)
  BY <1>2 DEF Sessions, Holds, Copy
<1>3. i \in Sessions /\ i \notin Workers
  BY DEF Sessions
<1>4. CASE MeetAgain(i)
  <2>1. /\ UNCHANGED <<meta, job, behind>>
        /\ scrape' = [scrape EXCEPT ![i] = [status |-> status[i], meta |-> meta[i]]]
    BY <1>4 DEF MeetAgain, rowVars
  <2>2. scrape'[i].meta = meta[i] /\ \A k \in Items \ {i} : scrape'[k] = scrape[k]
    BY <2>1 DEF Types
  <2>3. \A k \in Items : Holds(i, k)' => meta[k] \subseteq Copy(i, k)'
    BY <1>3, <2>2 DEF Holds, Copy
  <2>4. Copies'
    BY <1>2, <1>3, <2>1, <2>2, <2>3, SessionMoves
  <2> QED BY <2>1, <2>4 DEF MetadataGrows
<1>5. ASSUME NEW news \in BOOLEAN, Rescrape(i, news) PROVE MetadataGrows /\ Copies'
  <2>1. PICK rows : rows = IF news THEN {i} ELSE {}
    OBVIOUS
  <2>2. /\ UNCHANGED job /\ Overtakes(i, rows) /\ scrape[i].status # "absent"
        /\ meta' = [meta EXCEPT ![i] = IF news THEN scrape[i].meta ELSE meta[i]]
        /\ scrape' = [scrape EXCEPT ![i] = Away]
    BY <1>5, <2>1 DEF Rescrape
  <2>3. /\ scrape'[i].status = "absent" /\ \A k \in Items \ {i} : scrape'[k] = scrape[k]
        /\ \A k \in Items \ rows : meta'[k] = meta[k]
        /\ news => meta'[i] = scrape[i].meta
    BY <2>1, <2>2 DEF Types, Away
  <2>4. \A k \in Items : ~Holds(i, k)'
    BY <1>3, <2>3 DEF Holds
  <2>5. Copies'
    BY <1>2, <1>3, <2>2, <2>3, <2>4, SessionMoves
  <2>6. \A k \in Items : meta'[k] = meta[k] \/ (Holds(i, k) /\ Copy(i, k) \subseteq meta'[k])
    BY <2>1, <2>2, <2>3 DEF Holds, Copy
  <2>7. MetadataGrows
    BY <1>3, <2>2, <2>6, CommitKeeps DEF Types
  <2> QED BY <2>5, <2>7
<1> QED BY <1>1, <1>4, <1>5 DEF Scrapes

\* The commits of the handlers: they write what they have loaded, and more.
LEMMA CommitMetadata ==
  ASSUME Workers \cap Items = {}, NoItem \notin Items, Types, Copies, NEW w \in Workers,
         \/ \E new \in SUBSET {"body"} : CommitEnrich(w, new)
         \/ StoreDiscussion(w) \/ CommitSummary(w)
  PROVE  MetadataGrows /\ Copies'
<1>0. /\ JobTypes /\ DOMAIN meta = Items /\ w \in Sessions /\ w \notin Items
  BY DEF Types, Sessions
<1>1. PICK i : i = job[w].item
  OBVIOUS
<1>2. ASSUME NEW new \in SUBSET {"body"}, CommitEnrich(w, new) PROVE MetadataGrows /\ Copies'
  <2>1. /\ job[w].pc = "download" /\ Overtakes(w, {i}) /\ UNCHANGED scrape
        /\ meta' = [meta EXCEPT ![i] = job[w].meta \cup new]
    BY <1>1, <1>2 DEF CommitEnrich
  <2>2. i \in Items /\ Holds(w, i) /\ Copy(w, i) = job[w].meta
    BY <1>0, <1>1, <2>1 DEF JobTypes, Holds, Copy
  <2>3. Others(w) /\ job'[w].pc = "enriched"
    BY <1>0, <1>2, GotoEffect DEF CommitEnrich, Pcs
  <2>4. Copies'
    BY <1>0, <2>1, <2>3, LetsGo
  <2>5. \A k \in Items : meta'[k] = meta[k] \/ (Holds(w, k) /\ Copy(w, k) \subseteq meta'[k])
    BY <1>0, <2>1, <2>2
  <2> QED BY <1>0, <2>1, <2>4, <2>5, CommitKeeps
<1>3. CASE StoreDiscussion(w)
  <2>1. job[w].pc = "discuss" /\ UNCHANGED scrape
    BY Zenon, <1>3 DEF StoreDiscussion
  <2>2. Overtakes(w, {i}) /\ meta' = [meta EXCEPT ![i] = job[w].meta \cup {"discussion"}]
    BY Zenon, <1>1, <1>3 DEF StoreDiscussion
  <2>3. i \in Items /\ Holds(w, i) /\ Copy(w, i) = job[w].meta
    BY <1>0, <1>1, <2>1 DEF JobTypes, Holds, Copy
  <2>4. Others(w) /\ job'[w].pc = "summarize" /\ job'[w].item = i /\ job'[w].meta = meta'[i]
    BY <1>0, <1>1, <1>3, StoreDiscussionEffect
  <2>5. \A k \in Items : Holds(w, k)' => meta'[k] \subseteq Copy(w, k)'
    BY <1>0, <2>4 DEF Holds, Copy
  <2>6. \A t \in Sessions \ {w}, k \in Items :
          Holds(t, k)' => Holds(t, k) /\ Copy(t, k)' = Copy(t, k)
    BY <2>1, <2>4, OtherSessions
  <2>7. Copies'
    BY <1>0, <2>2, <2>5, <2>6, SessionMoves
  <2>8. \A k \in Items : meta'[k] = meta[k] \/ (Holds(w, k) /\ Copy(w, k) \subseteq meta'[k])
    BY <1>0, <2>2, <2>3
  <2> QED BY <1>0, <2>2, <2>7, <2>8, CommitKeeps
<1>4. CASE CommitSummary(w)
  <2>1. PICK j : j = job[w].chosen
    OBVIOUS
  <2>2. /\ job[w].pc = "listed" /\ UNCHANGED scrape /\ Overtakes(w, {i, j}) /\ Tells(w)
    BY Zenon, <1>1, <1>4, <2>1 DEF CommitSummary
  <2>3. \A k \in Items : meta'[k] = IF k = i THEN job[w].meta \cup {"summary"}
                                  ELSE IF k = j THEN job[w].copy ELSE meta[k]
    BY <1>1, <2>1, <2>2 DEF Tells
  <2>4. Others(w) /\ job'[w].pc = "done"
    BY <1>4, CommitSummaryEffect
  <2>5. Copies'
    BY <1>0, <2>2, <2>3, <2>4, LetsGo
  <2>6. \A k \in Items : meta'[k] = meta[k] \/ (Holds(w, k) /\ Copy(w, k) \subseteq meta'[k])
    BY <1>0, <1>1, <2>1, <2>2, <2>3 DEF Holds, Copy
  <2> QED BY <1>0, <2>2, <2>5, <2>6, CommitKeeps
<1> QED BY <1>2, <1>3, <1>4

\* Handlers load their item when they begin, and the representative when they choose it.
LEMMA HandlerMetadata ==
  ASSUME Workers \cap Items = {}, NoItem \notin Items, Types, Copies, NEW w \in Workers,
         \/ \E i \in Items : BeginEnrich(w, i) \/ BeginProcess(w, i)
         \/ EnqueueProcess(w) \/ ListMembers(w)
         \/ \E j \in Items \cup {NoItem} : Choose(w, j)
  PROVE  MetadataGrows /\ Copies'
<1>0. JobTypes /\ w \notin Items
  BY DEF Types
<1>1. ASSUME NEW i \in Items, BeginEnrich(w, i) \/ BeginProcess(w, i)
      PROVE  MetadataGrows /\ Copies'
  <2>1. /\ Others(w) /\ job'[w].item = i /\ job'[w].meta = meta[i]
        /\ job'[w].pc \in {"download", "summarize", "discuss"}
    BY <1>0, <1>1, BeginEnrichEffect, BeginProcessEffect
  <2>2. UNCHANGED <<meta, scrape, behind>>
    BY <1>1 DEF BeginEnrich, BeginProcess, rowVars
  <2>3. \A k \in Items : Holds(w, k)' => meta[k] \subseteq Copy(w, k)'
    BY <1>0, <2>1 DEF Holds, Copy
  <2> QED BY <2>1, <2>2, <2>3, LoadKeeps
<1>2. CASE EnqueueProcess(w)
  <2>1. Others(w) /\ job'[w].pc = "reporting"
    BY <1>0, <1>2, GotoEffect DEF EnqueueProcess, Pcs
  <2>2. UNCHANGED <<meta, scrape, behind>>
    BY <1>2 DEF EnqueueProcess, rowVars
  <2>3. \A k \in Items : ~Holds(w, k)'
    BY <1>0, <2>1 DEF Holds
  <2> QED BY <2>1, <2>2, <2>3, LoadKeeps
<1>3. CASE ListMembers(w)
  <2>1. /\ Others(w) /\ job'[w].pc = "listed" /\ job'[w].item = job[w].item
        /\ job'[w].meta = job[w].meta /\ job'[w].chosen = job[w].chosen
        /\ job'[w].copy = job[w].copy
    BY <1>0, <1>3, ListMembersEffect
  <2>2. UNCHANGED <<meta, scrape, behind>> /\ job[w].pc = "chosen"
    BY <1>3 DEF ListMembers, rowVars
  <2>3. \A k \in Items : Holds(w, k)' => Holds(w, k) /\ Copy(w, k)' = Copy(w, k)
    BY <1>0, <2>1, <2>2 DEF Holds, Copy
  <2> QED BY <2>1, <2>2, <2>3, LoadKeeps
<1>4. ASSUME NEW j \in Items \cup {NoItem}, Choose(w, j) PROVE MetadataGrows /\ Copies'
  <2>1. /\ Others(w) /\ job'[w].pc = "chosen" /\ job'[w].item = job[w].item
        /\ job'[w].meta = job[w].meta /\ job'[w].chosen = j
        /\ job'[w].copy = (IF j = NoItem THEN {} ELSE meta[j])
    BY <1>0, <1>4, ChooseEffect
  <2>2. UNCHANGED <<meta, scrape, behind>> /\ job[w].pc = "summarize"
    BY <1>4 DEF Choose, rowVars
  <2>3. ASSUME NEW k \in Items, Holds(w, k)'
        PROVE  \/ meta[k] \subseteq Copy(w, k)'
               \/ Holds(w, k) /\ Copy(w, k)' = Copy(w, k)
    <3>1. CASE k = job[w].item
      BY <1>0, <2>1, <2>2, <3>1 DEF Holds, Copy
    <3>2. CASE k # job[w].item
      <4>1. k = j
        BY <1>0, <2>1, <2>3, <3>2 DEF Holds
      <4> QED BY <1>0, <2>1, <3>2, <4>1 DEF Copy
    <3> QED BY <3>1, <3>2
  <2> QED BY <2>1, <2>2, <2>3, LoadKeeps
<1> QED BY <1>1, <1>2, <1>3, <1>4

LEMMA MetadataStep ==
  ASSUME Workers \cap Items = {}, NoItem \notin Items, Types, Copies, [Next]_vars
  PROVE  MetadataGrows /\ Copies'
<1>1. CASE UNCHANGED vars
  BY <1>1 DEF vars, rowVars, MetadataGrows, Copies, Copy, Holds, Sessions
<1>2. ASSUME NEW i \in Items, Scrapes(i) PROVE MetadataGrows /\ Copies'
  BY <1>2, ScrapeMetadata
<1>3. ASSUME NEW w \in Workers,
             \/ ReportEnrich(w) \/ ReportProcess(w) \/ EnrichDies(w) \/ ProcessDies(w)
             \/ \E again \in BOOLEAN : ProcessFails(w, again)
      PROVE  MetadataGrows /\ Copies'
  <2>1. Stop(w) /\ UNCHANGED <<meta, scrape>>
    BY <1>3 DEF ReportEnrich, ReportProcess, EnrichDies, ProcessDies, ProcessFails, rowVars
  <2> QED BY <2>1, StopKeeps
<1>4. ASSUME NEW w \in Workers, WorkerStep(w) PROVE MetadataGrows /\ Copies'
  BY <1>3, <1>4, CommitMetadata, HandlerMetadata DEF WorkerStep
<1> QED BY <1>1, <1>2, <1>3, <1>4, NextScrapes

-----------------------------------------------------------------------------
(* What the two ways of running promise *)

\* With one process, whose tasks may run again after their commit, and scrapers that do
\* not die or meet an item again: nothing hides for ever, every unsettled item has
\* somebody who goes on with it, a story is in the feed once, and the size shown with it
\* counts the rows behind it.
THEOREM OneProcessClusters ==
  ASSUME NoItem \notin Items, Sole, Disturbances \cap {"rescrape", "scraper"} = {}
  PROVE  Spec => [](NoMutualHiding /\ NeverForgotten /\ OneRepresentative /\ CountsMembers)
<1>1. Init => SoleInv /\ Unmet
  BY SoleInit, UnmetInit
<1>2. SoleInv /\ Unmet /\ [Next]_vars => SoleInv' /\ Unmet'
  BY SoleStep
<1>3. SoleInv => NoMutualHiding /\ NeverForgotten /\ OneRepresentative /\ CountsMembers
  BY DEF SoleInv
<1> QED BY <1>1, <1>2, <1>3, PTL DEF Spec

\* With any number of processes and whatever disturbs them: what the metadata of a row has
\* is dropped only by a session that had loaded the row before somebody else's commit.
THEOREM OnlyStaleSessionsDrop ==
  ASSUME Workers \cap Items = {}, NoItem \notin Items
  PROVE  Spec => MetadataKept
<1>1. Init => Types /\ Copies
  BY InitTypes, CopiesInit
<1>2. Types /\ Copies /\ [Next]_vars => Types' /\ Copies' /\ MetadataGrows
  BY TypesStep, MetadataStep
<1> QED BY <1>1, <1>2, PTL DEF Spec, MetadataKept

\* With any number of processes, failures, deaths before the commit, scrapers that die and
\* items met again, but no second run after a commit: nothing hides for ever.
THEOREM ManyProcessesHideNothing ==
  ASSUME NoItem \notin Items, "duplicate" \notin Disturbances
  PROVE  Spec => []NoMutualHiding
<1>1. Init => OnceInv
  BY OnceInit
<1>2. OnceInv /\ [Next]_vars => OnceInv'
  BY OnceStep
<1>3. OnceInv => NoMutualHiding
  BY OnceHidesNothing
<1> QED BY <1>1, <1>2, <1>3, PTL DEF Spec
=============================================================================

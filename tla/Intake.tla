------------------------------- MODULE Intake --------------------------------
(***************************************************************************)
(* How one URL enters the system: submissions by users, some of which ask  *)
(* for a feed subscription, scrapers that find the same URL, and the URL   *)
(* analysis that gives a submitted row its type and hands it to the        *)
(* content pipeline.  A row is named by the request that inserted it.      *)
(***************************************************************************)
EXTENDS Integers, FiniteSets

CONSTANTS Plain, Feeds, Scrapes,   \* requests: submissions, subscriptions, scrapes
          NoRow,
          MaxTries,                \* runs of one analysis task
          Disturbances,            \* subset of {"death", "crash", "race", "twin"}
          MaxFaults

VARIABLES type,        \* contents.content_type: "none" (no row), "unknown", "article"
          status,      \* contents.status
          flag,        \* metadata: subscribe_to_feed
          inbox,       \* content_status: <<request of the user, row>>
          process,     \* rows with an active PROCESS_CONTENT task
          reading,     \* <<row, flag that its running PROCESS_CONTENT task has read>>
          task,        \* the ANALYZE_URL task that each submission may insert
          req,         \* where each request stands
          heard,       \* rows whose mark a task has read (history)
          faults

rowVars == <<type, status, flag, inbox, process, reading, heard>>
vars == <<rowVars, task, req, faults>>

Submissions == Plain \cup Feeds
Requests == Submissions \cup Scrapes
NoTask == [state |-> "none", row |-> NoRow, feed |-> FALSE, sees |-> FALSE, tries |-> 0]

Init ==
  /\ type = [r \in Requests |-> "none"]
  /\ status = [r \in Requests |-> "new"]
  /\ flag = [r \in Requests |-> FALSE]
  /\ inbox = {} /\ process = {} /\ reading = {} /\ heard = {}
  /\ task = [q \in Submissions |-> NoTask]
  /\ req = [q \in Requests |-> [pc |-> "start", row |-> NoRow]]
  /\ faults = 0

Disturb(d) == d \in Disturbances /\ faults < MaxFaults /\ faults' = faults + 1
Needs(d, c) == IF c THEN Disturb(d) ELSE UNCHANGED faults
Goto(q, pc, r) == req' = [req EXCEPT ![q] = [pc |-> pc, row |-> r]]

Rows == {r \in Requests : type[r] # "none"}

-----------------------------------------------------------------------------
(* submit_user_content *)

\* REANALYZE_EXISTING_STATUSES, or a subscription
AnalyzesAgain(q, r) == q \in Feeds \/ status[r] \in {"new", "failed", "skipped"}

\* The URL has a row: a subscription marks it, another submission puts it in the
\* user's inbox.
FindExisting(q, r) ==
  /\ req[q].pc = "start" /\ r \in Rows
  /\ flag' = [flag EXCEPT ![r] = @ \/ q \in Feeds]
  /\ inbox' = IF q \in Feeds THEN inbox ELSE inbox \cup {<<q, r>>}
  /\ Goto(q, IF AnalyzesAgain(q, r) THEN "ensure" ELSE "answered", r)
  /\ UNCHANGED <<type, status, process, reading, heard, task, faults>>

FindNothing(q) ==
  /\ req[q].pc = "start" /\ Rows = {}
  /\ Goto(q, "insert", NoRow)
  /\ UNCHANGED <<rowVars, task, faults>>

InsertRow(q) ==
  /\ req[q].pc = "insert" /\ \A r \in Requests : type[r] # "unknown"
  /\ Needs("race", Rows # {})
  /\ type' = [type EXCEPT ![q] = "unknown"]
  /\ flag' = [flag EXCEPT ![q] = q \in Feeds]
  /\ Goto(q, "inbox", q)
  /\ UNCHANGED <<status, inbox, process, reading, heard, task>>

\* The unique index refuses the row: the existing one is used, without the inbox.
InsertConflict(q, r) ==
  /\ Disturb("race")
  /\ req[q].pc = "insert" /\ \E u \in Requests : type[u] = "unknown"
  /\ r \in Rows
  /\ Goto(q, "ensure", r)
  /\ UNCHANGED <<rowVars, task>>

EnterInbox(q) ==
  /\ req[q].pc = "inbox"
  /\ inbox' = IF q \in Feeds THEN inbox ELSE inbox \cup {<<q, req[q].row>>}
  /\ Goto(q, "ensure", req[q].row)
  /\ UNCHANGED <<type, status, flag, process, reading, heard, task, faults>>

ActiveTasks(r) ==
  {t \in Submissions : task[t].row = r /\ task[t].state \in {"pending", "running", "typed"}}

\* _ensure_analyze_url_task finds an active task: its payload gets the request's
\* options, unless it is a process task.
MergeIntoTask(q) ==
  LET r == req[q].row
  IN /\ req[q].pc = "ensure"
     /\ ActiveTasks(r) # {} \/ r \in process
     /\ \/ /\ r \in process /\ UNCHANGED task
        \/ \E t \in ActiveTasks(r) : task' = [task EXCEPT ![t].feed = @ \/ q \in Feeds]
     /\ Goto(q, "answered", r)
     /\ UNCHANGED <<rowVars, faults>>

InsertTask(q) ==
  /\ req[q].pc = "ensure"
  /\ ActiveTasks(req[q].row) = {} /\ req[q].row \notin process
  /\ task' = [task EXCEPT ![q] = [NoTask EXCEPT !.state = "pending", !.row = req[q].row,
                                                !.feed = q \in Feeds]]
  /\ Goto(q, "answered", req[q].row)
  /\ UNCHANGED <<rowVars, faults>>

RequestDies(q) ==
  /\ Disturb("death")
  /\ req[q].pc \in {"insert", "inbox", "ensure", "owed"}
  /\ req' = [req EXCEPT ![q].pc = "dead"]
  /\ UNCHANGED <<rowVars, task>>

-----------------------------------------------------------------------------
(* _save_items_with_stats: the scraper looks for an article with this URL *)

ScrapeFindsArticle(q, r) ==
  /\ req[q].pc = "start" /\ q \in Scrapes
  /\ type[r] = "article"
  /\ inbox' = inbox \cup {<<q, r>>}
  /\ Goto(q, "answered", r)
  /\ UNCHANGED <<type, status, flag, process, reading, heard, task, faults>>

\* A row of unknown type is not looked for: both rows exist.
ScrapeInserts(q) ==
  /\ req[q].pc = "start" /\ q \in Scrapes
  /\ \A r \in Requests : type[r] # "article"
  /\ Needs("twin", Rows # {})
  /\ type' = [type EXCEPT ![q] = "article"]
  /\ inbox' = inbox \cup {<<q, q>>}
  /\ Goto(q, "owed", q)
  /\ UNCHANGED <<status, flag, process, reading, heard, task>>

ScrapeEnqueues(q) ==
  /\ req[q].pc = "owed"
  /\ process' = process \cup {q}
  /\ Goto(q, "answered", q)
  /\ UNCHANGED <<type, status, flag, inbox, reading, heard, task, faults>>

-----------------------------------------------------------------------------
(* AnalyzeUrlHandler *)

\* The payload and the row's metadata are read when the run begins.
BeginAnalysis(t) ==
  LET sees == task[t].feed \/ flag[task[t].row]
  IN /\ task[t].state = "pending"
     /\ task' = [task EXCEPT ![t].state = "running", ![t].sees = sees]
     /\ heard' = IF sees THEN heard \cup {task[t].row} ELSE heard
     /\ UNCHANGED <<type, status, flag, inbox, process, reading, req, faults>>

\* FeedSubscriptionFlow ends the run, whether or not a feed was found, and leaves the mark.
Subscribe(t) ==
  /\ task[t].state = "running" /\ task[t].sees
  /\ status' = [status EXCEPT ![task[t].row] = "skipped"]
  /\ flag' = [flag EXCEPT ![task[t].row] = TRUE]
  /\ task' = [task EXCEPT ![t].state = "done"]
  /\ UNCHANGED <<type, inbox, process, reading, heard, req, faults>>

Twin(r) == type[r] = "unknown" /\ \E u \in Requests \ {r} : type[u] = "article"

\* UrlAnalysisFlow commits the type.
SetType(t) ==
  /\ task[t].state = "running" /\ ~task[t].sees
  /\ ~Twin(task[t].row)
  /\ type' = [type EXCEPT ![task[t].row] = "article"]
  /\ task' = [task EXCEPT ![t].state = "typed"]
  /\ UNCHANGED <<status, flag, inbox, process, reading, heard, req, faults>>

\* The commit violates the unique index; the task is retried within its budget.
TypeConflict(t) ==
  /\ task[t].state = "running" /\ ~task[t].sees
  /\ Twin(task[t].row)
  /\ task' = [task EXCEPT ![t].state = IF task[t].tries + 1 < MaxTries THEN "pending" ELSE "failed",
                          ![t].tries = @ + 1]
  /\ UNCHANGED <<rowVars, req, faults>>

\* Mutant of HandOver: a row that is new needs no process task.
HandOverKnown(t) ==
  /\ task[t].state = "typed"
  /\ task' = [task EXCEPT ![t].state = "done"]
  /\ UNCHANGED <<rowVars, req, faults>>

HandOver(t) ==
  /\ task[t].state = "typed"
  /\ process' = IF status[task[t].row] \in {"skipped", "failed", "completed"} THEN process
                ELSE process \cup {task[t].row}
  /\ task' = [task EXCEPT ![t].state = "done"]
  /\ UNCHANGED <<type, status, flag, inbox, reading, heard, req, faults>>

AnalysisDies(t) ==
  /\ Disturb("crash")
  /\ task[t].state \in {"running", "typed"}
  /\ task' = [task EXCEPT ![t].state = "pending"]
  /\ UNCHANGED <<rowVars, req>>

-----------------------------------------------------------------------------
(* process_content, and the content pipeline, of which only the end is of interest *)

\* The row's metadata is read before the download.
BeginProcess(r) ==
  /\ r \in process /\ \A sees \in BOOLEAN : <<r, sees>> \notin reading
  /\ reading' = reading \cup {<<r, flag[r]>>}
  /\ heard' = IF flag[r] THEN heard \cup {r} ELSE heard
  /\ UNCHANGED <<type, status, flag, inbox, process, task, req, faults>>

\* A marked article ends with the subscription; any may be skipped by its strategy.
Processed(r, sees, outcome) ==
  /\ <<r, sees>> \in reading /\ r \in process
  /\ sees => outcome # "completed"
  /\ process' = process \ {r} /\ reading' = reading \ {<<r, sees>>}
  /\ status' = [status EXCEPT ![r] = outcome]
  /\ UNCHANGED <<type, flag, inbox, heard, task, req, faults>>

ProcessingDies(r, sees) ==
  /\ Disturb("crash")
  /\ <<r, sees>> \in reading
  /\ reading' = reading \ {<<r, sees>>}
  /\ UNCHANGED <<type, status, flag, inbox, process, heard, task, req>>

-----------------------------------------------------------------------------
RequestStep(q) ==
  \/ q \in Submissions /\ FindNothing(q)
  \/ \E r \in Requests : \/ q \in Submissions /\ FindExisting(q, r)
                         \/ InsertConflict(q, r) \/ ScrapeFindsArticle(q, r)
  \/ InsertRow(q) \/ EnterInbox(q) \/ MergeIntoTask(q) \/ InsertTask(q)
  \/ ScrapeInserts(q) \/ ScrapeEnqueues(q)

AnalysisStep(t) ==
  BeginAnalysis(t) \/ Subscribe(t) \/ SetType(t) \/ TypeConflict(t) \/ HandOver(t)

Pipeline ==
  \E r \in Requests :
    \/ BeginProcess(r)
    \/ \E sees \in BOOLEAN, outcome \in {"completed", "failed", "skipped"} :
         Processed(r, sees, outcome)

Next ==
  \/ \E q \in Requests : RequestStep(q) \/ RequestDies(q)
  \/ \E t \in Submissions : AnalysisStep(t) \/ AnalysisDies(t)
  \/ Pipeline \/ \E r \in Requests, sees \in BOOLEAN : ProcessingDies(r, sees)

\* A request that began goes on, and workers poll.
Fairness ==
  /\ \A q \in Requests : WF_vars(req[q].pc # "start" /\ RequestStep(q))
  /\ \A t \in Submissions : WF_vars(AnalysisStep(t))
  /\ WF_vars(Pipeline)

Spec == Init /\ [][Next]_vars /\ Fairness

-----------------------------------------------------------------------------
(* Properties *)

TypeOK ==
  /\ type \in [Requests -> {"none", "unknown", "article"}]
  /\ status \in [Requests -> {"new", "skipped", "completed", "failed"}]
  /\ inbox \subseteq Requests \X Rows
  /\ process \subseteq Rows /\ heard \subseteq Rows
  /\ reading \subseteq process \X BOOLEAN
  /\ \A t \in Submissions : /\ task[t].row \in Rows \cup {NoRow}
                            /\ task[t].tries \in 0..MaxTries
                            /\ task[t].state = "none" <=> task[t].row = NoRow
  /\ Cardinality({r \in Requests : type[r] = "article"}) <= 1

\* Unless a request dies or a scraper adds a twin, somebody goes on with a new row.
NothingStranded ==
  \A r \in Rows : status[r] = "new" =>
    \/ ActiveTasks(r) # {} \/ r \in process
    \/ \E q \in Requests : req[q].row = r /\ req[q].pc \in {"inbox", "ensure", "owed"}

\* A subscription that was answered "Feed subscription queued" is read by a task in the end.
SubscriptionKept == \A q \in Feeds : req[q].pc = "answered" ~> req[q].row \in heard

\* A submitted URL is processed, skipped or fails.
SubmissionSettles ==
  \A q \in Plain :
    req[q].pc = "answered" ~> req[q].row \in Rows /\ status[req[q].row] # "new"
=============================================================================

----------------------------- MODULE FeedDiscovery -----------------------------
(***************************************************************************)
(* Feeds suggested to a user in one week: DISCOVER_FEEDS tasks on the      *)
(* content queue, the enrichment of onboarding on its own queue, the       *)
(* endpoints that answer suggestions, and the weekly discovery chat.       *)
(* app/services/feed_discovery.py, onboarding.py, weekly_discovery_chat.py,*)
(* routers/api/discovery.py and the handler discover_feeds.                *)
(*                                                                         *)
(* The endpoints run one at a time, supervisor.conf starts one worker per  *)
(* queue; the feeds a run finds and those the user has are fixed apart     *)
(* from what is done here.                                                 *)
(***************************************************************************)
EXTENDS Naturals

CONSTANTS Feeds, Tasks,    \* DISCOVER_FEEDS is not deduplicated
          Runs,            \* 1 .. n
          MaxRetries,
          Disturbances,    \* subset of {"crash", "outage", "elsewhere", "race", "workers"}
          MaxFaults

VARIABLES
  run,       \* by run: "none", "processing", "completed", "failed"
  mark, of,  \* by feed: what became of the suggestion, and its run (0 for none)
  configs,   \* feeds the user has subscribed to
  task, retries, pc, mine, picks,   \* by task; its run and what it is to store
  known,     \* what the enrichment has read, or {} before
  enriching,
  sessions, seeded,                 \* open chats of the week; one has its message
  subscribe, told,                  \* POST /discovery/subscribe
  faults

discovery == <<run, mark, of>>
tasks == <<task, retries, pc, mine, picks>>
enrichment == <<known, enriching>>
chats == <<sessions, seeded>>
requests == <<subscribe, told>>
vars == <<discovery, configs, tasks, enrichment, chats, requests, faults>>

NoSubscribe == [open |-> FALSE, left |-> {}, marks |-> {}]

Init ==
  /\ run = [r \in Runs |-> "none"]
  /\ mark = [f \in Feeds |-> "none"] /\ of = [f \in Feeds |-> 0] /\ configs = {}
  /\ task = [t \in Tasks |-> "none"] /\ retries = [t \in Tasks |-> 0]
  /\ pc = [t \in Tasks |-> "idle"] /\ mine = [t \in Tasks |-> 0] /\ picks = [t \in Tasks |-> {}]
  /\ known = {} /\ enriching = "asked"
  /\ sessions = 0 /\ seeded = FALSE
  /\ subscribe = NoSubscribe /\ told = {}
  /\ faults = 0

Disturb(d) == d \in Disturbances /\ faults < MaxFaults /\ faults' = faults + 1

Fresh(r) == run[r] = "none" /\ \A earlier \in Runs : earlier < r => run[earlier] # "none"
Suggested == {f \in Feeds : mark[f] # "none"}
Store(feeds, r) ==
  /\ mark' = [f \in Feeds |-> IF f \in feeds THEN "new" ELSE mark[f]]
  /\ of' = [f \in Feeds |-> IF f \in feeds THEN r ELSE of[f]]
Goto(t, label) == pc' = [pc EXCEPT ![t] = label]

-----------------------------------------------------------------------------
(* DISCOVER_FEEDS *)

\* POST /discovery/refresh, or the scheduler
Refresh(t) ==
  /\ task[t] = "none" /\ retries[t] = 0 /\ pc[t] = "idle"
  /\ task' = [task EXCEPT ![t] = "pending"]
  /\ UNCHANGED <<discovery, configs, retries, pc, mine, picks, enrichment, chats, requests, faults>>

Begin(t) ==
  /\ task[t] = "pending"
  /\ (\A other \in Tasks : task[other] # "running") \/ "workers" \in Disturbances
  /\ task' = [task EXCEPT ![t] = "running"] /\ Goto(t, "create")
  /\ UNCHANGED <<discovery, configs, retries, mine, picks, enrichment, chats, requests, faults>>

\* A run is committed before the search; with too few favorites, a failed one.
CreateRun(t, status) ==
  /\ pc[t] = "create"
  /\ \E r \in Runs :
       /\ Fresh(r) /\ run' = [run EXCEPT ![r] = status]
       /\ mine' = [mine EXCEPT ![t] = r]
  /\ Goto(t, IF status = "processing" THEN "search" ELSE "week")
  /\ UNCHANGED <<mark, of, configs, task, retries, picks, enrichment, chats, requests, faults>>

\* _validate_and_filter_candidates leaves out what the user has or was
\* suggested; _persist_suggestions looks at the suggestions again.
Search(t, found) ==
  /\ pc[t] = "search"
  /\ picks' = [picks EXCEPT ![t] = found \ (configs \cup Suggested)] /\ Goto(t, "select")
  /\ UNCHANGED <<discovery, configs, task, retries, mine, enrichment, chats, requests, faults>>

Select(t) ==
  /\ pc[t] = "select"
  /\ picks' = [picks EXCEPT ![t] = @ \ Suggested] /\ Goto(t, "store")
  /\ UNCHANGED <<discovery, configs, task, retries, mine, enrichment, chats, requests, faults>>

\* One commit: a suggestion made meanwhile takes the batch with it, and the
\* failure cannot be recorded in that session.
Persist(t) ==
  /\ pc[t] = "store"
  /\ IF picks[t] \cap Suggested = {}
     THEN Store(picks[t], mine[t]) /\ Goto(t, "complete")
     ELSE Goto(t, "retry") /\ UNCHANGED <<mark, of>>
  /\ UNCHANGED <<run, configs, task, retries, mine, picks, enrichment, chats, requests, faults>>

Settle(t, status) ==
  /\ pc[t] = (IF status = "completed" THEN "complete" ELSE "search")
  /\ run' = [run EXCEPT ![mine[t]] = status] /\ Goto(t, "week")
  /\ UNCHANGED <<mark, of, configs, task, retries, mine, picks, enrichment, chats, requests, faults>>

\* Mutant of OpenChat: the chat of the week is not looked for.
OpenAlways(t) ==
  /\ pc[t] = "week" /\ Goto(t, "open")
  /\ UNCHANGED <<discovery, configs, task, retries, mine, picks, enrichment, chats, requests, faults>>

\* ensure_weekly_discovery_session
OpenChat(t) ==
  /\ pc[t] = "week" /\ Goto(t, IF sessions > 0 THEN "ok" ELSE "open")
  /\ UNCHANGED <<discovery, configs, task, retries, mine, picks, enrichment, chats, requests, faults>>

CreateChat(t) ==
  /\ pc[t] = "open" /\ sessions' = sessions + 1 /\ seeded' = FALSE /\ Goto(t, "message")
  /\ UNCHANGED <<discovery, configs, task, retries, mine, picks, enrichment, requests, faults>>

SeedChat(t) ==
  /\ pc[t] = "message" /\ seeded' = TRUE /\ Goto(t, "ok")
  /\ UNCHANGED <<discovery, configs, task, retries, mine, picks, enrichment, sessions, requests, faults>>

DatabaseFails(t) ==
  /\ pc[t] \in {"create", "store", "week", "open", "message"} /\ Disturb("outage")
  /\ Goto(t, "retry")
  /\ UNCHANGED <<discovery, configs, task, retries, mine, picks, enrichment, chats, requests>>

End(t) ==
  /\ pc[t] \in {"ok", "retry"}
  /\ IF pc[t] = "retry" /\ retries[t] < MaxRetries
     THEN task' = [task EXCEPT ![t] = "pending"] /\ retries' = [retries EXCEPT ![t] = @ + 1]
     ELSE task' = [task EXCEPT ![t] = "done"] /\ UNCHANGED retries
  /\ Goto(t, "idle") /\ mine' = [mine EXCEPT ![t] = 0] /\ picks' = [picks EXCEPT ![t] = {}]
  /\ UNCHANGED <<discovery, configs, enrichment, chats, requests, faults>>

\* The task runs again, with another run.
Crash(t) ==
  /\ task[t] = "running" /\ Disturb("crash")
  /\ task' = [task EXCEPT ![t] = "pending"]
  /\ Goto(t, "idle") /\ mine' = [mine EXCEPT ![t] = 0] /\ picks' = [picks EXCEPT ![t] = {}]
  /\ UNCHANGED <<discovery, configs, retries, enrichment, chats, requests>>

-----------------------------------------------------------------------------
(* ONBOARDING_DISCOVER with a profile: run_discover_enrich *)

EnrichReads ==
  /\ enriching = "asked" /\ enriching' = "store" /\ known' = Suggested
  /\ UNCHANGED <<discovery, configs, tasks, chats, requests, faults>>

\* Each in a savepoint of its own; without any, no run.
EnrichStores(found) ==
  /\ enriching = "store"
  /\ LET new == (found \ known) \ Suggested
     IN IF new = {} THEN UNCHANGED discovery
        ELSE \E r \in Runs :
               Fresh(r) /\ run' = [run EXCEPT ![r] = "completed"] /\ Store(new, r)
  /\ enriching' = "done" /\ known' = {}
  /\ UNCHANGED <<configs, tasks, chats, requests, faults>>

-----------------------------------------------------------------------------
(* The user *)

BeginSubscribe(ids) ==
  /\ ~subscribe.open /\ ids # {} /\ ids \subseteq Suggested
  /\ subscribe' = [NoSubscribe EXCEPT !.open = TRUE, !.left = ids]
  /\ UNCHANGED <<discovery, configs, tasks, enrichment, chats, told, faults>>

\* The marks of earlier suggestions go out with the commit of the next config;
\* a config that was made elsewhere since the check rolls them back.
Subscribe(f) ==
  /\ f \in subscribe.left
  /\ \/ /\ mark[f] = "subscribed"
        /\ subscribe' = [subscribe EXCEPT !.left = @ \ {f}]
        /\ UNCHANGED <<mark, configs, told, faults>>
     \/ /\ mark[f] # "subscribed" /\ f \in configs
        /\ subscribe' = [subscribe EXCEPT !.left = @ \ {f}, !.marks = @ \cup {f}]
        /\ told' = told \cup {f} /\ UNCHANGED <<mark, configs, faults>>
     \/ /\ mark[f] # "subscribed" /\ f \notin configs
        /\ configs' = configs \cup {f}
        /\ mark' = [g \in Feeds |-> IF g \in subscribe.marks THEN "subscribed" ELSE mark[g]]
        /\ subscribe' = [subscribe EXCEPT !.left = @ \ {f}, !.marks = {f}]
        /\ told' = told \cup {f} /\ UNCHANGED faults
     \/ /\ mark[f] # "subscribed" /\ f \notin configs /\ Disturb("race")
        /\ configs' = configs \cup {f}
        /\ subscribe' = [subscribe EXCEPT !.left = @ \ {f}, !.marks = {f}]
        /\ told' = told \cup {f} /\ UNCHANGED mark
     \/ /\ mark[f] # "subscribed" /\ f \notin configs   \* an error, listed as one
        /\ subscribe' = [subscribe EXCEPT !.left = @ \ {f}]
        /\ UNCHANGED <<mark, configs, told, faults>>
  /\ UNCHANGED <<run, of, tasks, enrichment, chats>>

\* Mutant of EndSubscribe: the last commit is missing.
EndUncommitted ==
  /\ subscribe.open /\ subscribe.left = {}
  /\ subscribe' = NoSubscribe
  /\ UNCHANGED <<discovery, configs, tasks, enrichment, chats, told, faults>>

EndSubscribe ==
  /\ subscribe.open /\ subscribe.left = {}
  /\ mark' = [f \in Feeds |-> IF f \in subscribe.marks THEN "subscribed" ELSE mark[f]]
  /\ subscribe' = NoSubscribe
  /\ UNCHANGED <<run, of, configs, tasks, enrichment, chats, told, faults>>

\* The answer of a request whose server dies never comes.
SubscribeDies ==
  /\ subscribe.open /\ Disturb("crash")
  /\ subscribe' = NoSubscribe
  /\ told' = told \ {f \in told : mark[f] # "subscribed"}
  /\ UNCHANGED <<discovery, configs, tasks, enrichment, chats>>

\* dismiss, or clear with all of them: whatever their state
Dismiss(ids) ==
  /\ ~subscribe.open /\ ids # {} /\ ids \subseteq Suggested
  /\ mark' = [f \in Feeds |-> IF f \in ids THEN "dismissed" ELSE mark[f]]
  /\ told' = told \ ids
  /\ UNCHANGED <<run, of, configs, tasks, enrichment, chats, subscribe, faults>>

\* A feed the user gets in another way
SubscribeElsewhere(f) ==
  /\ f \notin configs /\ Disturb("elsewhere")
  /\ configs' = configs \cup {f}
  /\ UNCHANGED <<discovery, tasks, enrichment, chats, requests>>

ArchiveChat ==
  /\ sessions > 0 /\ seeded
  /\ sessions' = sessions - 1 /\ seeded' = FALSE
  /\ UNCHANGED <<discovery, configs, tasks, enrichment, requests, faults>>

-----------------------------------------------------------------------------
Next ==
  \/ \E t \in Tasks :
       \/ Refresh(t) \/ Begin(t) \/ Select(t) \/ Persist(t) \/ OpenChat(t) \/ CreateChat(t)
       \/ SeedChat(t) \/ DatabaseFails(t) \/ End(t) \/ Crash(t)
       \/ \E s \in {"processing", "failed"} : CreateRun(t, s)
       \/ \E s \in {"completed", "failed"} : Settle(t, s)
       \/ \E found \in SUBSET Feeds : Search(t, found)
  \/ EnrichReads \/ \E found \in SUBSET Feeds : EnrichStores(found)
  \/ \E ids \in SUBSET Feeds : BeginSubscribe(ids) \/ Dismiss(ids)
  \/ \E f \in Feeds : Subscribe(f) \/ SubscribeElsewhere(f)
  \/ EndSubscribe \/ SubscribeDies \/ ArchiveChat

Spec == Init /\ [][Next]_vars

-----------------------------------------------------------------------------
\* A week has one open discovery chat: only the content queue's single worker
\* separates the check from the insert.
OneWeeklySession == sessions <= 1

\* A suggestion marked as subscribed is a feed the user has, and one that was
\* answered as subscribed is marked: the marks that wait for a later commit are
\* not lost with an error of another suggestion.
SubscribedHasFeed ==
  /\ \A f \in Feeds : mark[f] = "subscribed" => f \in configs
  /\ ~subscribe.open => \A f \in told : mark[f] = "subscribed"
=============================================================================

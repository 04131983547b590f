------------------------- MODULE FeedDiscoveryProofs --------------------------
(***************************************************************************)
(* The suggestions and chats of a week, for any number of feeds, runs,     *)
(* tasks, retries and disturbances: with one worker on the queue there is  *)
(* one open chat, and unless a feed is added between check and insert, an  *)
(* answer "subscribed" is kept.                                            *)
(***************************************************************************)
EXTENDS FeedDiscovery, TLAPS

-----------------------------------------------------------------------------
(* The chat of the week *)

Active == {t \in Tasks : pc[t] # "idle"}

ChatTypes ==
  /\ sessions \in Nat
  /\ task \in [Tasks -> {"none", "pending", "running", "done"}]
  /\ pc \in [Tasks -> {"idle", "create", "search", "select", "store", "complete", "week", "open",
                       "message", "ok", "retry"}]

\* The queue's worker runs one task at a time, and what a task does it does while it runs.
OneAtATime ==
  /\ \A t, u \in Tasks : task[t] = "running" /\ task[u] = "running" => t = u
  /\ \A t \in Active : task[t] = "running"

\* A chat is only opened while there is none: between the check and the insert no other
\* task looks, and the user can only archive chats.
OpensForNone == \A t \in Tasks : pc[t] = "open" => sessions = 0

ChatInv == ChatTypes /\ OneAtATime /\ OpensForNone /\ OneWeeklySession

LEMMA ChatInit == Init => ChatInv
  BY DEF Init, ChatInv, ChatTypes, OneAtATime, Active, OpensForNone, OneWeeklySession

\* A step of a task that has begun moves that task alone.
LEMMA TaskGoesOn ==
  ASSUME ChatInv, NEW t \in Tasks, pc[t] # "idle", UNCHANGED <<task, sessions>>,
         NEW label \in {"search", "select", "store", "complete", "week", "message", "ok", "retry"},
         Goto(t, label)
  PROVE  ChatInv'
  BY DEF ChatInv, ChatTypes, OneAtATime, Active, OpensForNone, OneWeeklySession, Goto

LEMMA TaskLeaves ==
  ASSUME ChatInv, NEW t \in Tasks, UNCHANGED sessions, Goto(t, "idle"),
         NEW to \in {"pending", "done"}, task' = [task EXCEPT ![t] = to]
  PROVE  ChatInv'
  BY DEF ChatInv, ChatTypes, OneAtATime, Active, OpensForNone, OneWeeklySession, Goto

LEMMA ChatStep ==
  ASSUME "workers" \notin Disturbances, ChatInv, [Next]_vars
  PROVE  ChatInv'
<1>1. CASE UNCHANGED <<task, pc, sessions>>
  BY <1>1 DEF ChatInv, ChatTypes, OneAtATime, Active, OpensForNone, OneWeeklySession
<1>2. ASSUME NEW t \in Tasks, Refresh(t) PROVE ChatInv'
  BY <1>2 DEF Refresh, chats, ChatInv, ChatTypes, OneAtATime, Active, OpensForNone, OneWeeklySession
<1>3. ASSUME NEW t \in Tasks, Begin(t) PROVE ChatInv'
  BY <1>3 DEF Begin, Goto, chats, ChatInv, ChatTypes, OneAtATime, Active, OpensForNone,
              OneWeeklySession
<1>4. ASSUME NEW t \in Tasks, NEW s \in {"processing", "failed"}, CreateRun(t, s) PROVE ChatInv'
  BY <1>4, TaskGoesOn DEF CreateRun, chats
<1>5. ASSUME NEW t \in Tasks, NEW found, Search(t, found) PROVE ChatInv'
  BY <1>5, TaskGoesOn DEF Search, chats
<1>6. ASSUME NEW t \in Tasks, Select(t) \/ Persist(t) \/ SeedChat(t) PROVE ChatInv'
  BY <1>6, TaskGoesOn DEF Select, Persist, SeedChat, chats
<1>7. ASSUME NEW t \in Tasks, NEW s \in {"completed", "failed"}, Settle(t, s) PROVE ChatInv'
  BY <1>7, TaskGoesOn DEF Settle, chats
<1>8. ASSUME NEW t \in Tasks, DatabaseFails(t) PROVE ChatInv'
  BY <1>8, TaskGoesOn DEF DatabaseFails, chats
<1>9. ASSUME NEW t \in Tasks, OpenChat(t) PROVE ChatInv'
  BY <1>9 DEF OpenChat, Goto, chats, ChatInv, ChatTypes, OneAtATime, Active, OpensForNone,
              OneWeeklySession
<1>10. ASSUME NEW t \in Tasks, CreateChat(t) PROVE ChatInv'
  <2>1. \A u \in Tasks : pc[u] = "open" => u = t
    BY <1>10 DEF CreateChat, ChatInv, OneAtATime, Active
  <2> QED
    BY <1>10, <2>1 DEF CreateChat, Goto, ChatInv, ChatTypes, OneAtATime, Active, OpensForNone,
                       OneWeeklySession
<1>11. ASSUME NEW t \in Tasks, End(t) \/ Crash(t) PROVE ChatInv'
  BY <1>11, TaskLeaves DEF End, Crash, chats
<1>12. CASE ArchiveChat
  <2>1. sessions > 0 /\ sessions' = sessions - 1 /\ UNCHANGED <<task, pc>>
    BY <1>12 DEF ArchiveChat, tasks
  <2> QED
    BY <2>1 DEF ChatInv, ChatTypes, OneAtATime, Active, OpensForNone, OneWeeklySession
<1>13. CASE \/ EnrichReads \/ \E found \in SUBSET Feeds : EnrichStores(found)
            \/ \E ids \in SUBSET Feeds : BeginSubscribe(ids) \/ Dismiss(ids)
            \/ \E f \in Feeds : Subscribe(f) \/ SubscribeElsewhere(f)
            \/ EndSubscribe \/ SubscribeDies \/ UNCHANGED vars
  <2>1. UNCHANGED <<task, pc, sessions>>
    BY <1>13 DEF EnrichReads, EnrichStores, BeginSubscribe, Dismiss, Subscribe, SubscribeElsewhere,
                 EndSubscribe, SubscribeDies, vars, tasks, chats
  <2> QED BY <1>1, <2>1
<1> QED
  BY <1>2, <1>3, <1>4, <1>5, <1>6, <1>7, <1>8, <1>9, <1>10, <1>11, <1>12, <1>13 DEF Next

-----------------------------------------------------------------------------
(* Subscriptions *)

SubscribeTypes ==
  /\ mark \in [Feeds -> {"none", "new", "subscribed", "dismissed"}]
  /\ told \subseteq Feeds
  /\ subscribe \in [open : BOOLEAN, left : SUBSET Feeds, marks : SUBSET Feeds]

\* Marks that wait for the next commit are of feeds the user has, and what was answered as
\* subscribed is marked or waits.
MarksWait ==
  /\ ~subscribe.open => subscribe.left = {}
  /\ \A f \in Feeds : mark[f] = "subscribed" => f \in configs
  /\ subscribe.marks \subseteq configs
  /\ \A f \in told : mark[f] = "subscribed" \/ (subscribe.open /\ f \in subscribe.marks)

SubscribeInv == SubscribeTypes /\ MarksWait

LEMMA SubscribeInit == Init => SubscribeInv
  BY DEF Init, NoSubscribe, SubscribeInv, SubscribeTypes, MarksWait

LEMMA StoreKeeps ==
  ASSUME SubscribeInv, NEW found \in SUBSET Feeds, found \cap Suggested = {}, NEW r,
         Store(found, r), UNCHANGED <<configs, requests>>
  PROVE  SubscribeInv'
<1>1. \A f \in Feeds : mark[f] = "subscribed" => mark'[f] = "subscribed"
  BY DEF Store, Suggested, SubscribeInv, SubscribeTypes
<1>2. \A f \in Feeds : mark'[f] = "subscribed" => mark[f] = "subscribed"
  BY DEF Store
<1>3. mark' \in [Feeds -> {"none", "new", "subscribed", "dismissed"}]
  BY DEF Store, SubscribeInv, SubscribeTypes
<1> QED BY <1>1, <1>2, <1>3 DEF SubscribeInv, SubscribeTypes, MarksWait, requests

LEMMA SubscribeStep ==
  ASSUME "race" \notin Disturbances, SubscribeInv, [Next]_vars
  PROVE  SubscribeInv'
<1>1. CASE UNCHANGED <<mark, configs, told, subscribe>>
  BY <1>1 DEF SubscribeInv, SubscribeTypes, MarksWait
<1>2. ASSUME NEW t \in Tasks, Persist(t) PROVE SubscribeInv'
  <2>1. CASE picks[t] \cap Suggested = {}
    <3>1. Store(picks[t] \cap Feeds, mine[t])
      BY <1>2, <2>1 DEF Persist, Store
    <3> QED BY <1>2, <2>1, <3>1, StoreKeeps DEF Persist
  <2>2. CASE picks[t] \cap Suggested # {}
    BY <1>1, <1>2, <2>2 DEF Persist, requests
  <2> QED BY <2>1, <2>2
<1>3. ASSUME NEW found \in SUBSET Feeds, EnrichStores(found) PROVE SubscribeInv'
  <2> DEFINE new == (found \ known) \ Suggested
  <2>1. CASE new = {}
    BY <1>1, <1>3, <2>1 DEF EnrichStores, requests, discovery
  <2>2. CASE new # {}
    <3>1. PICK r \in Runs : Store(new, r)
      BY <1>3, <2>2 DEF EnrichStores
    <3> QED BY <1>3, <3>1, StoreKeeps DEF EnrichStores
  <2> QED BY <2>1, <2>2
<1>4. ASSUME NEW ids \in SUBSET Feeds, BeginSubscribe(ids) PROVE SubscribeInv'
  <2>1. subscribe' = [open |-> TRUE, left |-> ids, marks |-> {}] /\ ~subscribe.open
    <3>1. NoSubscribe = [open |-> FALSE, left |-> {}, marks |-> {}]
      BY DEF NoSubscribe
    <3> QED BY <1>4, <3>1 DEF BeginSubscribe
  <2>2. UNCHANGED <<mark, configs, told>>
    BY <1>4 DEF BeginSubscribe, discovery
  <2> QED BY <2>1, <2>2 DEF SubscribeInv, SubscribeTypes, MarksWait
<1>5. ASSUME NEW f \in Feeds, Subscribe(f) PROVE SubscribeInv'
  <2> USE DEF SubscribeInv, SubscribeTypes
  <2>1. subscribe.open
    BY <1>5 DEF Subscribe, MarksWait
  <2>2. subscribe.open \in BOOLEAN /\ subscribe.left \subseteq Feeds /\ subscribe.marks \subseteq Feeds
    OBVIOUS
  <2>3. CASE /\ subscribe' = [subscribe EXCEPT !.left = @ \ {f}]
             /\ UNCHANGED <<mark, configs, told>>
    BY <2>2, <2>3 DEF MarksWait
  <2>4. CASE /\ f \in configs
             /\ subscribe' = [subscribe EXCEPT !.left = @ \ {f}, !.marks = @ \cup {f}]
             /\ told' = told \cup {f} /\ UNCHANGED <<mark, configs>>
    <3>1. /\ subscribe' \in [open : BOOLEAN, left : SUBSET Feeds, marks : SUBSET Feeds]
          /\ subscribe'.open = subscribe.open /\ subscribe'.marks = subscribe.marks \cup {f}
      BY <2>2, <2>4
    <3> QED BY <2>1, <2>4, <3>1 DEF MarksWait
  <2>5. CASE /\ configs' = configs \cup {f}
             /\ mark' = [g \in Feeds |-> IF g \in subscribe.marks THEN "subscribed" ELSE mark[g]]
             /\ subscribe' = [subscribe EXCEPT !.left = @ \ {f}, !.marks = {f}]
             /\ told' = told \cup {f}
    <3>1. /\ subscribe' \in [open : BOOLEAN, left : SUBSET Feeds, marks : SUBSET Feeds]
          /\ subscribe'.open = subscribe.open /\ subscribe'.marks = {f}
      BY <2>2, <2>5
    <3> QED BY <2>1, <2>5, <3>1 DEF MarksWait
  <2> QED BY <1>5, <2>3, <2>4, <2>5 DEF Subscribe, Disturb
<1>6. ASSUME NEW ids \in SUBSET Feeds, Dismiss(ids) PROVE SubscribeInv'
  BY <1>6 DEF Dismiss, SubscribeInv, SubscribeTypes, MarksWait
<1>7. ASSUME NEW f \in Feeds, SubscribeElsewhere(f) PROVE SubscribeInv'
  BY <1>7 DEF SubscribeElsewhere, discovery, requests, SubscribeInv, SubscribeTypes, MarksWait
<1>8. CASE EndSubscribe
  BY <1>8 DEF EndSubscribe, NoSubscribe, SubscribeInv, SubscribeTypes, MarksWait
<1>9. CASE SubscribeDies
  BY <1>9 DEF SubscribeDies, discovery, NoSubscribe, SubscribeInv, SubscribeTypes, MarksWait
<1>10. CASE \/ EnrichReads \/ ArchiveChat \/ UNCHANGED vars
  BY <1>1, <1>10 DEF EnrichReads, ArchiveChat, vars, discovery, requests
<1>11. ASSUME NEW t \in Tasks,
              \/ Refresh(t) \/ Begin(t) \/ Select(t) \/ OpenChat(t) \/ CreateChat(t)
              \/ SeedChat(t) \/ DatabaseFails(t) \/ End(t) \/ Crash(t)
              \/ \E s \in {"processing", "failed"} : CreateRun(t, s)
              \/ \E s \in {"completed", "failed"} : Settle(t, s)
              \/ \E found \in SUBSET Feeds : Search(t, found)
       PROVE  SubscribeInv'
  <2>1. UNCHANGED <<mark, configs, told, subscribe>>
    BY <1>11 DEF Refresh, Begin, Select, OpenChat, CreateChat, SeedChat, DatabaseFails, End, Crash,
                 CreateRun, Settle, Search, discovery, requests
  <2> QED BY <1>1, <2>1
<1> QED
  BY <1>2, <1>3, <1>4, <1>5, <1>6, <1>7, <1>8, <1>9, <1>10, <1>11 DEF Next

-----------------------------------------------------------------------------
LEMMA ChatSound == ChatInv => OneWeeklySession
  BY DEF ChatInv

LEMMA SubscribeSound == SubscribeInv => SubscribedHasFeed
  BY DEF SubscribeInv, MarksWait, SubscribeTypes, SubscribedHasFeed

\* With one worker on the content queue, which supervisor.conf starts, a week has one open
\* chat however often tasks are retried, die and come again.
THEOREM OneChatPerWeek ==
  ASSUME "workers" \notin Disturbances
  PROVE  Spec => []OneWeeklySession
<1>1. ChatInv /\ [Next]_vars => ChatInv'
  BY ChatStep
<1> QED BY ChatInit, ChatSound, <1>1, PTL DEF Spec

\* Unless the user gets a feed between the check and the insert, what was answered as
\* subscribed is marked, and what is marked is a feed the user has.
THEOREM SubscriptionsAreKept ==
  ASSUME "race" \notin Disturbances
  PROVE  Spec => []SubscribedHasFeed
<1>1. SubscribeInv /\ [Next]_vars => SubscribeInv'
  BY SubscribeStep
<1> QED BY SubscribeInit, SubscribeSound, <1>1, PTL DEF Spec
=============================================================================

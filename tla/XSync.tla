------------------------------- MODULE XSync --------------------------------
(***************************************************************************)
(* The connection of one user with X: the OAuth grant with its rotating    *)
(* refresh token, and the synchronization of bookmarks up to a cursor.     *)
(* Agents are sync tasks and the tweet lookups of URL analysis, which      *)
(* refresh the same grant.                                                 *)
(***************************************************************************)
EXTENDS Integers, FiniteSets, Sequences, SequencesExt

CONSTANTS Posts,         \* number of tweets the user bookmarks over time
          Window,        \* BOOKMARK_SYNC_MAX_PAGES pages of BOOKMARK_SYNC_PAGE_SIZE
          MaxGrants,     \* bound on tokens the provider issues
          Agents,        \* processes that sync or look tweets up
          Disturbances,  \* subset of {"crash", "failure", "remove", "backlog", "again",
                         \* "reconnect"}
          MaxFaults      \* bound on disturbances in a behaviour

VARIABLES shelf,     \* the provider's list of bookmarks, newest first
          valid,     \* refresh tokens the provider accepts
          issued,    \* number of refresh tokens issued so far
          lost,      \* a token replaced another one and was never stored (history)
          active,    \* user_integration_connections.is_active
          refresh,   \* refresh_token_encrypted, 0 when cleared
          expired,   \* token_expires_at has passed
          exchange,  \* the OAuth callback: the connection it loaded, the token it got
          wanted,    \* what the user's last finished request asked for
          cursor,    \* last_synced_item_id, 0 before the first sync
          saved,     \* tweets that are contents of the user
          ledger,    \* user_integration_synced_items
          job,       \* what each agent does
          faults

connection == <<active, refresh, expired>>
provider == <<shelf, valid, issued, lost>>
user == <<exchange, wanted>>
store == <<cursor, saved, ledger>>
vars == <<connection, provider, user, store, job, faults>>

Tweets == 1..Posts
Idle == [pc |-> "idle", sync |-> FALSE, refresh |-> 0, got |-> 0, cursor |-> 0,
         newest |-> 0, todo |-> << >>, added |-> {}]
NoExchange == [pc |-> "idle", active |-> FALSE, got |-> 0]

Init ==
  /\ shelf = << >> /\ valid = {1} /\ issued = 1 /\ lost = FALSE
  /\ active = TRUE /\ refresh = 1 /\ expired = FALSE
  /\ exchange = NoExchange /\ wanted = "connected"
  /\ cursor = 0 /\ saved = {} /\ ledger = {}
  /\ job = [a \in Agents |-> Idle]
  /\ faults = 0

Disturb(d) == d \in Disturbances /\ faults < MaxFaults /\ faults' = faults + 1

\* SQLAlchemy writes an attribute only if it differs from what was loaded.
Flush(old, new, current) == IF old = new THEN current ELSE new

-----------------------------------------------------------------------------
(* The provider and the user *)

Bookmarked == ToSet(shelf)

\* Without "backlog" a sync comes before more than a window of new bookmarks.
Bookmark(t) ==
  /\ t \notin Bookmarked \cup saved /\ \A u \in Tweets : u < t => u \in Bookmarked \cup saved
  /\ \/ Cardinality(Bookmarked \ saved) < Window /\ UNCHANGED faults
     \/ Cardinality(Bookmarked \ saved) >= Window /\ Disturb("backlog")
  /\ shelf' = <<t>> \o shelf
  /\ UNCHANGED <<connection, valid, issued, lost, user, store, job>>

RemoveBookmark(t) ==
  /\ Disturb("remove")
  /\ t \in Bookmarked \cap saved
  /\ shelf' = RemoveFirst(shelf, t)
  /\ UNCHANGED <<connection, valid, issued, lost, user, store, job>>

\* A bookmark that was removed and made again is the newest.
BookmarkAgain(t) ==
  /\ Disturb("again")
  /\ t \in Bookmarked
  /\ shelf' = <<t>> \o RemoveFirst(shelf, t)
  /\ UNCHANGED <<connection, valid, issued, lost, user, store, job>>

TokenExpires ==
  /\ ~expired /\ refresh # 0
  /\ issued < MaxGrants
  /\ expired' = TRUE
  /\ UNCHANGED <<active, refresh, provider, user, store, job, faults>>

\* exchange_x_oauth loads the connection and asks the provider for tokens.
BeginExchange ==
  /\ Disturb("reconnect")
  /\ exchange.pc = "idle" /\ issued < MaxGrants
  /\ issued' = issued + 1 /\ valid' = valid \cup {issued + 1}
  /\ exchange' = [pc |-> "exchanged", active |-> active, got |-> issued + 1]
  /\ UNCHANGED <<connection, shelf, lost, wanted, store, job>>

CommitExchange ==
  /\ exchange.pc = "exchanged"
  /\ active' = Flush(exchange.active, TRUE, active)
  /\ refresh' = exchange.got /\ expired' = FALSE
  /\ exchange' = NoExchange /\ wanted' = "connected"
  /\ UNCHANGED <<provider, store, job, faults>>

\* disconnect_x_connection; the provider is not told.
Disconnect ==
  /\ Disturb("reconnect")
  /\ exchange.pc = "idle"
  /\ active' = FALSE /\ refresh' = 0 /\ expired' = FALSE
  /\ wanted' = "disconnected"
  /\ UNCHANGED <<provider, exchange, store, job>>

-----------------------------------------------------------------------------
(* Tokens *)

Stop(a) == job' = [job EXCEPT ![a] = Idle]

\* A sync task or a lookup loads an active connection.
Begin(a, sync) ==
  /\ job[a].pc = "idle" /\ active /\ refresh # 0
  /\ job' = [job EXCEPT ![a] = [Idle EXCEPT !.sync = sync, !.refresh = refresh, !.cursor = cursor,
                                 !.pc = IF expired THEN "expired" ELSE "ready"]]
  /\ UNCHANGED <<connection, provider, user, store, faults>>

\* The provider replaces a token it knows.
Rotate(old) ==
  /\ old \in valid
  /\ issued < MaxGrants + Cardinality(Agents)
  /\ issued' = issued + 1
  /\ valid' = (valid \ {old}) \cup {issued + 1}

\* refresh_oauth_token
AskRefresh(a) ==
  /\ job[a].pc = "expired"
  /\ \/ Rotate(job[a].refresh) /\ job' = [job EXCEPT ![a].pc = "refreshed", ![a].got = issued + 1]
     \/ /\ job[a].refresh \notin valid
        /\ job' = [job EXCEPT ![a].pc = "rejected"] /\ UNCHANGED <<valid, issued>>
  /\ UNCHANGED <<connection, shelf, lost, user, store, faults>>

\* The provider has replaced the token, and its answer is lost or cannot be read.
RefreshLost(a) ==
  /\ Disturb("failure")
  /\ job[a].pc = "expired"
  /\ Rotate(job[a].refresh) /\ lost' = TRUE
  /\ Stop(a)
  /\ UNCHANGED <<connection, shelf, user, store>>

\* Mutant of StoreRefresh: the connection counts as active again.
StoreRefreshActivating(a) ==
  /\ job[a].pc = "refreshed"
  /\ active' = TRUE /\ refresh' = job[a].got /\ expired' = FALSE
  /\ job' = [job EXCEPT ![a].pc = "ready"]
  /\ UNCHANGED <<provider, user, store, faults>>

\* Mutant of StoreRefresh: the new refresh token is not kept.
StoreAccessOnly(a) ==
  /\ job[a].pc = "refreshed"
  /\ expired' = FALSE
  /\ job' = [job EXCEPT ![a].pc = "ready"]
  /\ UNCHANGED <<active, refresh, provider, user, store, faults>>

StoreRefresh(a) ==
  /\ job[a].pc = "refreshed"
  /\ refresh' = job[a].got /\ expired' = FALSE
  /\ job' = [job EXCEPT ![a].pc = "ready"]
  /\ UNCHANGED <<active, provider, user, store, faults>>

\* _deactivate_connection_for_reauth
Deactivate(a) ==
  /\ job[a].pc = "rejected"
  /\ active' = FALSE /\ refresh' = 0 /\ expired' = FALSE
  /\ Stop(a)
  /\ UNCHANGED <<provider, user, store, faults>>

-----------------------------------------------------------------------------
(* Bookmarks *)

UseToken(a) ==
  /\ job[a].pc = "ready" /\ ~job[a].sync
  /\ Stop(a)
  /\ UNCHANGED <<connection, provider, user, store, faults>>

\* The pages down to the cursor, or to the page limit.
New(a) == LET at == SelectInSeq(shelf, LAMBDA t : t = job[a].cursor)
          IN IF at = 0 THEN shelf ELSE SubSeq(shelf, 1, at - 1)

Fetch(a) ==
  /\ job[a].pc = "ready" /\ job[a].sync
  /\ job' = [job EXCEPT ![a].pc = "saving",
               ![a].newest = IF shelf = << >> THEN 0 ELSE Head(shelf),
               ![a].todo = SubSeq(New(a), 1, IF Len(New(a)) < Window THEN Len(New(a)) ELSE Window)]
  /\ UNCHANGED <<connection, provider, user, store, faults>>

\* Oldest first.  A tweet of the ledger is only looked at; another one is submitted,
\* which commits the ledger rows of those before.
Save(a) ==
  /\ job[a].pc = "saving" /\ job[a].todo # << >>
  /\ LET t == Last(job[a].todo)
     IN /\ job' = [job EXCEPT ![a].todo = Front(@), ![a].added = @ \cup {t}]
        /\ IF t \in ledger THEN UNCHANGED <<saved, ledger>>
           ELSE saved' = saved \cup {t} /\ ledger' = ledger \cup job[a].added
  /\ UNCHANGED <<connection, provider, user, cursor, faults>>

\* Mutant of Finish: two more tweets may still be waiting.
FinishEarly(a) ==
  /\ job[a].pc = "saving"
  /\ ledger' = ledger \cup job[a].added
  /\ cursor' = IF job[a].newest = 0 THEN job[a].cursor ELSE job[a].newest
  /\ Stop(a)
  /\ UNCHANGED <<connection, provider, user, saved, faults>>

Finish(a) ==
  /\ job[a].pc = "saving" /\ job[a].todo = << >>
  /\ ledger' = ledger \cup job[a].added
  /\ cursor' = IF job[a].newest = 0 THEN job[a].cursor ELSE job[a].newest
  /\ Stop(a)
  /\ UNCHANGED <<connection, provider, user, saved, faults>>

\* A token that was about to be stored is gone with the session.
LosesToken(a) ==
  /\ lost' = (lost \/ job[a].pc = "refreshed")
  /\ UNCHANGED <<shelf, valid, issued>>

\* Mutant of Fails: the failed sync counts.
FailsAndAdvances(a) ==
  /\ Disturb("failure")
  /\ job[a].pc \in {"expired", "refreshed", "ready", "saving"}
  /\ ledger' = ledger \cup job[a].added
  /\ cursor' = IF job[a].newest = 0 THEN cursor ELSE job[a].newest
  /\ LosesToken(a) /\ Stop(a)
  /\ UNCHANGED <<connection, user, saved>>

\* An exception: last_status is failed, what is in the session is committed; or the
\* commit of a refresh is what fails.
Fails(a) ==
  /\ Disturb("failure")
  /\ job[a].pc \in {"expired", "refreshed", "ready", "saving"}
  /\ ledger' = ledger \cup job[a].added
  /\ LosesToken(a) /\ Stop(a)
  /\ UNCHANGED <<connection, user, cursor, saved>>

AgentDies(a) ==
  /\ Disturb("crash")
  /\ job[a].pc # "idle"
  /\ LosesToken(a) /\ Stop(a)
  /\ UNCHANGED <<connection, user, store>>

-----------------------------------------------------------------------------
AgentStep(a) ==
  \/ AskRefresh(a) \/ StoreRefresh(a) \/ Deactivate(a) \/ UseToken(a)
  \/ Fetch(a) \/ Save(a) \/ Finish(a)

Next ==
  \/ \E t \in Tweets : Bookmark(t) \/ RemoveBookmark(t) \/ BookmarkAgain(t)
  \/ TokenExpires \/ BeginExchange \/ CommitExchange \/ Disconnect
  \/ \E a \in Agents : \/ \E sync \in BOOLEAN : Begin(a, sync)
                       \/ AgentStep(a) \/ RefreshLost(a) \/ Fails(a) \/ AgentDies(a)

\* Syncs are scheduled for ever and tasks go on.
Fairness == \A a \in Agents : WF_vars(AgentStep(a)) /\ SF_vars(Begin(a, TRUE))

Spec == Init /\ [][Next]_vars /\ Fairness

-----------------------------------------------------------------------------
(* Properties *)

TypeOK ==
  /\ Bookmarked \subseteq Tweets /\ IsInjective(shelf)
  /\ valid \subseteq 1..issued /\ issued \in 1..(MaxGrants + Cardinality(Agents))
  /\ active \in BOOLEAN /\ expired \in BOOLEAN /\ lost \in BOOLEAN
  /\ refresh \in 0..issued
  /\ cursor \in 0..Posts
  /\ saved \subseteq Tweets /\ ledger \subseteq saved
  /\ faults \in 0..MaxFaults

\* Whatever refreshes, syncs and lookups are under way or die: once the user has
\* disconnected, no agent makes the connection active again.
DisconnectHolds == wanted = "disconnected" => ~active

\* When one agent at a time uses the grant, a user who wants to be connected stays so and
\* the stored refresh token, or the one being stored, is accepted.  Syncs may fail and die:
\* only a token that replaced another one and was not stored costs the connection.
GrantKept ==
  wanted = "connected" /\ ~lost =>
    /\ active
    /\ refresh \in valid \/ \E a \in Agents : job[a].pc = "refreshed" /\ job[a].got \in valid

\* No bookmark is passed over: those at or below the cursor are contents, as long as
\* a sync finds no more than a window of new ones.
NothingPassedOver == \A t \in Bookmarked : t <= cursor => t \in saved

\* Every bookmark becomes a content, unless the connection is lost.
BookmarksArrive == \A t \in Tweets : t \in Bookmarked ~> t \in saved \/ ~active
=============================================================================

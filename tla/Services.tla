------------------------------- MODULE Services -------------------------------
(***************************************************************************)
(* The services around the pipeline.  They share no state, so each         *)
(* behaviour exercises one of them in one environment; the scene is chosen *)
(* at the beginning.  Which disturbances a scene has is fixed here, how    *)
(* large it is a parameter.                                                *)
(***************************************************************************)
EXTENDS MetadataMerge, Integers, Sequences, FiniteSets

CONSTANTS Faults,                                        \* per scene: bound on disturbances
          Threads, Order, Tokened, Threshold, Cooldown, Ttl, MaxTime,   \* podcasts
          Posts, Window, MaxGrants, Agent,               \* bookmarks
          Agents, GrantPosts, GrantMax,                  \* grant
          Approvals,                                     \* link, tangled
          Plain, Subscriptions, Scrapes, NoRow, MaxTries,   \* gate, rush
          MediaRetries,                                  \* episode, post
          Discoveries, Sources, Defaults, FirstTries,    \* first minutes
          Feeds, Tasks, Runs, WeekRetries,               \* week
          AnswerFeeds, AnswerTasks, AnswerRuns              \* answers

\* settings.py: the breaker opens after at least one failure, and not for nothing.
ASSUME SearchAssumption ==
  /\ IsFiniteSet(Threads)
  /\ Order \in Seq(STRING)
  /\ Threshold \in Nat \ {0}
  /\ Cooldown \in Nat \ {0}

\* x_integration.py: BOOKMARK_SYNC_MAX_PAGES pages of BOOKMARK_SYNC_PAGE_SIZE bookmarks.
ASSUME SyncAssumption == Posts \in Nat /\ Window \in Nat \ {0}

\* The app's "no run" is the id of none: ids are serial from 1.
ASSUME DiscoveryAssumption == 0 \notin Discoveries

VARIABLES scene,
          \* PodcastSearch
          now, down, failures, openUntil, cache, token, tokensIssued, tokensValid,
          search, calls, searchFaults,
          \* XSync
          shelf, valid, issued, lost, active, refresh, expired, exchange, xWanted,
          cursor, saved, ledger, xJob, xFaults,
          \* CliLink
          linkStatus, lapsed, key, plain, minted, approval, poll, cli, held, linkFaults,
          \* Intake
          type, rowStatus, flag, inbox, queued, reading, analysis, req, heard, inFaults,
          \* MediaPipeline
          spoken, mediaStatus, text, summary, video, audio, mediaTask, mediaTries, pc, mem,
          mediaFaults,
          \* Onboarding
          step, personalized, shown, seen, limit, offered, polling, asking, resumed,
          discoveryRun, found, discoverJob, tries, at, discoveryFaults,
          request, stock, firstInbox, configs, asked, chosen, completed, missed,
          \* FeedDiscovery
          run, mark, of, feeds, weekTask, retries, weekPc, mine, picks, known, enriching,
          sessions, seeded, subscribe, told, weekFaults

searchVars == <<now, down, failures, openUntil, cache, token, tokensIssued, tokensValid,
                search, calls, searchFaults>>
xVars == <<shelf, valid, issued, lost, active, refresh, expired, exchange, xWanted,
           cursor, saved, ledger, xJob, xFaults>>
linkVars == <<linkStatus, lapsed, key, plain, minted, approval, poll, cli, held, linkFaults>>
inVars == <<type, rowStatus, flag, inbox, queued, reading, analysis, req, heard, inFaults>>
mediaVars == <<spoken, mediaStatus, text, summary, video, audio, mediaTask, mediaTries, pc, mem,
               mediaFaults>>
firstVars == <<step, personalized, shown, seen, limit, offered, polling, asking, resumed,
               discoveryRun, found, discoverJob, tries, at, discoveryFaults,
               request, stock, firstInbox, configs, asked, chosen, completed, missed>>
weekVars == <<run, mark, of, feeds, weekTask, retries, weekPc, mine, picks, known, enriching,
              sessions, seeded, subscribe, told, weekFaults>>

-----------------------------------------------------------------------------
\* Threads that ask providers, with outages and tokens that are revoked.
Podcasts == INSTANCE PodcastSearch
  WITH Searches <- Threads,
       Disturbances <- {"outage", "revoke"}, MaxFaults <- Faults["podcasts"],
       issued <- tokensIssued, valid <- tokensValid, job <- search, asked <- calls,
       faults <- searchFaults

\* One agent, a user who disconnects and connects again.
Bookmarks == INSTANCE XSync
  WITH Agents <- {Agent},
       Disturbances <- {"failure", "crash", "remove", "reconnect"},
       MaxFaults <- Faults["bookmarks"], job <- xJob, wanted <- xWanted, faults <- xFaults

\* Syncs and tweet lookups that refresh the same grant.
Grant == INSTANCE XSync
  WITH Posts <- GrantPosts, MaxGrants <- GrantMax,
       Disturbances <- {"failure", "crash", "reconnect", "again", "backlog"},
       MaxFaults <- Faults["grant"],
       job <- xJob, wanted <- xWanted, faults <- xFaults

\* One approval at a time whose answer may be lost.
Link == INSTANCE CliLink
  WITH Disturbances <- {"loss"}, MaxFaults <- Faults["link"],
       status <- linkStatus, faults <- linkFaults

\* Approvals that may die between their two commits.
Tangled == INSTANCE CliLink
  WITH Disturbances <- {"death", "loss"}, MaxFaults <- Faults["tangled"],
       status <- linkStatus, faults <- linkFaults

\* Submissions, subscriptions and scrapers for one URL.
Gate == INSTANCE Intake
  WITH Feeds <- Subscriptions, Disturbances <- {"crash"}, MaxFaults <- Faults["gate"],
       status <- rowStatus, process <- queued, task <- analysis, faults <- inFaults

\* The same with everything that may go wrong.
Rush == INSTANCE Intake
  WITH Feeds <- Subscriptions,
       Disturbances <- {"crash", "twin", "race", "death"}, MaxFaults <- Faults["rush"],
       status <- rowStatus, process <- queued, task <- analysis, faults <- inFaults

\* A podcast episode, and a post with a video.
Episode == INSTANCE MediaPipeline
  WITH Kind <- "podcast", MaxRetries <- MediaRetries,
       Disturbances <- {"crash", "outage", "handoff"}, MaxFaults <- Faults["episode"],
       status <- mediaStatus, task <- mediaTask, tries <- mediaTries,
       faults <- mediaFaults

Post == INSTANCE MediaPipeline
  WITH Kind <- "tweet", MaxRetries <- MediaRetries,
       Disturbances <- {"crash", "outage", "handoff"}, MaxFaults <- Faults["post"],
       status <- mediaStatus, task <- mediaTask, tries <- mediaTries,
       faults <- mediaFaults

\* Attempts at discovery over curated feeds and found ones.
FirstMinutes == INSTANCE Onboarding
  WITH Runs <- Discoveries, NoRun <- 0, MaxTries <- FirstTries,
       Disturbances <- {"kill", "loss", "outage", "crash"}, MaxFaults <- Faults["first minutes"],
       run <- discoveryRun, job <- discoverJob, inbox <- firstInbox, wanted <- chosen

\* Discoveries in one week.
Week == INSTANCE FeedDiscovery
  WITH MaxRetries <- WeekRetries,
       Disturbances <- {"crash", "outage", "elsewhere"}, MaxFaults <- Faults["week"],
       configs <- feeds, task <- weekTask, pc <- weekPc, faults <- weekFaults

\* Suggestions that are answered together.
Answers == INSTANCE FeedDiscovery
  WITH Feeds <- AnswerFeeds, Tasks <- AnswerTasks, Runs <- AnswerRuns, MaxRetries <- WeekRetries,
       Disturbances <- {"crash", "outage", "elsewhere"}, MaxFaults <- Faults["answers"],
       configs <- feeds, task <- weekTask, pc <- weekPc, faults <- weekFaults

-----------------------------------------------------------------------------
Scenes == {"podcasts", "bookmarks", "grant", "link", "tangled", "gate", "rush", "merge",
           "episode", "post", "first minutes", "week", "answers"}

ServicesInit ==
  /\ scene \in Scenes
  /\ Init
  /\ Podcasts!Init
  /\ IF scene = "grant" THEN Grant!Init ELSE Bookmarks!Init
  /\ Link!Init /\ Gate!Init
  /\ Episode!Init
  /\ scene \notin {"episode", "post"} => spoken = FALSE
  /\ FirstMinutes!Init
  /\ scene # "first minutes" => stock = {}
  /\ IF scene = "answers" THEN Answers!Init ELSE Week!Init

ServicesNext ==
  /\ UNCHANGED scene
  /\ \/ scene = "merge" /\ Next
     \/ scene # "merge" /\ UNCHANGED vars
  /\ \/ scene = "podcasts" /\ Podcasts!Next
     \/ scene # "podcasts" /\ UNCHANGED searchVars
  /\ \/ scene = "bookmarks" /\ Bookmarks!Next
     \/ scene = "grant" /\ Grant!Next
     \/ scene \notin {"bookmarks", "grant"} /\ UNCHANGED xVars
  /\ \/ scene = "link" /\ Link!Next
     \/ scene = "tangled" /\ Tangled!Next
     \/ scene \notin {"link", "tangled"} /\ UNCHANGED linkVars
  /\ \/ scene = "gate" /\ Gate!Next
     \/ scene = "rush" /\ Rush!Next
     \/ scene \notin {"gate", "rush"} /\ UNCHANGED inVars
  /\ \/ scene = "episode" /\ Episode!Next
     \/ scene = "post" /\ Post!Next
     \/ scene \notin {"episode", "post"} /\ UNCHANGED mediaVars
  /\ \/ scene = "first minutes" /\ FirstMinutes!Next
     \/ scene # "first minutes" /\ UNCHANGED firstVars
  /\ \/ scene = "week" /\ Week!Next
     \/ scene = "answers" /\ Answers!Next
     \/ scene \notin {"week", "answers"} /\ UNCHANGED weekVars

allVars == <<scene, vars, searchVars, xVars, linkVars, inVars, mediaVars, firstVars, weekVars>>
ServicesSpec == ServicesInit /\ [][ServicesNext]_allVars

-----------------------------------------------------------------------------
\* A submission that is not settled has somebody who goes on with it.
NothingStranded == scene = "gate" => Gate!NothingStranded

\* After a disconnect no agent makes the X connection active again; while the user stays
\* connected, one agent keeps the grant that it can store.
ConnectionFollowsUser ==
  /\ scene = "bookmarks" => Bookmarks!DisconnectHolds /\ Bookmarks!GrantKept
  /\ scene = "grant" => Grant!DisconnectHolds

\* No bookmark at or below the cursor is missing.
NothingPassedOver == scene = "bookmarks" => Bookmarks!NothingPassedOver

\* A CLI that was linked holds the key its session names; no minted key strays unless an
\* approval dies.
LinkedWithKey ==
  /\ scene = "link" => Link!LinkedWithKey /\ Link!NoStrayKey
  /\ scene = "tangled" => Tangled!LinkedWithKey

\* Content that must be heard is settled, and its summary is of what was heard.
HeardAndSummarized ==
  /\ scene = "episode" => Episode!HeardAndSummarized
  /\ scene = "post" => Post!HeardAndSummarized

\* An onboarded user follows the feeds of the selection that was answered, and discovery
\* has answered with suggestions or with an offer to go on.
OnboardedWithSources ==
  scene = "first minutes" =>
    FirstMinutes!OnboardedWithSources /\ FirstMinutes!DiscoveryAnswers

\* A week has one open discovery chat.
OneWeeklySession == scene = "week" => Week!OneWeeklySession

\* What is marked or answered as subscribed is a feed the user has.
SubscribedHasFeed ==
  /\ scene = "week" => Week!SubscribedHasFeed
  /\ scene = "answers" => Answers!SubscribedHasFeed

\* A failing provider is spared, and a refused token is not used again.
ProviderIsSpared ==
  scene = "podcasts" => Podcasts!FailingIsSpared /\ Podcasts!RefusedIsNotReused
=============================================================================

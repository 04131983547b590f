------------------------------ MODULE Onboarding ------------------------------
(***************************************************************************)
(* A new user's first minutes: a spoken wish is turned into suggested      *)
(* feeds by a worker while the app polls, and the feeds the user keeps     *)
(* become subscriptions.                                                   *)
(* app/services/onboarding.py, routers/api/onboarding.py, the handlers     *)
(* onboarding_discover and backfill_feeds, OnboardingViewModel.swift.      *)
(*                                                                         *)
(* The app saves its progress whenever it changes and forgets it outside   *)
(* the loading and suggestion steps.  The endpoints run one at a time; the *)
(* onboarding queue has one worker.  A source's content has its name.      *)
(***************************************************************************)
EXTENDS Naturals

CONSTANTS Runs, NoRun,     \* discovery runs
          Sources,         \* feeds that may be suggested
          Defaults,        \* the curated feeds among them
          MaxTries,        \* settings.queue.max_retries
          Disturbances,    \* subset of {"kill", "loss", "late", "outage", "crash"}
          MaxFaults

VARIABLES
  \* the app
  step, personalized, shown, seen, limit, offered, polling, asking, resumed,
  \* discovery
  run, found, job, tries, at, discoveryFaults,
  \* completion
  request, stock, inbox, configs, asked, wanted, completed,
  missed   \* feeds of the selection whose own connection failed (history)

app == <<step, personalized, shown, seen, limit, offered, polling, asking, resumed>>
worker == <<found, job, tries, at>>
subscription == <<request, stock, inbox, configs, asked, wanted, completed, missed>>
vars == <<app, run, worker, discoveryFaults, subscription>>

Terminal == {"completed", "failed"}
Disturb(d) ==
  d \in Disturbances /\ discoveryFaults < MaxFaults /\ discoveryFaults' = discoveryFaults + 1

\* The session holds a connection, has none since its last commit, or needs a rollback
\* that nobody calls.
NoRequest == [at |-> "none", picks |-> {}, left |-> {}, ids |-> {}, seeds |-> {},
              session |-> "open"]

Init ==
  /\ step = "choice" /\ personalized = FALSE
  /\ shown = NoRun /\ seen = "none" /\ limit = FALSE /\ offered = {}
  /\ polling = NoRun /\ asking = NoRun /\ resumed = FALSE
  /\ run = [r \in Runs |-> "none"] /\ found = [r \in Runs |-> {}]
  /\ job = [r \in Runs |-> "none"] /\ tries = [r \in Runs |-> 0] /\ at = [r \in Runs |-> "idle"]
  /\ request = NoRequest
  /\ stock \in SUBSET Sources /\ inbox = {}
  /\ configs = {} /\ asked = {} /\ wanted = {} /\ completed = FALSE
  /\ missed = {}
  /\ discoveryFaults = 0

-----------------------------------------------------------------------------
(* The app *)

Idle == request.at = "none" /\ ~completed

\* clearDiscoveryState; an answer that resume awaits is not cancelled: only
\* with "late" does the user act before it is there.
Clear ==
  /\ asking = NoRun \/ "late" \in Disturbances
  /\ shown' = NoRun /\ seen' = "none" /\ limit' = FALSE /\ offered' = {}
  /\ polling' = NoRun /\ UNCHANGED <<asking, resumed>>

OffersRetry ==
  step = "loading" /\ (limit \/ seen = "failed")

StartPersonalized ==
  /\ Idle /\ (step = "choice" \/ OffersRetry)
  /\ step' = "audio" /\ personalized' = TRUE /\ Clear
  /\ UNCHANGED <<run, worker, subscription, discoveryFaults>>

ChooseDefaults ==
  /\ Idle /\ (step \in {"choice", "audio"} \/ OffersRetry)
  /\ step' = "suggestions" /\ personalized' = FALSE /\ Clear
  /\ UNCHANGED <<run, worker, subscription, discoveryFaults>>

Create(r) ==
  /\ step = "audio" /\ run[r] = "none"
  /\ \A other \in Runs : run[other] = "none" => r <= other   \* ids are serial
  /\ run' = [run EXCEPT ![r] = "pending"]

\* POST /onboarding/audio-discover: the run is committed, then its task.
BeginDiscovery(r) ==
  /\ Create(r)
  /\ job' = [job EXCEPT ![r] = "pending"]
  /\ step' = "loading" /\ shown' = r /\ seen' = "pending" /\ limit' = FALSE /\ polling' = r
  /\ UNCHANGED <<personalized, offered, asking, resumed, found, tries, at,
                 subscription, discoveryFaults>>

\* The server dies between the two, or the answer is lost: the app reports
\* an error and stays where it is.
BeginUnanswered(r) ==
  /\ Create(r) /\ Disturb("loss")
  /\ \E queued \in BOOLEAN : job' = [job EXCEPT ![r] = IF queued THEN "pending" ELSE "none"]
  /\ UNCHANGED <<app, found, tries, at, subscription>>

\* applyDiscoveryStatus
ApplyStatus(r) ==
  /\ shown' = r /\ seen' = run[r] /\ limit' = FALSE
  /\ CASE run[r] = "completed" -> step' = "suggestions" /\ offered' = found[r]
       [] run[r] = "failed" -> step' = "loading" /\ offered' = {}
       [] OTHER -> UNCHANGED <<step, offered>>

Poll ==
  /\ polling # NoRun /\ Idle
  /\ ApplyStatus(polling)
  /\ polling' = IF run[polling] \in Terminal THEN NoRun ELSE polling
  /\ UNCHANGED <<personalized, asking, resumed, run, worker, subscription, discoveryFaults>>

\* Mutant of PollTimeout: polling ends without the offer to go on.
PollStops ==
  /\ polling # NoRun /\ seen \notin Terminal /\ Idle
  /\ polling' = NoRun
  /\ UNCHANGED <<step, personalized, shown, seen, limit, offered, asking, resumed,
                 run, worker, subscription, discoveryFaults>>

\* Two minutes have passed.
PollTimeout ==
  /\ polling # NoRun /\ seen \notin Terminal /\ Idle
  /\ limit' = TRUE /\ polling' = NoRun
  /\ UNCHANGED <<step, personalized, shown, seen, offered, asking, resumed,
                 run, worker, subscription, discoveryFaults>>

ContinueWaiting ==
  /\ step = "loading" /\ limit /\ shown # NoRun /\ seen \notin Terminal
  /\ limit' = FALSE /\ polling' = shown
  /\ UNCHANGED <<step, personalized, shown, seen, offered, asking, resumed,
                 run, worker, subscription, discoveryFaults>>

\* The app is killed and started again, with the progress it saved.
Relaunch ==
  /\ Idle /\ Disturb("kill")
  /\ polling' = NoRun /\ asking' = NoRun /\ resumed' = FALSE
  /\ IF step \in {"loading", "suggestions"}
     THEN UNCHANGED <<step, personalized, shown, seen, limit, offered>>
     ELSE /\ step' = "choice" /\ personalized' = FALSE
          /\ shown' = NoRun /\ seen' = "none" /\ limit' = FALSE /\ offered' = {}
  /\ UNCHANGED <<run, worker, subscription>>

\* resumeDiscoveryIfNeeded, once when the view appears
Resume ==
  /\ ~resumed /\ Idle /\ resumed' = TRUE
  /\ asking' = IF step = "loading" THEN shown ELSE NoRun
  /\ UNCHANGED <<step, personalized, shown, seen, limit, offered, polling,
                 run, worker, subscription, discoveryFaults>>

PollFromThere == polling' = IF seen' \in Terminal \/ limit' THEN polling ELSE asking

ResumeAnswered ==
  /\ asking # NoRun /\ Idle
  /\ ApplyStatus(asking) /\ PollFromThere /\ asking' = NoRun
  /\ UNCHANGED <<personalized, resumed, run, worker, subscription, discoveryFaults>>

ResumeFails ==
  /\ asking # NoRun /\ Disturb("loss")
  /\ UNCHANGED <<step, personalized, shown, seen, limit, offered, resumed>>
  /\ PollFromThere /\ asking' = NoRun
  /\ UNCHANGED <<run, worker, subscription>>

-----------------------------------------------------------------------------
(* ONBOARDING_DISCOVER *)

BeginDiscover(r) ==
  /\ job[r] = "pending" /\ \A other \in Runs : job[other] # "running"
  /\ job' = [job EXCEPT ![r] = "running"]
  /\ IF run[r] = "completed"
     THEN at' = [at EXCEPT ![r] = "ok"] /\ UNCHANGED run
     ELSE at' = [at EXCEPT ![r] = "search"] /\ run' = [run EXCEPT ![r] = "processing"]
  /\ UNCHANGED <<app, found, tries, subscription, discoveryFaults>>

\* The lanes are searched and _persist_onboarding_suggestions replaces what
\* an earlier attempt left; the curated defaults fill in.
Suggest(r, feeds) ==
  /\ at[r] = "search" /\ feeds # {}
  /\ found' = [found EXCEPT ![r] = feeds] /\ at' = [at EXCEPT ![r] = "finish"]
  /\ UNCHANGED <<app, run, job, tries, subscription, discoveryFaults>>

CompleteRun(r) ==
  /\ at[r] = "finish"
  /\ run' = [run EXCEPT ![r] = "completed"] /\ at' = [at EXCEPT ![r] = "ok"]
  /\ UNCHANGED <<app, found, job, tries, subscription, discoveryFaults>>

\* Any exception fails the run, and the task is done with it.
DiscoveryFails(r) ==
  /\ at[r] = "search"
  /\ run' = [run EXCEPT ![r] = "failed"] /\ at' = [at EXCEPT ![r] = "ok"]
  /\ UNCHANGED <<app, found, job, tries, subscription, discoveryFaults>>

\* If the database failed, the failure cannot be recorded either.
DatabaseFails(r) ==
  /\ at[r] \in {"search", "finish"} /\ Disturb("outage")
  /\ at' = [at EXCEPT ![r] = "retry"]
  /\ UNCHANGED <<app, run, found, job, tries, subscription>>

EndDiscover(r) ==
  /\ at[r] \in {"ok", "retry"}
  /\ IF at[r] = "retry" /\ tries[r] < MaxTries
     THEN job' = [job EXCEPT ![r] = "pending"] /\ tries' = [tries EXCEPT ![r] = @ + 1]
     ELSE job' = [job EXCEPT ![r] = "none"] /\ UNCHANGED tries
  /\ at' = [at EXCEPT ![r] = "idle"]
  /\ UNCHANGED <<app, run, found, subscription, discoveryFaults>>

CrashDiscover(r) ==
  /\ job[r] = "running" /\ Disturb("crash")
  /\ job' = [job EXCEPT ![r] = "pending"] /\ at' = [at EXCEPT ![r] = "idle"]
  /\ UNCHANGED <<app, run, found, tries, subscription>>

-----------------------------------------------------------------------------
(* POST /onboarding/complete *)

\* Without a selection the curated feeds are taken.
BeginCompletion(chosen) ==
  /\ Idle /\ step = "suggestions" /\ chosen \subseteq offered
  /\ LET picks == IF chosen = {} THEN Defaults ELSE chosen
     IN /\ request' = [NoRequest EXCEPT !.at = "sources", !.picks = picks, !.left = picks]
        /\ wanted' = picks /\ missed' = {}
  /\ UNCHANGED <<app, run, worker, stock, inbox, configs, asked, completed, discoveryFaults>>

\* _persist_scraper_config_idempotent: a feed that is there already counts.
Configure(s) ==
  /\ request.at = "sources" /\ s \in request.left /\ request.session # "broken"
  /\ configs' = configs \cup {s}
  /\ request' = [request EXCEPT !.left = @ \ {s}, !.ids = @ \cup {s}, !.session = "open"]
  /\ UNCHANGED <<app, run, worker, stock, inbox, asked, wanted, completed, missed, discoveryFaults>>

\* Any other error is swallowed: one of the database inside the transaction, before or
\* after its commit, which leaves the session unusable, or one of the connection, when the
\* row just committed is read back and as long as that outage lasts.
ConfigureFails(s) ==
  /\ request.at = "sources" /\ s \in request.left
  /\ \/ request.session = "broken" /\ UNCHANGED <<configs, missed, discoveryFaults>>
     \/ /\ request.session # "broken" /\ Disturb("outage")
        /\ configs' \in {configs, configs \cup {s}} /\ UNCHANGED missed
     \/ /\ s \notin configs /\ request.session # "broken" /\ Disturb("outage")
        /\ configs' = configs \cup {s} /\ missed' = missed \cup {s}
     \/ /\ request.session = "closed" /\ UNCHANGED <<configs, discoveryFaults>>
        /\ missed' = missed \cup {s}
  /\ request' = [request EXCEPT !.left = @ \ {s},
                               !.session = IF s \in missed' THEN "closed" ELSE "broken"]
  /\ UNCHANGED <<app, run, worker, stock, inbox, asked, wanted, completed>>

\* The queue has a session of its own.
AskForBackfill ==
  /\ request.at = "sources" /\ request.left = {}
  /\ asked' = asked \cup request.ids
  /\ request' = [request EXCEPT !.at = "read"]
  /\ UNCHANGED <<app, run, worker, stock, inbox, configs, wanted, completed, missed,
                 discoveryFaults>>

\* The two seeds have one form; each swallows its exception without a rollback.
ReadSeeds ==
  /\ request.at = "read"
  /\ request' = IF request.session = "broken" THEN [request EXCEPT !.at = "flag"]
                ELSE [request EXCEPT !.at = "insert", !.session = "open",
                                     !.seeds = (request.picks \cap stock) \ inbox]
  /\ UNCHANGED <<app, run, worker, stock, inbox, configs, asked, wanted, completed, missed,
                 discoveryFaults>>

InsertSeeds ==
  /\ request.at = "insert"
  /\ IF request.seeds \cap inbox = {}
     THEN inbox' = inbox \cup request.seeds /\ request' = [request EXCEPT !.at = "flag"]
     ELSE request' = [request EXCEPT !.at = "flag", !.session = "broken"] /\ UNCHANGED inbox
  /\ UNCHANGED <<app, run, worker, stock, configs, asked, wanted, completed, missed,
                 discoveryFaults>>

SeedsFail ==
  /\ request.at \in {"read", "insert"}
  /\ \/ /\ request.session # "broken" /\ Disturb("outage")
        /\ request' = [request EXCEPT !.at = "flag", !.session = "broken"]
     \/ /\ request.session = "closed" /\ UNCHANGED discoveryFaults   \* the outage lasts
        /\ request' = [request EXCEPT !.at = "flag"]
  /\ UNCHANGED <<app, run, worker, stock, inbox, configs, asked, wanted, completed, missed>>

\* Mutant of Flag: the errors of the loop are forgotten.
FlagAnyway ==
  /\ request.at = "flag"
  /\ completed' = TRUE
  /\ request' = NoRequest
  /\ UNCHANGED <<app, run, worker, stock, inbox, configs, asked, wanted, missed, discoveryFaults>>

\* With a broken session the user is not found but an error: 500.
Flag ==
  /\ request.at = "flag"
  /\ completed' = (request.session # "broken")
  /\ request' = NoRequest
  /\ UNCHANGED <<app, run, worker, stock, inbox, configs, asked, wanted, missed, discoveryFaults>>

\* The server dies, or the database fails where nobody catches it; the user may send again,
\* even another selection.
CompletionDies ==
  /\ request.at # "none"
  /\ \/ Disturb("crash")
     \/ request.left = {} /\ request.at \in {"sources", "flag"} /\ Disturb("outage")
  /\ request' = NoRequest
  /\ UNCHANGED <<app, run, worker, stock, inbox, configs, asked, wanted, completed, missed>>

\* BACKFILL_FEEDS grants what it scrapes.
Backfill(s) ==
  /\ s \in asked \ inbox
  /\ inbox' = inbox \cup {s}
  /\ UNCHANGED <<app, run, worker, request, stock, configs, asked, wanted, completed, missed,
                 discoveryFaults>>

-----------------------------------------------------------------------------
Next ==
  \/ StartPersonalized \/ ChooseDefaults
  \/ \E r \in Runs : BeginDiscovery(r) \/ BeginUnanswered(r)
  \/ Poll \/ PollTimeout \/ ContinueWaiting \/ Relaunch
  \/ Resume \/ ResumeAnswered \/ ResumeFails
  \/ \E r \in Runs :
       \/ BeginDiscover(r) \/ CompleteRun(r) \/ DiscoveryFails(r) \/ DatabaseFails(r)
       \/ EndDiscover(r) \/ CrashDiscover(r)
       \/ \E feeds \in SUBSET Sources : Suggest(r, feeds)
  \/ \E chosen \in SUBSET Sources : BeginCompletion(chosen)
  \/ \E s \in Sources : Configure(s) \/ ConfigureFails(s) \/ Backfill(s)
  \/ AskForBackfill \/ ReadSeeds \/ InsertSeeds \/ SeedsFail \/ Flag \/ CompletionDies

Spec == Init /\ [][Next]_vars

-----------------------------------------------------------------------------
\* Who is told that onboarding is complete follows every feed of the selection that was
\* answered, and its first articles were asked for: no error that the loop swallows and no
\* retry costs another feed than the one whose own connection failed.
OnboardedWithSources == completed => wanted \ missed \subseteq configs \cap asked

\* A completed run has its suggestions, a personalized page shows those of the
\* run it names, and a user who waits is polling, was offered a retry, or is
\* about to resume.
DiscoveryAnswers ==
  /\ \A r \in Runs : run[r] = "completed" => found[r] # {}
  /\ step = "suggestions" /\ personalized =>
       run[shown] = "completed" /\ offered = found[shown]
  /\ step = "loading" =>
       \/ polling # NoRun \/ asking # NoRun
       \/ OffersRetry \/ ~resumed
=============================================================================

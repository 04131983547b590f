---------------------------- MODULE PodcastSearch ----------------------------
(***************************************************************************)
(* Podcast search over several providers, asked one after the other by     *)
(* each of the server's threads.  Each provider has a circuit breaker:     *)
(* failures since its last success and the end of the period in which it   *)
(* is skipped.  The check, the call and the record are apart, so threads   *)
(* overlap.  Answers are cached for one query.  Spotify needs a token that *)
(* the threads share; a refused token is dropped and fetched once more.    *)
(***************************************************************************)
EXTENDS Integers, FiniteSets, Sequences

CONSTANTS Searches,      \* threads that search
          Order,         \* PROVIDER_ORDER, a sequence without repetitions
          Tokened,       \* providers that need a token
          Threshold,     \* podcast_search_circuit_breaker_failures
          Cooldown,      \* the period in which a provider is skipped, in ticks
          Ttl,           \* how long an answer is cached, in ticks
          Disturbances,  \* subset of {"outage", "revoke"}
          MaxFaults,     \* bound on disturbances in a behaviour
          MaxTime        \* bound on ticks

VARIABLES now, down,
          failures,   \* _ProviderState.failures
          openUntil,  \* _ProviderState.open_until, 0 for None
          cache,      \* [at, from] or NoAnswer
          token, issued, valid,   \* the shared token, the last one issued, those not revoked
          job,
          asked,      \* calls begun since the circuit was last closed (ghost)
          faults

breakers == <<failures, openUntil, asked>>
tokens == <<token, issued, valid>>
vars == <<now, down, breakers, cache, tokens, job, faults>>

Providers == {Order[k] : k \in DOMAIN Order}
NoAnswer == [at |-> -1, from |-> {}]
Idle == [pc |-> "idle", k |-> 1, token |-> 0, refused |-> 0, from |-> {}]

Init ==
  /\ now = 0 /\ down = {}
  /\ failures = [p \in Providers |-> 0] /\ openUntil = [p \in Providers |-> 0]
  /\ cache = NoAnswer
  /\ token = 0 /\ issued = 0 /\ valid = {}
  /\ job = [s \in Searches |-> Idle]
  /\ asked = [p \in Providers |-> 0]
  /\ faults = 0

Disturb(d) == d \in Disturbances /\ faults < MaxFaults /\ faults' = faults + 1

Provider(s) == Order[job[s].k]
Goto(s, pc) == job' = [job EXCEPT ![s].pc = pc]
\* The next provider's turn, with what this one found.
Advance(s, found) ==
  job' = [job EXCEPT ![s] = [Idle EXCEPT !.pc = "next", !.k = job[s].k + 1,
                              !.from = job[s].from \cup found]]

-----------------------------------------------------------------------------
(* The search *)

\* An answer that is fresh enough is served as it is.
Cached == cache # NoAnswer /\ now - cache.at <= Ttl

Start(s) ==
  /\ job[s].pc = "idle" /\ ~Cached
  /\ cache' = NoAnswer
  /\ Goto(s, "next")
  /\ UNCHANGED <<now, down, breakers, tokens, faults>>

\* Mutant of Open: the period is over as soon as it begins.
NeverOpen(p) == openUntil[p] # 0 /\ openUntil[p] < now

Open(p) == openUntil[p] > now

Skip(s) ==
  /\ job[s].pc = "next" /\ job[s].k <= Len(Order) /\ Open(Provider(s))
  /\ Advance(s, {})
  /\ UNCHANGED <<now, down, breakers, cache, tokens, faults>>

Ask(s) ==
  /\ job[s].pc = "next" /\ job[s].k <= Len(Order) /\ ~Open(Provider(s))
  /\ asked' = [asked EXCEPT ![Provider(s)] = @ + 1]
  /\ Goto(s, IF Provider(s) \in Tokened THEN "token" ELSE "call")
  /\ UNCHANGED <<now, down, failures, openUntil, cache, tokens, faults>>

\* The answer is stored with whatever providers it could be made of.
Finish(s) ==
  /\ job[s].pc = "next" /\ job[s].k > Len(Order)
  /\ cache' = [at |-> now, from |-> job[s].from]
  /\ job' = [job EXCEPT ![s] = Idle]
  /\ UNCHANGED <<now, down, breakers, tokens, faults>>

-----------------------------------------------------------------------------
(* A provider's answer *)

RecordSuccess(s) ==
  LET p == Provider(s)
  IN /\ failures' = [failures EXCEPT ![p] = 0]
     /\ openUntil' = [openUntil EXCEPT ![p] = 0]
     /\ asked' = [asked EXCEPT ![p] = 0]
     /\ Advance(s, {p})

RecordFailure(s) ==
  LET p == Provider(s)
  IN /\ failures' = [failures EXCEPT ![p] = @ + 1]
     /\ openUntil' = [openUntil EXCEPT ![p] =
          IF failures'[p] >= Threshold THEN now + Cooldown ELSE @]
     /\ asked' = asked
     /\ Advance(s, {})

Answers(s) ==
  /\ job[s].pc \in {"call", "again"}
  /\ Provider(s) \notin down
  /\ Provider(s) \in Tokened => job[s].token \in valid
  /\ RecordSuccess(s)
  /\ UNCHANGED <<now, down, cache, tokens, faults>>

\* A provider that is down, and a second token that is refused like the first.
Fails(s) ==
  /\ \/ job[s].pc \in {"call", "again", "token", "renew"} /\ Provider(s) \in down
     \/ job[s].pc = "again" /\ job[s].token \notin valid
  /\ RecordFailure(s)
  /\ UNCHANGED <<now, down, cache, tokens, faults>>

\* _get_spotify_token holds its lock while it asks for a token.
GetToken(s) ==
  /\ job[s].pc \in {"token", "renew"}
  /\ token # 0 \/ Provider(s) \notin down
  /\ IF token # 0 THEN UNCHANGED tokens
     ELSE /\ issued' = issued + 1 /\ token' = issued' /\ valid' = valid \cup {issued'}
  /\ job' = [job EXCEPT ![s].token = token',
                        ![s].pc = IF job[s].pc = "token" THEN "call" ELSE "again"]
  /\ UNCHANGED <<now, down, breakers, cache, faults>>

\* Mutant of DropToken: the token is kept.
KeepToken(s) ==
  /\ job[s].pc = "call" /\ Provider(s) \in Tokened \ down
  /\ job[s].token \notin valid
  /\ job' = [job EXCEPT ![s].pc = "renew", ![s].refused = job[s].token]
  /\ UNCHANGED <<now, down, breakers, cache, tokens, faults>>

\* 401: the shared token is dropped, be it the one that was refused or not.
DropToken(s) ==
  /\ job[s].pc = "call" /\ Provider(s) \in Tokened \ down
  /\ job[s].token \notin valid
  /\ token' = 0
  /\ job' = [job EXCEPT ![s].pc = "renew", ![s].refused = job[s].token]
  /\ UNCHANGED <<now, down, breakers, cache, issued, valid, faults>>

-----------------------------------------------------------------------------
(* The world *)

\* A period that ends closes the circuit, and the failures stay.
Tick ==
  /\ now < MaxTime
  /\ now' = now + 1
  /\ asked' = [p \in Providers |-> IF openUntil[p] = now + 1 THEN 0 ELSE asked[p]]
  /\ UNCHANGED <<down, failures, openUntil, cache, tokens, job, faults>>

Outage(p) ==
  /\ Disturb("outage") /\ p \notin down
  /\ down' = down \cup {p}
  /\ UNCHANGED <<now, breakers, cache, tokens, job>>

Recover(p) ==
  /\ p \in down
  /\ down' = down \ {p}
  /\ UNCHANGED <<now, breakers, cache, tokens, job, faults>>

Revoke ==
  /\ Disturb("revoke") /\ valid # {}
  /\ valid' = {}
  /\ UNCHANGED <<now, down, breakers, cache, token, issued, job>>

Next ==
  \/ \E s \in Searches : \/ Start(s) \/ Skip(s) \/ Ask(s) \/ Finish(s)
                         \/ Answers(s) \/ Fails(s) \/ GetToken(s) \/ DropToken(s)
  \/ Tick \/ Revoke
  \/ \E p \in Providers : Outage(p) \/ Recover(p)

Spec == Init /\ [][Next]_vars

-----------------------------------------------------------------------------
TypeOK ==
  /\ now \in 0..MaxTime /\ down \subseteq Providers
  /\ openUntil \in [Providers -> 0..(MaxTime + Cooldown)]
  /\ token \in 0..issued /\ valid \subseteq 1..issued
  /\ cache.from \subseteq Providers
  /\ faults \in 0..MaxFaults

\* A provider on trial: its circuit was open and no call has succeeded since.
OnTrial(p) == openUntil[p] # 0 /\ ~Open(p)

\* However the threads overlap, a provider that fails gets one call of each thread more
\* than it takes to open its circuit, and after that one of each thread per period.
FailingIsSpared ==
  \A p \in Providers :
    asked[p] <= Cardinality(Searches) + (IF OnTrial(p) THEN 0 ELSE Threshold - 1)

\* A thread never comes back with the token that was refused, though others drop and fetch
\* the shared token meanwhile.
RefusedIsNotReused ==
  \A s \in Searches : job[s].pc = "again" => job[s].token # job[s].refused
=============================================================================

---------------------------- MODULE ServicesProofs ----------------------------
(* What the services that work beside the task queue promise for every number *)
(* of users, requests, posts, providers and disturbances: each section proves, *)
(* by an inductive invariant of one scene, a property that MCServices checks   *)
(* on a small instance, and lifts it to ServicesSpec.                          *)

EXTENDS Services, FiniteSetTheorems, SequenceTheorems, TLAPS


-----------------------------------------------------------------------------
(* Podcast search *)

Asking == {"token", "call", "renew", "again"}
JobType == [pc : Asking \cup {"idle", "next"}, k : Nat \ {0}, token : Nat, refused : Nat,
            from : SUBSET Podcasts!Providers]

SearchTypes ==
  /\ now \in Nat
  /\ failures \in [Podcasts!Providers -> Nat]
  /\ openUntil \in [Podcasts!Providers -> Nat]
  /\ calls \in [Podcasts!Providers -> Nat]
  /\ tokensIssued \in Nat /\ token \in 0..tokensIssued
  /\ search \in [Threads -> JobType]
  /\ \A s \in Threads : search[s].pc \in Asking => search[s].k <= Len(Order)

\* Threads whose call of a provider is under way.
Calling(p) == {s \in Threads : search[s].pc \in Asking /\ Order[search[s].k] = p}
Opened(p) == openUntil[p] > now

\* A token that is asked for again is newer than the one that was refused: the shared one is
\* dropped or was fetched since.
TokensGrow ==
  \A s \in Threads :
    /\ search[s].token <= tokensIssued /\ search[s].refused <= tokensIssued
    /\ search[s].pc = "renew" => token = 0 \/ token > search[s].refused
    /\ search[s].pc = "again" => search[s].token > search[s].refused

\* What a provider was asked since it was last spared, per state of its circuit: the failures
\* that are counted and the calls under way, then only the calls under way.
Counted(p) ==
  /\ openUntil[p] = 0 <=> failures[p] < Threshold
  /\ openUntil[p] = 0 => calls[p] <= failures[p] + Cardinality(Calling(p))
  /\ openUntil[p] # 0 /\ ~Opened(p) => calls[p] <= Cardinality(Calling(p))
  /\ Opened(p) => calls[p] <= Cardinality(Threads) + Threshold - 1

CallsAreCounted == \A p \in Podcasts!Providers : Counted(p)

SearchInv == SearchTypes /\ TokensGrow /\ CallsAreCounted

\* What does not depend on the state.
LEMMA SearchConstants ==
  JobType' = JobType /\ Podcasts!Providers' = Podcasts!Providers /\ Cardinality(Threads) \in Nat
  BY SearchAssumption, FS_CardinalityType DEF JobType, Podcasts!Providers

LEMMA CallingIsFinite ==
  ASSUME NEW p PROVE IsFiniteSet(Calling(p)) /\ Cardinality(Calling(p)) \in 0..Cardinality(Threads)
<1>1. Calling(p) \in SUBSET Threads
  BY DEF Calling
<1> QED BY <1>1, SearchAssumption, FS_Subset, FS_CardinalityType

LEMMA SearchInit == Podcasts!Init => SearchInv
<1> SUFFICES ASSUME Podcasts!Init PROVE SearchInv
  OBVIOUS
<1> USE DEF Podcasts!Init, Podcasts!Idle
<1>1. SearchTypes
  BY DEF SearchTypes, JobType, Asking
<1>2. TokensGrow
  BY DEF TokensGrow
<1>3. CallsAreCounted
  BY CallingIsFinite, SearchAssumption DEF CallsAreCounted, Counted, Opened
<1> QED BY <1>1, <1>2, <1>3 DEF SearchInv

\* A thread whose call of a provider begins or ends is one call more or less.
LEMMA CallBegins ==
  ASSUME NEW s \in Threads, search[s].pc \notin Asking, search'[s].pc \in Asking,
         \A r \in Threads \ {s} : search'[r] = search[r], NEW q, q = Order[search'[s].k]
  PROVE  /\ Cardinality(Calling(q)') = Cardinality(Calling(q)) + 1
         /\ \A p : p # q => Calling(p)' = Calling(p)
<1>1. s \notin Calling(q) /\ Calling(q)' = Calling(q) \cup {s}
  BY DEF Calling
<1>2. \A p : p # q => Calling(p)' = Calling(p)
  BY DEF Calling
<1> QED BY <1>1, <1>2, FS_AddElement, CallingIsFinite

LEMMA CallEnds ==
  ASSUME NEW s \in Threads, search[s].pc \in Asking, search'[s].pc \notin Asking,
         \A r \in Threads \ {s} : search'[r] = search[r], NEW q, q = Order[search[s].k]
  PROVE  /\ Cardinality(Calling(q)') = Cardinality(Calling(q)) - 1
         /\ \A p : p # q => Calling(p)' = Calling(p)
<1>1. s \in Calling(q) /\ Calling(q)' = Calling(q) \ {s}
  BY DEF Calling
<1>2. \A p : p # q => Calling(p)' = Calling(p)
  BY DEF Calling
<1>3. IsFiniteSet(Calling(q)) /\ Cardinality(Calling(q)) \in Nat
  BY CallingIsFinite, FS_CardinalityType
<1>4. Cardinality(Calling(q) \ {s}) =
        IF s \in Calling(q) THEN Cardinality(Calling(q)) - 1 ELSE Cardinality(Calling(q))
  BY <1>3, FS_RemoveElement
<1> QED BY <1>1, <1>2, <1>3, <1>4

LEMMA CallHasCaller ==
  ASSUME NEW s \in Threads, search[s].pc \in Asking
  PROVE  Cardinality(Calling(Order[search[s].k])) >= 1
<1> PICK q : q = Order[search[s].k]
  OBVIOUS
<1>1. s \in Calling(q)
  BY DEF Calling
<1>2. Cardinality(Calling(q)) # 0
  BY <1>1, CallingIsFinite, FS_EmptySet
<1> QED BY <1>2, CallingIsFinite, SearchConstants

LEMMA CallGoesOn ==
  ASSUME NEW s \in Threads, search[s].pc \in Asking <=> search'[s].pc \in Asking,
         search[s].pc \in Asking => search'[s].k = search[s].k,
         \A r \in Threads \ {s} : search'[r] = search[r]
  PROVE  \A p : Calling(p)' = Calling(p)
  BY DEF Calling

\* While neither circuits nor calls change, nor time, the count is right.
LEMMA NoCallChanges ==
  ASSUME CallsAreCounted, UNCHANGED <<now, failures, openUntil, calls>>,
         \A p : Calling(p)' = Calling(p)
  PROVE  CallsAreCounted'
  BY DEF CallsAreCounted, Counted, Opened

\* A step that touches one provider leaves the counts of the others alone.
LEMMA OtherProviders ==
  ASSUME CallsAreCounted, NEW q, Counted(q)',
         \A p \in Podcasts!Providers : p # q =>
           /\ UNCHANGED <<failures[p], openUntil[p], calls[p], Opened(p)>>
           /\ Calling(p)' = Calling(p)
  PROVE  CallsAreCounted'
<1>1. ASSUME NEW p \in Podcasts!Providers, p # q PROVE Counted(p)'
  <2>1. Counted(p)
    BY DEF CallsAreCounted
  <2>2. /\ failures'[p] = failures[p] /\ openUntil'[p] = openUntil[p] /\ calls'[p] = calls[p]
        /\ Opened(p)' = Opened(p) /\ Calling(p)' = Calling(p)
    BY <1>1
  <2> QED BY <2>1, <2>2 DEF Counted
<1> QED BY <1>1, SearchConstants DEF CallsAreCounted

\* The job of a search that goes on to its next provider.
LEMMA NextJob ==
  ASSUME NEW n, NEW S
  PROVE  [[[Podcasts!Idle EXCEPT !.pc = "next"] EXCEPT !.k = n] EXCEPT !.from = S]
           = [pc |-> "next", k |-> n, token |-> 0, refused |-> 0, from |-> S]
<1> DEFINE r1 == [Podcasts!Idle EXCEPT !.pc = "next"]
           r2 == [r1 EXCEPT !.k = n]
<1>1. r1 = [pc |-> "next", k |-> 1, token |-> 0, refused |-> 0, from |-> {}]
  BY DEF Podcasts!Idle
<1> HIDE DEF r1
<1>2. r2 = [pc |-> "next", k |-> n, token |-> 0, refused |-> 0, from |-> {}]
  BY <1>1
<1> HIDE DEF r2
<1>3. [r2 EXCEPT !.from = S] = [pc |-> "next", k |-> n, token |-> 0, refused |-> 0, from |-> S]
  BY <1>2
<1> QED BY <1>3 DEF r1, r2

LEMMA Advances ==
  ASSUME NEW s, NEW results, Podcasts!Advance(s, results)
  PROVE  search' = [search EXCEPT ![s] = [pc |-> "next", k |-> search[s].k + 1, token |-> 0,
                                          refused |-> 0, from |-> search[s].from \cup results]]
  BY NextJob DEF Podcasts!Advance

LEMMA StartSearchStep ==
  ASSUME SearchInv, NEW s \in Threads, Podcasts!Start(s) \/ Podcasts!Skip(s) \/ Podcasts!Finish(s)
  PROVE  SearchInv'
<1> USE DEF SearchInv
<1>1. /\ search[s].pc \notin Asking /\ search'[s].pc \notin Asking
      /\ \A r \in Threads \ {s} : search'[r] = search[r]
      /\ search' \in [Threads -> JobType]
      /\ search'[s].token \in {0, search[s].token} /\ search'[s].refused \in {0, search[s].refused}
  <2>1. search \in [Threads -> JobType] /\ search[s] \in JobType
    BY DEF SearchTypes
  <2>2. CASE Podcasts!Start(s)
    <3>1. search' = [search EXCEPT ![s] = [search[s] EXCEPT !.pc = "next"]] /\ search[s].pc = "idle"
      BY <2>1, <2>2 DEF Podcasts!Start, Podcasts!Goto
    <3> QED BY <2>1, <3>1 DEF JobType, Asking
  <2>3. CASE Podcasts!Skip(s)
    <3>1. search[s].pc = "next" /\ Podcasts!Advance(s, {})
      BY <2>3 DEF Podcasts!Skip
    <3> QED BY <2>1, <3>1, Advances DEF JobType, Asking
  <2>4. CASE Podcasts!Finish(s)
    BY <2>1, <2>4 DEF Podcasts!Finish, Podcasts!Idle, JobType, Asking
  <2> QED BY <2>2, <2>3, <2>4
<1>2. UNCHANGED <<now, failures, openUntil, calls, token, tokensIssued>>
  BY DEF Podcasts!Start, Podcasts!Skip, Podcasts!Finish, Podcasts!breakers, Podcasts!tokens
<1>3. SearchTypes'
  BY <1>1, <1>2, SearchConstants DEF SearchTypes
<1>4. TokensGrow'
  BY <1>1, <1>2 DEF TokensGrow, Asking, SearchTypes
<1>5. CallsAreCounted'
  BY <1>1, <1>2, CallGoesOn, NoCallChanges
<1> QED BY <1>3, <1>4, <1>5

\* A provider is only asked when its circuit is not open.
LEMMA AskStep ==
  ASSUME SearchInv, NEW s \in Threads, Podcasts!Ask(s)
  PROVE  SearchInv'
<1> USE DEF SearchInv
<1> PICK q : q = Order[search[s].k]
  OBVIOUS
<1>1. /\ search[s].pc = "next" /\ search'[s].pc \in {"token", "call"}
      /\ search'[s].token = search[s].token /\ search'[s].refused = search[s].refused
      /\ search'[s].k = search[s].k
      /\ \A r \in Threads \ {s} : search'[r] = search[r]
      /\ search' \in [Threads -> JobType]
      /\ search[s].k <= Len(Order) /\ ~Opened(q)
  BY DEF SearchTypes, JobType, Asking, Podcasts!Ask, Podcasts!Goto, Podcasts!Open,
         Podcasts!Provider, Opened
<1>2. /\ UNCHANGED <<now, failures, openUntil, token, tokensIssued>>
      /\ calls' = [calls EXCEPT ![q] = @ + 1]
  BY DEF Podcasts!Ask, Podcasts!tokens, Podcasts!Provider
<1>3. q \in Podcasts!Providers
  BY <1>1, SearchAssumption DEF SearchTypes, JobType, Podcasts!Providers
<1>4. SearchTypes'
  <2>1. calls' \in [Podcasts!Providers -> Nat]
    BY <1>2, <1>3 DEF SearchTypes
  <2>2. \A r \in Threads : search'[r].pc \in Asking => search'[r].k <= Len(Order)
    BY <1>1 DEF SearchTypes
  <2> QED BY <1>1, <1>2, <2>1, <2>2, SearchConstants DEF SearchTypes
<1>5. TokensGrow'
  BY <1>1, <1>2 DEF SearchTypes, JobType, TokensGrow, Asking
<1>6. CallsAreCounted'
  <2>1. /\ Cardinality(Calling(q)') = Cardinality(Calling(q)) + 1
        /\ \A p : p # q => Calling(p)' = Calling(p)
    BY <1>1, CallBegins DEF Asking
  <2> QED
    BY <1>1, <1>2, <1>3, <2>1, CallingIsFinite DEF SearchTypes, CallsAreCounted, Counted, Opened
<1> QED BY <1>4, <1>5, <1>6

\* A call that ends makes the provider's circuit sound: a success closes it, a failure is
\* counted and opens it when it is the last one that is borne.
LEMMA AnswerStep ==
  ASSUME SearchInv, NEW s \in Threads, Podcasts!Answers(s) \/ Podcasts!Fails(s)
  PROVE  SearchInv'
<1> USE DEF SearchInv
<1> PICK q : q = Order[search[s].k]
  OBVIOUS
<1>1. search[s] \in JobType /\ search[s].pc \in Asking /\ search[s].k <= Len(Order)
  BY DEF SearchTypes, Asking, Podcasts!Answers, Podcasts!Fails
<1>2. q \in Podcasts!Providers
  BY <1>1, SearchAssumption DEF JobType, Podcasts!Providers
<1>3. /\ search'[s].pc = "next" /\ search'[s].token = 0 /\ search'[s].refused = 0
      /\ \A r \in Threads \ {s} : search'[r] = search[r]
      /\ search' \in [Threads -> JobType]
  <2>1. PICK from \in {{q}, {}} : Podcasts!Advance(s, from)
    BY DEF Podcasts!Answers, Podcasts!Fails, Podcasts!RecordSuccess, Podcasts!RecordFailure,
           Podcasts!Provider
  <2>2. search' = [search EXCEPT ![s] = [pc |-> "next", k |-> search[s].k + 1, token |-> 0,
                                         refused |-> 0, from |-> search[s].from \cup from]]
    BY <2>1, Advances
  <2>3. search[s].from \cup from \in SUBSET Podcasts!Providers /\ search[s].k + 1 \in Nat \ {0}
    BY <1>1, <1>2 DEF JobType
  <2>4. [pc |-> "next", k |-> search[s].k + 1, token |-> 0, refused |-> 0,
         from |-> search[s].from \cup from] \in JobType
    BY <2>3 DEF JobType
  <2> QED BY <2>2, <2>4 DEF SearchTypes
<1>4. UNCHANGED <<now, token, tokensIssued>>
  BY DEF Podcasts!Answers, Podcasts!Fails, Podcasts!tokens
<1>5. TokensGrow'
  <2>1. search'[s].token <= tokensIssued /\ search'[s].refused <= tokensIssued
    BY <1>3 DEF SearchTypes
  <2> QED BY <1>3, <1>4, <2>1 DEF TokensGrow
<1>6. /\ Cardinality(Calling(q)') = Cardinality(Calling(q)) - 1
      /\ \A p : p # q => Calling(p)' = Calling(p)
  BY <1>1, <1>3, CallEnds DEF Asking
<1>7. CASE Podcasts!Answers(s)
  <2>1. /\ failures' = [failures EXCEPT ![q] = 0]
        /\ openUntil' = [openUntil EXCEPT ![q] = 0]
        /\ calls' = [calls EXCEPT ![q] = 0]
    BY <1>7 DEF Podcasts!Answers, Podcasts!RecordSuccess, Podcasts!Provider
  <2>2. SearchTypes'
    BY <1>2, <1>3, <1>4, <2>1, SearchConstants DEF SearchTypes, Asking
  <2>3. ASSUME NEW p \in Podcasts!Providers, p # q
        PROVE  /\ UNCHANGED <<failures[p], openUntil[p], calls[p], Opened(p)>>
               /\ Calling(p)' = Calling(p)
    BY <1>4, <1>6, <2>1, <2>3 DEF SearchTypes, Opened
  <2>4. failures'[q] = 0 /\ openUntil'[q] = 0 /\ calls'[q] = 0 /\ ~Opened(q)'
    BY <1>2, <1>4, <2>1 DEF SearchTypes, Opened
  <2>5. Cardinality(Calling(q)') \in Nat
    BY <1>1, <1>6, CallHasCaller, CallingIsFinite, SearchConstants
  <2>6. CallsAreCounted'
    <3>1. Counted(q)'
      BY <2>4, <2>5, SearchAssumption DEF Counted
    <3> QED BY <2>3, <3>1, OtherProviders
  <2> QED BY <1>5, <2>2, <2>6
<1>8. CASE Podcasts!Fails(s)
  <2>1. /\ failures' = [failures EXCEPT ![q] = @ + 1]
        /\ openUntil' = [openUntil EXCEPT ![q] =
             IF failures'[q] >= Threshold THEN now + Cooldown ELSE @]
        /\ UNCHANGED calls
    BY <1>8 DEF Podcasts!Fails, Podcasts!RecordFailure, Podcasts!Provider
  <2>2. now + Cooldown \in Nat /\ now + Cooldown > now
    BY SearchAssumption DEF SearchTypes
  <2>3. failures'[q] = failures[q] + 1
    BY <1>2, <2>1 DEF SearchTypes
  <2>4. SearchTypes'
    <3>1. failures' \in [Podcasts!Providers -> Nat] /\ openUntil' \in [Podcasts!Providers -> Nat]
      BY <1>2, <2>1, <2>2 DEF SearchTypes
    <3> QED BY <1>3, <1>4, <2>1, <3>1, SearchConstants DEF SearchTypes, Asking
  <2>5. ASSUME NEW p \in Podcasts!Providers, p # q
        PROVE  /\ UNCHANGED <<failures[p], openUntil[p], calls[p], Opened(p)>>
               /\ Calling(p)' = Calling(p)
    BY <1>4, <1>6, <2>1, <2>5 DEF SearchTypes, Opened
  <2>6. ASSUME failures'[q] >= Threshold PROVE CallsAreCounted'
    <3>1. openUntil'[q] = now + Cooldown /\ Opened(q)' /\ openUntil'[q] # 0
      BY <1>2, <1>4, <2>1, <2>2, <2>6 DEF SearchTypes, Opened
    <3>2. calls[q] <= Cardinality(Threads) + Threshold - 1
      <4>1. openUntil[q] = 0 => failures[q] <= Threshold - 1
        BY <1>2, SearchAssumption DEF SearchTypes, CallsAreCounted, Counted
      <4>2. Counted(q) /\ failures[q] \in Nat /\ calls[q] \in Nat
        BY <1>2 DEF SearchTypes, CallsAreCounted
      <4>3. Cardinality(Calling(q)) \in 0..Cardinality(Threads) /\ Cardinality(Threads) \in Nat
        BY CallingIsFinite, SearchConstants
      <4> QED BY <4>1, <4>2, <4>3, SearchAssumption DEF Counted
    <3>3. Counted(q)'
      <4>1. failures'[q] >= Threshold /\ calls'[q] = calls[q]
        BY <2>1, <2>6
      <4>2. ~(failures'[q] < Threshold)
        BY <2>3, <2>6, <1>2, SearchAssumption DEF SearchTypes
      <4> QED BY <3>1, <3>2, <4>1, <4>2 DEF Counted
    <3> QED BY <2>5, <3>3, OtherProviders
  <2>7. ASSUME failures'[q] < Threshold PROVE CallsAreCounted'
    <3>1. openUntil[q] = 0 /\ openUntil'[q] = 0 /\ ~Opened(q)'
      BY <1>2, <1>4, <2>1, <2>3, <2>7, SearchAssumption
         DEF SearchTypes, CallsAreCounted, Counted, Opened
    <3>2. calls[q] <= failures'[q] + Cardinality(Calling(q)')
      BY <1>2, <1>6, <2>3, <3>1, CallingIsFinite DEF SearchTypes, CallsAreCounted, Counted
    <3>3. Counted(q)'
      BY <2>1, <2>7, <3>1, <3>2 DEF Counted
    <3> QED BY <2>5, <3>3, OtherProviders
  <2>8. failures'[q] >= Threshold \/ failures'[q] < Threshold
    <3>1. failures[q] \in Nat /\ Threshold \in Nat
      BY <1>2, SearchAssumption DEF SearchTypes
    <3> QED BY <2>3, <3>1
  <2> QED BY <1>5, <2>4, <2>6, <2>7, <2>8
<1> QED BY <1>7, <1>8

\* A token that is fetched is newer than all that were refused.
LEMMA TokenStep ==
  ASSUME SearchInv, NEW s \in Threads, Podcasts!GetToken(s) \/ Podcasts!DropToken(s)
  PROVE  SearchInv'
<1> USE DEF SearchInv
<1>1. search[s] \in JobType /\ UNCHANGED <<now, failures, openUntil, calls>>
  BY DEF SearchTypes, Podcasts!GetToken, Podcasts!DropToken, Podcasts!breakers
<1>2. /\ search[s].pc \in Asking
      /\ tokensIssued' \in Nat /\ tokensIssued' >= tokensIssued /\ token' \in 0..tokensIssued'
      /\ token' = token \/ token' = 0 \/ token' > tokensIssued
  BY DEF SearchTypes, Podcasts!GetToken, Podcasts!DropToken, Podcasts!tokens, Asking
<1>3. CASE Podcasts!GetToken(s)
  <2>1. token' # 0 /\ (token' = token \/ token' > tokensIssued)
    BY <1>3 DEF SearchTypes, Podcasts!GetToken, Podcasts!tokens
  <2>2. /\ search' \in [Threads -> JobType]
        /\ search'[s].pc = IF search[s].pc = "token" THEN "call" ELSE "again"
        /\ search'[s].token = token' /\ search'[s].refused = search[s].refused
        /\ search'[s].k = search[s].k
        /\ \A r \in Threads \ {s} : search'[r] = search[r]
    <3> DEFINE mid == [search EXCEPT ![s].token = token']
    <3>0. token' \in Nat
      BY <1>2
    <3>1. /\ mid \in [Threads -> JobType]
          /\ mid[s].pc = search[s].pc /\ mid[s].token = token'
          /\ mid[s].refused = search[s].refused /\ mid[s].k = search[s].k
          /\ \A r \in Threads \ {s} : mid[r] = search[r]
      BY <1>1, <3>0 DEF SearchTypes, JobType
    <3>2. search' = [mid EXCEPT ![s].pc = IF search[s].pc = "token" THEN "call" ELSE "again"]
      BY <1>3 DEF Podcasts!GetToken
    <3> HIDE DEF mid
    <3> QED BY <3>1, <3>2 DEF JobType, Asking
  <2>3. search[s].pc \in {"token", "renew"}
    BY <1>3 DEF Podcasts!GetToken
  <2>4. SearchTypes'
    BY <1>1, <1>2, <2>2, SearchConstants DEF SearchTypes, Asking
  <2>5. TokensGrow'
    <3>1. \A r \in Threads : search[r] \in JobType
      BY DEF SearchTypes
    <3>2. ASSUME NEW r \in Threads \ {s}
          PROVE  /\ search[r].token <= tokensIssued' /\ search[r].refused <= tokensIssued'
                 /\ search[r].pc = "renew" => token' = 0 \/ token' > search[r].refused
                 /\ search[r].pc = "again" => search[r].token > search[r].refused
      BY <1>2, <3>1 DEF SearchTypes, JobType, TokensGrow
    <3>3. /\ search'[s].token <= tokensIssued' /\ search'[s].refused <= tokensIssued'
          /\ search'[s].pc = "again" => search'[s].token > search'[s].refused
          /\ search'[s].pc # "renew"
      BY <1>1, <1>2, <2>1, <2>2, <2>3 DEF SearchTypes, JobType, TokensGrow
    <3> QED BY <2>2, <3>2, <3>3 DEF TokensGrow
  <2> QED BY <1>1, <1>2, <2>2, <2>4, <2>5, CallGoesOn, NoCallChanges DEF Asking
<1>4. CASE Podcasts!DropToken(s)
  <2>1. token' = 0 /\ UNCHANGED tokensIssued
    BY <1>4 DEF Podcasts!DropToken
  <2>2. /\ search' \in [Threads -> JobType]
        /\ search'[s].pc = "renew" /\ search'[s].refused = search[s].token
        /\ search'[s].token = search[s].token /\ search'[s].k = search[s].k
        /\ \A r \in Threads \ {s} : search'[r] = search[r]
    <3> DEFINE mid == [search EXCEPT ![s].pc = "renew"]
    <3>1. /\ mid \in [Threads -> JobType]
          /\ mid[s].pc = "renew" /\ mid[s].token = search[s].token /\ mid[s].k = search[s].k
          /\ \A r \in Threads \ {s} : mid[r] = search[r]
      BY <1>1 DEF SearchTypes, JobType, Asking
    <3>2. search' = [mid EXCEPT ![s].refused = search[s].token] /\ search[s].token \in Nat
      BY <1>1, <1>4 DEF Podcasts!DropToken, JobType
    <3> HIDE DEF mid
    <3> QED BY <3>1, <3>2 DEF JobType
  <2>3. SearchTypes'
    BY <1>1, <1>2, <2>2, SearchConstants DEF SearchTypes, Asking
  <2>4. TokensGrow'
    BY <1>1, <2>1, <2>2 DEF SearchTypes, JobType, TokensGrow
  <2> QED BY <1>1, <1>2, <2>2, <2>3, <2>4, CallGoesOn, NoCallChanges DEF Asking
<1> QED BY <1>3, <1>4

\* Time: a period that ends leaves a provider on trial, with nothing asked.
LEMMA TickStep ==
  ASSUME SearchInv, Podcasts!Tick
  PROVE  SearchInv'
<1> USE DEF SearchInv
<1>1. /\ now' = now + 1 /\ UNCHANGED <<failures, openUntil, token, tokensIssued, search>>
      /\ calls' = [p \in Podcasts!Providers |-> IF openUntil[p] = now + 1 THEN 0 ELSE calls[p]]
  BY DEF Podcasts!Tick, Podcasts!tokens
<1>2. SearchTypes' /\ TokensGrow'
  BY <1>1, SearchConstants DEF SearchTypes, TokensGrow
<1>3. \A p : Calling(p)' = Calling(p)
  BY <1>1 DEF Calling
<1>4. CallsAreCounted'
  <2> SUFFICES ASSUME NEW p \in Podcasts!Providers
               PROVE  /\ openUntil[p] = 0 <=> failures[p] < Threshold
                      /\ openUntil[p] = 0 => calls'[p] <= failures[p] + Cardinality(Calling(p))
                      /\ openUntil[p] # 0 /\ ~Opened(p)' => calls'[p] <= Cardinality(Calling(p))
                      /\ Opened(p)' => calls'[p] <= Cardinality(Threads) + Threshold - 1
    BY <1>1, <1>3, SearchConstants DEF CallsAreCounted, Counted
  <2>1. Opened(p)' <=> openUntil[p] > now + 1
    BY <1>1 DEF Opened
  <2> QED
    BY <1>1, <2>1, CallingIsFinite, SearchConstants, SearchAssumption
       DEF SearchTypes, CallsAreCounted, Counted, Opened
<1> QED BY <1>2, <1>4

LEMMA SearchStep == SearchInv /\ [Podcasts!Next]_(Podcasts!vars) => SearchInv'
<1> SUFFICES ASSUME SearchInv, [Podcasts!Next]_(Podcasts!vars) PROVE SearchInv'
  OBVIOUS
<1>1. ASSUME UNCHANGED <<now, failures, openUntil, calls, token, tokensIssued, search>>
      PROVE  SearchInv'
  <2>1. \A p : Calling(p)' = Calling(p)
    BY <1>1 DEF Calling
  <2> QED
    BY <1>1, <2>1, NoCallChanges, SearchConstants DEF SearchInv, SearchTypes, TokensGrow
<1>2. CASE Podcasts!Revoke \/ UNCHANGED Podcasts!vars
  BY <1>1, <1>2 DEF Podcasts!Revoke, Podcasts!vars, Podcasts!breakers, Podcasts!tokens
<1>3. ASSUME NEW p \in Podcasts!Providers, Podcasts!Outage(p) \/ Podcasts!Recover(p)
      PROVE  SearchInv'
  BY <1>1, <1>3 DEF Podcasts!Outage, Podcasts!Recover, Podcasts!breakers, Podcasts!tokens
<1> QED
  BY <1>2, <1>3, StartSearchStep, AskStep, AnswerStep, TokenStep, TickStep DEF Podcasts!Next

LEMMA SearchSound == SearchInv => Podcasts!FailingIsSpared /\ Podcasts!RefusedIsNotReused
<1> SUFFICES ASSUME SearchInv PROVE Podcasts!FailingIsSpared /\ Podcasts!RefusedIsNotReused
  OBVIOUS
<1> USE DEF SearchInv, SearchTypes
<1>1. Podcasts!RefusedIsNotReused
  BY DEF TokensGrow, Podcasts!RefusedIsNotReused, JobType
<1>2. ASSUME NEW p \in Podcasts!Providers
      PROVE  calls[p] <= Cardinality(Threads)
                           + (IF openUntil[p] # 0 /\ ~Opened(p) THEN 0 ELSE Threshold - 1)
  BY CallingIsFinite, SearchConstants, SearchAssumption DEF CallsAreCounted, Counted
<1>3. Podcasts!Cardinality(Threads) = Cardinality(Threads)
  BY DEF Podcasts!Cardinality, Cardinality
<1> QED BY <1>1, <1>2, <1>3 DEF Podcasts!FailingIsSpared, Podcasts!OnTrial, Podcasts!Open, Opened

-----------------------------------------------------------------------------
(* Handlers that merge beside handlers that write their snapshot back: a change of a key is *)
(* lost only to a commit whose read it has passed. *)

MergeJob == [pc : {"idle", "working", "finished", "merged"},
            base : Documents, updated : Documents, merged : Documents, passed : SUBSET Keys]

\* What a handler changes are keys it touches.
TouchesOnly ==
  \A h \in Handlers : job[h].pc \in {"finished", "merged"} => Changed(h) \subseteq Touches[h]

\* A key that has not passed a handler since its last read is, in what it will write, as it
\* should be, unless it is torn already.
SnapshotIsCurrent ==
  \A h \in Wholesale \cap Handlers, k \in Keys :
    job[h].pc # "idle" /\ k \notin job[h].passed => job[h].base[k] = wanted[k] \/ k \in torn

MergedIsCurrent ==
  \A h \in Handlers, k \in Keys : job[h].pc = "merged" =>
    /\ k \in Changed(h) => job[h].merged[k] = job[h].updated[k]
    /\ k \notin Changed(h) \cup job[h].passed => job[h].merged[k] = wanted[k] \/ k \in torn

MergeInv == TypeOK /\ TouchesOnly /\ SnapshotIsCurrent /\ MergedIsCurrent /\ NothingLost

-----------------------------------------------------------------------------
\* The merge of two documents is a document.
LEMMA MergeType ==
  ASSUME NEW latest \in Documents, NEW base \in Documents, NEW updated \in Documents, NEW keep
  PROVE  Merge(latest, base, updated, keep) \in Documents
  BY DEF Documents, Merge

\* Documents, columns and snapshots keep their types, whoever merges or not.
LEMMA MergeTypeInit == Init => TypeOK
  BY DEF Init, TypeOK, Idle, Documents

LEMMA MergeTypeStep == TypeOK /\ [Next]_vars => TypeOK'
<1> SUFFICES ASSUME TypeOK, [Next]_vars PROVE TypeOK'
  OBVIOUS
<1> USE DEF TypeOK
<1>0. Idle \in MergeJob
  BY DEF Idle, MergeJob, Documents
<1>1. ASSUME NEW h \in Handlers, Begin(h) PROVE TypeOK'
  <2>1. [Idle EXCEPT !.pc = "working", !.base = metadata] \in MergeJob
    BY <1>0 DEF MergeJob
  <2> QED BY <1>1, <2>1 DEF Begin, MergeJob
<1>2. ASSUME NEW h \in Handlers, NEW updated \in Documents, Finish(h, updated) PROVE TypeOK'
  BY <1>2 DEF Finish
<1>3. ASSUME NEW h \in Handlers, ReadLatest(h) PROVE TypeOK'
  <2>1. Merge(metadata, job[h].base, job[h].updated, Keep(h)) \in Documents
    BY MergeType
  <2> QED BY <1>3, <2>1 DEF ReadLatest
<1>4. ASSUME NEW h \in Handlers, Commit(h) PROVE TypeOK'
  <2>1. wanted' \in Documents
    BY <1>4 DEF Commit, Documents
  <2>2. metadata' \in Documents /\ torn' \in SUBSET Keys
    BY <1>4 DEF Commit
  <2>3. ASSUME NEW g \in Handlers
        PROVE  (IF g = h \/ job[g].pc = "idle" THEN Idle
                ELSE [job[g] EXCEPT !.passed = @ \cup Changed(h)]) \in MergeJob
    <3>1. job[g] \in MergeJob /\ Changed(h) \subseteq Keys
      BY DEF MergeJob, Changed
    <3>2. [job[g] EXCEPT !.passed = @ \cup Changed(h)] \in MergeJob
      BY <3>1 DEF MergeJob
    <3> QED BY <1>0, <3>2
  <2>4. job' \in [Handlers -> MergeJob]
    BY <1>4, <2>3 DEF Commit
  <2> QED BY <2>1, <2>2, <2>4 DEF MergeJob
<1>5. ASSUME NEW h \in Handlers, Abandon(h) PROVE TypeOK'
  BY <1>5, <1>0 DEF Abandon, MergeJob
<1>6. CASE UNCHANGED vars
  BY <1>6 DEF vars
<1> QED BY <1>1, <1>2, <1>3, <1>4, <1>5, <1>6 DEF Next

-----------------------------------------------------------------------------
\* The steps of one handler that commit nothing.
LEMMA MergeQuiet ==
  ASSUME MergeInv, NEW h \in Handlers, UNCHANGED <<metadata, wanted, torn>>,
         \A g \in Handlers : g # h => job'[g] = job[g],
         TypeOK',
         job'[h].pc \in {"finished", "merged"} => Changed(h)' \subseteq Touches[h],
         \A k \in Keys : h \in Wholesale /\ job'[h].pc # "idle" /\ k \notin job'[h].passed =>
           job'[h].base[k] = wanted[k] \/ k \in torn,
         \A k \in Keys : job'[h].pc = "merged" =>
           /\ k \in Changed(h)' => job'[h].merged[k] = job'[h].updated[k]
           /\ k \notin Changed(h)' \cup job'[h].passed =>
                job'[h].merged[k] = wanted[k] \/ k \in torn
  PROVE  MergeInv'
<1>1. \A g \in Handlers : g # h => Changed(g)' = Changed(g)
  BY DEF Changed
<1>2. TouchesOnly'
  BY <1>1 DEF MergeInv, TouchesOnly
<1>3. SnapshotIsCurrent'
  BY DEF MergeInv, SnapshotIsCurrent
<1>4. MergedIsCurrent'
  BY <1>1 DEF MergeInv, MergedIsCurrent
<1> QED BY <1>2, <1>3, <1>4 DEF MergeInv, NothingLost

\* A commit stores what the handlers wanted, but for what has passed it.
LEMMA CommitKeepsAll ==
  ASSUME MergeInv, NEW h \in Handlers, Commit(h)
  PROVE  NothingLost'
<1> SUFFICES ASSUME NEW k \in Keys, k \notin torn' PROVE metadata'[k] = wanted'[k]
  BY DEF NothingLost
<1>1. /\ metadata'[k] = job[h].merged[k] /\ job[h].pc = "merged"
      /\ wanted'[k] = IF k \in Changed(h) THEN job[h].updated[k] ELSE wanted[k]
      /\ torn' = (torn \cup job[h].passed) \ Changed(h)
  BY DEF Commit
<1> QED BY <1>1 DEF MergeInv, MergedIsCurrent

LEMMA MergeStep == MergeInv /\ [Next]_vars => MergeInv'
<1> SUFFICES ASSUME MergeInv, [Next]_vars PROVE MergeInv'
  OBVIOUS
<1>0. TypeOK /\ TypeOK'
  BY MergeTypeStep DEF MergeInv
<1>1. ASSUME NEW h \in Handlers, Begin(h) PROVE MergeInv'
  <2>1. /\ job'[h].pc = "working" /\ job'[h].base = metadata /\ job'[h].passed = {}
        /\ \A g \in Handlers : g # h => job'[g] = job[g]
        /\ UNCHANGED <<metadata, wanted, torn>>
    BY <1>0, <1>1 DEF Begin, TypeOK, Idle
  <2> QED BY <1>0, <2>1, MergeQuiet DEF MergeInv, NothingLost
<1>2. ASSUME NEW h \in Handlers, NEW updated \in Documents, Finish(h, updated) PROVE MergeInv'
  <2>1. /\ job'[h].pc = "finished" /\ job'[h].base = job[h].base /\ job'[h].updated = updated
        /\ job'[h].passed = job[h].passed /\ job[h].pc = "working"
        /\ \A g \in Handlers : g # h => job'[g] = job[g]
        /\ UNCHANGED <<metadata, wanted, torn>>
    BY <1>0, <1>2 DEF Finish, TypeOK
  <2>2. Changed(h)' \subseteq Touches[h]
    BY <1>2, <2>1 DEF Finish, Changed
  <2>3. \A k \in Keys : h \in Wholesale /\ k \notin job'[h].passed =>
          job'[h].base[k] = wanted[k] \/ k \in torn
    BY <2>1 DEF MergeInv, SnapshotIsCurrent
  <2> QED BY <1>0, <2>1, <2>2, <2>3, MergeQuiet
<1>3. ASSUME NEW h \in Handlers, ReadLatest(h) PROVE MergeInv'
  <2>1. /\ job[h].pc = "finished" /\ job'[h].pc = "merged" /\ job'[h].base = job[h].base
        /\ job'[h].updated = job[h].updated
        /\ \A g \in Handlers : g # h => job'[g] = job[g]
        /\ UNCHANGED <<metadata, wanted, torn>>
    BY <1>0, <1>3 DEF ReadLatest, TypeOK
  <2>2. Changed(h)' = Changed(h) /\ Changed(h) \subseteq Touches[h]
    BY <2>1 DEF MergeInv, TouchesOnly, Changed
  <2>3. CASE h \in Wholesale
    <3>1. job'[h].merged = job[h].updated /\ job'[h].passed = job[h].passed
      BY <1>0, <1>3, <2>3 DEF ReadLatest, TypeOK
    <3>2. \A k \in Keys : k \notin job[h].passed => job[h].base[k] = wanted[k] \/ k \in torn
      BY <2>1, <2>3 DEF MergeInv, SnapshotIsCurrent
    <3>3. \A k \in Keys : k \notin Changed(h) => job[h].updated[k] = job[h].base[k]
      BY DEF Changed
    <3> QED BY <1>0, <2>1, <2>2, <3>1, <3>2, <3>3, MergeQuiet
  <2>4. CASE h \notin Wholesale
    <3>1. /\ job'[h].merged = Merge(metadata, job[h].base, job[h].updated, Keep(h))
          /\ job'[h].passed = {}
      BY <1>0, <1>3, <2>4 DEF ReadLatest, TypeOK
    <3>2. ASSUME NEW k \in Keys, k \in Changed(h) PROVE job'[h].merged[k] = job[h].updated[k]
      <4>1. k \notin Keep(h)
        BY <2>2, <3>2 DEF Keep
      <4>2. k \in Updates(job[h].base, job[h].updated) \/ k \in Removed(job[h].base, job[h].updated)
        BY <3>2 DEF Changed, Updates, Removed
      <4> QED BY <3>1, <4>1, <4>2 DEF Merge, Removed
    <3>3. ASSUME NEW k \in Keys, k \notin Changed(h) PROVE job'[h].merged[k] = metadata[k]
      BY <3>1, <3>3 DEF Merge, Changed, Updates, Removed
    <3> QED BY <1>0, <2>1, <2>2, <2>4, <3>1, <3>2, <3>3, MergeQuiet DEF MergeInv, NothingLost
  <2> QED BY <2>3, <2>4
<1>4. ASSUME NEW h \in Handlers, Commit(h) PROVE MergeInv'
  <2>1. NothingLost'
    BY <1>4, CommitKeepsAll
  <2>2. ASSUME NEW g \in Handlers, job'[g].pc # "idle"
        PROVE  /\ job'[g].pc = job[g].pc /\ job'[g].base = job[g].base
               /\ job'[g].updated = job[g].updated /\ job'[g].merged = job[g].merged
               /\ job'[g].passed = job[g].passed \cup Changed(h)
    <3>1. job'[g] = IF g = h \/ job[g].pc = "idle" THEN Idle
                    ELSE [job[g] EXCEPT !.passed = @ \cup Changed(h)]
      BY <1>4 DEF Commit
    <3>2. job'[g] = [job[g] EXCEPT !.passed = @ \cup Changed(h)]
      BY <2>2, <3>1 DEF Idle
    <3> QED BY <1>0, <3>2 DEF TypeOK
  <2>3. \A g \in Handlers : job'[g].pc # "idle" => Changed(g)' = Changed(g)
    BY <2>2 DEF Changed
  <2>4. \A k \in Keys : k \notin Changed(h) => wanted'[k] = wanted[k] /\ (k \in torn => k \in torn')
    BY <1>4 DEF Commit
  <2>5. TouchesOnly'
    BY <2>2, <2>3 DEF MergeInv, TouchesOnly
  <2>6. SnapshotIsCurrent'
    BY <2>2, <2>4 DEF MergeInv, SnapshotIsCurrent
  <2>7. MergedIsCurrent'
    BY <2>2, <2>3, <2>4 DEF MergeInv, MergedIsCurrent
  <2> QED BY <1>0, <2>1, <2>5, <2>6, <2>7 DEF MergeInv
<1>5. ASSUME NEW h \in Handlers, Abandon(h) PROVE MergeInv'
  <2>1. /\ job'[h].pc = "idle" /\ \A g \in Handlers : g # h => job'[g] = job[g]
        /\ UNCHANGED <<metadata, wanted, torn>>
    BY <1>0, <1>5 DEF Abandon, TypeOK, Idle
  <2> QED BY <1>0, <2>1, MergeQuiet
<1>6. CASE UNCHANGED vars
  BY <1>0, <1>6 DEF vars, MergeInv, TouchesOnly, SnapshotIsCurrent, MergedIsCurrent, NothingLost,
                    Changed
<1> QED BY <1>1, <1>2, <1>3, <1>4, <1>5, <1>6 DEF Next

LEMMA MergeInit == Init => MergeInv
  BY MergeTypeInit DEF Init, MergeInv, TouchesOnly, SnapshotIsCurrent, MergedIsCurrent,
                       NothingLost, Idle

\* However the runs of merging and of writing handlers overlap, the last change of a key is lost
\* only if it was committed between the read of the newest document and the commit of another
\* handler's merge, or between the first read and the commit of a handler that writes its
\* snapshot back (content_metadata_merge.py).
THEOREM MergesLoseNothing == ServicesSpec => []NothingLost
<1>1. ServicesInit => MergeInv
  BY MergeInit DEF ServicesInit
<1>2. MergeInv /\ [ServicesNext]_allVars => MergeInv'
  <2>1. [ServicesNext]_allVars => [Next]_vars
    BY DEF ServicesNext, allVars
  <2> QED BY <2>1, MergeStep
<1>3. MergeInv => NothingLost
  BY DEF MergeInv
<1> QED BY <1>1, <1>2, <1>3, PTL DEF ServicesSpec


-----------------------------------------------------------------------------
(* Linking the CLI: any number of approval requests, polls and lost answers, as long as *)
(* approval requests do not overlap. *)

\* The session with any disturbances D, at most n of them.
Session(D, n) == INSTANCE CliLink
  WITH Disturbances <- D, MaxFaults <- n, status <- linkStatus, faults <- linkFaults

Minting == {a \in Approvals : approval[a].pc = "minted"}

LinkTypes ==
  /\ minted \in Nat
  /\ lapsed \in BOOLEAN
  /\ approval \in [Approvals -> [pc : {"new", "minted", "done"}, key : Nat]]

\* A session whose key is known was approved; it only expires for good.
KeyMeansApproved == key # 0 => linkStatus \in {"approved", "claimed"} \/ lapsed

\* One key at a time is minted, and only for a session without one.
MintsForNone ==
  /\ \A a, b \in Minting : a = b
  /\ \A a \in Minting : key = 0 /\ approval[a].key # 0

\* What is on its way to the CLI is the session's key.
OnItsWay == plain \in {0, key} /\ poll.plain \in {0, key}

\* A CLI that was linked holds it.
HoldsItsKey == cli = "linked" => held # 0 /\ held = key

LinkInv == LinkTypes /\ KeyMeansApproved /\ MintsForNone /\ OnItsWay /\ HoldsItsKey

\* No key is minted that is neither the session's nor about to become so.
NoKeyStrays ==
  \A k \in 1..minted : k = key \/ \E a \in Approvals : approval[a] = [pc |-> "minted", key |-> k]

LEMMA LinkInit ==
  ASSUME NEW D, NEW n, Session(D, n)!Init PROVE LinkInv /\ NoKeyStrays
<1>0. LinkTypes /\ minted = 0
  BY DEF Session!Init, LinkTypes
<1>1. LinkTypes /\ NoKeyStrays
  BY <1>0 DEF NoKeyStrays
<1>2. Minting = {}
  BY DEF Session!Init, Minting
<1>3. KeyMeansApproved /\ MintsForNone /\ OnItsWay /\ HoldsItsKey
  BY <1>2 DEF Session!Init, KeyMeansApproved, MintsForNone, OnItsWay, HoldsItsKey, Session!NoPoll
<1> QED BY <1>1, <1>3 DEF LinkInv

\* An approval that is settled, one way or another, leaves fewer keys in the making.
LEMMA Settles ==
  ASSUME LinkInv, NEW a \in Approvals, approval' = [approval EXCEPT ![a].pc = "done"],
         UNCHANGED <<minted, lapsed>>
  PROVE  /\ LinkTypes'
         /\ Minting' = Minting \ {a}
         /\ \A b \in Approvals \ {a} : approval'[b] = approval[b]
<1> USE DEF LinkInv, LinkTypes
<1>1. approval'[a] = [approval[a] EXCEPT !.pc = "done"]
  OBVIOUS
<1>2. approval'[a] \in [pc : {"new", "minted", "done"}, key : Nat] /\ approval'[a].pc = "done"
  BY <1>1
<1>3. \A b \in Approvals \ {a} : approval'[b] = approval[b]
  OBVIOUS
<1>4. LinkTypes'
  BY <1>2
<1> QED BY <1>2, <1>3, <1>4 DEF Minting

\* A key is only minted for a session that has none, and it is the first one unless an
\* approval has died.
LEMMA MintStep ==
  ASSUME NEW D, NEW n, "overlap" \notin D, LinkInv, NEW a \in Approvals, Session(D, n)!Mint(a)
  PROVE  LinkInv' /\ (NoKeyStrays => NoKeyStrays')
<1> USE DEF LinkInv, LinkTypes
<1>1. Minting = {}
  BY DEF Session!Mint, Session!SendApproval, Session!Disturb, Session!Alone, Minting
<1>2. key = 0
  BY DEF Session!Mint, Session!HasKey, KeyMeansApproved
<1>3. /\ approval' = [approval EXCEPT ![a] = [pc |-> "minted", key |-> minted + 1]]
      /\ minted' = minted + 1
      /\ UNCHANGED <<linkStatus, lapsed, key, plain, poll, cli, held>>
  BY DEF Session!Mint, Session!client
<1>4. Minting' = {a} /\ approval'[a] = [pc |-> "minted", key |-> minted + 1]
  BY <1>1, <1>3 DEF Minting
<1>5. LinkTypes'
  BY <1>3
<1>6. LinkInv'
  BY <1>1, <1>2, <1>3, <1>4, <1>5 DEF KeyMeansApproved, MintsForNone, OnItsWay, HoldsItsKey
<1>7. ASSUME NoKeyStrays PROVE NoKeyStrays'
  <2>0. ASSUME NEW k \in 1..minted, NEW b \in Approvals,
               approval[b] = [pc |-> "minted", key |-> k]
        PROVE  FALSE
    BY <1>1, <2>0 DEF Minting
  <2>1. \A k \in 1..minted : k = 0
    BY <1>2, <1>7, <2>0 DEF NoKeyStrays
  <2>2. minted' = 1 /\ approval'[a] = [pc |-> "minted", key |-> 1]
    BY <1>3, <1>4, <2>1
  <2> QED BY <2>2 DEF NoKeyStrays
<1> QED BY <1>6, <1>7

\* The approved key is the first one the session gets.
LEMMA ApproveStep ==
  ASSUME NEW D, NEW n, LinkInv, NEW a \in Approvals, Session(D, n)!Approve(a)
  PROVE  LinkInv' /\ (NoKeyStrays => NoKeyStrays')
<1> USE DEF LinkInv
<1>1. a \in Minting /\ Minting = {a} /\ key = 0 /\ approval[a].key # 0
  BY DEF Session!Approve, Minting, MintsForNone
<1>2. plain = 0 /\ poll.plain = 0 /\ cli # "linked"
  BY <1>1 DEF OnItsWay, HoldsItsKey
<1>3. /\ linkStatus' = "approved" /\ key' = approval[a].key /\ plain' = approval[a].key
      /\ approval' = [approval EXCEPT ![a].pc = "done"]
      /\ UNCHANGED <<lapsed, minted, poll, cli, held>>
  BY DEF Session!Approve, Session!client
<1>4. LinkTypes' /\ Minting' = {}
  BY <1>1, <1>3, Settles
<1>5. LinkInv'
  BY <1>2, <1>3, <1>4 DEF KeyMeansApproved, MintsForNone, OnItsWay, HoldsItsKey
<1>6. ASSUME NoKeyStrays PROVE NoKeyStrays'
  <2>1. ASSUME NEW k \in 1..minted PROVE k = approval[a].key
    <3>1. PICK b \in Approvals : approval[b] = [pc |-> "minted", key |-> k]
      BY <1>1, <1>6 DEF NoKeyStrays, LinkTypes
    <3>2. b = a
      BY <1>1, <3>1 DEF Minting
    <3> QED BY <3>1, <3>2
  <2> QED BY <1>3, <2>1 DEF NoKeyStrays
<1> QED BY <1>5, <1>6

\* Others find the session settled or expired, or die with the key they have minted.
LEMMA OtherApprovalStep ==
  ASSUME NEW D, NEW n, LinkInv, NEW a \in Approvals,
         \/ Session(D, n)!ApprovalFindsExpired(a) \/ Session(D, n)!ApprovalFindsSettled(a)
         \/ Session(D, n)!ApprovalDies(a)
  PROVE  LinkInv' /\ ("death" \notin D /\ NoKeyStrays => NoKeyStrays')
<1> USE DEF LinkInv
<1>1. /\ approval' = [approval EXCEPT ![a].pc = "done"]
      /\ UNCHANGED <<lapsed, key, plain, minted, poll, cli, held>>
      /\ UNCHANGED linkStatus \/ lapsed
      /\ "death" \notin D => approval[a].pc = "new"
  BY DEF Session!ApprovalFindsExpired, Session!ApprovalFindsSettled, Session!ApprovalDies,
         Session!session, Session!client, Session!Disturb
<1>2. /\ LinkTypes' /\ Minting' = Minting \ {a}
      /\ \A b \in Approvals \ {a} : approval'[b] = approval[b]
  BY <1>1, Settles
<1>3. LinkInv'
  BY <1>1, <1>2 DEF KeyMeansApproved, MintsForNone, OnItsWay, HoldsItsKey, Minting
<1>4. "death" \notin D /\ NoKeyStrays => NoKeyStrays'
  BY <1>1, <1>2 DEF NoKeyStrays
<1> QED BY <1>3, <1>4

\* Time, polls and the CLI mint nothing.
LEMMA CliStep ==
  ASSUME NEW D, NEW n, LinkInv,
         \/ Session(D, n)!Lapse \/ Session(D, n)!BeginPoll \/ Session(D, n)!Claim
         \/ Session(D, n)!AnswerArrives \/ Session(D, n)!AnswerLost \/ Session(D, n)!GiveUp
         \/ UNCHANGED linkVars
  PROVE  LinkInv' /\ (NoKeyStrays => NoKeyStrays')
<1> USE DEF LinkInv, LinkTypes, KeyMeansApproved, MintsForNone, Minting, OnItsWay, HoldsItsKey,
            Session!session, Session!client
<1>1. CASE Session(D, n)!Lapse \/ UNCHANGED linkVars
  BY <1>1 DEF Session!Lapse, linkVars, NoKeyStrays
<1>2. CASE Session(D, n)!BeginPoll
  BY <1>2 DEF Session!BeginPoll, NoKeyStrays
<1>3. CASE Session(D, n)!Claim
  BY <1>3 DEF Session!Claim, NoKeyStrays
<1>4. CASE Session(D, n)!AnswerArrives
  BY <1>4 DEF Session!AnswerArrives, Session!NoPoll, NoKeyStrays
<1>5. CASE Session(D, n)!AnswerLost \/ Session(D, n)!GiveUp
  BY <1>5 DEF Session!AnswerLost, Session!GiveUp, Session!NoPoll, NoKeyStrays
<1> QED BY <1>1, <1>2, <1>3, <1>4, <1>5

LEMMA LinkStep ==
  ASSUME NEW D, NEW n, "overlap" \notin D, LinkInv, Session(D, n)!Next \/ UNCHANGED linkVars
  PROVE  LinkInv' /\ ("death" \notin D /\ NoKeyStrays => NoKeyStrays')
  BY MintStep, ApproveStep, OtherApprovalStep, CliStep DEF Session!Next

LEMMA LinkSame ==
  /\ Link!Init = Session({"loss"}, Faults["link"])!Init
  /\ Link!Next = Session({"loss"}, Faults["link"])!Next
<1>0. Link!Init = Session({"loss"}, Faults["link"])!Init
  BY DEF Link!Init, Session!Init, Link!NoPoll, Session!NoPoll
<1>1. Link!Lapse <=> Session({"loss"}, Faults["link"])!Lapse
  BY DEF Link!Lapse, Session!Lapse, Link!client, Session!client
<1>2. Link!BeginPoll <=> Session({"loss"}, Faults["link"])!BeginPoll
  BY DEF Link!BeginPoll, Session!BeginPoll, Link!Answer, Session!Answer, Link!client,
         Session!client
<1>3. Link!Claim <=> Session({"loss"}, Faults["link"])!Claim
  BY DEF Link!Claim, Session!Claim, Link!client, Session!client
<1>4. Link!AnswerArrives <=> Session({"loss"}, Faults["link"])!AnswerArrives
  BY DEF Link!AnswerArrives, Session!AnswerArrives, Link!Answered, Session!Answered,
         Link!NoPoll, Session!NoPoll, Link!session, Session!session
<1>5. Link!AnswerLost <=> Session({"loss"}, Faults["link"])!AnswerLost
  BY DEF Link!AnswerLost, Session!AnswerLost, Link!Disturb, Session!Disturb, Link!Answered,
         Session!Answered, Link!NoPoll, Session!NoPoll, Link!session, Session!session
<1>6. Link!GiveUp <=> Session({"loss"}, Faults["link"])!GiveUp
  BY DEF Link!GiveUp, Session!GiveUp, Link!session, Session!session
<1>7. \A a : Link!ApprovalFindsExpired(a) <=>
         Session({"loss"}, Faults["link"])!ApprovalFindsExpired(a)
  BY DEF Link!ApprovalFindsExpired, Session!ApprovalFindsExpired, Link!SendApproval,
         Session!SendApproval, Link!client, Session!client, Link!Alone, Session!Alone,
         Link!Disturb, Session!Disturb
<1>8. \A a : Link!ApprovalFindsSettled(a) <=>
         Session({"loss"}, Faults["link"])!ApprovalFindsSettled(a)
  BY DEF Link!ApprovalFindsSettled, Session!ApprovalFindsSettled, Link!HasKey, Session!HasKey,
         Link!SendApproval, Session!SendApproval, Link!session, Session!session, Link!client,
         Session!client, Link!Alone, Session!Alone, Link!Disturb, Session!Disturb
<1>9. \A a : Link!Mint(a) <=> Session({"loss"}, Faults["link"])!Mint(a)
  BY DEF Link!Mint, Session!Mint, Link!HasKey, Session!HasKey, Link!SendApproval,
         Session!SendApproval, Link!client, Session!client, Link!Alone, Session!Alone,
         Link!Disturb, Session!Disturb
<1>10. \A a : Link!Approve(a) <=> Session({"loss"}, Faults["link"])!Approve(a)
  BY DEF Link!Approve, Session!Approve, Link!client, Session!client
<1>11. \A a : Link!ApprovalDies(a) <=> Session({"loss"}, Faults["link"])!ApprovalDies(a)
  BY DEF Link!ApprovalDies, Session!ApprovalDies, Link!Disturb, Session!Disturb, Link!session,
         Session!session, Link!client, Session!client
<1> QED BY <1>0, <1>1, <1>2, <1>3, <1>4, <1>5, <1>6, <1>7, <1>8, <1>9, <1>10, <1>11
       DEF Link!Next, Session!Next

LEMMA TangledSame ==
  /\ Tangled!Init = Session({"death", "loss"}, Faults["tangled"])!Init
  /\ Tangled!Next = Session({"death", "loss"}, Faults["tangled"])!Next
<1>0. Tangled!Init = Session({"death", "loss"}, Faults["tangled"])!Init
  BY DEF Tangled!Init, Session!Init, Tangled!NoPoll, Session!NoPoll
<1>1. Tangled!Lapse <=> Session({"death", "loss"}, Faults["tangled"])!Lapse
  BY DEF Tangled!Lapse, Session!Lapse, Tangled!client, Session!client
<1>2. Tangled!BeginPoll <=> Session({"death", "loss"}, Faults["tangled"])!BeginPoll
  BY DEF Tangled!BeginPoll, Session!BeginPoll, Tangled!Answer, Session!Answer, Tangled!client,
         Session!client
<1>3. Tangled!Claim <=> Session({"death", "loss"}, Faults["tangled"])!Claim
  BY DEF Tangled!Claim, Session!Claim, Tangled!client, Session!client
<1>4. Tangled!AnswerArrives <=> Session({"death", "loss"}, Faults["tangled"])!AnswerArrives
  BY DEF Tangled!AnswerArrives, Session!AnswerArrives, Tangled!Answered, Session!Answered,
         Tangled!NoPoll, Session!NoPoll, Tangled!session, Session!session
<1>5. Tangled!AnswerLost <=> Session({"death", "loss"}, Faults["tangled"])!AnswerLost
  BY DEF Tangled!AnswerLost, Session!AnswerLost, Tangled!Disturb, Session!Disturb,
         Tangled!Answered, Session!Answered, Tangled!NoPoll, Session!NoPoll, Tangled!session,
         Session!session
<1>6. Tangled!GiveUp <=> Session({"death", "loss"}, Faults["tangled"])!GiveUp
  BY DEF Tangled!GiveUp, Session!GiveUp, Tangled!session, Session!session
<1>7. \A a : Tangled!ApprovalFindsExpired(a) <=>
         Session({"death", "loss"}, Faults["tangled"])!ApprovalFindsExpired(a)
  BY DEF Tangled!ApprovalFindsExpired, Session!ApprovalFindsExpired, Tangled!SendApproval,
         Session!SendApproval, Tangled!client, Session!client, Tangled!Alone, Session!Alone,
         Tangled!Disturb, Session!Disturb
<1>8. \A a : Tangled!ApprovalFindsSettled(a) <=>
         Session({"death", "loss"}, Faults["tangled"])!ApprovalFindsSettled(a)
  BY DEF Tangled!ApprovalFindsSettled, Session!ApprovalFindsSettled, Tangled!HasKey,
         Session!HasKey, Tangled!SendApproval, Session!SendApproval, Tangled!session,
         Session!session, Tangled!client, Session!client, Tangled!Alone, Session!Alone,
         Tangled!Disturb, Session!Disturb
<1>9. \A a : Tangled!Mint(a) <=> Session({"death", "loss"}, Faults["tangled"])!Mint(a)
  BY DEF Tangled!Mint, Session!Mint, Tangled!HasKey, Session!HasKey, Tangled!SendApproval,
         Session!SendApproval, Tangled!client, Session!client, Tangled!Alone, Session!Alone,
         Tangled!Disturb, Session!Disturb
<1>10. \A a : Tangled!Approve(a) <=> Session({"death", "loss"}, Faults["tangled"])!Approve(a)
  BY DEF Tangled!Approve, Session!Approve, Tangled!client, Session!client
<1>11. \A a : Tangled!ApprovalDies(a) <=>
         Session({"death", "loss"}, Faults["tangled"])!ApprovalDies(a)
  BY DEF Tangled!ApprovalDies, Session!ApprovalDies, Tangled!Disturb, Session!Disturb,
         Tangled!session, Session!session, Tangled!client, Session!client
<1> QED BY <1>0, <1>1, <1>2, <1>3, <1>4, <1>5, <1>6, <1>7, <1>8, <1>9, <1>10, <1>11
       DEF Tangled!Next, Session!Next

LEMMA LinkSound ==
  /\ LinkInv => Link!LinkedWithKey /\ Tangled!LinkedWithKey
  /\ NoKeyStrays => Link!NoStrayKey
  BY DEF LinkInv, HoldsItsKey, Link!LinkedWithKey, Tangled!LinkedWithKey, NoKeyStrays,
         Link!NoStrayKey

-----------------------------------------------------------------------------
(* The suggestions of a week and their answers. *)

WeekProof == INSTANCE FeedDiscoveryProofs
  WITH MaxRetries <- WeekRetries,
       Disturbances <- {"crash", "outage", "elsewhere"}, MaxFaults <- Faults["week"],
       configs <- feeds, task <- weekTask, pc <- weekPc, faults <- weekFaults

AnswersProof == INSTANCE FeedDiscoveryProofs
  WITH Feeds <- AnswerFeeds, Tasks <- AnswerTasks, Runs <- AnswerRuns, MaxRetries <- WeekRetries,
       Disturbances <- {"crash", "outage", "elsewhere"}, MaxFaults <- Faults["answers"],
       configs <- feeds, task <- weekTask, pc <- weekPc, faults <- weekFaults

LEMMA WeekSame ==
  /\ Week!Init = WeekProof!Init
  /\ [Week!Next]_(Week!vars) = [WeekProof!Next]_(WeekProof!vars)
<1>1. Week!Init = WeekProof!Init
  BY DEF Week!Init, WeekProof!Init, Week!NoSubscribe, WeekProof!NoSubscribe
<1>2. [Week!Next]_(Week!vars) = [WeekProof!Next]_(WeekProof!vars)
  BY DEF Week!Next, WeekProof!Next, Week!Refresh, WeekProof!Refresh, Week!Begin, WeekProof!Begin,
         Week!Select, WeekProof!Select, Week!Persist, WeekProof!Persist, Week!OpenChat,
         WeekProof!OpenChat, Week!CreateChat, WeekProof!CreateChat, Week!SeedChat,
         WeekProof!SeedChat, Week!DatabaseFails, WeekProof!DatabaseFails, Week!End,
         WeekProof!End, Week!Crash, WeekProof!Crash, Week!CreateRun, WeekProof!CreateRun,
         Week!Settle, WeekProof!Settle, Week!Search, WeekProof!Search, Week!EnrichReads,
         WeekProof!EnrichReads, Week!EnrichStores, WeekProof!EnrichStores, Week!BeginSubscribe,
         WeekProof!BeginSubscribe, Week!Dismiss, WeekProof!Dismiss, Week!Subscribe,
         WeekProof!Subscribe, Week!SubscribeElsewhere, WeekProof!SubscribeElsewhere,
         Week!EndSubscribe, WeekProof!EndSubscribe, Week!SubscribeDies, WeekProof!SubscribeDies,
         Week!ArchiveChat, WeekProof!ArchiveChat, Week!discovery, WeekProof!discovery,
         Week!enrichment, WeekProof!enrichment, Week!chats, WeekProof!chats, Week!requests,
         WeekProof!requests, Week!Goto, WeekProof!Goto, Week!Suggested, WeekProof!Suggested,
         Week!Store, WeekProof!Store, Week!Disturb, WeekProof!Disturb, Week!Fresh,
         WeekProof!Fresh, Week!tasks, WeekProof!tasks, Week!NoSubscribe, WeekProof!NoSubscribe,
         Week!vars, WeekProof!vars
<1> QED BY <1>1, <1>2

LEMMA AnswersSame ==
  /\ Answers!Init = AnswersProof!Init
  /\ [Answers!Next]_(Answers!vars) = [AnswersProof!Next]_(AnswersProof!vars)
<1>1. Answers!Init = AnswersProof!Init
  BY DEF Answers!Init, AnswersProof!Init, Answers!NoSubscribe, AnswersProof!NoSubscribe
<1>2. [Answers!Next]_(Answers!vars) = [AnswersProof!Next]_(AnswersProof!vars)
  BY DEF Answers!Next, AnswersProof!Next, Answers!Refresh, AnswersProof!Refresh, Answers!Begin,
         AnswersProof!Begin, Answers!Select, AnswersProof!Select, Answers!Persist,
         AnswersProof!Persist, Answers!OpenChat, AnswersProof!OpenChat, Answers!CreateChat,
         AnswersProof!CreateChat, Answers!SeedChat, AnswersProof!SeedChat, Answers!DatabaseFails,
         AnswersProof!DatabaseFails, Answers!End, AnswersProof!End, Answers!Crash,
         AnswersProof!Crash, Answers!CreateRun, AnswersProof!CreateRun, Answers!Settle,
         AnswersProof!Settle, Answers!Search, AnswersProof!Search, Answers!EnrichReads,
         AnswersProof!EnrichReads, Answers!EnrichStores, AnswersProof!EnrichStores,
         Answers!BeginSubscribe, AnswersProof!BeginSubscribe, Answers!Dismiss,
         AnswersProof!Dismiss, Answers!Subscribe, AnswersProof!Subscribe,
         Answers!SubscribeElsewhere, AnswersProof!SubscribeElsewhere, Answers!EndSubscribe,
         AnswersProof!EndSubscribe, Answers!SubscribeDies, AnswersProof!SubscribeDies,
         Answers!ArchiveChat, AnswersProof!ArchiveChat, Answers!discovery,
         AnswersProof!discovery, Answers!enrichment, AnswersProof!enrichment, Answers!chats,
         AnswersProof!chats, Answers!requests, AnswersProof!requests, Answers!Goto,
         AnswersProof!Goto, Answers!Suggested, AnswersProof!Suggested, Answers!Store,
         AnswersProof!Store, Answers!Disturb, AnswersProof!Disturb, Answers!Fresh,
         AnswersProof!Fresh, Answers!tasks, AnswersProof!tasks, Answers!NoSubscribe,
         AnswersProof!NoSubscribe, Answers!vars, AnswersProof!vars
<1> QED BY <1>1, <1>2

LEMMA WeekKept ==
  /\ Week!Init => WeekProof!ChatInv /\ WeekProof!SubscribeInv
  /\ WeekProof!ChatInv /\ [Week!Next]_(Week!vars) => WeekProof!ChatInv'
  /\ WeekProof!SubscribeInv /\ [Week!Next]_(Week!vars) => WeekProof!SubscribeInv'
  BY WeekSame, WeekProof!ChatInit, WeekProof!ChatStep, WeekProof!SubscribeInit,
     WeekProof!SubscribeStep

LEMMA WeekSound ==
  /\ WeekProof!ChatInv => Week!OneWeeklySession
  /\ WeekProof!SubscribeInv => Week!SubscribedHasFeed
  BY WeekProof!ChatSound, WeekProof!SubscribeSound
     DEF WeekProof!OneWeeklySession, Week!OneWeeklySession, WeekProof!SubscribedHasFeed,
         Week!SubscribedHasFeed

LEMMA AnswersKept ==
  /\ Answers!Init => AnswersProof!SubscribeInv
  /\ AnswersProof!SubscribeInv /\ [Answers!Next]_(Answers!vars) => AnswersProof!SubscribeInv'
  /\ AnswersProof!SubscribeInv => Answers!SubscribedHasFeed
  BY AnswersSame, AnswersProof!SubscribeInit, AnswersProof!SubscribeStep,
     AnswersProof!SubscribeSound
     DEF AnswersProof!SubscribedHasFeed, Answers!SubscribedHasFeed

-----------------------------------------------------------------------------
(* The services together: a behaviour stays in its scene. *)

\* However threads overlap, tokens are revoked and providers fail and recover, a failing
\* provider is spared and a refused token is not used again (podcast_search.py).
THEOREM ProvidersAreSpared == ServicesSpec => []ProviderIsSpared
<1> DEFINE Inv == scene = "podcasts" => SearchInv
<1>1. ServicesInit => Inv
  BY SearchInit DEF ServicesInit
<1>2. Inv /\ [ServicesNext]_allVars => Inv'
  <2>1. scene = "podcasts" /\ [ServicesNext]_allVars =>
          scene' = scene /\ [Podcasts!Next]_(Podcasts!vars)
    BY DEF ServicesNext, allVars, searchVars, Podcasts!vars, Podcasts!breakers, Podcasts!tokens
  <2>2. [ServicesNext]_allVars => scene' = scene
    BY DEF ServicesNext, allVars
  <2> QED BY <2>1, <2>2, SearchStep
<1>3. Inv => ProviderIsSpared
  BY SearchSound DEF ProviderIsSpared
<1> QED BY <1>1, <1>2, <1>3, PTL DEF ServicesSpec


\* A CLI that was linked holds the key its session names, whether answers are lost or
\* approvals die between their commits, and no key strays while none dies (cli_link.py,
\* cli/internal).
THEOREM EveryLinkHasItsKey == ServicesSpec => []LinkedWithKey
<1> DEFINE Inv == /\ scene \in {"link", "tangled"} => LinkInv
                  /\ scene = "link" => NoKeyStrays
<1>1. ServicesInit => Inv
  BY LinkSame, LinkInit DEF ServicesInit
<1>2. Inv /\ [ServicesNext]_allVars => Inv'
  <2> SUFFICES ASSUME Inv, [ServicesNext]_allVars PROVE Inv'
    OBVIOUS
  <2>1. scene' = scene
    BY DEF ServicesNext, allVars
  <2>2. CASE scene = "link"
    <3>1. Session({"loss"}, Faults["link"])!Next \/ UNCHANGED linkVars
      BY <2>2, LinkSame DEF ServicesNext, allVars
    <3> QED BY <2>1, <2>2, <3>1, LinkStep
  <2>3. CASE scene = "tangled"
    <3>1. Session({"death", "loss"}, Faults["tangled"])!Next \/ UNCHANGED linkVars
      BY <2>3, TangledSame DEF ServicesNext, allVars
    <3> QED BY <2>1, <2>3, <3>1, LinkStep
  <2> QED BY <2>1, <2>2, <2>3
<1>3. Inv => LinkedWithKey
  BY LinkSound DEF LinkedWithKey
<1> QED BY <1>1, <1>2, <1>3, PTL DEF ServicesSpec


LEMMA WeekScenes ==
  /\ scene = "week" /\ [ServicesNext]_allVars => [Week!Next]_(Week!vars)
  /\ scene = "answers" /\ [ServicesNext]_allVars => [Answers!Next]_(Answers!vars)
  /\ [ServicesNext]_allVars => scene' = scene
<1>1. UNCHANGED weekVars => UNCHANGED Week!vars /\ UNCHANGED Answers!vars
  BY DEF weekVars, Week!vars, Week!discovery, Week!tasks, Week!enrichment, Week!chats,
         Week!requests, Answers!vars, Answers!discovery, Answers!tasks, Answers!enrichment,
         Answers!chats, Answers!requests
<1> QED BY <1>1 DEF ServicesNext, allVars

\* A week has one open discovery chat (weekly_discovery_chat.py).
THEOREM WeekHasOneChat == ServicesSpec => []OneWeeklySession
<1> DEFINE Inv == scene = "week" => WeekProof!ChatInv
<1>1. ServicesInit => Inv
  BY WeekKept DEF ServicesInit
<1>2. Inv /\ [ServicesNext]_allVars => Inv'
  BY WeekScenes, WeekKept
<1>3. Inv => OneWeeklySession
  BY WeekSound DEF OneWeeklySession
<1> QED BY <1>1, <1>2, <1>3, PTL DEF ServicesSpec

\* What is marked or answered as subscribed is a feed the user has, whatever tasks suggest
\* meanwhile and wherever a request dies (feed_discovery.py, routers/api/discovery.py).
THEOREM AnswersAreKept == ServicesSpec => []SubscribedHasFeed
<1> DEFINE Inv == /\ scene = "week" => WeekProof!SubscribeInv
                  /\ scene = "answers" => AnswersProof!SubscribeInv
<1>1. ServicesInit => Inv
  BY WeekKept, AnswersKept DEF ServicesInit
<1>2. Inv /\ [ServicesNext]_allVars => Inv'
  BY WeekScenes, WeekKept, AnswersKept
<1>3. Inv => SubscribedHasFeed
  BY WeekSound, AnswersKept DEF SubscribedHasFeed
<1> QED BY <1>1, <1>2, <1>3, PTL DEF ServicesSpec

-----------------------------------------------------------------------------
(* Submissions, while no request dies and no scraper adds a twin. *)

GateRows == {r \in Gate!Requests : type[r] # "none"}
Underway == {"pending", "running", "typed"}
Owing == {"inbox", "ensure", "owed"}

GateTypes ==
  /\ type \in [Gate!Requests -> {"none", "unknown", "article"}]
  /\ rowStatus \in [Gate!Requests -> {"new", "skipped", "completed", "failed"}]
  /\ analysis \in [Gate!Submissions -> [state : Underway \cup {"none", "done", "failed"},
                                        row : Gate!Requests \cup {NoRow}, feed : BOOLEAN,
                                        sees : BOOLEAN, tries : Nat]]
  /\ req \in [Gate!Requests -> [pc : Owing \cup {"start", "insert", "answered"},
                                row : Gate!Requests \cup {NoRow}]]

\* Without a race or a twin the URL has one row, which tasks and requests are about.
OneRow ==
  /\ \A r, u \in GateRows : r = u
  /\ \A t \in Gate!Submissions : analysis[t].state \in Underway => analysis[t].row \in GateRows
  /\ \A q \in Gate!Requests : /\ req[q].pc \in Owing => req[q].row \in GateRows
                              /\ req[q].pc = "owed" => req[q].row = q

\* Only submissions are inserted, put in an inbox and analyzed.
FromSubmissions ==
  \A q \in Gate!Requests :
    req[q].pc \in {"insert", "inbox", "ensure"} => q \in Gate!Submissions

\* What is still to be done about a row.
InHand(r) ==
  \/ \E t \in Gate!Submissions : analysis[t].row = r /\ analysis[t].state \in Underway
  \/ r \in queued
  \/ \E q \in Gate!Requests : req[q].row = r /\ req[q].pc \in Owing

NewIsInHand == \A r \in GateRows : rowStatus[r] = "new" => InHand(r)

GateInv == GateTypes /\ OneRow /\ FromSubmissions /\ NewIsInHand

LEMMA GateConstants ==
  /\ Gate!Requests' = Gate!Requests /\ Gate!Submissions' = Gate!Submissions
  /\ Gate!Submissions \subseteq Gate!Requests
  BY DEF Gate!Requests, Gate!Submissions

LEMMA GateInit == Gate!Init => GateInv
<1> SUFFICES ASSUME Gate!Init PROVE GateInv
  OBVIOUS
<1> USE DEF Gate!Init
<1>1. GateTypes
  BY DEF GateTypes, Gate!NoTask, Underway, Owing
<1>2. GateRows = {}
  BY DEF GateRows
<1>3. \A q \in Gate!Requests : req[q].pc = "start"
  OBVIOUS
<1>4. \A t \in Gate!Submissions : analysis[t].state = "none"
  BY DEF Gate!NoTask
<1> QED
  BY <1>1, <1>2, <1>3, <1>4 DEF GateInv, OneRow, FromSubmissions, NewIsInHand, Underway, Owing

\* A request that moves from one place to the next.
LEMMA RequestMoves ==
  ASSUME GateInv, NEW q \in Gate!Requests, NEW to \in Owing \cup {"answered", "insert"},
         NEW r \in Gate!Requests \cup {NoRow}, Gate!Goto(q, to, r)
  PROVE  /\ req' \in [Gate!Requests -> [pc : Owing \cup {"start", "insert", "answered"},
                                        row : Gate!Requests \cup {NoRow}]]
         /\ req'[q].pc = to /\ req'[q].row = r
         /\ \A p \in Gate!Requests \ {q} : req'[p] = req[p]
  BY DEF GateInv, GateTypes, Gate!Goto, Owing

LEMMA FindStep ==
  ASSUME GateInv, NEW q \in Gate!Submissions,
         Gate!FindNothing(q) \/ \E r \in Gate!Requests : Gate!FindExisting(q, r)
  PROVE  GateInv'
<1> USE DEF GateInv
<1>1. q \in Gate!Requests /\ req[q].pc = "start"
  BY GateConstants DEF Gate!FindNothing, Gate!FindExisting
<1>2. PICK to \in {"insert", "ensure", "answered"}, r \in Gate!Requests \cup {NoRow} :
        /\ Gate!Goto(q, to, r)
        /\ to = "ensure" => r \in GateRows
  BY DEF Gate!FindNothing, Gate!FindExisting, Gate!Rows, GateRows
<1>3. UNCHANGED <<type, rowStatus, queued, analysis>>
  BY DEF Gate!FindNothing, Gate!FindExisting, Gate!rowVars
<1>4. /\ req' \in [Gate!Requests -> [pc : Owing \cup {"start", "insert", "answered"},
                                     row : Gate!Requests \cup {NoRow}]]
      /\ req'[q].pc = to /\ req'[q].row = r
      /\ \A p \in Gate!Requests \ {q} : req'[p] = req[p]
  BY <1>1, <1>2, RequestMoves DEF Owing
<1>5. GateTypes'
  BY <1>3, <1>4, GateConstants DEF GateTypes
<1>6. OneRow'
  BY <1>2, <1>3, <1>4, GateConstants DEF OneRow, GateRows, Owing
<1>7. FromSubmissions'
  BY <1>4, GateConstants DEF FromSubmissions
<1>8. NewIsInHand'
  BY <1>1, <1>3, <1>4, GateConstants DEF NewIsInHand, InHand, GateRows, Owing
<1> QED BY <1>5, <1>6, <1>7, <1>8

\* The first row of the URL, which the request that inserted it goes on with.
LEMMA FirstRow ==
  ASSUME GateInv, NEW q \in Gate!Requests, GateRows = {},
         NEW as \in {"unknown", "article"}, type' = [type EXCEPT ![q] = as],
         NEW to \in {"inbox", "owed"}, Gate!Goto(q, to, q),
         UNCHANGED <<rowStatus, queued, analysis>>,
         to = "inbox" => q \in Gate!Submissions
  PROVE  GateInv'
<1> USE DEF GateInv
<1>1. /\ req' \in [Gate!Requests -> [pc : Owing \cup {"start", "insert", "answered"},
                                     row : Gate!Requests \cup {NoRow}]]
      /\ req'[q].pc = to /\ req'[q].row = q
      /\ \A p \in Gate!Requests \ {q} : req'[p] = req[p]
  BY RequestMoves DEF Owing
<1>2. GateRows' = {q}
  BY GateConstants DEF GateRows, GateTypes
<1>3. GateTypes'
  BY <1>1, GateConstants DEF GateTypes
<1>4. OneRow'
  BY <1>1, <1>2, GateConstants DEF OneRow, Owing
<1>5. FromSubmissions'
  BY <1>1, GateConstants DEF FromSubmissions
<1>6. NewIsInHand'
  BY <1>1, <1>2, GateConstants DEF NewIsInHand, InHand, Owing
<1> QED BY <1>3, <1>4, <1>5, <1>6

LEMMA InsertStep ==
  ASSUME GateInv, NEW q \in Gate!Requests,
         \/ Gate!InsertRow(q) \/ Gate!ScrapeInserts(q)
         \/ \E r \in Gate!Requests : Gate!InsertConflict(q, r)
  PROVE  GateInv'
<1>1. GateRows = Gate!Rows
  BY DEF GateRows, Gate!Rows
<1>2. ASSUME NEW r PROVE ~Gate!InsertConflict(q, r)
  BY DEF Gate!InsertConflict, Gate!Disturb
<1>3. CASE Gate!InsertRow(q)
  <2>1. GateRows = {} /\ q \in Gate!Submissions
    BY <1>1, <1>3 DEF Gate!InsertRow, Gate!Needs, Gate!Disturb, GateInv, FromSubmissions
  <2> QED BY <1>3, <2>1, FirstRow DEF Gate!InsertRow
<1>4. CASE Gate!ScrapeInserts(q)
  <2>1. GateRows = {}
    BY <1>1, <1>4 DEF Gate!ScrapeInserts, Gate!Needs, Gate!Disturb
  <2> QED BY <1>4, <2>1, FirstRow DEF Gate!ScrapeInserts
<1> QED BY <1>2, <1>3, <1>4

\* A request that leaves its row to a task or to the pipeline.
LEMMA RequestLeaves ==
  ASSUME GateInv, NEW q \in Gate!Requests, NEW to \in {"ensure", "answered"},
         NEW r \in Gate!Requests \cup {NoRow}, Gate!Goto(q, to, r),
         to = "ensure" => r = req[q].row /\ req[q].pc = "inbox",
         UNCHANGED <<type, rowStatus>>, queued \subseteq queued',
         analysis' \in [Gate!Submissions -> [state : Underway \cup {"none", "done", "failed"},
                                             row : Gate!Requests \cup {NoRow}, feed : BOOLEAN,
                                             sees : BOOLEAN, tries : Nat]],
         \A t \in Gate!Submissions :
           \/ analysis'[t].row = analysis[t].row /\ analysis'[t].state = analysis[t].state
           \/ analysis'[t].row = req[q].row /\ analysis'[t].state = "pending" /\ req[q].pc \in Owing,
         to = "answered" /\ req[q].pc \in Owing =>
           \/ req[q].row \in queued'
           \/ \E t \in Gate!Submissions :
                analysis'[t].row = req[q].row /\ analysis'[t].state \in Underway
  PROVE  GateInv'
<1> USE DEF GateInv
<1>1. /\ req' \in [Gate!Requests -> [pc : Owing \cup {"start", "insert", "answered"},
                                     row : Gate!Requests \cup {NoRow}]]
      /\ req'[q].pc = to /\ req'[q].row = r
      /\ \A p \in Gate!Requests \ {q} : req'[p] = req[p]
  BY RequestMoves DEF Owing
<1>2. GateTypes'
  BY <1>1, GateConstants DEF GateTypes
<1>3. GateRows' = GateRows
  BY GateConstants DEF GateRows
<1>4. OneRow'
  <2>1. \A t \in Gate!Submissions : analysis'[t].state \in Underway => analysis'[t].row \in GateRows
    BY DEF OneRow, Underway
  <2>2. \A p \in Gate!Requests : /\ req'[p].pc \in Owing => req'[p].row \in GateRows
                                 /\ req'[p].pc = "owed" => req'[p].row = p
    <3>1. req'[q].pc \in Owing => req'[q].row \in GateRows
      BY <1>1 DEF OneRow, Owing
    <3> QED BY <1>1, <3>1 DEF OneRow
  <2> QED BY <1>3, <2>1, <2>2, GateConstants DEF OneRow
<1>5. FromSubmissions'
  BY <1>1, GateConstants DEF FromSubmissions
<1>6. ASSUME NEW row \in GateRows, InHand(row) PROVE InHand(row)'
  <2>1. CASE \E t \in Gate!Submissions : analysis[t].row = row /\ analysis[t].state \in Underway
    <3>1. PICK t \in Gate!Submissions : analysis[t].row = row /\ analysis[t].state \in Underway
      BY <2>1
    <3>2. req[q].pc \in Owing => req[q].row = row
      BY DEF OneRow
    <3>3. analysis'[t].row = row /\ analysis'[t].state \in Underway
      BY <3>1, <3>2 DEF Underway
    <3> QED BY <3>3, GateConstants DEF InHand
  <2>2. CASE row \in queued
    BY <2>2 DEF InHand
  <2>3. CASE \E p \in Gate!Requests : req[p].row = row /\ req[p].pc \in Owing
    BY <2>3, <1>1, GateConstants DEF InHand, Owing
  <2> QED BY <1>6, <2>1, <2>2, <2>3 DEF InHand
<1>7. NewIsInHand'
  BY <1>3, <1>6 DEF NewIsInHand
<1> QED BY <1>2, <1>4, <1>5, <1>7

LEMMA FeedAnswerStep ==
  ASSUME GateInv, NEW q \in Gate!Requests,
         \/ Gate!EnterInbox(q) \/ Gate!MergeIntoTask(q) \/ Gate!InsertTask(q)
         \/ Gate!ScrapeEnqueues(q) \/ \E r \in Gate!Requests : Gate!ScrapeFindsArticle(q, r)
  PROVE  GateInv'
<1> USE DEF GateInv
<1>0. /\ analysis \in [Gate!Submissions -> [state : Underway \cup {"none", "done", "failed"},
                                           row : Gate!Requests \cup {NoRow}, feed : BOOLEAN,
                                           sees : BOOLEAN, tries : Nat]]
      /\ req[q].row \in Gate!Requests \cup {NoRow}
  BY DEF GateTypes
<1>1. CASE Gate!EnterInbox(q)
  BY <1>0, <1>1, RequestLeaves DEF Gate!EnterInbox, Owing
<1>2. CASE Gate!MergeIntoTask(q)
  <2>1. /\ analysis' \in [Gate!Submissions -> [state : Underway \cup {"none", "done", "failed"},
                                              row : Gate!Requests \cup {NoRow}, feed : BOOLEAN,
                                              sees : BOOLEAN, tries : Nat]]
        /\ \A t \in Gate!Submissions : /\ analysis'[t].row = analysis[t].row
                                       /\ analysis'[t].state = analysis[t].state
    <3>1. CASE UNCHANGED analysis
      BY <1>0, <3>1
    <3>2. CASE \E t \in Gate!ActiveTasks(req[q].row) :
                 analysis' = [analysis EXCEPT ![t].feed = @ \/ q \in Subscriptions]
      <4>1. PICK t \in Gate!Submissions :
              analysis' = [analysis EXCEPT ![t].feed = @ \/ q \in Subscriptions]
        BY <3>2, Zenon DEF Gate!ActiveTasks
      <4>2. (analysis[t].feed \/ q \in Subscriptions) \in BOOLEAN
        OBVIOUS
      <4>3. PICK feed \in BOOLEAN : analysis' = [analysis EXCEPT ![t].feed = feed]
        BY <4>1, <4>2, Zenon
      <4> QED BY <1>0, <4>3
    <3> QED BY <1>2, <3>1, <3>2 DEF Gate!MergeIntoTask
  <2>2. /\ UNCHANGED <<type, rowStatus, queued>> /\ Gate!Goto(q, "answered", req[q].row)
        /\ \/ req[q].row \in queued
           \/ \E t \in Gate!Submissions :
                analysis[t].row = req[q].row /\ analysis[t].state \in Underway
    BY <1>2 DEF Gate!MergeIntoTask, Gate!ActiveTasks, Gate!rowVars, Underway
  <2> QED BY <1>0, <2>1, <2>2, RequestLeaves
<1>3. CASE Gate!InsertTask(q)
  <2>1. q \in Gate!Submissions /\ req[q].pc \in Owing
    BY <1>3 DEF Gate!InsertTask, FromSubmissions, Owing
  <2>2. /\ analysis' \in [Gate!Submissions -> [state : Underway \cup {"none", "done", "failed"},
                                              row : Gate!Requests \cup {NoRow}, feed : BOOLEAN,
                                              sees : BOOLEAN, tries : Nat]]
        /\ analysis'[q].row = req[q].row /\ analysis'[q].state = "pending"
        /\ \A t \in Gate!Submissions \ {q} : analysis'[t] = analysis[t]
    <3>1. PICK feed \in BOOLEAN :
            analysis' = [analysis EXCEPT ![q] = [Gate!NoTask EXCEPT
                           !.state = "pending", !.row = req[q].row, !.feed = feed]]
      <4>1. (q \in Subscriptions) \in BOOLEAN
        OBVIOUS
      <4> QED BY <1>3, <4>1, Zenon DEF Gate!InsertTask
    <3> DEFINE new == [Gate!NoTask EXCEPT
                         !.state = "pending", !.row = req[q].row, !.feed = feed]
    <3>2. /\ new \in [state : Underway \cup {"none", "done", "failed"},
                     row : Gate!Requests \cup {NoRow}, feed : BOOLEAN, sees : BOOLEAN,
                     tries : Nat]
          /\ new.row = req[q].row /\ new.state = "pending"
      BY <1>0 DEF Gate!NoTask, Underway
    <3>3. analysis' = [analysis EXCEPT ![q] = new]
      BY <3>1
    <3> HIDE DEF new
    <3> QED BY <1>0, <2>1, <3>2, <3>3
  <2>3. UNCHANGED <<type, rowStatus, queued>> /\ Gate!Goto(q, "answered", req[q].row)
    BY <1>3 DEF Gate!InsertTask, Gate!rowVars
  <2>4. "pending" \in Underway
    BY DEF Underway
  <2> QED BY <1>0, <2>1, <2>2, <2>3, <2>4, RequestLeaves
<1>4. CASE Gate!ScrapeEnqueues(q)
  <2>1. req[q].row = q /\ q \in queued' /\ queued \subseteq queued'
    BY <1>4 DEF Gate!ScrapeEnqueues, OneRow
  <2> QED BY <1>0, <1>4, <2>1, RequestLeaves DEF Gate!ScrapeEnqueues
<1>5. CASE \E r \in Gate!Requests : Gate!ScrapeFindsArticle(q, r)
  <2>1. PICK r \in Gate!Requests : Gate!ScrapeFindsArticle(q, r)
    BY <1>5
  <2> QED BY <1>0, <2>1, RequestLeaves DEF Gate!ScrapeFindsArticle, Owing
<1> QED BY <1>1, <1>2, <1>3, <1>4, <1>5

\* A task that is still underway leaves its row as it was: of two types, at most.
LEMMA AnalysisGoesOn ==
  ASSUME GateInv, NEW t \in Gate!Submissions,
         \/ Gate!BeginAnalysis(t) \/ Gate!SetType(t) \/ Gate!TypeConflict(t)
         \/ Gate!AnalysisDies(t)
  PROVE  GateInv'
<1> USE DEF GateInv
<1>1. analysis[t].state \in Underway /\ analysis[t].row \in GateRows /\ GateRows = {analysis[t].row}
  BY DEF OneRow, Underway, Gate!BeginAnalysis, Gate!SetType, Gate!TypeConflict, Gate!AnalysisDies
<1>2. ~Gate!TypeConflict(t)
  BY <1>1 DEF Gate!TypeConflict, Gate!Twin, GateRows
<1>3. /\ UNCHANGED <<rowStatus, queued, req>>
      /\ type' = [type EXCEPT ![analysis[t].row] = "article"] \/ UNCHANGED type
  BY <1>2 DEF Gate!BeginAnalysis, Gate!SetType, Gate!AnalysisDies, Gate!rowVars
<1>4. GateRows' = GateRows /\ type' \in [Gate!Requests -> {"none", "unknown", "article"}]
  BY <1>1, <1>3, GateConstants DEF GateRows, GateTypes
<1>5. /\ analysis' \in [Gate!Submissions -> [state : Underway \cup {"none", "done", "failed"},
                                            row : Gate!Requests \cup {NoRow}, feed : BOOLEAN,
                                            sees : BOOLEAN, tries : Nat]]
      /\ analysis'[t].row = analysis[t].row /\ analysis'[t].state \in Underway
      /\ \A u \in Gate!Submissions \ {t} : analysis'[u] = analysis[u]
  <2>1. CASE Gate!BeginAnalysis(t)
    <3> DEFINE looks == analysis[t].feed \/ flag[analysis[t].row]
               mid == [analysis EXCEPT ![t].state = "running"]
    <3>1. looks \in BOOLEAN
      OBVIOUS
    <3>2. analysis' = [mid EXCEPT ![t].sees = looks]
      BY <2>1 DEF Gate!BeginAnalysis
    <3> HIDE DEF looks
    <3>3. /\ mid \in [Gate!Submissions -> [state : Underway \cup {"none", "done", "failed"},
                                         row : Gate!Requests \cup {NoRow}, feed : BOOLEAN,
                                         sees : BOOLEAN, tries : Nat]]
          /\ mid[t].row = analysis[t].row /\ mid[t].state \in Underway
          /\ \A u \in Gate!Submissions \ {t} : mid[u] = analysis[u]
      BY DEF GateTypes, Underway
    <3> HIDE DEF mid
    <3> QED BY <3>1, <3>2, <3>3
  <2>2. CASE Gate!SetType(t)
    BY <2>2 DEF Gate!SetType, GateTypes, Underway
  <2>3. CASE Gate!AnalysisDies(t)
    BY <2>3 DEF Gate!AnalysisDies, GateTypes, Underway
  <2> QED BY <1>2, <2>1, <2>2, <2>3
<1>6. GateTypes'
  BY <1>3, <1>4, <1>5, GateConstants DEF GateTypes
<1>7. OneRow'
  BY <1>1, <1>3, <1>4, <1>5, GateConstants DEF OneRow
<1>8. FromSubmissions'
  BY <1>3, GateConstants DEF FromSubmissions
<1>9. NewIsInHand'
  BY <1>1, <1>3, <1>4, <1>5, GateConstants DEF NewIsInHand, InHand
<1> QED BY <1>6, <1>7, <1>8, <1>9

\* A task that is done has settled its row or handed it over.
LEMMA AnalysisEnds ==
  ASSUME GateInv, NEW t \in Gate!Submissions,
         Gate!HandOver(t) \/ Gate!Subscribe(t)
  PROVE  GateInv'
<1> USE DEF GateInv
<1>1. /\ analysis[t].row \in GateRows /\ GateRows = {analysis[t].row}
      /\ analysis[t].row \in Gate!Requests
  BY DEF OneRow, Underway, Gate!HandOver, Gate!Subscribe, GateRows
<1>2. UNCHANGED <<type, req>> /\ analysis' = [analysis EXCEPT ![t].state = "done"]
  BY DEF Gate!HandOver, Gate!Subscribe
<1>3. /\ rowStatus' \in [Gate!Requests -> {"new", "skipped", "completed", "failed"}]
      /\ rowStatus'[analysis[t].row] = "new" => analysis[t].row \in queued'
  BY <1>1 DEF Gate!HandOver, Gate!Subscribe, GateTypes
<1>4. /\ analysis' \in [Gate!Submissions -> [state : Underway \cup {"none", "done", "failed"},
                                            row : Gate!Requests \cup {NoRow}, feed : BOOLEAN,
                                            sees : BOOLEAN, tries : Nat]]
      /\ analysis'[t].state = "done"
      /\ \A u \in Gate!Submissions \ {t} : analysis'[u] = analysis[u]
  BY <1>2 DEF GateTypes
<1>5. GateRows' = GateRows
  BY <1>2, GateConstants DEF GateRows
<1>6. GateTypes'
  BY <1>2, <1>3, <1>4, GateConstants DEF GateTypes
<1>7. OneRow'
  BY <1>2, <1>4, <1>5, GateConstants DEF OneRow, Underway
<1>8. FromSubmissions'
  BY <1>2, GateConstants DEF FromSubmissions
<1>9. NewIsInHand'
  BY <1>1, <1>3, <1>5 DEF NewIsInHand, InHand
<1> QED BY <1>6, <1>7, <1>8, <1>9

\* A step that touches none of what the invariant is about.
LEMMA GateStands ==
  ASSUME GateInv, UNCHANGED <<type, rowStatus, queued, analysis, req>>
  PROVE  GateInv'
<1>1. GateRows' = GateRows
  BY GateConstants DEF GateRows
<1>2. GateTypes' /\ OneRow' /\ FromSubmissions'
  BY <1>1, GateConstants DEF GateInv, GateTypes, OneRow, FromSubmissions
<1>3. NewIsInHand'
  BY <1>1, GateConstants DEF GateInv, NewIsInHand, InHand
<1> QED BY <1>2, <1>3 DEF GateInv

LEMMA ProcessedStep ==
  ASSUME GateInv, NEW r \in Gate!Requests, NEW sees \in BOOLEAN,
         NEW outcome \in {"completed", "failed", "skipped"}, Gate!Processed(r, sees, outcome)
  PROVE  GateInv'
<1> USE DEF GateInv
<1>1. /\ UNCHANGED <<type, analysis, req>> /\ queued' = queued \ {r}
      /\ rowStatus' = [rowStatus EXCEPT ![r] = outcome]
  BY DEF Gate!Processed
<1>2. GateRows' = GateRows
  BY <1>1, GateConstants DEF GateRows
<1>3. GateTypes'
  BY <1>1, GateConstants DEF GateTypes
<1>4. OneRow' /\ FromSubmissions'
  BY <1>1, <1>2, GateConstants DEF OneRow, FromSubmissions
<1>5. ASSUME NEW row \in GateRows, rowStatus'[row] = "new" PROVE InHand(row)'
  <2>1. row # r /\ rowStatus[row] = "new"
    BY <1>1, <1>5 DEF GateTypes, GateRows
  <2> QED BY <1>1, <2>1, GateConstants DEF NewIsInHand, InHand
<1>6. NewIsInHand'
  BY <1>2, <1>5 DEF NewIsInHand
<1> QED BY <1>3, <1>4, <1>6

LEMMA PipelineStep ==
  ASSUME GateInv, Gate!Pipeline
  PROVE  GateInv'
<1>1. ASSUME NEW r \in Gate!Requests, Gate!BeginProcess(r) PROVE GateInv'
  BY <1>1, GateStands DEF Gate!BeginProcess
<1> QED BY <1>1, ProcessedStep DEF Gate!Pipeline

LEMMA GateStep == GateInv /\ [Gate!Next]_inVars => GateInv'
<1> SUFFICES ASSUME GateInv, [Gate!Next]_inVars PROVE GateInv'
  OBVIOUS
<1>1. CASE UNCHANGED inVars
  BY <1>1, GateStands DEF inVars
<1>2. ASSUME NEW q \in Gate!Requests, Gate!RequestStep(q) PROVE GateInv'
  BY <1>2, FindStep, InsertStep, FeedAnswerStep DEF Gate!RequestStep
<1>3. ASSUME NEW q \in Gate!Requests PROVE ~Gate!RequestDies(q)
  BY DEF Gate!RequestDies, Gate!Disturb
<1>4. ASSUME NEW t \in Gate!Submissions, Gate!AnalysisStep(t) \/ Gate!AnalysisDies(t)
      PROVE  GateInv'
  BY <1>4, AnalysisGoesOn, AnalysisEnds DEF Gate!AnalysisStep
<1>5. ASSUME NEW r \in Gate!Requests, NEW sees \in BOOLEAN, Gate!ProcessingDies(r, sees)
      PROVE  GateInv'
  BY <1>5, GateStands DEF Gate!ProcessingDies
<1> QED BY <1>1, <1>2, <1>3, <1>4, <1>5, PipelineStep DEF Gate!Next

LEMMA GateSound == GateInv => Gate!NothingStranded
<1> SUFFICES ASSUME GateInv, NEW r \in Gate!Rows, rowStatus[r] = "new"
             PROVE  \/ Gate!ActiveTasks(r) # {} \/ r \in queued
                    \/ \E q \in Gate!Requests :
                         req[q].row = r /\ req[q].pc \in {"inbox", "ensure", "owed"}
  BY DEF Gate!NothingStranded
<1> QED
  BY DEF GateInv, NewIsInHand, InHand, GateRows, Gate!Rows, Gate!ActiveTasks, Underway, Owing

LEMMA GateSceneInit == ServicesInit => GateInv
  BY GateInit DEF ServicesInit

LEMMA GateSceneStep ==
  (scene = "gate" => GateInv) /\ [ServicesNext]_allVars => (scene = "gate" => GateInv)'
<1> SUFFICES ASSUME scene = "gate" => GateInv, [ServicesNext]_allVars, scene' = "gate"
             PROVE  GateInv'
  OBVIOUS
<1>1. scene = "gate" /\ [Gate!Next]_inVars
  BY DEF ServicesNext, allVars
<1> QED BY <1>1, GateStep

\* While no request dies between its commits and no scraper adds a second row for the URL, a
\* submitted row that is still new is being analyzed, waits for the pipeline or belongs to a
\* request that has yet to create its task (submit_user_content, _ensure_analyze_url_task,
\* AnalyzeUrlHandler): however many submissions, subscriptions and scrapes meet at one URL.
THEOREM NobodyStrandsARow == ServicesSpec => []NothingStranded
<1>1. (scene = "gate" => GateInv) => NothingStranded
  BY GateSound DEF NothingStranded
<1>2. ServicesInit => (scene = "gate" => GateInv)
  BY GateSceneInit
<1> QED BY <1>1, <1>2, GateSceneStep, PTL DEF ServicesSpec


-----------------------------------------------------------------------------
(* The X connection: one agent, and a user who disconnects and connects again. *)

Job == xJob[Agent]
JobFields == {"pc", "sync", "refresh", "got", "cursor", "newest", "todo", "added"}

ConnectionTypes ==
  /\ issued \in Nat /\ valid \subseteq 1..issued /\ refresh \in 0..issued
  /\ active \in BOOLEAN /\ xWanted \in {"connected", "disconnected"}
  /\ exchange \in [pc : {"idle", "exchanged"}, active : BOOLEAN, got : 0..issued]
  /\ lost \in BOOLEAN /\ DOMAIN xJob = {Agent} /\ DOMAIN Job = JobFields
  /\ Job.refresh \in 0..issued /\ Job.got \in 0..issued

\* Unless a token was lost, the agent never finds its token refused.
AgentIsServed ==
  /\ Job.pc \in {"idle", "expired", "refreshed", "rejected", "ready", "saving"}
  /\ Job.pc = "refreshed" => Job.got \in valid
  /\ ~lost => Job.pc # "rejected" /\ (Job.pc = "expired" => Job.refresh \in valid)

\* The token of a callback is nobody else's, and a connection that it loaded as active is
\* active.
CallbackIsAlone ==
  exchange.pc = "exchanged" =>
    /\ exchange.got \in valid /\ exchange.got # refresh
    /\ Job.pc = "expired" => exchange.got # Job.refresh
    /\ Job.pc = "refreshed" => exchange.got # Job.got
    /\ ~lost /\ exchange.active => active

ConnectionKept ==
  /\ active => xWanted = "connected"
  /\ ~lost => /\ xWanted = "connected" => active
              /\ active => refresh \in valid \/ Job.pc = "refreshed"

ConnectionInv == ConnectionTypes /\ AgentIsServed /\ CallbackIsAlone /\ ConnectionKept

LEMMA ConnectionInit == Bookmarks!Init => ConnectionInv
<1> SUFFICES ASSUME Bookmarks!Init PROVE ConnectionInv
  OBVIOUS
<1>1. /\ issued = 1 /\ valid = {1} /\ refresh = 1 /\ lost = FALSE /\ active = TRUE
      /\ exchange = [pc |-> "idle", active |-> FALSE, got |-> 0] /\ xWanted = "connected"
      /\ DOMAIN xJob = {Agent} /\ Job = Bookmarks!Idle
  BY DEF Bookmarks!Init, Bookmarks!NoExchange, Job
<1>2. /\ DOMAIN Job = JobFields /\ Job.pc = "idle" /\ Job.refresh = 0 /\ Job.got = 0
  BY <1>1 DEF Bookmarks!Idle, JobFields
<1>3. exchange \in [pc : {"idle", "exchanged"}, active : BOOLEAN, got : 0..issued]
  <2>1. exchange = [pc |-> "idle", active |-> FALSE, got |-> 0] /\ 0 \in 0..issued
    BY <1>1
  <2> QED BY <2>1
<1>4. ConnectionTypes
  <2>1. active \in BOOLEAN /\ lost \in BOOLEAN /\ xWanted \in {"connected", "disconnected"}
    BY <1>1, Zenon
  <2>2. issued \in Nat /\ valid \subseteq 1..issued /\ refresh \in 0..issued /\ 0 \in 0..issued
    BY <1>1
  <2> QED BY <1>1, <1>2, <1>3, <2>1, <2>2, Zenon DEF ConnectionTypes
<1>5. AgentIsServed
  BY <1>1, <1>2 DEF AgentIsServed
<1>6. CallbackIsAlone
  BY <1>1 DEF CallbackIsAlone
<1>7. ConnectionKept
  BY <1>1 DEF ConnectionKept
<1> QED BY <1>4, <1>5, <1>6, <1>7 DEF ConnectionInv

LEMMA ConnectionSound == ConnectionInv => Bookmarks!DisconnectHolds /\ Bookmarks!GrantKept
  BY DEF ConnectionInv, ConnectionTypes, AgentIsServed, ConnectionKept, Job,
         Bookmarks!DisconnectHolds, Bookmarks!GrantKept

\* What neither the user nor the provider does leaves the connection as it is.
LEMMA JobGoesOn ==
  ASSUME ConnectionInv, UNCHANGED <<valid, issued, active, refresh, exchange, xWanted>>,
         DOMAIN xJob' = {Agent}, DOMAIN xJob'[Agent] = JobFields,
         xJob'[Agent].refresh \in 0..issued, xJob'[Agent].got \in 0..issued,
         xJob'[Agent].pc \in {"idle", "expired", "ready", "saving"},
         lost' \in BOOLEAN, lost => lost',
         ~lost' /\ Job.pc = "refreshed" => refresh \in valid,
         xJob'[Agent].pc = "expired" =>
           /\ ~lost' => xJob'[Agent].refresh \in valid
           /\ exchange.pc = "exchanged" => exchange.got # xJob'[Agent].refresh
  PROVE  ConnectionInv'
  BY DEF ConnectionInv, ConnectionTypes, AgentIsServed, CallbackIsAlone, ConnectionKept, Job

LEMMA AgentStops ==
  ASSUME ConnectionInv, Bookmarks!Stop(Agent),
         lost' \in BOOLEAN, lost => lost', Job.pc = "refreshed" => lost',
         UNCHANGED <<valid, issued, active, refresh, exchange, xWanted>>
  PROVE  ConnectionInv'
<1>1. /\ DOMAIN xJob' = {Agent} /\ DOMAIN xJob'[Agent] = JobFields
      /\ xJob'[Agent].refresh = 0 /\ xJob'[Agent].got = 0 /\ xJob'[Agent].pc = "idle"
  BY DEF Bookmarks!Stop, Bookmarks!Idle, ConnectionInv, ConnectionTypes, JobFields
<1>2. 0 \in 0..issued
  BY DEF ConnectionInv, ConnectionTypes
<1> QED BY <1>1, <1>2, JobGoesOn

LEMMA BookmarkStep ==
  ASSUME ConnectionInv, NEW t,
         Bookmarks!Bookmark(t) \/ Bookmarks!RemoveBookmark(t) \/ Bookmarks!BookmarkAgain(t)
  PROVE  ConnectionInv'
<1>1. UNCHANGED <<valid, issued, lost, active, refresh, exchange, xWanted, xJob>>
  BY DEF Bookmarks!Bookmark, Bookmarks!RemoveBookmark, Bookmarks!BookmarkAgain,
         Bookmarks!connection, Bookmarks!user
<1> QED
  BY <1>1 DEF ConnectionInv, ConnectionTypes, AgentIsServed, CallbackIsAlone, ConnectionKept, Job

LEMMA UserStep ==
  ASSUME ConnectionInv,
         \/ Bookmarks!TokenExpires \/ Bookmarks!BeginExchange \/ Bookmarks!CommitExchange
         \/ Bookmarks!Disconnect
  PROVE  ConnectionInv'
<1> USE DEF ConnectionInv, ConnectionTypes, AgentIsServed, CallbackIsAlone, ConnectionKept, Job
<1>1. CASE Bookmarks!TokenExpires
  BY <1>1 DEF Bookmarks!TokenExpires, Bookmarks!provider, Bookmarks!user
<1>2. CASE Bookmarks!BeginExchange
  <2>1. /\ issued' = issued + 1 /\ valid' = valid \cup {issued + 1}
        /\ exchange' = [pc |-> "exchanged", active |-> active, got |-> issued + 1]
        /\ UNCHANGED <<lost, active, refresh, xWanted, xJob>>
    BY <1>2 DEF Bookmarks!BeginExchange, Bookmarks!connection
  <2>2. exchange' \in [pc : {"idle", "exchanged"}, active : BOOLEAN, got : 0..(issued + 1)]
    BY <2>1
  <2>3. /\ exchange'.got = issued + 1 /\ exchange'.active = active
    BY <2>1
  <2>4. ConnectionTypes'
    BY <2>1, <2>2
  <2>5. AgentIsServed' /\ ConnectionKept'
    BY <2>1
  <2>6. CallbackIsAlone'
    BY <2>1, <2>3
  <2> QED BY <2>4, <2>5, <2>6
<1>3. CASE Bookmarks!CommitExchange
  <2>1. /\ exchange.pc = "exchanged" /\ refresh' = exchange.got /\ xWanted' = "connected"
        /\ active' = Bookmarks!Flush(exchange.active, TRUE, active)
        /\ exchange' = [pc |-> "idle", active |-> FALSE, got |-> 0]
        /\ UNCHANGED <<valid, issued, lost, xJob>>
    BY <1>3 DEF Bookmarks!CommitExchange, Bookmarks!NoExchange, Bookmarks!provider
  <2>2. exchange' \in [pc : {"idle", "exchanged"}, active : BOOLEAN, got : 0..issued]
    BY <2>1
  <2>3. active' \in BOOLEAN /\ (~lost => active')
    BY <2>1 DEF Bookmarks!Flush
  <2>4. ConnectionTypes'
    BY <2>1, <2>2, <2>3
  <2>5. AgentIsServed' /\ ConnectionKept'
    BY <2>1, <2>3
  <2>6. CallbackIsAlone'
    BY <2>1
  <2> QED BY <2>4, <2>5, <2>6
<1>4. CASE Bookmarks!Disconnect
  <2>1. /\ exchange.pc = "idle" /\ refresh' = 0 /\ ~active' /\ active' \in BOOLEAN
        /\ xWanted' = "disconnected" /\ UNCHANGED <<valid, issued, lost, exchange, xJob>>
    BY <1>4 DEF Bookmarks!Disconnect, Bookmarks!provider
  <2> QED BY <2>1
<1> QED BY <1>1, <1>2, <1>3, <1>4

LEMMA AccessTokenStep ==
  ASSUME ConnectionInv,
         \/ \E sync \in BOOLEAN : Bookmarks!Begin(Agent, sync)
         \/ Bookmarks!AskRefresh(Agent) \/ Bookmarks!RefreshLost(Agent)
         \/ Bookmarks!StoreRefresh(Agent) \/ Bookmarks!Deactivate(Agent)
  PROVE  ConnectionInv'
<1>1. ASSUME NEW sync \in BOOLEAN, Bookmarks!Begin(Agent, sync) PROVE ConnectionInv'
  <2>1. /\ Job.pc = "idle" /\ active /\ (~lost => refresh \in valid) /\ refresh \in 0..issued
        /\ UNCHANGED <<valid, issued, lost, active, refresh, exchange, xWanted>>
    BY <1>1 DEF Bookmarks!Begin, Bookmarks!connection, Bookmarks!provider, Bookmarks!user,
                ConnectionInv, ConnectionTypes, ConnectionKept, Job
  <2>2. /\ DOMAIN xJob' = {Agent} /\ DOMAIN xJob'[Agent] = JobFields
        /\ xJob'[Agent].refresh = refresh /\ xJob'[Agent].got = 0
        /\ xJob'[Agent].pc \in {"expired", "ready"}
    BY <1>1 DEF Bookmarks!Begin, Bookmarks!Idle, ConnectionInv, ConnectionTypes, JobFields
  <2>3. exchange.pc = "exchanged" => exchange.got # refresh
    BY DEF ConnectionInv, CallbackIsAlone
  <2>4. 0 \in 0..issued /\ lost \in BOOLEAN
    BY DEF ConnectionInv, ConnectionTypes
  <2> QED BY <2>1, <2>2, <2>3, <2>4, JobGoesOn
<1>2. ASSUME Job.pc = "expired", Bookmarks!Rotate(Job.refresh), lost => lost', lost' \in BOOLEAN,
             UNCHANGED <<active, refresh, exchange, xWanted>>,
             DOMAIN xJob' = {Agent}, DOMAIN xJob'[Agent] = JobFields,
             \/ /\ xJob'[Agent].refresh = Job.refresh /\ xJob'[Agent].got = issued + 1
                /\ xJob'[Agent].pc = "refreshed"
             \/ /\ xJob'[Agent].refresh = 0 /\ xJob'[Agent].got = 0
                /\ xJob'[Agent].pc = "idle" /\ lost'
      PROVE  ConnectionInv'
  <2>1. issued' = issued + 1 /\ valid' = (valid \ {Job.refresh}) \cup {issued + 1}
    BY <1>2 DEF Bookmarks!Rotate
  <2>2. ConnectionTypes'
    <3>0. /\ issued \in Nat /\ valid \subseteq 1..issued /\ refresh \in 0..issued
          /\ exchange.got \in 0..issued /\ Job.refresh \in 0..issued
      BY DEF ConnectionInv, ConnectionTypes
    <3>1. /\ issued' \in Nat /\ valid' \subseteq 1..issued' /\ refresh' \in 0..issued'
          /\ exchange.got \in 0..issued'
      <4>1. refresh' = refresh
        BY <1>2
      <4>2. issued' \in Nat /\ 1..issued \subseteq 1..issued' /\ issued + 1 \in 1..issued'
        BY <2>1, <3>0
      <4>3. valid' \subseteq 1..issued'
        BY <2>1, <3>0, <4>2
      <4> QED BY <2>1, <3>0, <4>1, <4>2, <4>3
    <3>2. exchange' \in [pc : {"idle", "exchanged"}, active : BOOLEAN, got : 0..issued']
      <4>1. exchange \in [pc : {"idle", "exchanged"}, active : BOOLEAN, got : 0..issued]
        BY DEF ConnectionInv, ConnectionTypes
      <4>2. 0..issued \subseteq 0..issued' /\ exchange' = exchange
        BY <1>2, <2>1, <3>0
      <4> QED BY <4>1, <4>2
    <3>3. xJob'[Agent].refresh \in 0..issued' /\ xJob'[Agent].got \in 0..issued'
      BY <1>2, <2>1, <3>0
    <3>4. active' \in BOOLEAN /\ xWanted' \in {"connected", "disconnected"}
      BY <1>2 DEF ConnectionInv, ConnectionTypes
    <3> QED BY <1>2, <3>1, <3>2, <3>3, <3>4, Zenon DEF ConnectionTypes, Job
  <2>3. AgentIsServed' /\ ConnectionKept'
    BY <1>2, <2>1 DEF ConnectionInv, AgentIsServed, ConnectionKept, Job
  <2>4. CallbackIsAlone'
    BY <1>2, <2>1 DEF ConnectionInv, ConnectionTypes, CallbackIsAlone, Job
  <2> QED BY <2>2, <2>3, <2>4 DEF ConnectionInv
<1>3. CASE Bookmarks!AskRefresh(Agent)
  <2>1. Job.pc = "expired" /\ UNCHANGED <<lost, active, refresh, exchange, xWanted>>
    BY <1>3 DEF Bookmarks!AskRefresh, Bookmarks!connection, Bookmarks!user, Job
  <2>2. CASE /\ Bookmarks!Rotate(Job.refresh)
             /\ xJob' = [xJob EXCEPT ![Agent].pc = "refreshed", ![Agent].got = issued + 1]
    <3>1. /\ DOMAIN xJob' = {Agent} /\ DOMAIN xJob'[Agent] = JobFields
          /\ xJob'[Agent].refresh = Job.refresh /\ xJob'[Agent].got = issued + 1
          /\ xJob'[Agent].pc = "refreshed"
      BY <2>2 DEF ConnectionInv, ConnectionTypes, Job, JobFields
    <3>2. lost \in BOOLEAN
      BY DEF ConnectionInv, ConnectionTypes
    <3> QED BY <1>2, <2>1, <2>2, <3>1, <3>2
  <2>3. CASE /\ Job.refresh \notin valid /\ UNCHANGED <<valid, issued>>
             /\ xJob' = [xJob EXCEPT ![Agent].pc = "rejected"]
    <3>1. /\ DOMAIN xJob' = {Agent} /\ DOMAIN xJob'[Agent] = JobFields
          /\ xJob'[Agent].refresh = Job.refresh /\ xJob'[Agent].got = Job.got
          /\ xJob'[Agent].pc = "rejected"
      BY <2>3 DEF ConnectionInv, ConnectionTypes, Job, JobFields
    <3>2. lost
      BY <2>1, <2>3 DEF ConnectionInv, AgentIsServed
    <3> QED
      BY <2>1, <2>3, <3>1, <3>2 DEF ConnectionInv, ConnectionTypes, AgentIsServed,
                                    CallbackIsAlone, ConnectionKept, Job
  <2> QED BY <1>3, <2>2, <2>3 DEF Bookmarks!AskRefresh, Job
<1>4. CASE Bookmarks!RefreshLost(Agent)
  <2>1. /\ Job.pc = "expired" /\ Bookmarks!Rotate(Job.refresh) /\ lost' = TRUE
        /\ UNCHANGED <<active, refresh, exchange, xWanted>> /\ Bookmarks!Stop(Agent)
    BY <1>4 DEF Bookmarks!RefreshLost, Bookmarks!connection, Bookmarks!user, Job
  <2>2. /\ DOMAIN xJob' = {Agent} /\ DOMAIN xJob'[Agent] = JobFields
        /\ xJob'[Agent].refresh = 0 /\ xJob'[Agent].got = 0 /\ xJob'[Agent].pc = "idle"
    BY <2>1 DEF Bookmarks!Stop, Bookmarks!Idle, ConnectionInv, ConnectionTypes, JobFields
  <2> QED BY <1>2, <2>1, <2>2
<1>5. CASE Bookmarks!StoreRefresh(Agent)
  <2>1. /\ Job.pc = "refreshed" /\ refresh' = Job.got
        /\ UNCHANGED <<valid, issued, lost, active, exchange, xWanted>>
        /\ xJob' = [xJob EXCEPT ![Agent].pc = "ready"]
    BY <1>5 DEF Bookmarks!StoreRefresh, Bookmarks!provider, Bookmarks!user, Job
  <2>2. /\ DOMAIN xJob' = {Agent} /\ DOMAIN xJob'[Agent] = JobFields
        /\ xJob'[Agent].refresh = Job.refresh /\ xJob'[Agent].got = Job.got
        /\ xJob'[Agent].pc = "ready"
    BY <2>1 DEF ConnectionInv, ConnectionTypes, Job, JobFields
  <2> QED
    BY <2>1, <2>2 DEF ConnectionInv, ConnectionTypes, AgentIsServed, CallbackIsAlone,
                      ConnectionKept, Job
<1>6. CASE Bookmarks!Deactivate(Agent)
  <2>1. /\ Job.pc = "rejected" /\ ~active' /\ active' \in BOOLEAN /\ refresh' = 0
        /\ UNCHANGED <<valid, issued, lost, exchange, xWanted>> /\ Bookmarks!Stop(Agent)
    BY <1>6 DEF Bookmarks!Deactivate, Bookmarks!provider, Bookmarks!user, Job
  <2>2. /\ DOMAIN xJob' = {Agent} /\ DOMAIN xJob'[Agent] = JobFields
        /\ xJob'[Agent].refresh = 0 /\ xJob'[Agent].got = 0 /\ xJob'[Agent].pc = "idle"
    BY <2>1 DEF Bookmarks!Stop, Bookmarks!Idle, ConnectionInv, ConnectionTypes, JobFields
  <2>3. lost
    BY <2>1 DEF ConnectionInv, AgentIsServed
  <2> QED
    BY <2>1, <2>2, <2>3 DEF ConnectionInv, ConnectionTypes, AgentIsServed, CallbackIsAlone,
                            ConnectionKept, Job
<1> QED BY <1>1, <1>3, <1>4, <1>5, <1>6

LEMMA SyncStep ==
  ASSUME ConnectionInv,
         \/ Bookmarks!UseToken(Agent) \/ Bookmarks!Fetch(Agent) \/ Bookmarks!Save(Agent)
         \/ Bookmarks!Finish(Agent) \/ Bookmarks!Fails(Agent) \/ Bookmarks!AgentDies(Agent)
  PROVE  ConnectionInv'
<1>0. lost \in BOOLEAN /\ Job.refresh \in 0..issued /\ Job.got \in 0..issued
  BY DEF ConnectionInv, ConnectionTypes
<1>1. UNCHANGED <<valid, issued, active, refresh, exchange, xWanted>>
  BY DEF Bookmarks!UseToken, Bookmarks!Fetch, Bookmarks!Save, Bookmarks!Finish,
         Bookmarks!Fails, Bookmarks!AgentDies, Bookmarks!LosesToken, Bookmarks!connection,
         Bookmarks!provider, Bookmarks!user
<1>2. CASE \/ Bookmarks!UseToken(Agent) \/ Bookmarks!Finish(Agent)
           \/ Bookmarks!Fails(Agent) \/ Bookmarks!AgentDies(Agent)
  <2>1. /\ Bookmarks!Stop(Agent)
        /\ \/ lost' = lost /\ Job.pc # "refreshed"
           \/ lost' = (lost \/ xJob[Agent].pc = "refreshed")
    BY <1>2 DEF Bookmarks!UseToken, Bookmarks!Finish, Bookmarks!Fails, Bookmarks!AgentDies,
                Bookmarks!LosesToken, Bookmarks!provider, Job
  <2>2. lost' \in BOOLEAN /\ (lost => lost') /\ (Job.pc = "refreshed" => lost')
    <3>1. CASE lost' = lost /\ Job.pc # "refreshed"
      BY <1>0, <3>1
    <3>2. CASE lost' = (lost \/ xJob[Agent].pc = "refreshed")
      BY <1>0, <3>2, Zenon DEF Job
    <3> QED BY <2>1, <3>1, <3>2
  <2> QED BY <1>1, <2>1, <2>2, AgentStops
<1>3. CASE Bookmarks!Fetch(Agent) \/ Bookmarks!Save(Agent)
  <2>1. /\ DOMAIN xJob' = {Agent} /\ DOMAIN xJob'[Agent] = JobFields
        /\ xJob'[Agent].refresh = Job.refresh /\ xJob'[Agent].got = Job.got
        /\ xJob'[Agent].pc = "saving" /\ Job.pc # "refreshed" /\ lost' = lost
    BY <1>3 DEF Bookmarks!Fetch, Bookmarks!Save, Bookmarks!provider, ConnectionInv,
                ConnectionTypes, Job, JobFields
  <2> QED BY <1>0, <1>1, <2>1, JobGoesOn
<1> QED BY <1>2, <1>3

LEMMA ConnectionStep == ConnectionInv /\ [Bookmarks!Next]_xVars => ConnectionInv'
<1> SUFFICES ASSUME ConnectionInv, [Bookmarks!Next]_xVars PROVE ConnectionInv'
  OBVIOUS
<1>1. CASE UNCHANGED xVars
  BY <1>1 DEF xVars, ConnectionInv, ConnectionTypes, AgentIsServed, CallbackIsAlone,
              ConnectionKept, Job
<1>2. CASE Bookmarks!Next
  BY <1>2, BookmarkStep, UserStep, AccessTokenStep, SyncStep DEF Bookmarks!Next, Bookmarks!AgentStep
<1> QED BY <1>1, <1>2

\* With any number of agents that die, the request the user finished last still holds.
LEMMA GrantStep == Grant!DisconnectHolds /\ [Grant!Next]_xVars => Grant!DisconnectHolds'
<1> SUFFICES ASSUME Grant!DisconnectHolds, [Grant!Next]_xVars, xWanted' = "disconnected"
             PROVE  ~active'
  BY DEF Grant!DisconnectHolds
<1> USE DEF Grant!DisconnectHolds
<1>1. CASE UNCHANGED xVars
  BY <1>1 DEF xVars
<1>2. ASSUME NEW t, Grant!Bookmark(t) \/ Grant!RemoveBookmark(t) \/ Grant!BookmarkAgain(t)
      PROVE  ~active'
  BY <1>2 DEF Grant!Bookmark, Grant!RemoveBookmark, Grant!BookmarkAgain, Grant!connection,
              Grant!user
<1>3. CASE Grant!TokenExpires \/ Grant!BeginExchange \/ Grant!CommitExchange \/ Grant!Disconnect
  BY <1>3 DEF Grant!TokenExpires, Grant!BeginExchange, Grant!CommitExchange, Grant!Disconnect,
              Grant!connection, Grant!user
<1>4. ASSUME NEW a, NEW sync, Grant!Begin(a, sync) PROVE ~active'
  BY <1>4 DEF Grant!Begin, Grant!connection, Grant!user
<1>5. ASSUME NEW a,
             Grant!AgentStep(a) \/ Grant!RefreshLost(a) \/ Grant!Fails(a) \/ Grant!AgentDies(a)
      PROVE  ~active'
  BY <1>5 DEF Grant!AgentStep, Grant!AskRefresh, Grant!StoreRefresh, Grant!Deactivate,
              Grant!UseToken, Grant!Fetch, Grant!Save, Grant!Finish,
              Grant!RefreshLost, Grant!Fails, Grant!AgentDies, Grant!connection, Grant!user
<1> QED BY <1>1, <1>2, <1>3, <1>4, <1>5 DEF Grant!Next

ConnectionScenes ==
  /\ scene = "bookmarks" => ConnectionInv
  /\ scene = "grant" => Grant!DisconnectHolds

LEMMA ConnectionSceneInit == ServicesInit => ConnectionScenes
  BY ConnectionInit DEF ServicesInit, ConnectionScenes, Grant!Init, Grant!DisconnectHolds

LEMMA ConnectionSceneStep ==
  ConnectionScenes /\ [ServicesNext]_allVars => ConnectionScenes'
<1> SUFFICES ASSUME ConnectionScenes, [ServicesNext]_allVars PROVE ConnectionScenes'
  OBVIOUS
<1>1. UNCHANGED scene
  BY DEF ServicesNext, allVars
<1>2. CASE scene = "bookmarks"
  <2>1. [Bookmarks!Next]_xVars
    BY <1>2 DEF ServicesNext, allVars
  <2> QED BY <1>1, <1>2, <2>1, ConnectionStep DEF ConnectionScenes
<1>3. CASE scene = "grant"
  <2>1. [Grant!Next]_xVars
    BY <1>3 DEF ServicesNext, allVars
  <2> QED BY <1>1, <1>3, <2>1, GrantStep DEF ConnectionScenes
<1> QED BY <1>1, <1>2, <1>3 DEF ConnectionScenes

\* While a user stays connected, an agent that works alone keeps a refresh token that X accepts,
\* stored or about to be stored, whatever token is rotated, forgotten by a disconnect or replaced
\* by a callback in between and whatever sync fails or dies, until a token that X has put in the
\* place of the stored one is itself lost before it is stored; and no sync or lookup, of any number that may die, makes a connection
\* active again after its user disconnected (exchange_x_oauth,
\* disconnect_x_connection, _ensure_valid_access_token, _deactivate_connection_for_reauth).
THEOREM ConnectionIsTheUsers == ServicesSpec => []ConnectionFollowsUser
<1>1. ConnectionScenes => ConnectionFollowsUser
  BY ConnectionSound DEF ConnectionScenes, ConnectionFollowsUser
<1> QED
  BY <1>1, ConnectionSceneInit, ConnectionSceneStep, PTL DEF ServicesSpec


-----------------------------------------------------------------------------
(* Bookmarks: what one agent, whose syncs may fail half way, saves up to its cursor. *)

OnShelf == {shelf[i] : i \in 1..Len(shelf)}
Known == OnShelf \cup saved
Unsaved == OnShelf \ saved

ShelfTypes ==
  /\ shelf \in Seq(1..Posts) /\ saved \subseteq 1..Posts /\ ledger \subseteq saved
  /\ cursor \in Known \cup {0}

\* The newest bookmark is the first one.
NewestFirst == \A i, j \in 1..Len(shelf) : i < j => shelf[j] < shelf[i]

\* Tweets are bookmarked in the order of their numbers and saved in that order too.
InOrder ==
  /\ \A t \in Known, u \in 1..Posts : u < t => u \in Known
  /\ \A t \in saved, u \in Unsaved : t < u

\* A sync finds all that is new in its window.
FitsWindow == Cardinality(Unsaved) <= Window

\* What a sync has yet to save is in its list or came after it was made.
SyncSees ==
  Job.pc = "saving" =>
    /\ Job.todo \in Seq(1..Posts) /\ Job.newest \in Known \cup {0}
    /\ \A i, j \in 1..Len(Job.todo) : i < j => Job.todo[j] < Job.todo[i]
    /\ \A i \in 1..Len(Job.todo) : Job.todo[i] <= Job.newest /\ Job.todo[i] \in Known
    /\ \A u \in Unsaved : u > Job.newest \/ \E i \in 1..Len(Job.todo) : Job.todo[i] = u

JobKeeps == Job.added \subseteq saved /\ (Job.pc # "idle" => Job.cursor = cursor)

CursorIsPassed == \A u \in Unsaved : cursor < u

ShelfInv ==
  /\ ShelfTypes /\ NewestFirst /\ InOrder /\ FitsWindow
  /\ SyncSees /\ JobKeeps /\ CursorIsPassed

LEMMA ShelfInit == Bookmarks!Init => ShelfInv
<1> SUFFICES ASSUME Bookmarks!Init PROVE ShelfInv
  OBVIOUS
<1>1. shelf = << >> /\ saved = {} /\ ledger = {} /\ cursor = 0 /\ Job.pc = "idle" /\ Job.added = {}
  BY DEF Bookmarks!Init, Bookmarks!Idle, Job
<1>2. Len(shelf) = 0 /\ OnShelf = {} /\ Unsaved = {}
  BY <1>1 DEF OnShelf, Unsaved
<1>3. FitsWindow
  BY <1>2, FS_EmptySet, SyncAssumption DEF FitsWindow
<1> QED
  BY <1>1, <1>2, <1>3 DEF ShelfInv, ShelfTypes, NewestFirst, InOrder, SyncSees, JobKeeps,
                          CursorIsPassed, Known

\* The operators of the sequence module, for a shelf.
LEMMA ShelfNumbers ==
  ASSUME ShelfInv
  PROVE  /\ shelf \in Seq(1..Posts) /\ Len(shelf) \in Nat /\ DOMAIN shelf = 1..Len(shelf)
         /\ \A i \in 1..Len(shelf) : shelf[i] \in 1..Posts
         /\ Bookmarks!Bookmarked = OnShelf
         /\ Known \subseteq 1..Posts /\ Unsaved \subseteq 1..Posts
         /\ 1..Posts \subseteq Nat /\ cursor \in Nat
         /\ IsFiniteSet(Unsaved) /\ Cardinality(Unsaved) \in Nat
<1>1. shelf \in Seq(1..Posts) /\ saved \subseteq 1..Posts /\ cursor \in Known \cup {0}
  BY DEF ShelfInv, ShelfTypes
<1>2. Len(shelf) \in Nat /\ DOMAIN shelf = 1..Len(shelf)
  BY <1>1, LenProperties
<1>3. \A i \in 1..Len(shelf) : shelf[i] \in 1..Posts
  BY <1>1, ElementOfSeq
<1>4. Known \subseteq 1..Posts /\ Unsaved \subseteq 1..Posts
  BY <1>1, <1>3 DEF Known, Unsaved, OnShelf
<1>5. Bookmarks!Bookmarked = OnShelf
  BY <1>2 DEF Bookmarks!Bookmarked, Bookmarks!ToSet, OnShelf
<1>6. 1..Posts \subseteq Nat
  BY SyncAssumption
<1>7. IsFiniteSet(1..Posts)
  BY FS_Interval, SyncAssumption
<1>8. IsFiniteSet(Unsaved) /\ Cardinality(Unsaved) \in Nat
  BY <1>4, <1>7, FS_Subset, FS_CardinalityType
<1>9. cursor \in Nat
  BY <1>1, <1>4, <1>6
<1> QED BY <1>1, <1>2, <1>3, <1>4, <1>5, <1>6, <1>8, <1>9

LEMMA ShelfSound == ShelfInv => Bookmarks!NothingPassedOver
<1> SUFFICES ASSUME ShelfInv, NEW t \in OnShelf, t <= cursor PROVE t \in saved
  BY ShelfNumbers DEF Bookmarks!NothingPassedOver
<1>1. t \in Nat /\ cursor \in Nat
  BY ShelfNumbers DEF Known
<1> QED
  BY <1>1 DEF ShelfInv, CursorIsPassed, Unsaved

\* An agent's step that neither fetches nor saves.
LEMMA ShelfStays ==
  ASSUME ShelfInv, UNCHANGED <<shelf, saved>>, ledger' \subseteq saved,
         cursor' \in Known \cup {0}, \A u \in Unsaved : cursor' < u,
         xJob'[Agent].pc # "saving", xJob'[Agent].added \subseteq saved,
         xJob'[Agent].pc # "idle" => xJob'[Agent].cursor = cursor'
  PROVE  ShelfInv'
<1>1. UNCHANGED <<OnShelf, Known, Unsaved>>
  BY DEF OnShelf, Known, Unsaved
<1> QED
  BY <1>1 DEF ShelfInv, ShelfTypes, NewestFirst, InOrder, FitsWindow, SyncSees, JobKeeps,
              CursorIsPassed, Job
LEMMA NewBookmark ==
  ASSUME ShelfInv, NEW t \in 1..Posts, Bookmarks!Bookmark(t)
  PROVE  ShelfInv'
<1>1. /\ t \notin Known /\ \A u \in 1..Posts : u < t => u \in Known
      /\ shelf' = <<t>> \o shelf /\ UNCHANGED <<saved, ledger, cursor, xJob>>
      /\ Cardinality(Unsaved) < Window
  BY ShelfNumbers DEF Bookmarks!Bookmark, Bookmarks!Tweets, Bookmarks!Disturb, Bookmarks!store,
                      Bookmarks!Cardinality, Cardinality, Known, Unsaved
<1>2. \A k \in Known : k < t
  BY <1>1, ShelfNumbers DEF ShelfInv, InOrder
<1>3. /\ shelf' \in Seq(1..Posts) /\ Len(shelf') = Len(shelf) + 1 /\ shelf'[1] = t
      /\ \A i \in 1..Len(shelf) : shelf'[i + 1] = shelf[i]
  <2>1. <<t>> \in Seq(1..Posts) /\ Len(<<t>>) = 1 /\ <<t>>[1] = t
    OBVIOUS
  <2> QED BY <1>1, <2>1, ShelfNumbers, ConcatProperties
<1>4. \A i \in 2..Len(shelf') : i - 1 \in 1..Len(shelf) /\ shelf'[i] = shelf[i - 1]
  BY <1>3, ShelfNumbers
<1>5. OnShelf' = OnShelf \cup {t}
  <2>1. ASSUME NEW u \in OnShelf' PROVE u \in OnShelf \cup {t}
    <3>1. PICK i \in 1..Len(shelf') : shelf'[i] = u
      BY DEF OnShelf
    <3>2. CASE i = 1
      BY <1>3, <3>1, <3>2
    <3>3. CASE i \in 2..Len(shelf')
      BY <1>4, <3>1, <3>3 DEF OnShelf
    <3> QED BY <1>3, <3>1, <3>2, <3>3, ShelfNumbers
  <2>2. ASSUME NEW i \in 1..Len(shelf) PROVE shelf[i] \in OnShelf'
    <3>1. i + 1 \in 1..Len(shelf') /\ shelf'[i + 1] = shelf[i]
      BY <1>3, ShelfNumbers
    <3> QED BY <3>1 DEF OnShelf
  <2>3. 1 \in 1..Len(shelf') /\ shelf'[1] = t
    BY <1>3, ShelfNumbers
  <2>4. t \in OnShelf'
    BY <2>3 DEF OnShelf
  <2> QED BY <2>1, <2>2, <2>4 DEF OnShelf
<1>6. Known' = Known \cup {t} /\ Unsaved' = Unsaved \cup {t} /\ t \notin Unsaved
  BY <1>1, <1>5 DEF Known, Unsaved
<1>7. ShelfTypes'
  BY <1>1, <1>3, <1>6 DEF ShelfInv, ShelfTypes
<1>8. NewestFirst'
  <2> SUFFICES ASSUME NEW i \in 1..Len(shelf'), NEW j \in 1..Len(shelf'), i < j
               PROVE  shelf'[j] < shelf'[i]
    BY DEF NewestFirst
  <2>1. j \in 2..Len(shelf') /\ j - 1 \in 1..Len(shelf) /\ shelf'[j] = shelf[j - 1]
    BY <1>3, <1>4, ShelfNumbers
  <2>2. CASE i = 1
    BY <1>2, <1>3, <2>1, <2>2 DEF Known, OnShelf
  <2>3. CASE i # 1
    <3>1. i - 1 \in 1..Len(shelf) /\ shelf'[i] = shelf[i - 1] /\ i - 1 < j - 1
      BY <1>3, <1>4, <2>3, ShelfNumbers
    <3> QED BY <2>1, <3>1 DEF ShelfInv, NewestFirst
  <2> QED BY <2>2, <2>3
<1>9. InOrder'
  BY <1>1, <1>2, <1>6 DEF ShelfInv, InOrder, Known
<1>10. FitsWindow'
  <2>1. Cardinality(Unsaved \cup {t}) = Cardinality(Unsaved) + 1
    BY <1>6, FS_AddElement, ShelfNumbers
  <2>2. Cardinality(Unsaved) + 1 <= Window
    BY <1>1, ShelfNumbers, SyncAssumption
  <2> QED BY <1>6, <2>1, <2>2 DEF FitsWindow
<1>11. SyncSees' /\ JobKeeps' /\ CursorIsPassed'
  BY <1>1, <1>2, <1>6, ShelfNumbers
     DEF ShelfInv, ShelfTypes, SyncSees, JobKeeps, CursorIsPassed, Job
<1> QED BY <1>7, <1>8, <1>9, <1>10, <1>11 DEF ShelfInv

PositionsOf(t) == {i \in 1..Len(shelf) : shelf[i] = t}

LEMMA OnePosition ==
  ASSUME ShelfInv, NEW k \in 1..Len(shelf)
  PROVE  PositionsOf(shelf[k]) = {k} /\ Bookmarks!Min(PositionsOf(shelf[k])) = k
<1>1. \A i \in 1..Len(shelf) : shelf[i] = shelf[k] => i = k
  BY ShelfNumbers DEF ShelfInv, NewestFirst
<1>2. PositionsOf(shelf[k]) = {k}
  BY <1>1 DEF PositionsOf
<1> QED BY <1>2 DEF Bookmarks!Min

LEMMA OldBookmark ==
  ASSUME ShelfInv, NEW t, Bookmarks!RemoveBookmark(t)
  PROVE  ShelfInv'
<1>1. PICK k \in 1..Len(shelf) : shelf[k] = t
  BY ShelfNumbers DEF Bookmarks!RemoveBookmark, OnShelf
<1>2. t \in saved /\ UNCHANGED <<saved, ledger, cursor, xJob>>
  BY DEF Bookmarks!RemoveBookmark, Bookmarks!store
<1>3. shelf' = SubSeq(shelf, 1, k - 1) \o SubSeq(shelf, k + 1, Len(shelf))
  <2>1. shelf' = Bookmarks!RemoveAt(shelf, IF PositionsOf(t) # {} THEN Bookmarks!Min(PositionsOf(t))
                                                                 ELSE 0)
    BY <1>1 DEF Bookmarks!RemoveBookmark, Bookmarks!RemoveFirst, Bookmarks!SelectInSeq, PositionsOf
  <2> QED BY <1>1, <2>1, OnePosition DEF Bookmarks!RemoveAt
<1>4. /\ shelf' \in Seq(1..Posts) /\ Len(shelf') = Len(shelf) - 1
      /\ \A i \in 1..(Len(shelf) - 1) : shelf'[i] = IF i < k THEN shelf[i] ELSE shelf[i + 1]
  <2> DEFINE before == SubSeq(shelf, 1, k - 1)
             after == SubSeq(shelf, k + 1, Len(shelf))
  <2>1. /\ before \in Seq(1..Posts) /\ Len(before) = k - 1
        /\ \A i \in 1..(k - 1) : before[i] = shelf[i]
    <3>1. \A i \in 1..(k - 1) : shelf[i] \in 1..Posts
      BY ShelfNumbers
    <3> QED BY <3>1, ShelfNumbers, SubSeqProperties
  <2>2. /\ after \in Seq(1..Posts) /\ Len(after) = Len(shelf) - k
        /\ \A i \in 1..(Len(shelf) - k) : after[i] = shelf[k + i]
    <3>1. \A i \in (k + 1)..Len(shelf) : shelf[i] \in 1..Posts
      BY ShelfNumbers
    <3>2. /\ after \in Seq(1..Posts)
          /\ Len(after) = IF k + 1 <= Len(shelf) THEN Len(shelf) - (k + 1) + 1 ELSE 0
          /\ \A i \in 1..(Len(shelf) - (k + 1) + 1) : after[i] = shelf[(k + 1) + i - 1]
      BY <3>1, ShelfNumbers, SubSeqProperties
    <3> HIDE DEF after
    <3>3. \A i \in 1..(Len(shelf) - k) :
            i \in 1..(Len(shelf) - (k + 1) + 1) /\ (k + 1) + i - 1 = k + i
      BY ShelfNumbers
    <3>4. Len(after) = Len(shelf) - k
      <4>1. Len(shelf) \in Nat /\ k \in Nat /\ k <= Len(shelf)
        BY ShelfNumbers
      <4>2. CASE k = Len(shelf)
        BY <3>2, <4>1, <4>2
      <4>3. CASE k < Len(shelf)
        BY <3>2, <4>1, <4>3
      <4> QED BY <4>1, <4>2, <4>3
    <3> QED BY <3>2, <3>3, <3>4
  <2>3. shelf' = before \o after
    BY <1>3
  <2> HIDE DEF before, after
  <2>4. /\ before \o after \in Seq(1..Posts)
        /\ Len(before \o after) = Len(before) + Len(after)
        /\ \A i \in 1..(Len(before) + Len(after)) :
             (before \o after)[i] = IF i <= Len(before) THEN before[i] ELSE after[i - Len(before)]
    BY <2>1, <2>2, ConcatProperties
  <2>5. /\ Len(shelf) \in Nat /\ k \in 1..Len(shelf)
        /\ Len(before) = k - 1 /\ Len(after) = Len(shelf) - k
    BY <2>1, <2>2, ShelfNumbers
  <2>6. ASSUME NEW i \in 1..(Len(shelf) - 1)
        PROVE  shelf'[i] = IF i < k THEN shelf[i] ELSE shelf[i + 1]
    <3>1. i \in 1..(Len(before) + Len(after)) /\ (i <= Len(before) <=> i < k)
      BY <2>5
    <3>2. CASE i < k
      BY <2>1, <2>3, <2>4, <2>5, <3>1, <3>2
    <3>3. CASE ~(i < k)
      <4>1. i - Len(before) \in 1..(Len(shelf) - k) /\ k + (i - Len(before)) = i + 1
        BY <2>5, <3>3
      <4> QED BY <2>2, <2>3, <2>4, <3>1, <3>3, <4>1
    <3> QED BY <3>2, <3>3
  <2>7. shelf' \in Seq(1..Posts)
    BY <2>3, <2>4
  <2>8. Len(shelf') = Len(before) + Len(after)
    BY <2>3, <2>4
  <2>9. Len(shelf') = Len(shelf) - 1
    BY <2>5, <2>8
  <2> QED BY <2>6, <2>7, <2>9
<1>5. OnShelf' = OnShelf \ {t}
  <2>1. ASSUME NEW u \in OnShelf' PROVE u \in OnShelf \ {t}
    <3>1. PICK i \in 1..(Len(shelf) - 1) : shelf'[i] = u
      BY <1>4 DEF OnShelf
    <3>2. \E j \in 1..Len(shelf) : j # k /\ shelf[j] = u
      BY <1>4, <3>1, ShelfNumbers
    <3> QED BY <1>1, <3>2, OnePosition DEF OnShelf, PositionsOf
  <2>2. ASSUME NEW j \in 1..Len(shelf), j # k PROVE shelf[j] \in OnShelf'
    <3>1. PICK i \in 1..(Len(shelf) - 1) : j = IF i < k THEN i ELSE i + 1
      <4>1. CASE j < k
        BY <4>1, ShelfNumbers
      <4>2. CASE j > k
        <5>1. j - 1 \in 1..(Len(shelf) - 1) /\ ~(j - 1 < k) /\ j = (j - 1) + 1
          BY <4>2, ShelfNumbers
        <5> QED BY <5>1
      <4> QED BY <4>1, <4>2, <2>2, ShelfNumbers
    <3> QED BY <1>4, <3>1 DEF OnShelf
  <2> QED BY <1>1, <2>1, <2>2 DEF OnShelf
<1>6. Known' = Known /\ Unsaved' = Unsaved
  BY <1>2, <1>5 DEF Known, Unsaved
<1>7. NewestFirst'
  <2> SUFFICES ASSUME NEW i \in 1..(Len(shelf) - 1), NEW j \in 1..(Len(shelf) - 1), i < j
               PROVE  shelf'[j] < shelf'[i]
    BY <1>4 DEF NewestFirst
  <2>1. /\ shelf'[i] = IF i < k THEN shelf[i] ELSE shelf[i + 1]
        /\ shelf'[j] = IF j < k THEN shelf[j] ELSE shelf[j + 1]
    BY <1>4
  <2>2. /\ i \in 1..Len(shelf) /\ i + 1 \in 1..Len(shelf)
        /\ j \in 1..Len(shelf) /\ j + 1 \in 1..Len(shelf)
    BY ShelfNumbers
  <2>3. \A a, b \in 1..Len(shelf) : a < b => shelf[b] < shelf[a]
    BY DEF ShelfInv, NewestFirst
  <2>4. CASE j < k
    BY <2>1, <2>2, <2>3, <2>4
  <2>5. CASE ~(j < k) /\ i < k
    <3>1. i < j + 1
      OBVIOUS
    <3> QED BY <2>1, <2>2, <2>3, <2>5, <3>1
  <2>6. CASE ~(i < k)
    <3>1. i + 1 < j + 1 /\ ~(j < k)
      BY <2>6
    <3> QED BY <2>1, <2>2, <2>3, <2>6, <3>1
  <2> QED BY <2>4, <2>5, <2>6
<1> QED
  BY <1>2, <1>4, <1>6, <1>7 DEF ShelfInv, ShelfTypes, InOrder, FitsWindow, SyncSees, JobKeeps,
                                CursorIsPassed, Job

\* Everything that is unsaved lies in the first window of a list that begins with the newest.
LEMMA WindowReaches ==
  ASSUME ShelfInv, NEW i \in 1..Len(shelf), shelf[i] \in Unsaved
  PROVE  i <= Window
<1>1. \A k \in 1..i : shelf[k] \in Unsaved
  <2> SUFFICES ASSUME NEW k \in 1..i, shelf[k] \in saved PROVE FALSE
    BY ShelfNumbers DEF Unsaved, OnShelf
  <2>1. k \in 1..Len(shelf) /\ shelf[k] < shelf[i]
    BY ShelfNumbers DEF ShelfInv, InOrder
  <2>2. k = i \/ shelf[i] < shelf[k]
    BY <2>1, ShelfNumbers DEF ShelfInv, NewestFirst
  <2> QED BY <2>1, <2>2, ShelfNumbers
<1> DEFINE place == [k \in 1..i |-> shelf[k]]
<1>2. place \in Injection(1..i, Unsaved)
  <2>1. place \in [1..i -> Unsaved]
    BY <1>1
  <2>2. \A a, b \in 1..i : place[a] = place[b] => a = b
    <3> SUFFICES ASSUME NEW a \in 1..i, NEW b \in 1..i, shelf[a] = shelf[b] PROVE a = b
      OBVIOUS
    <3>1. a \in 1..Len(shelf) /\ b \in 1..Len(shelf)
      BY ShelfNumbers
    <3>2. PositionsOf(shelf[a]) = {a} /\ b \in PositionsOf(shelf[a])
      BY <3>1, OnePosition DEF PositionsOf
    <3> QED BY <3>2
  <2> QED BY <2>1, <2>2 DEF Injection, IsInjective
<1>3. Cardinality(1..i) <= Cardinality(Unsaved) /\ Cardinality(1..i) = i
  <2>1. Cardinality(1..i) <= Cardinality(Unsaved)
    BY <1>2, ShelfNumbers, FS_Injection
  <2>2. Cardinality(1..i) = i
    BY FS_Interval, ShelfNumbers
  <2> QED BY <2>1, <2>2
<1> QED BY <1>3, ShelfNumbers, SyncAssumption DEF ShelfInv, FitsWindow

\* The list of a sync: from the newest bookmark, down to the cursor or to the window's end.
LEMMA FetchStep ==
  ASSUME ShelfInv, ConnectionInv, Bookmarks!Fetch(Agent)
  PROVE  ShelfInv'
<1>1. Job.pc = "ready" /\ UNCHANGED <<shelf, saved, ledger, cursor>> /\ Job.cursor = cursor
  BY DEF Bookmarks!Fetch, Bookmarks!provider, Bookmarks!store, ShelfInv, JobKeeps, Job
<1>2. PICK n \in Nat : /\ n <= Len(shelf)
                       /\ Bookmarks!New(Agent) = SubSeq(shelf, 1, n)
                       /\ \A i \in 1..Len(shelf) : shelf[i] \in Unsaved => i <= n
  <2>1. Bookmarks!New(Agent) =
          IF (IF PositionsOf(cursor) # {} THEN Bookmarks!Min(PositionsOf(cursor)) ELSE 0) = 0
          THEN shelf
          ELSE SubSeq(shelf, 1, (IF PositionsOf(cursor) # {}
                                 THEN Bookmarks!Min(PositionsOf(cursor)) ELSE 0) - 1)
    BY <1>1 DEF Bookmarks!New, Bookmarks!SelectInSeq, PositionsOf, Job
  <2>2. CASE PositionsOf(cursor) = {}
    <3>1. Bookmarks!New(Agent) = shelf /\ shelf = SubSeq(shelf, 1, Len(shelf))
      BY <2>1, <2>2, ShelfNumbers, SubSeqFull
    <3>2. Len(shelf) \in Nat /\ Len(shelf) <= Len(shelf) /\ \A i \in 1..Len(shelf) : i <= Len(shelf)
      BY ShelfNumbers
    <3> QED BY <3>1, <3>2
  <2>3. ASSUME NEW k \in PositionsOf(cursor)
        PROVE  \E n \in Nat : /\ n <= Len(shelf)
                              /\ Bookmarks!New(Agent) = SubSeq(shelf, 1, n)
                              /\ \A i \in 1..Len(shelf) : shelf[i] \in Unsaved => i <= n
    <3>1. k \in 1..Len(shelf) /\ shelf[k] = cursor
      BY <2>3 DEF PositionsOf
    <3>2. Bookmarks!New(Agent) = SubSeq(shelf, 1, k - 1)
      BY <2>1, <3>1, OnePosition
    <3>3. \A i \in 1..Len(shelf) : shelf[i] \in Unsaved => i <= k - 1
      <4> SUFFICES ASSUME NEW i \in 1..Len(shelf), shelf[i] \in Unsaved, k <= i PROVE FALSE
        BY <3>1, ShelfNumbers
      <4>1. shelf[k] < shelf[i]
        BY <3>1 DEF ShelfInv, CursorIsPassed
      <4>2. k = i \/ shelf[i] < shelf[k]
        BY <3>1, ShelfNumbers DEF ShelfInv, NewestFirst
      <4> QED BY <3>1, <4>1, <4>2, ShelfNumbers
    <3>4. k - 1 \in Nat /\ k - 1 <= Len(shelf)
      BY <3>1, ShelfNumbers
    <3> QED BY <3>2, <3>3, <3>4
  <2> QED BY <2>2, <2>3
<1> DEFINE m == IF n < Window THEN n ELSE Window
<1>3. /\ Bookmarks!New(Agent) \in Seq(1..Posts) /\ Len(Bookmarks!New(Agent)) = n
      /\ \A i \in 1..n : Bookmarks!New(Agent)[i] = shelf[i]
  <2>1. \A i \in 1..n : shelf[i] \in 1..Posts
    BY <1>2, ShelfNumbers
  <2> QED BY <1>2, <2>1, ShelfNumbers, SubSeqProperties
<1>4. /\ xJob'[Agent].todo = SubSeq(Bookmarks!New(Agent), 1, m) /\ xJob'[Agent].pc = "saving"
      /\ xJob'[Agent].newest = IF shelf = << >> THEN 0 ELSE Head(shelf)
      /\ xJob'[Agent].added = Job.added /\ xJob'[Agent].cursor = Job.cursor
  BY <1>3 DEF Bookmarks!Fetch, ConnectionInv, ConnectionTypes, Job, JobFields
<1>5. /\ xJob'[Agent].todo \in Seq(1..Posts) /\ Len(xJob'[Agent].todo) = m
      /\ \A i \in 1..m : xJob'[Agent].todo[i] = shelf[i]
      /\ m \in Nat /\ m <= Len(shelf) /\ m <= n
  <2>1. m \in Nat /\ m <= n /\ m <= Len(shelf)
    BY <1>2, SyncAssumption, ShelfNumbers
  <2>2. \A i \in 1..m : Bookmarks!New(Agent)[i] \in 1..Posts /\ Bookmarks!New(Agent)[i] = shelf[i]
    BY <1>2, <1>3, <2>1, ShelfNumbers
  <2> HIDE DEF m
  <2>3. /\ SubSeq(Bookmarks!New(Agent), 1, m) \in Seq(1..Posts)
        /\ Len(SubSeq(Bookmarks!New(Agent), 1, m)) = IF 1 <= m THEN m - 1 + 1 ELSE 0
        /\ \A i \in 1..(m - 1 + 1) :
             SubSeq(Bookmarks!New(Agent), 1, m)[i] = Bookmarks!New(Agent)[1 + i - 1]
    BY <2>1, <2>2, SubSeqProperties
  <2>4. \A i \in 1..m : i \in 1..(m - 1 + 1) /\ 1 + i - 1 = i
    BY <2>1
  <2>5. (IF 1 <= m THEN m - 1 + 1 ELSE 0) = m
    BY <2>1
  <2> QED BY <1>4, <2>1, <2>2, <2>3, <2>4, <2>5
<1>6. /\ xJob'[Agent].newest \in Known \cup {0}
      /\ \A i \in 1..Len(shelf) : shelf[i] <= xJob'[Agent].newest
  <2>1. CASE shelf = << >>
    BY <1>4, <2>1
  <2>2. CASE shelf # << >>
    <3>1. 1 \in 1..Len(shelf) /\ xJob'[Agent].newest = shelf[1]
      BY <1>4, <2>2, ShelfNumbers, HeadTailProperties
    <3>2. \A i \in 1..Len(shelf) : i = 1 \/ shelf[i] < shelf[1]
      BY <3>1, ShelfNumbers DEF ShelfInv, NewestFirst
    <3> QED BY <3>1, <3>2, ShelfNumbers DEF Known, OnShelf
  <2> QED BY <2>1, <2>2
<1>7. \A i \in 1..Len(shelf) : shelf[i] \in Unsaved => i \in 1..m
  BY <1>2, <1>5, WindowReaches, ShelfNumbers, SyncAssumption
<1>8. UNCHANGED <<OnShelf, Known, Unsaved>>
  BY <1>1 DEF OnShelf, Known, Unsaved
<1> HIDE DEF m
<1>9. SyncSees'
  <2>1. \A i, j \in 1..m : i < j => shelf[j] < shelf[i]
    BY <1>5, ShelfNumbers DEF ShelfInv, NewestFirst
  <2>2. \A i \in 1..m : i \in 1..Len(shelf) /\ shelf[i] \in Known
    BY <1>5, ShelfNumbers DEF Known, OnShelf
  <2>3. \A u \in Unsaved : \E i \in 1..m : xJob'[Agent].todo[i] = u
    BY <1>5, <1>7 DEF Unsaved, OnShelf
  <2> QED BY <1>5, <1>6, <1>8, <2>1, <2>2, <2>3 DEF SyncSees, Job
<1>10. JobKeeps'
  BY <1>1, <1>4 DEF ShelfInv, JobKeeps, Job
<1> QED
  BY <1>1, <1>8, <1>9, <1>10 DEF ShelfInv, ShelfTypes, NewestFirst, InOrder, FitsWindow,
                                 CursorIsPassed

\* The oldest tweet of the list becomes a content, if it is none yet.
LEMMA SaveStep ==
  ASSUME ShelfInv, ConnectionInv, Bookmarks!Save(Agent)
  PROVE  ShelfInv'
<1> DEFINE todo == Job.todo
           last == Len(todo)
           t == todo[last]
<1>1. /\ Job.pc = "saving" /\ todo # << >> /\ UNCHANGED <<shelf, cursor>>
      /\ IF t \in ledger THEN UNCHANGED <<saved, ledger>>
         ELSE saved' = saved \cup {t} /\ ledger' = ledger \cup Job.added
  BY DEF Bookmarks!Save, Bookmarks!provider, Bookmarks!Last, Job
<1>2. /\ xJob'[Agent].todo = SubSeq(todo, 1, last - 1) /\ xJob'[Agent].pc = "saving"
      /\ xJob'[Agent].newest = Job.newest /\ xJob'[Agent].cursor = Job.cursor
      /\ xJob'[Agent].added = Job.added \cup {t}
  BY DEF Bookmarks!Save, Bookmarks!Last, Bookmarks!Front, ConnectionInv, ConnectionTypes, Job,
         JobFields
<1>3. /\ todo \in Seq(1..Posts) /\ last \in Nat \ {0}
      /\ \A i \in 1..last : todo[i] \in 1..Posts
      /\ \A i \in 1..last : todo[i] <= Job.newest /\ todo[i] \in Known
      /\ \A i, j \in 1..last : i < j => todo[j] < todo[i]
      /\ \A u \in Unsaved : u > Job.newest \/ \E i \in 1..last : todo[i] = u
      /\ Job.newest \in Known \cup {0}
  <2>1. /\ todo \in Seq(1..Posts)
        /\ \A i \in 1..last : todo[i] <= Job.newest /\ todo[i] \in Known
        /\ \A i, j \in 1..last : i < j => todo[j] < todo[i]
        /\ \A u \in Unsaved : u > Job.newest \/ \E i \in 1..last : todo[i] = u
        /\ Job.newest \in Known \cup {0}
    BY <1>1 DEF ShelfInv, SyncSees
  <2>2. last \in Nat /\ last # 0
    BY <1>1, <2>1, LenProperties, EmptySeq
  <2>3. \A i \in 1..last : todo[i] \in 1..Posts
    BY <2>1, ElementOfSeq
  <2> QED BY <2>1, <2>2, <2>3
<1> HIDE DEF todo, last
<1>4. t \in 1..Posts /\ t \in Known /\ saved' = saved \cup {t} /\ saved' \subseteq 1..Posts
  <2>1. t \in 1..Posts /\ t \in Known
    BY <1>3
  <2>2. t \in ledger => t \in saved
    BY DEF ShelfInv, ShelfTypes
  <2> QED BY <1>1, <2>1, <2>2 DEF ShelfInv, ShelfTypes
<1>5. /\ ledger' \subseteq saved' /\ xJob'[Agent].added \subseteq saved'
  BY <1>1, <1>2, <1>4 DEF ShelfInv, ShelfTypes, JobKeeps
<1>6. Known' = Known /\ Unsaved' = Unsaved \ {t} /\ OnShelf' = OnShelf
  BY <1>1, <1>4 DEF Known, Unsaved, OnShelf
<1>7. \A u \in Unsaved' : t < u
  <2> SUFFICES ASSUME NEW u \in Unsaved, u # t PROVE t < u
    BY <1>6
  <2>0. u \in Nat /\ t \in Nat /\ Job.newest \in Nat
    BY <1>3, <1>4, ShelfNumbers
  <2>1. CASE u > Job.newest
    <3>1. t <= Job.newest
      BY <1>3
    <3> QED BY <2>0, <2>1, <3>1
  <2>2. CASE \E i \in 1..last : todo[i] = u
    <3>1. PICK i \in 1..last : todo[i] = u
      BY <2>2
    <3>2. i < last
      BY <1>3, <3>1
    <3> QED BY <1>3, <3>1, <3>2
  <2> QED BY <1>3, <2>1, <2>2
<1>8. /\ xJob'[Agent].todo \in Seq(1..Posts) /\ Len(xJob'[Agent].todo) = last - 1
      /\ \A i \in 1..(last - 1) : i \in 1..last /\ xJob'[Agent].todo[i] = todo[i]
  <2>1. \A i \in 1..(last - 1) : i \in 1..last /\ todo[i] \in 1..Posts
    BY <1>3
  <2>2. /\ SubSeq(todo, 1, last - 1) \in Seq(1..Posts)
        /\ Len(SubSeq(todo, 1, last - 1)) = IF 1 <= last - 1 THEN last - 1 - 1 + 1 ELSE 0
        /\ \A i \in 1..(last - 1 - 1 + 1) : SubSeq(todo, 1, last - 1)[i] = todo[1 + i - 1]
    BY <1>3, <2>1, SubSeqProperties
  <2>3. \A i \in 1..(last - 1) : i \in 1..(last - 1 - 1 + 1) /\ 1 + i - 1 = i
    BY <1>3
  <2>4. (IF 1 <= last - 1 THEN last - 1 - 1 + 1 ELSE 0) = last - 1
    BY <1>3
  <2> QED BY <1>2, <2>1, <2>2, <2>3, <2>4
<1>9. ShelfTypes' /\ NewestFirst' /\ JobKeeps' /\ CursorIsPassed'
  BY <1>1, <1>2, <1>4, <1>5, <1>6
     DEF ShelfInv, ShelfTypes, NewestFirst, JobKeeps, CursorIsPassed, Job
<1>10. InOrder'
  BY <1>4, <1>6, <1>7 DEF ShelfInv, InOrder
<1>11. FitsWindow'
  <2>1. Cardinality(Unsaved \ {t}) <= Cardinality(Unsaved)
    BY ShelfNumbers, FS_Subset
  <2>2. Cardinality(Unsaved \ {t}) \in Nat
    BY ShelfNumbers, FS_Subset, FS_CardinalityType
  <2> QED BY <1>6, <2>1, <2>2, ShelfNumbers, SyncAssumption DEF ShelfInv, FitsWindow
<1>12. SyncSees'
  <2>1. \A u \in Unsaved' : u > Job.newest \/ \E i \in 1..(last - 1) : todo[i] = u
    <3> SUFFICES ASSUME NEW u \in Unsaved, u # t, NEW i \in 1..last, todo[i] = u
                 PROVE  \E k \in 1..(last - 1) : todo[k] = u
      BY <1>3, <1>6
    <3>1. i \in 1..(last - 1)
      BY <1>3
    <3> QED BY <3>1
  <2> QED BY <1>2, <1>3, <1>6, <1>8, <2>1 DEF SyncSees, Job
<1> QED BY <1>9, <1>10, <1>11, <1>12 DEF ShelfInv

LEMMA AgentShelfStep ==
  ASSUME ShelfInv, ConnectionInv,
         \/ \E sync \in BOOLEAN : Bookmarks!Begin(Agent, sync)
         \/ Bookmarks!AgentStep(Agent) \/ Bookmarks!RefreshLost(Agent)
         \/ Bookmarks!Fails(Agent) \/ Bookmarks!AgentDies(Agent)
  PROVE  ShelfInv'
<1>0. /\ Job.added \subseteq saved /\ ledger \subseteq saved /\ cursor \in Known \cup {0}
      /\ \A u \in Unsaved : cursor < u
  BY DEF ShelfInv, ShelfTypes, JobKeeps, CursorIsPassed
<1>1. ASSUME NEW sync \in BOOLEAN, Bookmarks!Begin(Agent, sync) PROVE ShelfInv'
  <2>1. /\ UNCHANGED <<shelf, saved, ledger, cursor>>
        /\ xJob'[Agent].pc \in {"expired", "ready"} /\ xJob'[Agent].added = {}
        /\ xJob'[Agent].cursor = cursor
    BY <1>1 DEF Bookmarks!Begin, Bookmarks!Idle, Bookmarks!provider, Bookmarks!store,
                ConnectionInv, ConnectionTypes
  <2> QED BY <1>0, <2>1, ShelfStays
<1>2. CASE Bookmarks!AskRefresh(Agent) \/ Bookmarks!StoreRefresh(Agent)
  <2>1. /\ UNCHANGED <<shelf, saved, ledger, cursor>> /\ Job.pc # "idle"
        /\ xJob'[Agent].pc \in {"refreshed", "rejected", "ready"}
        /\ xJob'[Agent].added = Job.added /\ xJob'[Agent].cursor = Job.cursor
    BY <1>2 DEF Bookmarks!AskRefresh, Bookmarks!StoreRefresh, Bookmarks!provider,
                Bookmarks!store, ConnectionInv, ConnectionTypes, Job, JobFields
  <2>2. Job.cursor = cursor
    BY <2>1 DEF ShelfInv, JobKeeps
  <2> QED BY <1>0, <2>1, <2>2, ShelfStays
<1>3. CASE Bookmarks!Deactivate(Agent) \/ Bookmarks!UseToken(Agent)
  <2>1. /\ UNCHANGED <<shelf, saved, ledger, cursor>> /\ Bookmarks!Stop(Agent)
    BY <1>3 DEF Bookmarks!Deactivate, Bookmarks!UseToken, Bookmarks!provider, Bookmarks!store
  <2>2. xJob'[Agent].pc = "idle" /\ xJob'[Agent].added = {}
    BY <2>1 DEF Bookmarks!Stop, Bookmarks!Idle, ConnectionInv, ConnectionTypes
  <2> QED BY <1>0, <2>1, <2>2, ShelfStays
<1>4. CASE Bookmarks!Finish(Agent)
  <2>1. /\ UNCHANGED <<shelf, saved>> /\ ledger' = ledger \cup Job.added
        /\ cursor' = IF Job.newest = 0 THEN Job.cursor ELSE Job.newest
        /\ Job.pc = "saving" /\ Job.todo = << >> /\ Bookmarks!Stop(Agent)
    BY <1>4 DEF Bookmarks!Finish, Bookmarks!provider, Job
  <2>2. xJob'[Agent].pc = "idle" /\ xJob'[Agent].added = {}
    BY <2>1 DEF Bookmarks!Stop, Bookmarks!Idle, ConnectionInv, ConnectionTypes
  <2>3. Job.cursor = cursor /\ Job.newest \in Known \cup {0} /\ \A u \in Unsaved : u > Job.newest
    BY <2>1 DEF ShelfInv, JobKeeps, SyncSees
  <2>4. cursor' \in Known \cup {0} /\ \A u \in Unsaved : cursor' < u
    BY <1>0, <2>1, <2>3, ShelfNumbers
  <2> QED BY <1>0, <2>1, <2>2, <2>4, ShelfStays
<1>5. CASE \/ Bookmarks!Fails(Agent) \/ Bookmarks!AgentDies(Agent)
           \/ Bookmarks!RefreshLost(Agent)
  <2>1. /\ UNCHANGED <<shelf, saved, cursor>> /\ ledger' \in {ledger, ledger \cup Job.added}
        /\ Bookmarks!Stop(Agent)
    BY <1>5 DEF Bookmarks!Fails, Bookmarks!AgentDies, Bookmarks!RefreshLost,
                Bookmarks!LosesToken, Bookmarks!store, Job
  <2>2. xJob'[Agent].pc = "idle" /\ xJob'[Agent].added = {}
    BY <2>1 DEF Bookmarks!Stop, Bookmarks!Idle, ConnectionInv, ConnectionTypes
  <2> QED BY <1>0, <2>1, <2>2, ShelfStays
<1> QED
  BY <1>1, <1>2, <1>3, <1>4, <1>5, FetchStep, SaveStep DEF Bookmarks!AgentStep

LEMMA ShelfStep == ShelfInv /\ ConnectionInv /\ [Bookmarks!Next]_xVars => ShelfInv'
<1> SUFFICES ASSUME ShelfInv, ConnectionInv, [Bookmarks!Next]_xVars PROVE ShelfInv'
  OBVIOUS
<1>1. CASE UNCHANGED <<shelf, saved, ledger, cursor, xJob>>
  <2>1. UNCHANGED <<OnShelf, Known, Unsaved>>
    BY <1>1 DEF OnShelf, Known, Unsaved
  <2> QED
    BY <1>1, <2>1 DEF ShelfInv, ShelfTypes, NewestFirst, InOrder, FitsWindow, SyncSees,
                      JobKeeps, CursorIsPassed, Job
<1>2. CASE UNCHANGED xVars
  BY <1>1, <1>2 DEF xVars
<1>3. CASE \/ Bookmarks!TokenExpires \/ Bookmarks!BeginExchange \/ Bookmarks!CommitExchange
           \/ Bookmarks!Disconnect
  BY <1>1, <1>3 DEF Bookmarks!TokenExpires, Bookmarks!BeginExchange, Bookmarks!CommitExchange,
                    Bookmarks!Disconnect, Bookmarks!provider, Bookmarks!store
<1>4. ASSUME NEW t \in Bookmarks!Tweets,
             Bookmarks!Bookmark(t) \/ Bookmarks!RemoveBookmark(t) \/ Bookmarks!BookmarkAgain(t)
      PROVE  ShelfInv'
  <2>1. ~Bookmarks!BookmarkAgain(t)
    BY DEF Bookmarks!BookmarkAgain, Bookmarks!Disturb
  <2> QED BY <1>4, <2>1, NewBookmark, OldBookmark DEF Bookmarks!Tweets
<1> QED BY <1>2, <1>3, <1>4, AgentShelfStep DEF Bookmarks!Next

LEMMA ShelfSceneStep ==
  ConnectionScenes /\ (scene = "bookmarks" => ShelfInv) /\ [ServicesNext]_allVars
    => (scene = "bookmarks" => ShelfInv)'
<1> SUFFICES ASSUME ConnectionScenes, scene = "bookmarks" => ShelfInv, [ServicesNext]_allVars,
                    scene' = "bookmarks"
             PROVE  ShelfInv'
  OBVIOUS
<1>1. scene = "bookmarks" /\ [Bookmarks!Next]_xVars
  BY DEF ServicesNext, allVars
<1> QED BY <1>1, ShelfStep DEF ConnectionScenes

\* While no more bookmarks come between two syncs than a sync reads pages for, none at or below
\* the cursor is missing from the user's contents: whenever a sync fails between two
\* submissions, whatever is removed, and although a cursor that was removed makes the next sync
\* read from the top (_sync_bookmark_channel, _resolve_last_synced_item_id).
THEOREM NoBookmarkIsPassedOver == ServicesSpec => []NothingPassedOver
<1>1. (scene = "bookmarks" => ShelfInv) => NothingPassedOver
  BY ShelfSound DEF NothingPassedOver
<1>2. ServicesInit => (scene = "bookmarks" => ShelfInv)
  BY ShelfInit DEF ServicesInit
<1> QED
  BY <1>1, <1>2, ConnectionSceneInit, ConnectionSceneStep, ShelfSceneStep, PTL DEF ServicesSpec


-----------------------------------------------------------------------------
(* First minutes: what the app shows, and what completion records. *)

Steps == {"choice", "audio", "loading", "suggestions"}

FirstTypes ==
  /\ step \in Steps /\ shown \in Discoveries \cup {0}
  /\ polling \in Discoveries \cup {0} /\ asking \in Discoveries \cup {0}
  /\ DOMAIN discoveryRun = Discoveries /\ DOMAIN found = Discoveries
  /\ DOMAIN at = Discoveries
  /\ DOMAIN request = {"at", "picks", "left", "ids", "seeds", "session"}
  /\ request.at \in {"none", "sources", "read", "insert", "flag"}
  /\ request.session \in {"open", "closed", "broken"} /\ completed \in BOOLEAN

\* A run that is searched is not completed yet; one that will be has its suggestions.
RunsAnswer ==
  \A r \in Discoveries :
    /\ at[r] = "search" => discoveryRun[r] # "completed"
    /\ discoveryRun[r] = "completed" => found[r] # {} /\ at[r] # "finish"
    /\ at[r] = "finish" => found[r] # {}

\* The app waits for the run that it names.
OneRunAtATime ==
  /\ polling # 0 \/ asking # 0 => step \in {"loading", "suggestions"}
  /\ polling # 0 => polling = shown
  /\ asking # 0 => asking = shown
  /\ step = "loading" => shown # 0 /\ seen # "completed"

PageShowsRun ==
  step = "suggestions" /\ personalized =>
    shown # 0 /\ discoveryRun[shown] = "completed" /\ offered = found[shown]

SomebodyAsks ==
  step = "loading" => polling # 0 \/ asking # 0 \/ limit \/ seen = "failed" \/ ~resumed

\* A request whose session works has what it has counted.
RequestCounts ==
  /\ completed => request.at = "none" /\ chosen \ missed \subseteq configs \cap asked
  /\ request.at # "none" => chosen = request.picks
  /\ request.at = "sources" =>
       /\ request.ids \subseteq configs /\ missed \cap request.left = {}
       /\ request.session # "broken" => request.picks \ missed \subseteq request.left \cup request.ids
  /\ request.at \in {"read", "insert", "flag"} /\ request.session # "broken" =>
       request.picks \ missed \subseteq configs \cap asked

FirstInv ==
  FirstTypes /\ RunsAnswer /\ OneRunAtATime /\ PageShowsRun /\ SomebodyAsks /\ RequestCounts

LEMMA FirstInit == FirstMinutes!Init => FirstInv
<1> SUFFICES ASSUME FirstMinutes!Init PROVE FirstInv
  OBVIOUS
<1> USE DEF FirstMinutes!Init
<1>1. FirstTypes
  BY DEF FirstTypes, FirstMinutes!NoRequest, Steps
<1>2. RunsAnswer
  BY DEF RunsAnswer
<1>3. OneRunAtATime /\ PageShowsRun /\ SomebodyAsks
  BY DEF OneRunAtATime, PageShowsRun, SomebodyAsks
<1>4. RequestCounts
  BY DEF RequestCounts, FirstMinutes!NoRequest
<1> QED BY <1>1, <1>2, <1>3, <1>4 DEF FirstInv

LEMMA FirstSound ==
  FirstInv => FirstMinutes!OnboardedWithSources /\ FirstMinutes!DiscoveryAnswers
<1> SUFFICES ASSUME FirstInv
             PROVE  FirstMinutes!OnboardedWithSources /\ FirstMinutes!DiscoveryAnswers
  OBVIOUS
<1>1. FirstMinutes!OnboardedWithSources
  BY DEF FirstInv, RequestCounts, FirstMinutes!OnboardedWithSources
<1>2. FirstMinutes!DiscoveryAnswers
  BY DEF FirstInv, RunsAnswer, PageShowsRun, SomebodyAsks, FirstMinutes!DiscoveryAnswers,
         FirstMinutes!OffersRetry
<1> QED BY <1>1, <1>2

\* The app moves; runs, tasks and the subscriptions stay.
AppMoves == UNCHANGED <<discoveryRun, found, at, request, configs, asked, chosen, completed, missed>>

\* The page it leaves behind: what the app's steps have to show.
PageInv ==
  /\ step \in Steps /\ shown \in Discoveries \cup {0}
  /\ polling \in Discoveries \cup {0} /\ asking \in Discoveries \cup {0}
  /\ OneRunAtATime /\ PageShowsRun /\ SomebodyAsks

LEMMA AppStep == ASSUME FirstInv, AppMoves, PageInv' PROVE FirstInv'
  BY DEF FirstInv, AppMoves, PageInv, FirstTypes, RunsAnswer, RequestCounts

LEMMA ClearStep ==
  ASSUME FirstInv, FirstMinutes!StartPersonalized \/ FirstMinutes!ChooseDefaults
  PROVE  FirstInv'
<1>1. AppMoves
  BY DEF FirstMinutes!StartPersonalized, FirstMinutes!ChooseDefaults, AppMoves,
         FirstMinutes!worker, FirstMinutes!subscription
<1>2. PageInv'
  BY DEF FirstInv, FirstTypes, FirstMinutes!StartPersonalized, FirstMinutes!ChooseDefaults,
         FirstMinutes!Clear, PageInv, OneRunAtATime, PageShowsRun, SomebodyAsks, Steps
<1> QED BY <1>1, <1>2, AppStep

\* What an answer of the server shows.
LEMMA AnswerShown ==
  ASSUME FirstInv, NEW r \in Discoveries, r # 0, r = shown, step \in {"loading", "suggestions"},
         FirstMinutes!ApplyStatus(r), UNCHANGED <<discoveryRun, found, personalized>>
  PROVE  /\ step' \in {"loading", "suggestions"} /\ shown' = r /\ ~limit'
         /\ PageShowsRun'
         /\ step' = "loading" => \/ seen' = "failed"
                                 \/ discoveryRun[r] \notin {"completed", "failed"}
         /\ seen' = discoveryRun[r] /\ (seen' = "completed" => step' = "suggestions")
<1>1. CASE discoveryRun[r] = "completed"
  BY <1>1 DEF FirstMinutes!ApplyStatus, PageShowsRun
<1>2. CASE discoveryRun[r] = "failed"
  BY <1>2 DEF FirstMinutes!ApplyStatus, PageShowsRun
<1>3. CASE discoveryRun[r] \notin {"completed", "failed"}
  <2>1. /\ UNCHANGED <<step, offered>> /\ shown' = shown /\ seen' = discoveryRun[r] /\ ~limit'
    BY <1>3 DEF FirstMinutes!ApplyStatus
  <2> QED BY <1>3, <2>1 DEF PageShowsRun, FirstInv
<1> QED BY <1>1, <1>2, <1>3

LEMMA PollStep ==
  ASSUME FirstInv, FirstMinutes!Poll \/ FirstMinutes!ResumeAnswered
  PROVE  FirstInv'
<1> USE DEF FirstInv, FirstTypes, OneRunAtATime
<1>1. AppMoves /\ UNCHANGED personalized
  BY DEF FirstMinutes!Poll, FirstMinutes!ResumeAnswered, AppMoves, FirstMinutes!worker,
         FirstMinutes!subscription
<1>2. CASE FirstMinutes!Poll
  <2>1. /\ polling \in Discoveries /\ polling # 0 /\ polling = shown
        /\ step \in {"loading", "suggestions"}
        /\ FirstMinutes!ApplyStatus(polling) /\ UNCHANGED <<asking, resumed>>
        /\ polling' = IF discoveryRun[polling] \in {"completed", "failed"} THEN 0 ELSE polling
    BY <1>2 DEF FirstMinutes!Poll, FirstMinutes!Terminal
  <2>2. /\ step' \in {"loading", "suggestions"} /\ shown' = polling /\ ~limit'
        /\ PageShowsRun'
        /\ step' = "loading" => \/ seen' = "failed"
                                \/ discoveryRun[polling] \notin {"completed", "failed"}
        /\ seen' = discoveryRun[polling] /\ (seen' = "completed" => step' = "suggestions")
    BY <1>1, <2>1, AnswerShown DEF AppMoves
  <2>3. SomebodyAsks' /\ OneRunAtATime'
    BY <1>1, <2>1, <2>2 DEF AppMoves, SomebodyAsks
  <2> QED BY <1>1, <2>1, <2>2, <2>3, AppStep DEF PageInv, Steps
<1>3. CASE FirstMinutes!ResumeAnswered
  <2>1. /\ asking \in Discoveries /\ asking # 0 /\ asking = shown
        /\ step \in {"loading", "suggestions"}
        /\ FirstMinutes!ApplyStatus(asking) /\ asking' = 0 /\ UNCHANGED resumed
        /\ polling' = IF seen' \in {"completed", "failed"} \/ limit' THEN polling ELSE asking
    BY <1>3 DEF FirstMinutes!ResumeAnswered, FirstMinutes!PollFromThere, FirstMinutes!Terminal
  <2>2. /\ step' \in {"loading", "suggestions"} /\ shown' = asking /\ ~limit'
        /\ PageShowsRun'
        /\ step' = "loading" => \/ seen' = "failed"
                                \/ discoveryRun[asking] \notin {"completed", "failed"}
        /\ seen' = discoveryRun[asking] /\ (seen' = "completed" => step' = "suggestions")
    BY <1>1, <2>1, AnswerShown DEF AppMoves
  <2>3. SomebodyAsks' /\ OneRunAtATime'
    BY <1>1, <2>1, <2>2 DEF AppMoves, SomebodyAsks
  <2> QED BY <1>1, <2>1, <2>2, <2>3, AppStep DEF PageInv, Steps
<1> QED BY <1>2, <1>3

LEMMA WaitStep ==
  ASSUME FirstInv,
         \/ FirstMinutes!PollTimeout \/ FirstMinutes!ContinueWaiting \/ FirstMinutes!Relaunch
         \/ FirstMinutes!Resume \/ FirstMinutes!ResumeFails
  PROVE  FirstInv'
<1>1. AppMoves
  BY DEF FirstMinutes!PollTimeout, FirstMinutes!ContinueWaiting, FirstMinutes!Relaunch,
         FirstMinutes!Resume, FirstMinutes!ResumeFails, AppMoves, FirstMinutes!worker,
         FirstMinutes!subscription
<1> USE DEF FirstInv, FirstTypes, OneRunAtATime, PageShowsRun, SomebodyAsks, PageInv, Steps,
            AppMoves
<1>2. CASE FirstMinutes!PollTimeout
  BY <1>1, <1>2, AppStep DEF FirstMinutes!PollTimeout
<1>3. CASE FirstMinutes!ContinueWaiting
  BY <1>1, <1>3, AppStep DEF FirstMinutes!ContinueWaiting
<1>4. CASE FirstMinutes!Relaunch
  BY <1>1, <1>4, AppStep DEF FirstMinutes!Relaunch
<1>5. CASE FirstMinutes!Resume
  BY <1>1, <1>5, AppStep DEF FirstMinutes!Resume
<1>6. CASE FirstMinutes!ResumeFails
  BY <1>1, <1>6, AppStep DEF FirstMinutes!ResumeFails, FirstMinutes!PollFromThere,
                             FirstMinutes!Terminal
<1> QED BY <1>2, <1>3, <1>4, <1>5, <1>6

LEMMA CreateStep ==
  ASSUME FirstInv, NEW r \in Discoveries,
         FirstMinutes!BeginDiscovery(r) \/ FirstMinutes!BeginUnanswered(r)
  PROVE  FirstInv'
<1>1. /\ step = "audio" /\ discoveryRun[r] = "none"
      /\ discoveryRun' = [discoveryRun EXCEPT ![r] = "pending"]
      /\ UNCHANGED <<found, at, request, configs, asked, chosen, completed, missed>>
  BY DEF FirstMinutes!BeginDiscovery, FirstMinutes!BeginUnanswered, FirstMinutes!Create,
         FirstMinutes!subscription
<1>2. FirstTypes' /\ OneRunAtATime' /\ PageShowsRun' /\ SomebodyAsks'
  BY <1>1, DiscoveryAssumption
     DEF FirstMinutes!BeginDiscovery, FirstMinutes!BeginUnanswered, FirstMinutes!app, FirstInv,
         FirstTypes, OneRunAtATime, PageShowsRun, SomebodyAsks, Steps
<1>3. RunsAnswer' /\ RequestCounts'
  BY <1>1 DEF FirstInv, FirstTypes, RunsAnswer, RequestCounts
<1> QED BY <1>2, <1>3 DEF FirstInv

LEMMA DiscoverStep ==
  ASSUME FirstInv, NEW r \in Discoveries,
         \/ FirstMinutes!BeginDiscover(r) \/ FirstMinutes!CompleteRun(r)
         \/ FirstMinutes!DiscoveryFails(r) \/ FirstMinutes!DatabaseFails(r)
         \/ FirstMinutes!EndDiscover(r) \/ FirstMinutes!CrashDiscover(r)
         \/ \E suggested \in SUBSET Sources : FirstMinutes!Suggest(r, suggested)
  PROVE  FirstInv'
<1> USE DEF FirstMinutes!BeginDiscover, FirstMinutes!CompleteRun, FirstMinutes!DiscoveryFails,
            FirstMinutes!DatabaseFails, FirstMinutes!EndDiscover, FirstMinutes!CrashDiscover,
            FirstMinutes!Suggest
<1>1. /\ UNCHANGED <<step, personalized, shown, seen, limit, offered, polling, asking, resumed,
                     request, configs, asked, chosen, completed, missed>>
      /\ DOMAIN discoveryRun' = Discoveries /\ DOMAIN found' = Discoveries
      /\ DOMAIN at' = Discoveries
  BY DEF FirstMinutes!app, FirstMinutes!subscription, FirstInv, FirstTypes
<1>2. RunsAnswer'
  BY DEF FirstInv, FirstTypes, RunsAnswer
<1>3. \A d \in Discoveries :
        discoveryRun[d] = "completed" => discoveryRun'[d] = "completed" /\ found'[d] = found[d]
  BY DEF FirstInv, FirstTypes, RunsAnswer
<1>4. FirstTypes' /\ OneRunAtATime' /\ SomebodyAsks' /\ RequestCounts'
  BY <1>1 DEF FirstInv, FirstTypes, OneRunAtATime, SomebodyAsks, RequestCounts
<1>5. PageShowsRun'
  BY <1>1, <1>3 DEF FirstInv, FirstTypes, PageShowsRun
<1> QED BY <1>2, <1>4, <1>5 DEF FirstInv

LEMMA CompletionStep ==
  ASSUME FirstInv,
         \/ \E picked \in SUBSET Sources : FirstMinutes!BeginCompletion(picked)
         \/ \E s \in Sources : \/ FirstMinutes!Configure(s) \/ FirstMinutes!ConfigureFails(s)
                             \/ FirstMinutes!Backfill(s)
         \/ FirstMinutes!AskForBackfill \/ FirstMinutes!ReadSeeds \/ FirstMinutes!InsertSeeds
         \/ FirstMinutes!SeedsFail \/ FirstMinutes!Flag \/ FirstMinutes!CompletionDies
  PROVE  FirstInv'
<1>1. UNCHANGED <<step, personalized, shown, seen, limit, offered, polling, asking, resumed,
                  discoveryRun, found, at>>
  BY DEF FirstMinutes!BeginCompletion, FirstMinutes!Configure, FirstMinutes!ConfigureFails,
         FirstMinutes!Backfill, FirstMinutes!AskForBackfill, FirstMinutes!ReadSeeds,
         FirstMinutes!InsertSeeds, FirstMinutes!SeedsFail, FirstMinutes!Flag, FirstMinutes!CompletionDies, FirstMinutes!app, FirstMinutes!worker
<1>2. RunsAnswer' /\ OneRunAtATime' /\ PageShowsRun' /\ SomebodyAsks'
  BY <1>1 DEF FirstInv, RunsAnswer, OneRunAtATime, PageShowsRun, SomebodyAsks
<1>3. ASSUME /\ DOMAIN request' = {"at", "picks", "left", "ids", "seeds", "session"}
             /\ request'.at \in {"none", "sources", "read", "insert", "flag"}
             /\ request'.session \in {"open", "closed", "broken"} /\ completed' \in BOOLEAN
             /\ RequestCounts'
      PROVE  FirstInv'
  BY <1>1, <1>2, <1>3 DEF FirstInv, FirstTypes
<1> HIDE DEF FirstInv
<1> USE DEF FirstTypes, RequestCounts, FirstMinutes!NoRequest
<1>4. FirstTypes /\ RequestCounts
  BY DEF FirstInv
<1>5. ASSUME NEW picked \in SUBSET Sources, FirstMinutes!BeginCompletion(picked) PROVE FirstInv'
  BY <1>3, <1>4, <1>5 DEF FirstMinutes!BeginCompletion, FirstMinutes!Idle
<1>6. ASSUME NEW s \in Sources, FirstMinutes!Configure(s) \/ FirstMinutes!ConfigureFails(s)
      PROVE  FirstInv'
  <2>1. /\ request.at = "sources" /\ s \in request.left /\ UNCHANGED <<asked, chosen, completed>>
    BY <1>6 DEF FirstMinutes!Configure, FirstMinutes!ConfigureFails
  <2>2. CASE FirstMinutes!Configure(s)
    <3>1. /\ DOMAIN request' = {"at", "picks", "left", "ids", "seeds", "session"}
          /\ request'.at = "sources" /\ request'.picks = request.picks
          /\ request'.left = request.left \ {s} /\ request'.ids = request.ids \cup {s}
          /\ request.session # "broken" /\ request'.session = "open"
          /\ configs' = configs \cup {s} /\ missed' = missed
      BY <1>4, <2>1, <2>2 DEF FirstMinutes!Configure
    <3> QED BY <1>3, <1>4, <2>1, <3>1
  <2>3. CASE FirstMinutes!ConfigureFails(s)
    <3>1. /\ DOMAIN request' = {"at", "picks", "left", "ids", "seeds", "session"}
          /\ request'.at = "sources" /\ request'.picks = request.picks
          /\ request'.left = request.left \ {s} /\ request'.ids = request.ids
          /\ request'.session = IF s \in missed' THEN "closed" ELSE "broken"
      BY <1>4, <2>1, <2>3 DEF FirstMinutes!ConfigureFails
    <3>2. /\ configs \subseteq configs' /\ missed' \in {missed, missed \cup {s}}
          /\ s \in missed' => request.session # "broken"
      BY <1>4, <2>1, <2>3 DEF FirstMinutes!ConfigureFails
    <3>3. CASE s \in missed'
      <4>1. request'.session = "closed" /\ missed' = missed \cup {s}
        BY <3>1, <3>2, <3>3
      <4>2. request'.picks \ missed' \subseteq request'.left \cup request'.ids
        BY <1>4, <2>1, <3>1, <3>2, <3>3, <4>1
      <4>3. request'.ids \subseteq configs' /\ missed' \cap request'.left = {}
        BY <1>4, <2>1, <3>1, <3>2, <4>1
      <4> QED BY <1>3, <1>4, <2>1, <3>1, <4>1, <4>2, <4>3
    <3>4. CASE s \notin missed'
      <4>1. request'.session = "broken" /\ missed' = missed
        BY <3>1, <3>2, <3>4
      <4>2. request'.ids \subseteq configs' /\ missed' \cap request'.left = {}
        BY <1>4, <2>1, <3>1, <3>2, <4>1
      <4> QED BY <1>3, <1>4, <2>1, <3>1, <4>1, <4>2
    <3> QED BY <3>3, <3>4
  <2> QED BY <1>6, <2>2, <2>3
<1>7. ASSUME NEW s \in Sources, FirstMinutes!Backfill(s) PROVE FirstInv'
  BY <1>3, <1>4, <1>7 DEF FirstMinutes!Backfill
<1>8. CASE FirstMinutes!AskForBackfill
  BY <1>3, <1>4, <1>8 DEF FirstMinutes!AskForBackfill
<1>9. CASE FirstMinutes!ReadSeeds
  BY <1>3, <1>4, <1>9 DEF FirstMinutes!ReadSeeds
<1>10. CASE FirstMinutes!InsertSeeds
  BY <1>3, <1>4, <1>10 DEF FirstMinutes!InsertSeeds
<1>11. CASE FirstMinutes!Flag
  BY <1>3, <1>4, <1>11 DEF FirstMinutes!Flag
<1>12. CASE FirstMinutes!CompletionDies
  BY <1>3, <1>4, <1>12 DEF FirstMinutes!CompletionDies
<1>13. CASE FirstMinutes!SeedsFail
  BY <1>3, <1>4, <1>13 DEF FirstMinutes!SeedsFail
<1> QED BY <1>5, <1>6, <1>7, <1>8, <1>9, <1>10, <1>11, <1>12, <1>13

LEMMA FirstStep == FirstInv /\ [FirstMinutes!Next]_firstVars => FirstInv'
<1> SUFFICES ASSUME FirstInv, [FirstMinutes!Next]_firstVars PROVE FirstInv'
  OBVIOUS
<1>1. CASE UNCHANGED firstVars
  BY <1>1 DEF firstVars, FirstInv, FirstTypes, RunsAnswer, OneRunAtATime, PageShowsRun,
              SomebodyAsks, RequestCounts
<1>2. CASE FirstMinutes!Next
  BY <1>2, ClearStep, PollStep, WaitStep, CreateStep, DiscoverStep, CompletionStep
     DEF FirstMinutes!Next
<1> QED BY <1>1, <1>2

LEMMA FirstSceneInit == ServicesInit => FirstInv
  BY FirstInit DEF ServicesInit

LEMMA FirstSceneStep ==
  (scene = "first minutes" => FirstInv) /\ [ServicesNext]_allVars
    => (scene = "first minutes" => FirstInv)'
<1> SUFFICES ASSUME scene = "first minutes" => FirstInv, [ServicesNext]_allVars,
                    scene' = "first minutes"
             PROVE  FirstInv'
  OBVIOUS
<1>1. scene = "first minutes" /\ [FirstMinutes!Next]_firstVars
  BY DEF ServicesNext, allVars
<1> QED BY <1>1, FirstStep

\* A user who is told that onboarding is complete follows every feed of the selection that was
\* answered and had its articles asked for, but those whose own connection failed, although the
\* loop swallows errors and a request that died may be sent again; and the app, killed, resumed or left without an answer as often as the
\* user likes, shows the suggestions of the run it names or has somebody who asks for them
\* (complete_onboarding, OnboardingViewModel, OnboardingDiscoverHandler).
THEOREM NobodyIsLeftWaiting == ServicesSpec => []OnboardedWithSources
<1>1. (scene = "first minutes" => FirstInv) => OnboardedWithSources
  BY FirstSound DEF OnboardedWithSources
<1>2. ServicesInit => (scene = "first minutes" => FirstInv)
  BY FirstSceneInit
<1> QED BY <1>1, <1>2, FirstSceneStep, PTL DEF ServicesSpec

-----------------------------------------------------------------------------
(* Content that must be heard.  MediaInvariant states the inductive invariant; *)
(* here it is proved for both kinds of content and any number of disturbances  *)
(* within the retries, one lemma for each part of it.                          *)

\* The handlers for content of kind K and at most F disturbances.
Media(K, F) == INSTANCE MediaInvariant
  WITH Kind <- K, MaxRetries <- MediaRetries,
       Disturbances <- {"crash", "outage", "handoff"}, MaxFaults <- F,
       status <- mediaStatus, task <- mediaTask, tries <- mediaTries, faults <- mediaFaults

\* What the invariant says, as the steps below use it.
LEMMA MediaFacts ==
  ASSUME NEW K, NEW F, Media(K, F)!Bearable, Media(K, F)!MediaInv
  PROVE  /\ MediaRetries \in Nat \ {0} /\ F \in Nat /\ F <= MediaRetries
         /\ K \in {"podcast", "tweet"} /\ mediaFaults \in Nat /\ mediaFaults <= F
         /\ mediaTask \in [Media(K, F)!Kinds -> {"none", "pending", "running"}]
         /\ pc \in [Media(K, F)!Kinds -> Media(K, F)!Places]
         /\ mem \in [Media(K, F)!Kinds -> Media(K, F)!Copies]
         /\ mediaTries \in [Media(K, F)!Kinds -> Nat]
         /\ (mediaTask["process"] = "running" <=> pc["process"] # "idle")
         /\ (pc["process"] \notin {"idle", "ok", "retry"} \/ mediaTask["process"] = "pending" =>
             Media(K, F)!Going("process"))
         /\ (pc["process"] = "ok" \/ mediaTask["process"] = "none" =>
             ~Media(K, F)!Going("process"))
         /\ (mediaTask["media"] = "running" <=> pc["media"] # "idle")
         /\ (pc["media"] \notin {"idle", "ok", "retry"} \/ mediaTask["media"] = "pending" =>
             Media(K, F)!Going("media"))
         /\ (pc["media"] = "ok" \/ mediaTask["media"] = "none" => ~Media(K, F)!Going("media"))
         /\ (mediaTask["transcribe"] = "running" <=> pc["transcribe"] # "idle")
         /\ (pc["transcribe"] \notin {"idle", "ok", "retry"}
             \/ mediaTask["transcribe"] = "pending" => Media(K, F)!Going("transcribe"))
         /\ (pc["transcribe"] = "ok" \/ mediaTask["transcribe"] = "none" =>
             ~Media(K, F)!Going("transcribe"))
         /\ (mediaTask["summarize"] = "running" <=> pc["summarize"] # "idle")
         /\ (pc["summarize"] \notin {"idle", "ok", "retry"}
             \/ mediaTask["summarize"] = "pending" => Media(K, F)!Going("summarize"))
         /\ (pc["summarize"] = "ok" \/ mediaTask["summarize"] = "none" =>
             ~Media(K, F)!Going("summarize"))
         /\ (mediaTask["process"] = "running" => mediaTask["summarize"] # "running")
         /\ (mediaTask["media"] = "running" => mediaTask["transcribe"] # "running")
BY DEF Media!Bearable, Media!MediaInv, Media!Types, Media!Going, Media!Kinds

\* A handler is never where it cannot be, and each queue has one that runs.
LEMMA MediaTypesStep ==
  ASSUME NEW K, NEW F, Media(K, F)!Bearable, Media(K, F)!MediaInv, Media(K, F)!Next
  PROVE  Media(K, F)!Types'
<1>0. /\ Media(K, F)!Types /\ Media(K, F)!Labelled /\ Media(K, F)!Texts
      /\ Media(K, F)!RetriesArePaid /\ Media(K, F)!SomebodyGoesOn
      /\ (mediaFaults = 0 => Media(K, F)!Undisturbed)
      /\ (mediaFaults < 2 => Media(K, F)!Ordered /\ Media(K, F)!Remembered
          /\ Media(K, F)!WithoutVideo /\ Media(K, F)!Awaited)
      /\ Media(K, F)!Bearable
  BY DEF Media!MediaInv, Media!NothingForgotten
<1> USE <1>0 DEF Media!At, Media!Goto, Media!row, Media!queue, Media!Kinds, Media!Types,
                 Media!Words, Media!Statuses, Media!Settled, Media!Places, Media!Copies,
                 Media!Bearable
<1>1. CASE Media(K, F)!BeginProcess
  BY <1>1 DEF Media!BeginProcess, Media!Begin, Media!Loaded, Media!SameQueue
<1>2. CASE Media(K, F)!BeginMedia
  BY <1>2 DEF Media!BeginMedia, Media!Begin, Media!Loaded, Media!SameQueue, Media!SavedMeanwhile
<1>3. CASE Media(K, F)!BeginDownload
  BY <1>3 DEF Media!BeginDownload, Media!Begin, Media!Loaded, Media!SameQueue
<1>4. CASE Media(K, F)!BeginTranscribe
  BY <1>4 DEF Media!BeginTranscribe, Media!Begin, Media!Loaded, Media!SameQueue
<1>5. CASE Media(K, F)!BeginSummarize(TRUE)
  BY <1>5 DEF Media!BeginSummarize, Media!Begin, Media!Loaded, Media!SameQueue
<1>6. CASE Media(K, F)!BeginSummarize(FALSE)
  BY <1>6 DEF Media!BeginSummarize, Media!Begin, Media!Loaded, Media!SameQueue
<1>7. CASE Media(K, F)!EnqueueDownload
  BY <1>7 DEF Media!EnqueueDownload, Media!HandOff, Media!Enqueue
<1>8. CASE Media(K, F)!EnqueueSummarize
  BY <1>8 DEF Media!EnqueueSummarize, Media!HandOff, Media!Enqueue
<1>9. CASE Media(K, F)!EnqueueMedia
  BY <1>9 DEF Media!EnqueueMedia, Media!HandOff, Media!Enqueue
<1>10. CASE Media(K, F)!EnqueueTranscript
  BY <1>10 DEF Media!EnqueueTranscript, Media!HandOff, Media!Enqueue
<1>11. CASE Media(K, F)!EnqueueTranscribe
  BY <1>11 DEF Media!EnqueueTranscribe, Media!HandOff, Media!Enqueue
<1>12. CASE Media(K, F)!EnqueueText("media")
  <2>1. /\ mediaTask["media"] = "running" /\ pc' = [pc EXCEPT !["media"] = "ok"]
        /\ Media(K, F)!Enqueue("summarize")
        /\ UNCHANGED <<mem, spoken, mediaStatus, text, summary, video, audio, mediaFaults>>
    BY <1>12 DEF Media!EnqueueText, Media!HandOff
  <2> QED BY <2>1 DEF Media!Enqueue
<1>13. CASE Media(K, F)!EnqueueText("transcribe")
  <2>1. /\ mediaTask["transcribe"] = "running" /\ pc' = [pc EXCEPT !["transcribe"] = "ok"]
        /\ Media(K, F)!Enqueue("summarize")
        /\ UNCHANGED <<mem, spoken, mediaStatus, text, summary, video, audio, mediaFaults>>
    BY <1>13 DEF Media!EnqueueText, Media!HandOff
  <2> QED BY <2>1 DEF Media!Enqueue
<1>14. CASE Media(K, F)!EnqueueDownloadFails
  BY <1>14 DEF Media!EnqueueDownloadFails, Media!HandOffFails, Media!Disturb
<1>15. CASE Media(K, F)!EnqueueSummarizeFails
  BY <1>15 DEF Media!EnqueueSummarizeFails, Media!HandOffFails, Media!Disturb
<1>16. CASE Media(K, F)!EnqueueMediaFails
  BY <1>16 DEF Media!EnqueueMediaFails, Media!HandOffFails, Media!Disturb
<1>17. CASE Media(K, F)!EnqueueTranscriptFails
  BY <1>17 DEF Media!EnqueueTranscriptFails, Media!HandOffFails, Media!Disturb
<1>18. CASE Media(K, F)!EnqueueTextFails("media")
  BY <1>18 DEF Media!EnqueueTextFails, Media!HandOffFails, Media!Disturb
<1>19. CASE Media(K, F)!EnqueueTextFails("transcribe")
  BY <1>19 DEF Media!EnqueueTextFails, Media!HandOffFails, Media!Disturb
<1>20. CASE Media(K, F)!Raises("media")
  <2>1. /\ pc' = [pc EXCEPT !["media"] = "degrade"] /\ mediaTask["media"] = "running"
        /\ Media(K, F)!Disturb("outage") \/ Media(K, F)!Disturb("handoff")
        /\ UNCHANGED <<mediaTask, mediaTries, mem, spoken, mediaStatus,
                       text, summary, video, audio>>
    BY <1>20 DEF Media!Raises, Media!HandOffFails
  <2> QED BY <2>1 DEF Media!Disturb
<1>21. CASE Media(K, F)!Raises("transcribe")
  <2>1. /\ pc' = [pc EXCEPT !["transcribe"] = "degrade"] /\ mediaTask["transcribe"] = "running"
        /\ Media(K, F)!Disturb("outage") \/ Media(K, F)!Disturb("handoff")
        /\ UNCHANGED <<mediaTask, mediaTries, mem, spoken, mediaStatus,
                       text, summary, video, audio>>
    BY <1>21 DEF Media!Raises, Media!HandOffFails
  <2> QED BY <2>1 DEF Media!Disturb
<1>22. CASE Media(K, F)!ReadPost
  BY <1>22 DEF Media!ReadPost, Media!Commit, Media!Reusable, Media!Flush
<1>23. CASE Media(K, F)!ReadCaptions
  BY <1>23 DEF Media!ReadCaptions, Media!Commit, Media!Reusable
<1>24. CASE Media(K, F)!SaveEpisode
  BY <1>24 DEF Media!SaveEpisode
<1>25. CASE Media(K, F)!SaveEpisodeAgain
  BY <1>25 DEF Media!SaveEpisodeAgain, Media!Commit, Media!Reusable
<1>26. CASE Media(K, F)!Reject("failed")
  BY <1>26 DEF Media!Reject
<1>27. CASE Media(K, F)!Reject("skipped")
  BY <1>27 DEF Media!Reject
<1>28. CASE Media(K, F)!Report
  BY <1>28 DEF Media!Report
<1>29. CASE Media(K, F)!StoreTranscript
  BY <1>29 DEF Media!StoreTranscript, Media!WriteCopy, Media!Flush, Media!SavedMeanwhile
<1>30. CASE Media(K, F)!MediaFails
  BY <1>30 DEF Media!MediaFails, Media!SavedMeanwhile
<1>31. CASE Media(K, F)!Download
  BY <1>31 DEF Media!Download, Media!WriteCopy, Media!Flush
<1>32. CASE Media(K, F)!Transcribe
  BY <1>32 DEF Media!Transcribe, Media!WriteCopy, Media!Flush
<1>33. CASE Media(K, F)!Unlink
  BY <1>33 DEF Media!Unlink
<1>34. CASE Media(K, F)!Degrade("media")
  BY <1>34 DEF Media!Degrade
<1>35. CASE Media(K, F)!Degrade("transcribe")
  BY <1>35 DEF Media!Degrade
<1>36. CASE Media(K, F)!SkipEmpty
  BY <1>36 DEF Media!SkipEmpty
<1>37. CASE Media(K, F)!ReuseSummary
  BY <1>37 DEF Media!ReuseSummary
<1>38. CASE Media(K, F)!Summarize
  BY <1>38 DEF Media!Summarize
<1>39. CASE Media(K, F)!SummaryFailsForNow
  BY <1>39 DEF Media!SummaryFailsForNow, Media!Disturb
<1>40. CASE Media(K, F)!SummaryFails
  BY <1>40 DEF Media!SummaryFails
<1>41. CASE Media(K, F)!Finalize("process")
  BY <1>41 DEF Media!Finalize, Media!Nothing
<1>42. CASE Media(K, F)!Finalize("media")
  BY <1>42 DEF Media!Finalize, Media!Nothing
<1>43. CASE Media(K, F)!Finalize("transcribe")
  BY <1>43 DEF Media!Finalize, Media!Nothing
<1>44. CASE Media(K, F)!Finalize("summarize")
  BY <1>44 DEF Media!Finalize, Media!Nothing
<1>45. CASE Media(K, F)!Crash("process")
  BY <1>45 DEF Media!Crash, Media!Nothing, Media!Disturb
<1>46. CASE Media(K, F)!Crash("media")
  BY <1>46 DEF Media!Crash, Media!Nothing, Media!Disturb
<1>47. CASE Media(K, F)!Crash("transcribe")
  BY <1>47 DEF Media!Crash, Media!Nothing, Media!Disturb
<1>48. CASE Media(K, F)!Crash("summarize")
  BY <1>48 DEF Media!Crash, Media!Nothing, Media!Disturb
<1> HIDE <1>0 DEF Media!At, Media!Goto, Media!row, Media!queue, Media!Kinds, Media!Types,
                  Media!Words, Media!Statuses, Media!Settled, Media!Places, Media!Copies,
                  Media!Bearable
<1> QED BY <1>1, <1>2, <1>3, <1>4, <1>5, <1>6, <1>7, <1>8, <1>9, <1>10, <1>11, <1>12, <1>13, <1>14,
           <1>15, <1>16, <1>17, <1>18, <1>19, <1>20, <1>21, <1>22, <1>23, <1>24, <1>25, <1>26,
           <1>27, <1>28, <1>29, <1>30, <1>31, <1>32, <1>33, <1>34, <1>35, <1>36, <1>37, <1>38,
           <1>39, <1>40, <1>41, <1>42, <1>43, <1>44, <1>45, <1>46, <1>47, <1>48
   DEF Media!Next, Media!Kinds

\* Podcasts and posts keep to their own handlers.
LEMMA MediaLabelledStep ==
  ASSUME NEW K, NEW F, Media(K, F)!Bearable, Media(K, F)!MediaInv, Media(K, F)!Next
  PROVE  Media(K, F)!Labelled'
<1>0. /\ Media(K, F)!Types /\ Media(K, F)!Labelled /\ Media(K, F)!Texts
      /\ Media(K, F)!RetriesArePaid /\ Media(K, F)!SomebodyGoesOn
      /\ (mediaFaults = 0 => Media(K, F)!Undisturbed)
      /\ (mediaFaults < 2 => Media(K, F)!Ordered /\ Media(K, F)!Remembered
          /\ Media(K, F)!WithoutVideo /\ Media(K, F)!Awaited)
  BY DEF Media!MediaInv, Media!NothingForgotten
<1> USE MediaFacts, <1>0 DEF Media!At, Media!Goto, Media!row, Media!queue, Media!Kinds,
                             Media!Labelled, Media!Tweet
<1>1. CASE \/ Media(K, F)!BeginProcess \/ Media(K, F)!BeginMedia \/ Media(K, F)!BeginDownload
           \/ Media(K, F)!BeginTranscribe \/ Media(K, F)!BeginSummarize(TRUE)
           \/ Media(K, F)!BeginSummarize(FALSE)
  BY <1>1 DEF Media!BeginProcess, Media!Begin, Media!Loaded, Media!SameQueue, Media!BeginMedia,
              Media!SavedMeanwhile, Media!BeginDownload, Media!BeginTranscribe,
              Media!BeginSummarize
<1>2. CASE \/ Media(K, F)!EnqueueDownload \/ Media(K, F)!EnqueueSummarize
           \/ Media(K, F)!EnqueueMedia \/ Media(K, F)!EnqueueTranscript
           \/ Media(K, F)!EnqueueTranscribe \/ Media(K, F)!EnqueueText("media")
           \/ Media(K, F)!EnqueueText("transcribe")
  BY <1>2 DEF Media!EnqueueDownload, Media!HandOff, Media!Enqueue, Media!EnqueueSummarize,
              Media!EnqueueMedia, Media!EnqueueTranscript, Media!EnqueueTranscribe,
              Media!EnqueueText
<1>3. CASE \/ Media(K, F)!EnqueueDownloadFails \/ Media(K, F)!EnqueueSummarizeFails
           \/ Media(K, F)!EnqueueMediaFails \/ Media(K, F)!EnqueueTranscriptFails
           \/ Media(K, F)!EnqueueTextFails("media") \/ Media(K, F)!EnqueueTextFails("transcribe")
           \/ Media(K, F)!Raises("media") \/ Media(K, F)!Raises("transcribe")
  BY <1>3 DEF Media!EnqueueDownloadFails, Media!HandOffFails, Media!Disturb,
              Media!EnqueueSummarizeFails, Media!EnqueueMediaFails, Media!EnqueueTranscriptFails,
              Media!EnqueueTextFails, Media!Raises
<1>4. CASE \/ Media(K, F)!ReadPost \/ Media(K, F)!ReadCaptions \/ Media(K, F)!SaveEpisode
           \/ Media(K, F)!SaveEpisodeAgain \/ Media(K, F)!Reject("failed")
           \/ Media(K, F)!Reject("skipped") \/ Media(K, F)!Report
  BY <1>4 DEF Media!ReadPost, Media!Commit, Media!Reusable, Media!Flush, Media!ReadCaptions,
              Media!SaveEpisode, Media!SaveEpisodeAgain, Media!Reject, Media!Report
<1>5. CASE \/ Media(K, F)!StoreTranscript \/ Media(K, F)!MediaFails \/ Media(K, F)!Download
           \/ Media(K, F)!Transcribe \/ Media(K, F)!Unlink \/ Media(K, F)!Degrade("media")
           \/ Media(K, F)!Degrade("transcribe")
  BY <1>5 DEF Media!StoreTranscript, Media!WriteCopy, Media!Flush, Media!SavedMeanwhile,
              Media!MediaFails, Media!Download, Media!Transcribe, Media!Unlink, Media!Degrade
<1>6. CASE \/ Media(K, F)!SkipEmpty \/ Media(K, F)!ReuseSummary \/ Media(K, F)!Summarize
           \/ Media(K, F)!SummaryFailsForNow \/ Media(K, F)!SummaryFails
  BY <1>6 DEF Media!SkipEmpty, Media!ReuseSummary, Media!Summarize, Media!SummaryFailsForNow,
              Media!Disturb, Media!SummaryFails
<1>7. CASE \/ Media(K, F)!Finalize("process") \/ Media(K, F)!Finalize("media")
           \/ Media(K, F)!Finalize("transcribe") \/ Media(K, F)!Finalize("summarize")
  BY <1>7 DEF Media!Finalize, Media!Nothing
<1>8. CASE \/ Media(K, F)!Crash("process") \/ Media(K, F)!Crash("media")
           \/ Media(K, F)!Crash("transcribe") \/ Media(K, F)!Crash("summarize")
  BY <1>8 DEF Media!Crash, Media!Nothing, Media!Disturb
<1> QED BY <1>1, <1>2, <1>3, <1>4, <1>5, <1>6, <1>7, <1>8 DEF Media!Next

\* No copy that is written back takes a text away.
LEMMA MediaTextsStep ==
  ASSUME NEW K, NEW F, Media(K, F)!Bearable, Media(K, F)!MediaInv, Media(K, F)!Next
  PROVE  Media(K, F)!Texts'
<1>0. /\ Media(K, F)!Types /\ Media(K, F)!Labelled /\ Media(K, F)!Texts
      /\ Media(K, F)!RetriesArePaid /\ Media(K, F)!SomebodyGoesOn
      /\ (mediaFaults = 0 => Media(K, F)!Undisturbed)
      /\ (mediaFaults < 2 => Media(K, F)!Ordered /\ Media(K, F)!Remembered
          /\ Media(K, F)!WithoutVideo /\ Media(K, F)!Awaited)
  BY DEF Media!MediaInv, Media!NothingForgotten
<1> USE MediaFacts, <1>0 DEF Media!At, Media!Goto, Media!row, Media!queue, Media!Kinds,
                             Media!Texts, Media!Full, Media!Tweet, Media!Labelled
<1>1. CASE Media(K, F)!BeginProcess
  <2>1. /\ mediaTask["process"] = "pending" /\ mem'["process"].text = text
        /\ mediaTask'["media"] = mediaTask["media"] /\ pc'["media"] = pc["media"]
        /\ mem'["media"] = mem["media"]
        /\ mediaTask'["transcribe"] = mediaTask["transcribe"]
        /\ pc'["transcribe"] = pc["transcribe"]
        /\ mem'["transcribe"] = mem["transcribe"]
        /\ mediaTask'["summarize"] = mediaTask["summarize"] /\ pc'["summarize"] = pc["summarize"]
        /\ mem'["summarize"] = mem["summarize"]
        /\ pc'["process"] = "extract"
        /\ UNCHANGED <<spoken, mediaStatus, text, summary, video, audio>>
    BY <1>1 DEF Media!BeginProcess, Media!Begin, Media!Loaded
  <2>2. Media(K, F)!Texts /\ Media(K, F)!Labelled
    BY <1>0
  <2> HIDE MediaFacts, <1>0
  <2>3. text' \in {{}, Media(K, F)!Full'} \/ (Media(K, F)!Tweet /\ text' = {"body"})
    BY <2>1, <2>2
  <2>4. ASSUME NEW k \in Media(K, F)!Kinds
        PROVE  \/ mem'[k].text \in {{}, Media(K, F)!Full'}
               \/ Media(K, F)!Tweet /\ mem'[k].text = {"body"}
    BY <2>1, <2>2
  <2>5. Media(K, F)!Tweet =>
          /\ mem'["process"].text \subseteq text'
          /\ pc'["media"] = "fetch" => mem'["media"].text = text'
          /\ pc'["transcribe"] = "hear" => mem'["transcribe"].text = text'
    BY <2>1, <2>2
  <2> QED BY <2>1, <2>2, <2>3, <2>4, <2>5, SMTT(30)
<1>2. CASE Media(K, F)!BeginMedia
  BY <1>2, SMTT(30)
     DEF Media!BeginMedia, Media!Begin, Media!Loaded, Media!SameQueue, Media!SavedMeanwhile
<1>3. CASE Media(K, F)!BeginDownload
  <2>1. /\ mediaTask["media"] = "pending" /\ mem'["media"].text = text /\ K = "tweet"
        /\ mediaTask'["process"] = mediaTask["process"] /\ pc'["process"] = pc["process"]
        /\ mem'["process"] = mem["process"]
        /\ mediaTask'["transcribe"] = mediaTask["transcribe"]
        /\ pc'["transcribe"] = pc["transcribe"]
        /\ mem'["transcribe"] = mem["transcribe"]
        /\ mediaTask'["summarize"] = mediaTask["summarize"] /\ pc'["summarize"] = pc["summarize"]
        /\ mem'["summarize"] = mem["summarize"]
        /\ pc'["media"] \in {"fetch", "summarize"}
        /\ UNCHANGED <<spoken, mediaStatus, text, summary, video, audio>>
    BY <1>3 DEF Media!BeginDownload, Media!Begin, Media!Loaded
  <2>2. Media(K, F)!Texts /\ Media(K, F)!Labelled
    BY <1>0
  <2> HIDE MediaFacts, <1>0
  <2> QED BY <2>1, <2>2, SMTT(30)
<1>4. CASE Media(K, F)!BeginTranscribe
  <2>1. /\ mediaTask["transcribe"] = "pending" /\ mem'["transcribe"].text = text
        /\ mediaTask'["process"] = mediaTask["process"] /\ pc'["process"] = pc["process"]
        /\ mem'["process"] = mem["process"]
        /\ mediaTask'["media"] = mediaTask["media"] /\ pc'["media"] = pc["media"]
        /\ mem'["media"] = mem["media"]
        /\ mediaTask'["summarize"] = mediaTask["summarize"] /\ pc'["summarize"] = pc["summarize"]
        /\ mem'["summarize"] = mem["summarize"]
        /\ pc'["transcribe"] = IF audio THEN "hear" ELSE "degrade"
        /\ UNCHANGED <<spoken, mediaStatus, text, summary, video, audio>>
    BY <1>4 DEF Media!BeginTranscribe, Media!Begin, Media!Loaded
  <2>2. Media(K, F)!Texts /\ Media(K, F)!Labelled
    BY <1>0
  <2> HIDE MediaFacts, <1>0
  <2> QED BY <2>1, <2>2
<1>5. ASSUME NEW c \in BOOLEAN, Media(K, F)!BeginSummarize(c) PROVE Media(K, F)!Texts'
  <2>1. /\ mediaTask["summarize"] = "pending" /\ mem'["summarize"].text = text
        /\ mediaTask'["process"] = mediaTask["process"] /\ pc'["process"] = pc["process"]
        /\ mem'["process"] = mem["process"]
        /\ mediaTask'["media"] = mediaTask["media"] /\ pc'["media"] = pc["media"]
        /\ mem'["media"] = mem["media"]
        /\ mediaTask'["transcribe"] = mediaTask["transcribe"]
        /\ pc'["transcribe"] = pc["transcribe"]
        /\ mem'["transcribe"] = mem["transcribe"]
        /\ pc'["summarize"] = "write" => text # {}
        /\ UNCHANGED <<spoken, mediaStatus, text, summary, video, audio>>
    BY <1>5 DEF Media!BeginSummarize, Media!Begin, Media!Loaded
  <2>2. Media(K, F)!Texts /\ Media(K, F)!Labelled
    BY <1>0
  <2> HIDE MediaFacts, <1>0
  <2>3. text' \in {{}, Media(K, F)!Full'} \/ (Media(K, F)!Tweet /\ text' = {"body"})
    BY <2>1, <2>2
  <2>4. ASSUME NEW k \in Media(K, F)!Kinds
        PROVE  \/ mem'[k].text \in {{}, Media(K, F)!Full'}
               \/ Media(K, F)!Tweet /\ mem'[k].text = {"body"}
    BY <2>1, <2>2
  <2>5. Media(K, F)!Tweet =>
          /\ mem'["process"].text \subseteq text'
          /\ pc'["media"] = "fetch" => mem'["media"].text = text'
          /\ pc'["transcribe"] = "hear" => mem'["transcribe"].text = text'
    BY <2>1, <2>2
  <2> QED BY <2>1, <2>2, <2>3, <2>4, <2>5, SMTT(30)
<1>6. CASE \/ Media(K, F)!EnqueueDownload \/ Media(K, F)!EnqueueSummarize
           \/ Media(K, F)!EnqueueMedia \/ Media(K, F)!EnqueueTranscript
           \/ Media(K, F)!EnqueueTranscribe \/ Media(K, F)!EnqueueText("media")
           \/ Media(K, F)!EnqueueText("transcribe")
  BY <1>6, SMTT(30)
     DEF Media!EnqueueDownload, Media!HandOff, Media!Enqueue, Media!EnqueueSummarize,
         Media!EnqueueMedia, Media!EnqueueTranscript, Media!EnqueueTranscribe, Media!EnqueueText
<1>7. CASE \/ Media(K, F)!EnqueueDownloadFails \/ Media(K, F)!EnqueueSummarizeFails
           \/ Media(K, F)!EnqueueMediaFails \/ Media(K, F)!EnqueueTranscriptFails
           \/ Media(K, F)!EnqueueTextFails("media") \/ Media(K, F)!EnqueueTextFails("transcribe")
           \/ Media(K, F)!Raises("media") \/ Media(K, F)!Raises("transcribe")
  BY <1>7 DEF Media!EnqueueDownloadFails, Media!HandOffFails, Media!Disturb,
              Media!EnqueueSummarizeFails, Media!EnqueueMediaFails, Media!EnqueueTranscriptFails,
              Media!EnqueueTextFails, Media!Raises
<1>8. CASE Media(K, F)!ReadPost
  BY <1>8 DEF Media!ReadPost, Media!Commit, Media!Reusable, Media!Flush
<1>9. CASE Media(K, F)!ReadCaptions
  BY <1>9 DEF Media!ReadCaptions, Media!Commit, Media!Reusable
<1>10. CASE Media(K, F)!SaveEpisode
  BY <1>10 DEF Media!SaveEpisode
<1>11. CASE Media(K, F)!SaveEpisodeAgain
  BY <1>11 DEF Media!SaveEpisodeAgain, Media!Commit, Media!Reusable
<1>12. CASE Media(K, F)!Reject("failed")
  BY <1>12 DEF Media!Reject
<1>13. CASE Media(K, F)!Reject("skipped")
  BY <1>13 DEF Media!Reject
<1>14. CASE Media(K, F)!Report
  BY <1>14 DEF Media!Report
<1>15. CASE Media(K, F)!StoreTranscript
  BY <1>15 DEF Media!StoreTranscript, Media!WriteCopy, Media!Flush, Media!SavedMeanwhile
<1>16. CASE Media(K, F)!MediaFails
  BY <1>16 DEF Media!MediaFails, Media!SavedMeanwhile
<1>17. CASE Media(K, F)!Download
  BY <1>17 DEF Media!Download, Media!WriteCopy, Media!Flush
<1>18. CASE Media(K, F)!Transcribe
  BY <1>18 DEF Media!Transcribe, Media!WriteCopy, Media!Flush
<1>19. CASE Media(K, F)!Unlink
  BY <1>19 DEF Media!Unlink
<1>20. CASE Media(K, F)!Degrade("media")
  BY <1>20 DEF Media!Degrade
<1>21. CASE Media(K, F)!Degrade("transcribe")
  BY <1>21 DEF Media!Degrade
<1>22. CASE \/ Media(K, F)!SkipEmpty \/ Media(K, F)!ReuseSummary \/ Media(K, F)!Summarize
            \/ Media(K, F)!SummaryFailsForNow \/ Media(K, F)!SummaryFails
  BY <1>22 DEF Media!SkipEmpty, Media!ReuseSummary, Media!Summarize, Media!SummaryFailsForNow,
               Media!Disturb, Media!SummaryFails
<1>23. CASE \/ Media(K, F)!Finalize("process") \/ Media(K, F)!Finalize("media")
            \/ Media(K, F)!Finalize("transcribe") \/ Media(K, F)!Finalize("summarize")
  BY <1>23, SMTT(30) DEF Media!Finalize, Media!Nothing
<1>24. CASE \/ Media(K, F)!Crash("process") \/ Media(K, F)!Crash("media")
            \/ Media(K, F)!Crash("transcribe") \/ Media(K, F)!Crash("summarize")
  BY <1>24 DEF Media!Crash, Media!Nothing, Media!Disturb
<1> HIDE MediaFacts, <1>0 DEF Media!At, Media!Goto, Media!row, Media!queue, Media!Kinds,
                             Media!Texts, Media!Full, Media!Tweet, Media!Labelled
<1> QED BY <1>1, <1>2, <1>3, <1>4, <1>5, <1>6, <1>7, <1>8, <1>9, <1>10, <1>11, <1>12, <1>13,
           <1>14, <1>15, <1>16, <1>17, <1>18, <1>19, <1>20, <1>21, <1>22, <1>23, <1>24
   DEF Media!Next, Media!Kinds

\* What is not in the summary yet has somebody who will summarize it.
LEMMA MediaForgottenStep ==
  ASSUME NEW K, NEW F, Media(K, F)!Bearable, Media(K, F)!MediaInv, Media(K, F)!Next
  PROVE  Media(K, F)!NothingForgotten'
<1>0. /\ Media(K, F)!Types /\ Media(K, F)!Labelled /\ Media(K, F)!Texts
      /\ Media(K, F)!RetriesArePaid /\ Media(K, F)!SomebodyGoesOn
      /\ (mediaFaults = 0 => Media(K, F)!Undisturbed)
      /\ (mediaFaults < 2 => Media(K, F)!Ordered /\ Media(K, F)!Remembered
          /\ Media(K, F)!WithoutVideo /\ Media(K, F)!Awaited)
  BY DEF Media!MediaInv, Media!NothingForgotten
<1> USE MediaFacts, <1>0 DEF Media!At, Media!Goto, Media!row, Media!queue, Media!Kinds,
                             Media!NothingForgotten, Media!Undisturbed, Media!Ordered,
                             Media!Remembered, Media!WithoutVideo, Media!Awaited,
                             Media!OneAtATime, Media!Before, Media!Over, Media!Hearing,
                             Media!Summing, Media!Labelled, Media!Texts, Media!Tweet, Media!Full,
                             Media!Going, Media!RetriesArePaid, Media!Copies
<1>1. CASE Media(K, F)!BeginProcess
  BY <1>1, SMTT(30) DEF Media!BeginProcess, Media!Begin, Media!Loaded, Media!SameQueue
<1>2. CASE Media(K, F)!BeginMedia
  BY <1>2, SMTT(30)
     DEF Media!BeginMedia, Media!Begin, Media!Loaded, Media!SameQueue, Media!SavedMeanwhile
<1>3. CASE Media(K, F)!BeginDownload
  BY <1>3, SMTT(30) DEF Media!BeginDownload, Media!Begin, Media!Loaded, Media!SameQueue
<1>4. CASE Media(K, F)!BeginTranscribe
  BY <1>4, SMTT(30) DEF Media!BeginTranscribe, Media!Begin, Media!Loaded, Media!SameQueue
<1>5. CASE Media(K, F)!BeginSummarize(TRUE)
  BY <1>5, SMTT(30) DEF Media!BeginSummarize, Media!Begin, Media!Loaded, Media!SameQueue
<1>6. CASE Media(K, F)!BeginSummarize(FALSE)
  BY <1>6, SMTT(30) DEF Media!BeginSummarize, Media!Begin, Media!Loaded, Media!SameQueue
<1>7. CASE \/ Media(K, F)!EnqueueDownload \/ Media(K, F)!EnqueueSummarize
           \/ Media(K, F)!EnqueueMedia \/ Media(K, F)!EnqueueTranscript
           \/ Media(K, F)!EnqueueTranscribe \/ Media(K, F)!EnqueueText("media")
           \/ Media(K, F)!EnqueueText("transcribe")
  BY <1>7, SMTT(30)
     DEF Media!EnqueueDownload, Media!HandOff, Media!Enqueue, Media!EnqueueSummarize,
         Media!EnqueueMedia, Media!EnqueueTranscript, Media!EnqueueTranscribe, Media!EnqueueText
<1>8. CASE \/ Media(K, F)!EnqueueDownloadFails \/ Media(K, F)!EnqueueSummarizeFails
           \/ Media(K, F)!EnqueueMediaFails \/ Media(K, F)!EnqueueTranscriptFails
           \/ Media(K, F)!EnqueueTextFails("media") \/ Media(K, F)!EnqueueTextFails("transcribe")
           \/ Media(K, F)!Raises("media") \/ Media(K, F)!Raises("transcribe")
  BY <1>8, SMTT(30)
     DEF Media!EnqueueDownloadFails, Media!HandOffFails, Media!Disturb,
         Media!EnqueueSummarizeFails, Media!EnqueueMediaFails, Media!EnqueueTranscriptFails,
         Media!EnqueueTextFails, Media!Raises
<1>9. CASE Media(K, F)!ReadPost
  <2>1. (mediaFaults = 0 => Media(K, F)!Undisturbed)'
    BY <1>9, SMTT(30) DEF Media!ReadPost, Media!Commit, Media!Reusable, Media!Flush
  <2>2. (mediaFaults < 2 => Media(K, F)!Ordered)'
    BY <1>9, SMTT(30) DEF Media!ReadPost, Media!Commit, Media!Reusable, Media!Flush
  <2>3. (mediaFaults < 2 => Media(K, F)!Remembered)'
    BY <1>9, SMTT(30) DEF Media!ReadPost, Media!Commit, Media!Reusable, Media!Flush
  <2>4. (mediaFaults < 2 => Media(K, F)!WithoutVideo)'
    BY <1>9, SMTT(30) DEF Media!ReadPost, Media!Commit, Media!Reusable, Media!Flush
  <2>5. (mediaFaults < 2 => Media(K, F)!Awaited)'
    BY <1>9, SMTT(30) DEF Media!ReadPost, Media!Commit, Media!Reusable, Media!Flush
  <2> QED BY <2>1, <2>2, <2>3, <2>4, <2>5
<1>10. CASE Media(K, F)!ReadCaptions
  BY <1>10, SMTT(30) DEF Media!ReadCaptions, Media!Commit, Media!Reusable
<1>11. CASE Media(K, F)!SaveEpisode
  BY <1>11, SMTT(30) DEF Media!SaveEpisode
<1>12. CASE Media(K, F)!SaveEpisodeAgain
  BY <1>12, SMTT(30) DEF Media!SaveEpisodeAgain, Media!Commit, Media!Reusable
<1>13. CASE Media(K, F)!Reject("failed")
  BY <1>13, SMTT(30) DEF Media!Reject
<1>14. CASE Media(K, F)!Reject("skipped")
  BY <1>14, SMTT(30) DEF Media!Reject
<1>15. CASE Media(K, F)!Report
  BY <1>15, SMTT(30) DEF Media!Report
<1>16. CASE Media(K, F)!StoreTranscript
  BY <1>16, SMTT(30) DEF Media!StoreTranscript, Media!WriteCopy, Media!Flush, Media!SavedMeanwhile
<1>17. CASE Media(K, F)!MediaFails
  BY <1>17, SMTT(30) DEF Media!MediaFails, Media!SavedMeanwhile
<1>18. CASE Media(K, F)!Download
  <2>1. (mediaFaults = 0 => Media(K, F)!Undisturbed)'
    BY <1>18, SMTT(30) DEF Media!Download, Media!WriteCopy, Media!Flush
  <2>2. (mediaFaults < 2 => Media(K, F)!Ordered)'
    BY <1>18, SMTT(30) DEF Media!Download, Media!WriteCopy, Media!Flush
  <2>3. (mediaFaults < 2 => Media(K, F)!Remembered)'
    BY <1>18, SMTT(30) DEF Media!Download, Media!WriteCopy, Media!Flush
  <2>4. (mediaFaults < 2 => Media(K, F)!WithoutVideo)'
    BY <1>18, SMTT(30) DEF Media!Download, Media!WriteCopy, Media!Flush
  <2>5. (mediaFaults < 2 => Media(K, F)!Awaited)'
    BY <1>18, SMTT(30) DEF Media!Download, Media!WriteCopy, Media!Flush
  <2> QED BY <2>1, <2>2, <2>3, <2>4, <2>5
<1>19. CASE Media(K, F)!Transcribe
  <2>1. (mediaFaults = 0 => Media(K, F)!Undisturbed)'
    BY <1>19, SMTT(30) DEF Media!Transcribe, Media!WriteCopy, Media!Flush
  <2>2. (mediaFaults < 2 => Media(K, F)!Ordered)'
    BY <1>19, SMTT(30) DEF Media!Transcribe, Media!WriteCopy, Media!Flush
  <2>3. (mediaFaults < 2 => Media(K, F)!Remembered)'
    <3>1. /\ K = "tweet" /\ mem["transcribe"].text = text /\ pc["transcribe"] = "hear"
          /\ summary' = mem["transcribe"].summary /\ text' = text \cup {"speech"}
          /\ pc' = [pc EXCEPT !["transcribe"] = "unlink"]
          /\ UNCHANGED <<spoken, mem, mediaFaults>>
          /\ text # {} /\ Media(K, F)!Going("transcribe") /\ spoken
      BY <1>19, SMTT(30) DEF Media!Transcribe, Media!WriteCopy
    <3>2. text' = {"body", "speech"} /\ (text = {"body", "speech"} \/ text = {"body"})
      BY <3>1, SMTT(30)
    <3>3. CASE mediaFaults < 2
      <4>1. summary' = {} \/ summary' = summary
        BY <3>1, <3>3, SMTT(30)
      <4>2. text # {"body", "speech"} => summary = {}
        BY <3>1, <3>3, SMTT(30)
      <4>3. summary' \in {{}, text'}
        BY <3>2, <3>3, <4>1, <4>2, SMTT(30)
      <4>4. Media(K, F)!Before \/ Media(K, F)!Going("media") \/ pc["process"] = "summarize"
              => summary = {}
        BY <3>1, <3>3, SMTT(30)
      <4> QED BY <3>1, <3>3, <4>1, <4>3, <4>4, SMTT(30)
    <3> QED BY <3>1, <3>3
  <2>4. (mediaFaults < 2 => Media(K, F)!WithoutVideo)'
    BY <1>19, SMTT(30) DEF Media!Transcribe, Media!WriteCopy, Media!Flush
  <2>5. (mediaFaults < 2 => Media(K, F)!Awaited)'
    BY <1>19, SMTT(30) DEF Media!Transcribe, Media!WriteCopy, Media!Flush
  <2> QED BY <2>1, <2>2, <2>3, <2>4, <2>5
<1>20. CASE Media(K, F)!Unlink
  BY <1>20, SMTT(30) DEF Media!Unlink
<1>21. CASE Media(K, F)!Degrade("media")
  BY <1>21, SMTT(30) DEF Media!Degrade
<1>22. CASE Media(K, F)!Degrade("transcribe")
  BY <1>22, SMTT(30) DEF Media!Degrade
<1>23. CASE Media(K, F)!SkipEmpty
  BY <1>23, SMTT(30) DEF Media!SkipEmpty
<1>24. CASE Media(K, F)!ReuseSummary
  BY <1>24, SMTT(30) DEF Media!ReuseSummary
<1>25. CASE Media(K, F)!Summarize
  BY <1>25, SMTT(30) DEF Media!Summarize
<1>26. CASE Media(K, F)!SummaryFailsForNow
  BY <1>26, SMTT(30) DEF Media!SummaryFailsForNow, Media!Disturb
<1>27. CASE Media(K, F)!SummaryFails
  BY <1>27, SMTT(30) DEF Media!SummaryFails
<1>28. CASE \/ Media(K, F)!Finalize("process") \/ Media(K, F)!Finalize("media")
            \/ Media(K, F)!Finalize("transcribe") \/ Media(K, F)!Finalize("summarize")
  BY <1>28, SMTT(30) DEF Media!Finalize, Media!Nothing
<1>29. CASE \/ Media(K, F)!Crash("process") \/ Media(K, F)!Crash("media")
            \/ Media(K, F)!Crash("transcribe") \/ Media(K, F)!Crash("summarize")
  BY <1>29, SMTT(30) DEF Media!Crash, Media!Nothing, Media!Disturb
<1> HIDE MediaFacts, <1>0 DEF Media!At, Media!Goto, Media!row, Media!queue, Media!Kinds,
                             Media!NothingForgotten, Media!Undisturbed, Media!Ordered,
                             Media!Remembered, Media!WithoutVideo, Media!Awaited,
                             Media!OneAtATime, Media!Before, Media!Over, Media!Hearing,
                             Media!Summing, Media!Labelled, Media!Texts, Media!Tweet, Media!Full,
                             Media!Going, Media!RetriesArePaid, Media!Copies
<1> QED BY <1>1, <1>2, <1>3, <1>4, <1>5, <1>6, <1>7, <1>8, <1>9, <1>10, <1>11, <1>12, <1>13, <1>14,
           <1>15, <1>16, <1>17, <1>18, <1>19, <1>20, <1>21, <1>22, <1>23, <1>24, <1>25, <1>26,
           <1>27, <1>28, <1>29
   DEF Media!Next, Media!Kinds

\* A failure that ends a task leaves the content settled or somebody else at work.
LEMMA MediaGoesOnStep ==
  ASSUME NEW K, NEW F, Media(K, F)!Bearable, Media(K, F)!MediaInv, Media(K, F)!Next
  PROVE  Media(K, F)!RetriesArePaid' /\ Media(K, F)!SomebodyGoesOn'
<1>0. /\ Media(K, F)!Types /\ Media(K, F)!Labelled /\ Media(K, F)!Texts
      /\ Media(K, F)!RetriesArePaid /\ Media(K, F)!SomebodyGoesOn
      /\ (mediaFaults = 0 => Media(K, F)!Undisturbed)
      /\ (mediaFaults < 2 => Media(K, F)!Ordered /\ Media(K, F)!Remembered
          /\ Media(K, F)!WithoutVideo /\ Media(K, F)!Awaited)
  BY DEF Media!MediaInv, Media!NothingForgotten
<1> USE MediaFacts, <1>0 DEF Media!At, Media!Goto, Media!row, Media!queue, Media!Kinds,
                             Media!RetriesArePaid, Media!SomebodyGoesOn, Media!Going,
                             Media!Labelled, Media!Tweet, Media!Settled
<1>1. CASE \/ Media(K, F)!BeginProcess \/ Media(K, F)!BeginMedia \/ Media(K, F)!BeginDownload
           \/ Media(K, F)!BeginTranscribe \/ Media(K, F)!BeginSummarize(TRUE)
           \/ Media(K, F)!BeginSummarize(FALSE)
  BY <1>1 DEF Media!BeginProcess, Media!Begin, Media!Loaded, Media!SameQueue, Media!BeginMedia,
              Media!SavedMeanwhile, Media!BeginDownload, Media!BeginTranscribe,
              Media!BeginSummarize
<1>2. CASE Media(K, F)!EnqueueDownload
  BY <1>2 DEF Media!EnqueueDownload, Media!HandOff, Media!Enqueue
<1>3. CASE Media(K, F)!EnqueueSummarize
  BY <1>3 DEF Media!EnqueueSummarize, Media!HandOff, Media!Enqueue
<1>4. CASE Media(K, F)!EnqueueMedia
  BY <1>4 DEF Media!EnqueueMedia, Media!HandOff, Media!Enqueue
<1>5. CASE Media(K, F)!EnqueueTranscript
  BY <1>5 DEF Media!EnqueueTranscript, Media!HandOff, Media!Enqueue
<1>6. CASE Media(K, F)!EnqueueTranscribe
  BY <1>6 DEF Media!EnqueueTranscribe, Media!HandOff, Media!Enqueue
<1>7. CASE Media(K, F)!EnqueueText("media")
  BY <1>7 DEF Media!EnqueueText, Media!HandOff, Media!Enqueue
<1>8. CASE Media(K, F)!EnqueueText("transcribe")
  BY <1>8 DEF Media!EnqueueText, Media!HandOff, Media!Enqueue
<1>9. CASE \/ Media(K, F)!EnqueueDownloadFails \/ Media(K, F)!EnqueueSummarizeFails
           \/ Media(K, F)!EnqueueMediaFails \/ Media(K, F)!EnqueueTranscriptFails
           \/ Media(K, F)!EnqueueTextFails("media") \/ Media(K, F)!EnqueueTextFails("transcribe")
           \/ Media(K, F)!Raises("media") \/ Media(K, F)!Raises("transcribe")
  BY <1>9, SMTT(30)
     DEF Media!EnqueueDownloadFails, Media!HandOffFails, Media!Disturb,
         Media!EnqueueSummarizeFails, Media!EnqueueMediaFails, Media!EnqueueTranscriptFails,
         Media!EnqueueTextFails, Media!Raises
<1>10. CASE \/ Media(K, F)!ReadPost \/ Media(K, F)!ReadCaptions \/ Media(K, F)!SaveEpisode
            \/ Media(K, F)!SaveEpisodeAgain \/ Media(K, F)!Reject("failed")
            \/ Media(K, F)!Reject("skipped") \/ Media(K, F)!Report
  BY <1>10, SMTT(30)
     DEF Media!ReadPost, Media!Commit, Media!Reusable, Media!Flush, Media!ReadCaptions,
               Media!SaveEpisode, Media!SaveEpisodeAgain, Media!Reject, Media!Report
<1>11. CASE \/ Media(K, F)!StoreTranscript \/ Media(K, F)!MediaFails \/ Media(K, F)!Download
            \/ Media(K, F)!Transcribe \/ Media(K, F)!Unlink \/ Media(K, F)!Degrade("media")
            \/ Media(K, F)!Degrade("transcribe")
  BY <1>11 DEF Media!StoreTranscript, Media!WriteCopy, Media!Flush, Media!SavedMeanwhile,
               Media!MediaFails, Media!Download, Media!Transcribe, Media!Unlink, Media!Degrade
<1>12. CASE \/ Media(K, F)!SkipEmpty \/ Media(K, F)!ReuseSummary \/ Media(K, F)!Summarize
            \/ Media(K, F)!SummaryFailsForNow \/ Media(K, F)!SummaryFails
  BY <1>12 DEF Media!SkipEmpty, Media!ReuseSummary, Media!Summarize, Media!SummaryFailsForNow,
               Media!Disturb, Media!SummaryFails
<1>13. CASE \/ Media(K, F)!Finalize("process") \/ Media(K, F)!Finalize("media")
            \/ Media(K, F)!Finalize("transcribe") \/ Media(K, F)!Finalize("summarize")
  BY <1>13 DEF Media!Finalize, Media!Nothing
<1>14. CASE \/ Media(K, F)!Crash("process") \/ Media(K, F)!Crash("media")
            \/ Media(K, F)!Crash("transcribe") \/ Media(K, F)!Crash("summarize")
  BY <1>14 DEF Media!Crash, Media!Nothing, Media!Disturb
<1> QED BY <1>1, <1>2, <1>3, <1>4, <1>5, <1>6, <1>7, <1>8, <1>9, <1>10, <1>11, <1>12, <1>13, <1>14
   DEF Media!Next

\* The invariant holds when the content has just been submitted.
LEMMA MediaInit ==
  ASSUME NEW K, NEW F, Media(K, F)!Bearable, Media(K, F)!Init
  PROVE  Media(K, F)!MediaInv
<1> USE DEF Media!Init, Media!Nothing, Media!Kinds, Media!Copies
<1>1. Media(K, F)!Types
  <2>1. spoken \in BOOLEAN /\ ~video /\ ~audio
    OBVIOUS
  <2>2. video \in BOOLEAN /\ audio \in BOOLEAN
    BY <2>1
  <2>3. /\ mediaTask \in [Media(K, F)!Kinds -> {"none", "pending", "running"}]
        /\ pc \in [Media(K, F)!Kinds -> Media(K, F)!Places]
        /\ mediaTries \in [Media(K, F)!Kinds -> Nat]
        /\ \A k \in Media(K, F)!Kinds : mediaTask[k] # "running" /\ pc[k] = "idle"
    BY DEF Media!Places
  <2>4. mem \in [Media(K, F)!Kinds -> Media(K, F)!Copies] /\ mediaStatus \in Media(K, F)!Statuses
    BY DEF Media!Statuses
  <2> QED BY <2>1, <2>2, <2>3, <2>4 DEF Media!Bearable, Media!Types
<1>2. Media(K, F)!Labelled /\ Media(K, F)!Texts
  BY DEF Media!Labelled, Media!Texts, Media!Tweet
<1>3. Media(K, F)!RetriesArePaid /\ Media(K, F)!SomebodyGoesOn
  BY DEF Media!RetriesArePaid, Media!SomebodyGoesOn, Media!Going
<1>4. Media(K, F)!NothingForgotten
  BY <1>1 DEF Media!NothingForgotten, Media!Undisturbed, Media!Ordered, Media!Remembered,
              Media!WithoutVideo, Media!Awaited, Media!OneAtATime, Media!Before, Media!Over,
              Media!Hearing, Media!Summing, Media!Going, Media!Full, Media!Tweet
<1> QED BY <1>1, <1>2, <1>3, <1>4 DEF Media!MediaInv

\* Every step of a handler keeps every part of it.
LEMMA MediaStep ==
  ASSUME NEW K, NEW F, Media(K, F)!Bearable, Media(K, F)!MediaInv,
         Media(K, F)!Next \/ UNCHANGED mediaVars
  PROVE  Media(K, F)!MediaInv'
<1>1. CASE Media(K, F)!Next
  BY <1>1, MediaTypesStep, MediaLabelledStep, MediaTextsStep, MediaForgottenStep, MediaGoesOnStep
     DEF Media!MediaInv
<1>2. CASE UNCHANGED mediaVars
  <2> USE <1>2 DEF mediaVars, Media!Kinds, Media!Tweet, Media!Full, Media!Going
  <2>1. Media(K, F)!Types'
    BY DEF Media!MediaInv, Media!Types, Media!Statuses, Media!Settled, Media!Words,
           Media!Places, Media!Copies
  <2>2. Media(K, F)!Labelled' /\ Media(K, F)!Texts'
    BY DEF Media!MediaInv, Media!Labelled, Media!Texts
  <2>3. Media(K, F)!RetriesArePaid' /\ Media(K, F)!SomebodyGoesOn'
    BY SMTT(30) DEF Media!MediaInv, Media!RetriesArePaid, Media!SomebodyGoesOn, Media!Settled
  <2>4. Media(K, F)!NothingForgotten'
    BY DEF Media!MediaInv, Media!NothingForgotten, Media!Undisturbed, Media!Ordered,
           Media!Remembered, Media!WithoutVideo, Media!Awaited, Media!OneAtATime,
           Media!Before, Media!Over, Media!Hearing, Media!Summing
  <2> QED BY <2>1, <2>2, <2>3, <2>4 DEF Media!MediaInv
<1> QED BY <1>1, <1>2

\* At rest nobody is left who would go on, so nothing is left to be done.
LEMMA MediaHeard ==
  ASSUME NEW K, NEW F, Media(K, F)!MediaInv
  PROVE  Media(K, F)!HeardAndSummarized
<1>1. ASSUME Media(K, F)!AtRest
      PROVE  \A k \in Media(K, F)!Kinds :
               mediaTask[k] = "none" /\ pc[k] = "idle" /\ ~Media(K, F)!Going(k)
  BY <1>1 DEF Media!MediaInv, Media!AtRest, Media!Types, Media!Going
<1>2. Media(K, F)!AtRest => mediaStatus \in Media(K, F)!Settled
  BY <1>1 DEF Media!MediaInv, Media!SomebodyGoesOn
<1>3. Media(K, F)!AtRest /\ mediaFaults < 2 /\ mediaStatus = "done" => summary = text
  BY <1>1, SMTT(30)
     DEF Media!MediaInv, Media!NothingForgotten, Media!Awaited, Media!Hearing, Media!Kinds
<1> QED BY <1>2, <1>3 DEF Media!HeardAndSummarized


\* The two scenes are instances of the same handlers.
LEMMA EpisodeIsMedia ==
  /\ Episode!Init <=> Media("podcast", Faults["episode"])!Init
  /\ Episode!Next <=> Media("podcast", Faults["episode"])!Next
  /\ Episode!HeardAndSummarized <=> Media("podcast", Faults["episode"])!HeardAndSummarized
  BY SMTT(30)
     DEF Episode!row, Episode!queue, Episode!Kinds, Episode!Settled, Episode!Disturb,
         Episode!Loaded, Episode!Nothing, Episode!Init, Episode!SameQueue, Episode!Begin,
         Episode!At, Episode!Goto, Episode!Finalize, Episode!Crash, Episode!Enqueue,
         Episode!HandOff, Episode!HandOffFails, Episode!Flush, Episode!WriteCopy,
         Episode!BeginProcess, Episode!Reusable, Episode!Commit, Episode!ReadPost,
         Episode!EnqueueDownload, Episode!EnqueueDownloadFails, Episode!EnqueueSummarize,
         Episode!EnqueueSummarizeFails, Episode!ReadCaptions, Episode!SaveEpisode,
         Episode!EnqueueMedia, Episode!EnqueueMediaFails, Episode!SaveEpisodeAgain, Episode!Reject,
         Episode!Report, Episode!SavedMeanwhile, Episode!BeginMedia, Episode!StoreTranscript,
         Episode!MediaFails, Episode!KeepTranscript, Episode!EnqueueTranscript,
         Episode!EnqueueTranscriptFails, Episode!BeginDownload, Episode!Download,
         Episode!EnqueueTranscribe, Episode!BeginTranscribe, Episode!Transcribe, Episode!Unlink,
         Episode!Raises, Episode!Degrade, Episode!EnqueueText, Episode!EnqueueTextFails,
         Episode!BeginSummarize, Episode!SkipEmpty, Episode!ReuseSummary, Episode!Summarize,
         Episode!SummaryFailsForNow, Episode!SummaryFails, Episode!Next, Episode!AtRest,
         Episode!HeardAndSummarized, Media!row, Media!queue, Media!Kinds, Media!Settled,
         Media!Disturb, Media!Loaded, Media!Nothing, Media!Init, Media!SameQueue, Media!Begin,
         Media!At, Media!Goto, Media!Finalize, Media!Crash, Media!Enqueue, Media!HandOff,
         Media!HandOffFails, Media!Flush, Media!WriteCopy, Media!BeginProcess, Media!Reusable,
         Media!Commit, Media!ReadPost, Media!EnqueueDownload, Media!EnqueueDownloadFails,
         Media!EnqueueSummarize, Media!EnqueueSummarizeFails, Media!ReadCaptions,
         Media!SaveEpisode, Media!EnqueueMedia, Media!EnqueueMediaFails, Media!SaveEpisodeAgain,
         Media!Reject, Media!Report, Media!SavedMeanwhile, Media!BeginMedia, Media!StoreTranscript,
         Media!MediaFails, Media!KeepTranscript, Media!EnqueueTranscript,
         Media!EnqueueTranscriptFails, Media!BeginDownload, Media!Download,
         Media!EnqueueTranscribe, Media!BeginTranscribe, Media!Transcribe, Media!Unlink,
         Media!Raises, Media!Degrade, Media!EnqueueText, Media!EnqueueTextFails,
         Media!BeginSummarize, Media!SkipEmpty, Media!ReuseSummary, Media!Summarize,
         Media!SummaryFailsForNow, Media!SummaryFails, Media!Next, Media!AtRest,
         Media!HeardAndSummarized

\* ServicesInit starts both scenes with Episode's Init, which does not depend on the kind.
LEMMA PostIsMedia ==
  /\ Episode!Init <=> Media("tweet", Faults["post"])!Init
  /\ Post!Next <=> Media("tweet", Faults["post"])!Next
  /\ Post!HeardAndSummarized <=> Media("tweet", Faults["post"])!HeardAndSummarized
  BY SMTT(30)
     DEF Episode!Init, Episode!Kinds, Episode!Nothing, Post!row, Post!queue, Post!Kinds,
         Post!Settled, Post!Disturb, Post!Loaded, Post!Nothing, Post!Init, Post!SameQueue,
         Post!Begin, Post!At, Post!Goto, Post!Finalize, Post!Crash, Post!Enqueue, Post!HandOff,
         Post!HandOffFails, Post!Flush, Post!WriteCopy, Post!BeginProcess, Post!Reusable,
         Post!Commit, Post!ReadPost, Post!EnqueueDownload, Post!EnqueueDownloadFails,
         Post!EnqueueSummarize, Post!EnqueueSummarizeFails, Post!ReadCaptions, Post!SaveEpisode,
         Post!EnqueueMedia, Post!EnqueueMediaFails, Post!SaveEpisodeAgain, Post!Reject,
         Post!Report, Post!SavedMeanwhile, Post!BeginMedia, Post!StoreTranscript, Post!MediaFails,
         Post!KeepTranscript, Post!EnqueueTranscript, Post!EnqueueTranscriptFails,
         Post!BeginDownload, Post!Download, Post!EnqueueTranscribe, Post!BeginTranscribe,
         Post!Transcribe, Post!Unlink, Post!Raises, Post!Degrade, Post!EnqueueText,
         Post!EnqueueTextFails, Post!BeginSummarize, Post!SkipEmpty, Post!ReuseSummary,
         Post!Summarize, Post!SummaryFailsForNow, Post!SummaryFails, Post!Next, Post!AtRest,
         Post!HeardAndSummarized, Media!row, Media!queue, Media!Kinds, Media!Settled,
         Media!Disturb, Media!Loaded, Media!Nothing, Media!Init, Media!SameQueue, Media!Begin,
         Media!At, Media!Goto, Media!Finalize, Media!Crash, Media!Enqueue, Media!HandOff,
         Media!HandOffFails, Media!Flush, Media!WriteCopy, Media!BeginProcess, Media!Reusable,
         Media!Commit, Media!ReadPost, Media!EnqueueDownload, Media!EnqueueDownloadFails,
         Media!EnqueueSummarize, Media!EnqueueSummarizeFails, Media!ReadCaptions,
         Media!SaveEpisode, Media!EnqueueMedia, Media!EnqueueMediaFails, Media!SaveEpisodeAgain,
         Media!Reject, Media!Report, Media!SavedMeanwhile, Media!BeginMedia, Media!StoreTranscript,
         Media!MediaFails, Media!KeepTranscript, Media!EnqueueTranscript,
         Media!EnqueueTranscriptFails, Media!BeginDownload, Media!Download,
         Media!EnqueueTranscribe, Media!BeginTranscribe, Media!Transcribe, Media!Unlink,
         Media!Raises, Media!Degrade, Media!EnqueueText, Media!EnqueueTextFails,
         Media!BeginSummarize, Media!SkipEmpty, Media!ReuseSummary, Media!Summarize,
         Media!SummaryFailsForNow, Media!SummaryFails, Media!Next, Media!AtRest,
         Media!HeardAndSummarized

\* A task can be interrupted as often as it is retried, and it is retried: one interruption
\* more at the same task and it is given up, whatever is still to hear.
MediaBearable ==
  /\ MediaRetries \in Nat \ {0}
  /\ \A s \in {"episode", "post"} : Faults[s] \in Nat /\ Faults[s] <= MediaRetries

EpisodeInv == Media("podcast", Faults["episode"])!MediaInv
PostInv == Media("tweet", Faults["post"])!MediaInv
HeardInv == (scene = "episode" => EpisodeInv) /\ (scene = "post" => PostInv)

\* Both scenes are within the bounds of the invariant.
LEMMA MediaIsBearable ==
  ASSUME MediaBearable
  PROVE  /\ Media("podcast", Faults["episode"])!Bearable
         /\ Media("tweet", Faults["post"])!Bearable
  BY DEF MediaBearable, Media!Bearable

LEMMA HeardInit == ASSUME MediaBearable, ServicesInit PROVE HeardInv
<1>1. Episode!Init
  BY DEF ServicesInit
<1>2. EpisodeInv
  BY <1>1, EpisodeIsMedia, MediaIsBearable, MediaInit DEF EpisodeInv
<1>3. PostInv
  BY <1>1, PostIsMedia, MediaIsBearable, MediaInit DEF PostInv
<1> QED BY <1>2, <1>3 DEF HeardInv

LEMMA HeardStep == ASSUME MediaBearable, HeardInv, [ServicesNext]_allVars PROVE HeardInv'
<1>1. scene' = scene
  BY DEF ServicesNext, allVars
<1>2. ASSUME scene = "episode" PROVE EpisodeInv'
  <2>1. EpisodeInv
    BY <1>2 DEF HeardInv
  <2>2. Episode!Next \/ UNCHANGED mediaVars
    BY <1>2 DEF ServicesNext, allVars
  <2> QED BY <2>1, <2>2, EpisodeIsMedia, MediaIsBearable, MediaStep DEF EpisodeInv
<1>3. ASSUME scene = "post" PROVE PostInv'
  <2>1. PostInv
    BY <1>3 DEF HeardInv
  <2>2. Post!Next \/ UNCHANGED mediaVars
    BY <1>3 DEF ServicesNext, allVars
  <2> QED BY <2>1, <2>2, PostIsMedia, MediaIsBearable, MediaStep DEF PostInv
<1> QED BY <1>1, <1>2, <1>3 DEF HeardInv

\* However the handlers of an episode or of a post with a video interleave, and wherever they
\* are cut by a crash, an outage or a hand-over that fails, as long as no task is interrupted
\* more often than it is retried: when everything is at rest the content is settled, and, unless
\* two disturbances met, its summary was made from all that was read and heard
\* (handlers process_podcast_media, download_tweet_video, transcribe_tweet_video and summarize).
THEOREM MediaIsHeard == ASSUME MediaBearable PROVE ServicesSpec => []HeardAndSummarized
<1>1. HeardInv => HeardAndSummarized
  BY EpisodeIsMedia, PostIsMedia, MediaHeard
     DEF HeardInv, EpisodeInv, PostInv, HeardAndSummarized
<1>2. ServicesInit => HeardInv
  BY HeardInit
<1>3. HeardInv /\ [ServicesNext]_allVars => HeardInv'
  BY HeardStep
<1> QED BY <1>1, <1>2, <1>3, PTL DEF ServicesSpec

===============================================================================

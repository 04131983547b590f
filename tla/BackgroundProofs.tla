---------------------------- MODULE BackgroundProofs ----------------------------
(***************************************************************************)
(* What the background work promises for every number of retries, items,   *)
(* stories, contents, calls and disturbances.  The rotation of the retry   *)
(* buckets and the stored bodies are proved here; the clusters of news and *)
(* the personal library in modules of their own.  Each is lifted to        *)
(* BackgroundSpec.                                                         *)
(***************************************************************************)
EXTENDS Background, FiniteSetTheorems, TLAPS

-----------------------------------------------------------------------------
(* The rotation: every arrival, completion and loss of rows between two dequeues *)

Lists == (SUBSET Buckets) \ {{}}

\* A bucket that was left out has at most as many turns to wait as the list still
\* has buckets it was not yet left out for: its place in the order is the waiting time.
Waiting ==
  \A b \in listed : skipped[b] > 0 =>
    /\ cursor < Cardinality(listed)
    /\ skipped[b] + Rotated(b, listed) <= Cardinality(listed)

RotationInv == TypeOK /\ Waiting

-----------------------------------------------------------------------------
(* The order *)

\* A list of buckets is finite, and no longer than there are buckets.
LEMMA ListSize ==
  ASSUME NEW avail \in Lists
  PROVE  IsFiniteSet(avail) /\ Cardinality(avail) \in 1..(MaxRetries + 1)
<1>1. IsFiniteSet(Buckets) /\ Cardinality(Buckets) = MaxRetries + 1
  BY FS_Interval, MaxRetriesAssumption DEF Buckets
<1>2. IsFiniteSet(avail) /\ Cardinality(avail) <= Cardinality(Buckets)
  BY <1>1, FS_Subset DEF Lists
<1>3. Cardinality(avail) \in Nat /\ Cardinality(avail) # 0
  BY <1>2, FS_CardinalityType, FS_EmptySet DEF Lists
<1> QED BY <1>1, <1>2, <1>3, MaxRetriesAssumption

\* Every bucket of a list has a position in it.
LEMMA RankInList ==
  ASSUME NEW avail \in Lists, NEW b \in avail
  PROVE  Rank(b, avail) \in 0..(Cardinality(avail) - 1)
<1> DEFINE below == {c \in avail : c < b}
<1>1. IsFiniteSet(avail) /\ Cardinality(avail) \in Nat
  BY ListSize
<1>2. b \in Nat
  BY MaxRetriesAssumption DEF Lists, Buckets
<1>3. below \subseteq avail /\ b \notin below
  BY <1>2
<1>4. IsFiniteSet(below) /\ Cardinality(below) \in Nat /\ Cardinality(below) <= Cardinality(avail)
  BY <1>1, <1>3, FS_Subset, FS_CardinalityType
<1>5. Cardinality(below) # Cardinality(avail)
  BY <1>1, <1>3, FS_Subset
<1> QED BY <1>1, <1>4, <1>5 DEF Rank

\* So has it in the order of a dequeue.
LEMMA RotatedInList ==
  ASSUME TypeOK, NEW avail \in Lists, NEW b \in avail
  PROVE  Rotated(b, avail) \in 0..(Cardinality(avail) - 1)
  BY ListSize, RankInList, MaxRetriesAssumption DEF Rotated, TypeOK

\* The cursor stays within the longest possible list.
LEMMA AdvanceInList ==
  ASSUME TypeOK, NEW avail \in Lists
  PROVE  /\ Advance(avail) \in 0..MaxRetries
         /\ Cardinality(avail) # 1 => Advance(avail) < Cardinality(avail)
  BY ListSize, MaxRetriesAssumption DEF Advance, TypeOK

LEMMA TypeStep ==
  ASSUME TypeOK, NEW avail \in Lists, NEW lost \in SUBSET avail, Dequeue(avail, lost)
  PROVE  TypeOK'
  BY AdvanceInList DEF Dequeue, TypeOK, Lists

-----------------------------------------------------------------------------
(* Waiting *)

\* The first bucket of the order is always tried.
LEMMA FirstIsTried ==
  ASSUME TypeOK, NEW avail \in Lists, NEW lost \in SUBSET avail, Dequeue(avail, lost),
         NEW b \in avail \ tried'
  PROVE  Rotated(b, avail) > 0 /\ Cardinality(avail) > 1
<1>1. PICK c \in avail : Rotated(c, avail) < Rotated(b, avail)
  BY DEF Dequeue
<1>2. /\ Rotated(c, avail) \in 0..(Cardinality(avail) - 1)
      /\ Rotated(b, avail) \in 0..(Cardinality(avail) - 1)
  BY RotatedInList
<1> QED BY <1>1, <1>2, ListSize

\* A dequeue over the same list brings the buckets it leaves out one place forward.
LEMMA OneForward ==
  ASSUME TypeOK, NEW avail \in Lists, NEW lost \in SUBSET avail, Dequeue(avail, lost),
         cursor < Cardinality(avail), NEW b \in avail \ tried'
  PROVE  Rotated(b, avail)' = Rotated(b, avail) - 1
<1> DEFINE n == Cardinality(avail)
           r == Rank(b, avail)
<1>1. n \in Nat /\ n > 1 /\ r \in 0..(n - 1) /\ cursor \in 0..(n - 1) /\ Rotated(b, avail) > 0
  BY FirstIsTried, ListSize, RankInList, MaxRetriesAssumption DEF TypeOK
<1>2. cursor' = (cursor + 1) % n
  BY <1>1 DEF Dequeue, Advance
<1>3. Rotated(b, avail) = IF r >= cursor THEN r - cursor ELSE r + n - cursor
  BY <1>1 DEF Rotated
<1>4. cursor # r
  BY <1>1, <1>3
<1>5. cursor' \in 0..(n - 1)
  BY <1>1, <1>2
<1>6. Rotated(b, avail)' = IF r >= cursor' THEN r - cursor' ELSE r + n - cursor'
  BY <1>1, <1>5 DEF Rotated, Rank
<1>7. cursor' = IF cursor = n - 1 THEN 0 ELSE cursor + 1
  BY <1>1, <1>2
<1> QED BY <1>1, <1>3, <1>4, <1>6, <1>7

LEMMA WaitingStep ==
  ASSUME RotationInv, NEW avail \in Lists, NEW lost \in SUBSET avail, Dequeue(avail, lost)
  PROVE  Waiting'
<1> USE DEF RotationInv
<1> SUFFICES ASSUME NEW b \in avail, skipped'[b] > 0
             PROVE  /\ cursor' < Cardinality(avail)
                    /\ skipped'[b] + Rotated(b, avail)' <= Cardinality(avail)
  BY DEF Waiting, Dequeue
<1>0. b \in Buckets /\ listed' = avail
  BY DEF Lists, Dequeue
<1>1. b \notin tried' /\ skipped'[b] = IF avail # listed THEN 1 ELSE skipped[b] + 1
  BY <1>0 DEF Dequeue, Lists
<1>2. Rotated(b, avail) > 0 /\ Cardinality(avail) > 1 /\ cursor' < Cardinality(avail)
  BY <1>1, FirstIsTried, AdvanceInList DEF Dequeue
<1>3. TypeOK'
  BY TypeStep
<1>4. Rotated(b, avail)' \in 0..(Cardinality(avail) - 1)
  <2>1. Rank(b, avail) \in 0..(Cardinality(avail) - 1) /\ Cardinality(avail) \in Nat
    BY RankInList, ListSize
  <2>2. cursor' \in Nat
    BY <1>3, MaxRetriesAssumption DEF TypeOK
  <2> QED BY <1>2, <2>1, <2>2 DEF Rotated, Rank
<1>5. CASE avail # listed \/ skipped[b] = 0
  BY <1>0, <1>1, <1>2, <1>4, <1>5, ListSize
<1>6. CASE avail = listed /\ skipped[b] # 0
  <2>1. /\ skipped[b] \in Nat /\ cursor < Cardinality(avail)
        /\ skipped[b] + Rotated(b, avail) <= Cardinality(avail)
    BY <1>0, <1>6 DEF Waiting, TypeOK
  <2>2. Rotated(b, avail)' = Rotated(b, avail) - 1
    BY <1>1, <2>1, OneForward
  <2>3. Rotated(b, avail) \in Nat /\ Cardinality(avail) \in Nat
    BY RotatedInList, ListSize
  <2> QED BY <1>1, <1>2, <1>6, <2>1, <2>2, <2>3
<1> QED BY <1>5, <1>6

-----------------------------------------------------------------------------
LEMMA RotationInit == Init => RotationInv
  BY MaxRetriesAssumption DEF Init, RotationInv, TypeOK, Waiting, Buckets

LEMMA RotationStep == RotationInv /\ [Next]_vars => RotationInv'
<1> SUFFICES ASSUME RotationInv, [Next]_vars PROVE RotationInv'
  OBVIOUS
<1>1. CASE UNCHANGED vars
  BY <1>1 DEF vars, RotationInv, TypeOK, Waiting, Rotated, Rank
<1>2. CASE Next
  BY <1>2, TypeStep, WaitingStep DEF Next, Lists, RotationInv
<1> QED BY <1>1, <1>2

LEMMA RotationSound == RotationInv => SteadyRotation
<1> SUFFICES ASSUME RotationInv, NEW b \in listed PROVE skipped[b] <= Cardinality(listed)
  BY DEF SteadyRotation
<1>1. listed \in Lists /\ skipped[b] \in Nat
  BY DEF RotationInv, TypeOK, Lists
<1>2. Cardinality(listed) \in Nat /\ Rotated(b, listed) \in Nat
  BY <1>1, ListSize, RotatedInList DEF RotationInv
<1> QED BY <1>1, <1>2 DEF RotationInv, Waiting

-----------------------------------------------------------------------------
(* The clusters of news: one process, and several *)

ClusterProof == INSTANCE NewsClustersProofs
  WITH Workers <- {Drainer},
       Disturbances <- {"crash", "failure", "duplicate"}, MaxFaults <- Faults["cluster"],
       status <- newsStatus, job <- newsJob, faults <- newsFaults

PressProof == INSTANCE NewsClustersProofs
  WITH Items <- Pressed, Workers <- Drainers,
       Disturbances <- {"crash", "failure", "rescrape", "scraper"}, MaxFaults <- Faults["press"],
       status <- newsStatus, job <- newsJob, faults <- newsFaults

\* The news of a scene are the news of the proof.
LEMMA ClusterSame ==
  /\ Cluster!Init = ClusterProof!Init
  /\ [Cluster!Next]_(Cluster!vars) = [ClusterProof!Next]_(ClusterProof!vars)
<1>0. Cluster!Init = ClusterProof!Init
  BY DEF Cluster!Init, ClusterProof!Init, Cluster!Idle, ClusterProof!Idle, Cluster!Away,
         ClusterProof!Away
<1>21. \A s, rows : Cluster!Overtakes(s, rows) <=> ClusterProof!Overtakes(s, rows)
  BY DEF Cluster!Overtakes, ClusterProof!Overtakes, Cluster!Sessions, ClusterProof!Sessions,
         Cluster!Holds, ClusterProof!Holds
<1>22. \A w : Cluster!Stop(w) <=> ClusterProof!Stop(w)
  BY <1>21 DEF Cluster!Stop, ClusterProof!Stop, Cluster!Idle, ClusterProof!Idle
<1>1. \A i : Cluster!Ingest(i) <=> ClusterProof!Ingest(i)
  BY DEF Cluster!Ingest, ClusterProof!Ingest
<1>2. \A i : Cluster!EnqueueEnrichment(i) <=> ClusterProof!EnqueueEnrichment(i)
  BY DEF Cluster!EnqueueEnrichment, ClusterProof!EnqueueEnrichment, Cluster!rowVars,
         ClusterProof!rowVars
<1>3. \A i : Cluster!ScraperDies(i) <=> ClusterProof!ScraperDies(i)
  BY DEF Cluster!ScraperDies, ClusterProof!ScraperDies, Cluster!Disturb, ClusterProof!Disturb,
         Cluster!rowVars, ClusterProof!rowVars
<1>4. \A i : Cluster!MeetAgain(i) <=> ClusterProof!MeetAgain(i)
  BY DEF Cluster!MeetAgain, ClusterProof!MeetAgain, Cluster!Disturb, ClusterProof!Disturb,
         Cluster!rowVars, ClusterProof!rowVars, Cluster!Away, ClusterProof!Away
<1>5. \A i, news : Cluster!Rescrape(i, news) <=> ClusterProof!Rescrape(i, news)
  BY <1>21 DEF Cluster!Rescrape, ClusterProof!Rescrape, Cluster!Flush, ClusterProof!Flush,
         Cluster!Away, ClusterProof!Away
<1>6. \A w, i : Cluster!BeginEnrich(w, i) <=> ClusterProof!BeginEnrich(w, i)
  BY DEF Cluster!BeginEnrich, ClusterProof!BeginEnrich, Cluster!Idle, ClusterProof!Idle,
         Cluster!rowVars, ClusterProof!rowVars
<1>7. \A w, i : Cluster!BeginProcess(w, i) <=> ClusterProof!BeginProcess(w, i)
  BY DEF Cluster!BeginProcess, ClusterProof!BeginProcess, Cluster!Idle, ClusterProof!Idle
<1>8. \A w, new : Cluster!CommitEnrich(w, new) <=> ClusterProof!CommitEnrich(w, new)
  BY <1>21 DEF Cluster!CommitEnrich, ClusterProof!CommitEnrich, Cluster!Goto, ClusterProof!Goto
<1>9. \A w : Cluster!EnqueueProcess(w) <=> ClusterProof!EnqueueProcess(w)
  BY DEF Cluster!EnqueueProcess, ClusterProof!EnqueueProcess, Cluster!Goto, ClusterProof!Goto,
         Cluster!rowVars, ClusterProof!rowVars
<1>10. \A w : Cluster!ReportEnrich(w) <=> ClusterProof!ReportEnrich(w)
  BY <1>22 DEF Cluster!ReportEnrich, ClusterProof!ReportEnrich, Cluster!rowVars,
         ClusterProof!rowVars
<1>11. \A w : Cluster!StoreDiscussion(w) <=> ClusterProof!StoreDiscussion(w)
  BY <1>21 DEF Cluster!StoreDiscussion, ClusterProof!StoreDiscussion
<1>12. \A w, j : Cluster!Choose(w, j) <=> ClusterProof!Choose(w, j)
  BY DEF Cluster!Choose, ClusterProof!Choose, Cluster!Candidates, ClusterProof!Candidates,
         Cluster!Reload, ClusterProof!Reload, Cluster!rowVars, ClusterProof!rowVars
<1>13. \A w : Cluster!ListMembers(w) <=> ClusterProof!ListMembers(w)
  BY DEF Cluster!ListMembers, ClusterProof!ListMembers, Cluster!Lead, ClusterProof!Lead,
         Cluster!Reload, ClusterProof!Reload, Cluster!rowVars, ClusterProof!rowVars
<1>14. \A w : Cluster!CommitSummary(w) <=> ClusterProof!CommitSummary(w)
  BY <1>21 DEF Cluster!CommitSummary, ClusterProof!CommitSummary, Cluster!Tells,
         ClusterProof!Tells, Cluster!Cardinality, ClusterProof!Cardinality, Cluster!Flush,
         ClusterProof!Flush, Cluster!Lead, ClusterProof!Lead, Cluster!Goto, ClusterProof!Goto
<1>15. \A w : Cluster!ReportProcess(w) <=> ClusterProof!ReportProcess(w)
  BY <1>22 DEF Cluster!ReportProcess, ClusterProof!ReportProcess, Cluster!rowVars,
         ClusterProof!rowVars
<1>16. \A w : Cluster!EnrichDies(w) <=> ClusterProof!EnrichDies(w)
  BY <1>22 DEF Cluster!EnrichDies, ClusterProof!EnrichDies, Cluster!Disturb, ClusterProof!Disturb,
         Cluster!rowVars, ClusterProof!rowVars
<1>17. \A w : Cluster!ProcessDies(w) <=> ClusterProof!ProcessDies(w)
  BY <1>22 DEF Cluster!ProcessDies, ClusterProof!ProcessDies, Cluster!Disturb,
         ClusterProof!Disturb, Cluster!rowVars, ClusterProof!rowVars
<1>18. \A w, again : Cluster!ProcessFails(w, again) <=> ClusterProof!ProcessFails(w, again)
  BY <1>22 DEF Cluster!ProcessFails, ClusterProof!ProcessFails, Cluster!Disturb,
         ClusterProof!Disturb
<1>19. Cluster!Next <=> ClusterProof!Next
  BY <1>1, <1>2, <1>3, <1>4, <1>5, <1>6, <1>7, <1>8, <1>9, <1>10, <1>11, <1>12, <1>13, <1>14,
     <1>15, <1>16, <1>17, <1>18
     DEF Cluster!Next, ClusterProof!Next, Cluster!WorkerStep, ClusterProof!WorkerStep
<1> QED BY <1>0, <1>19 DEF Cluster!vars, ClusterProof!vars, Cluster!rowVars, ClusterProof!rowVars

LEMMA PressSame ==
  /\ Press!Init = PressProof!Init
  /\ [Press!Next]_(Press!vars) = [PressProof!Next]_(PressProof!vars)
<1>0. Press!Init = PressProof!Init
  BY DEF Press!Init, PressProof!Init, Press!Idle, PressProof!Idle, Press!Away, PressProof!Away
<1>21. \A s, rows : Press!Overtakes(s, rows) <=> PressProof!Overtakes(s, rows)
  BY DEF Press!Overtakes, PressProof!Overtakes, Press!Sessions, PressProof!Sessions, Press!Holds,
         PressProof!Holds
<1>22. \A w : Press!Stop(w) <=> PressProof!Stop(w)
  BY <1>21 DEF Press!Stop, PressProof!Stop, Press!Idle, PressProof!Idle
<1>1. \A i : Press!Ingest(i) <=> PressProof!Ingest(i)
  BY DEF Press!Ingest, PressProof!Ingest
<1>2. \A i : Press!EnqueueEnrichment(i) <=> PressProof!EnqueueEnrichment(i)
  BY DEF Press!EnqueueEnrichment, PressProof!EnqueueEnrichment, Press!rowVars, PressProof!rowVars
<1>3. \A i : Press!ScraperDies(i) <=> PressProof!ScraperDies(i)
  BY DEF Press!ScraperDies, PressProof!ScraperDies, Press!Disturb, PressProof!Disturb,
         Press!rowVars, PressProof!rowVars
<1>4. \A i : Press!MeetAgain(i) <=> PressProof!MeetAgain(i)
  BY DEF Press!MeetAgain, PressProof!MeetAgain, Press!Disturb, PressProof!Disturb, Press!rowVars,
         PressProof!rowVars, Press!Away, PressProof!Away
<1>5. \A i, news : Press!Rescrape(i, news) <=> PressProof!Rescrape(i, news)
  BY <1>21 DEF Press!Rescrape, PressProof!Rescrape, Press!Flush, PressProof!Flush, Press!Away,
         PressProof!Away
<1>6. \A w, i : Press!BeginEnrich(w, i) <=> PressProof!BeginEnrich(w, i)
  BY DEF Press!BeginEnrich, PressProof!BeginEnrich, Press!Idle, PressProof!Idle, Press!rowVars,
         PressProof!rowVars
<1>7. \A w, i : Press!BeginProcess(w, i) <=> PressProof!BeginProcess(w, i)
  BY DEF Press!BeginProcess, PressProof!BeginProcess, Press!Idle, PressProof!Idle
<1>8. \A w, new : Press!CommitEnrich(w, new) <=> PressProof!CommitEnrich(w, new)
  BY <1>21 DEF Press!CommitEnrich, PressProof!CommitEnrich, Press!Goto, PressProof!Goto
<1>9. \A w : Press!EnqueueProcess(w) <=> PressProof!EnqueueProcess(w)
  BY DEF Press!EnqueueProcess, PressProof!EnqueueProcess, Press!Goto, PressProof!Goto,
         Press!rowVars, PressProof!rowVars
<1>10. \A w : Press!ReportEnrich(w) <=> PressProof!ReportEnrich(w)
  BY <1>22 DEF Press!ReportEnrich, PressProof!ReportEnrich, Press!rowVars, PressProof!rowVars
<1>11. \A w : Press!StoreDiscussion(w) <=> PressProof!StoreDiscussion(w)
  BY <1>21 DEF Press!StoreDiscussion, PressProof!StoreDiscussion
<1>12. \A w, j : Press!Choose(w, j) <=> PressProof!Choose(w, j)
  BY DEF Press!Choose, PressProof!Choose, Press!Candidates, PressProof!Candidates, Press!Reload,
         PressProof!Reload, Press!rowVars, PressProof!rowVars
<1>13. \A w : Press!ListMembers(w) <=> PressProof!ListMembers(w)
  BY DEF Press!ListMembers, PressProof!ListMembers, Press!Lead, PressProof!Lead, Press!Reload,
         PressProof!Reload, Press!rowVars, PressProof!rowVars
<1>14. \A w : Press!CommitSummary(w) <=> PressProof!CommitSummary(w)
  BY <1>21 DEF Press!CommitSummary, PressProof!CommitSummary, Press!Tells, PressProof!Tells,
         Press!Cardinality, PressProof!Cardinality, Press!Flush, PressProof!Flush, Press!Lead,
         PressProof!Lead, Press!Goto, PressProof!Goto
<1>15. \A w : Press!ReportProcess(w) <=> PressProof!ReportProcess(w)
  BY <1>22 DEF Press!ReportProcess, PressProof!ReportProcess, Press!rowVars, PressProof!rowVars
<1>16. \A w : Press!EnrichDies(w) <=> PressProof!EnrichDies(w)
  BY <1>22 DEF Press!EnrichDies, PressProof!EnrichDies, Press!Disturb, PressProof!Disturb,
         Press!rowVars, PressProof!rowVars
<1>17. \A w : Press!ProcessDies(w) <=> PressProof!ProcessDies(w)
  BY <1>22 DEF Press!ProcessDies, PressProof!ProcessDies, Press!Disturb, PressProof!Disturb,
         Press!rowVars, PressProof!rowVars
<1>18. \A w, again : Press!ProcessFails(w, again) <=> PressProof!ProcessFails(w, again)
  BY <1>22 DEF Press!ProcessFails, PressProof!ProcessFails, Press!Disturb, PressProof!Disturb
<1>19. Press!Next <=> PressProof!Next
  BY <1>1, <1>2, <1>3, <1>4, <1>5, <1>6, <1>7, <1>8, <1>9, <1>10, <1>11, <1>12, <1>13, <1>14,
     <1>15, <1>16, <1>17, <1>18
     DEF Press!Next, PressProof!Next, Press!WorkerStep, PressProof!WorkerStep
<1> QED BY <1>0, <1>19 DEF Press!vars, PressProof!vars, Press!rowVars, PressProof!rowVars

LEMMA ClusterKept ==
  LET Inv == ClusterProof!SoleInv /\ ClusterProof!Unmet /\ ClusterProof!Copies
  IN /\ Cluster!Init => Inv
     /\ Inv /\ [Cluster!Next]_(Cluster!vars) => Inv' /\ Cluster!MetadataGrows
<1> DEFINE Inv == ClusterProof!SoleInv /\ ClusterProof!Unmet /\ ClusterProof!Copies
<1>1. /\ NoItem \notin Items /\ {Drainer} \cap Items = {}
      /\ {"crash", "failure", "duplicate"} \cap {"rescrape", "scraper"} = {}
  BY NewsAssumption
<1>2. ClusterProof!Sole
  BY DEF ClusterProof!Sole
<1>3. ASSUME Cluster!Init PROVE Inv
  BY <1>1, <1>3, ClusterSame, ClusterProof!SoleInit, ClusterProof!UnmetInit,
     ClusterProof!CopiesInit
<1>4. ASSUME Inv, [Cluster!Next]_(Cluster!vars)
      PROVE  ClusterProof!SoleInv' /\ ClusterProof!Unmet'
  BY <1>1, <1>2, <1>4, ClusterSame, ClusterProof!SoleStep
<1>5. ASSUME Inv, [Cluster!Next]_(Cluster!vars)
      PROVE  ClusterProof!Copies' /\ Cluster!MetadataGrows
  <2>1. ClusterProof!Types
    BY <1>5 DEF ClusterProof!SoleInv
  <2>2. ClusterProof!MetadataGrows /\ ClusterProof!Copies'
    BY <1>1, <1>5, <2>1, ClusterSame, ClusterProof!MetadataStep
  <2> QED BY <2>2 DEF ClusterProof!MetadataGrows, Cluster!MetadataGrows,
                      ClusterProof!Sessions, Cluster!Sessions
<1> QED BY <1>3, <1>4, <1>5

LEMMA ClusterSound ==
  ClusterProof!SoleInv =>
    /\ Cluster!NoMutualHiding /\ Cluster!NeverForgotten
    /\ Cluster!OneRepresentative /\ Cluster!CountsMembers
  BY DEF ClusterProof!SoleInv, ClusterProof!NoMutualHiding, Cluster!NoMutualHiding,
         ClusterProof!NeverForgotten, Cluster!NeverForgotten, ClusterProof!OneRepresentative,
         Cluster!OneRepresentative, ClusterProof!CountsMembers, Cluster!CountsMembers,
         ClusterProof!InFeed, Cluster!InFeed, ClusterProof!Under, Cluster!Under,
         ClusterProof!Cardinality, Cluster!Cardinality

LEMMA PressKept ==
  LET Inv == PressProof!OnceInv /\ PressProof!Copies
  IN /\ Press!Init => Inv
     /\ Inv /\ [Press!Next]_(Press!vars) => Inv' /\ Press!MetadataGrows
     /\ Inv => Press!NoMutualHiding
<1> DEFINE Inv == PressProof!OnceInv /\ PressProof!Copies
<1>1. /\ NoItem \notin Pressed /\ Drainers \cap Pressed = {}
      /\ "duplicate" \notin {"crash", "failure", "rescrape", "scraper"}
  BY NewsAssumption
<1>2. ASSUME Press!Init PROVE Inv
  BY <1>2, PressSame, PressProof!OnceInit, PressProof!CopiesInit
<1>3. ASSUME Inv, [Press!Next]_(Press!vars) PROVE PressProof!OnceInv'
  BY <1>1, <1>3, PressSame, PressProof!OnceStep
<1>4. ASSUME Inv, [Press!Next]_(Press!vars) PROVE PressProof!Copies' /\ Press!MetadataGrows
  <2>1. PressProof!Types
    BY <1>4 DEF PressProof!OnceInv
  <2>2. PressProof!MetadataGrows /\ PressProof!Copies'
    BY <1>1, <1>4, <2>1, PressSame, PressProof!MetadataStep
  <2> QED BY <2>2 DEF PressProof!MetadataGrows, Press!MetadataGrows, PressProof!Sessions,
                      Press!Sessions
<1>5. PressProof!OnceInv => Press!NoMutualHiding
  BY <1>1, PressProof!OnceHidesNothing DEF PressProof!NoMutualHiding, Press!NoMutualHiding
<1> QED BY <1>2, <1>3, <1>4, <1>5

-----------------------------------------------------------------------------
(* The personal library: overlapping calls for one content, and one call for many *)

PageProof == INSTANCE PersonalLibraryProofs
  WITH Items <- Saved,
       Disturbances <- {"failure", "edit"}, MaxFaults <- Faults["page"], faults <- fileFaults

ShelfProof == INSTANCE PersonalLibraryProofs
  WITH Items <- Shelved, Calls <- {Caller},
       Disturbances <- {"failure", "edit"}, MaxFaults <- Faults["shelf"], faults <- fileFaults

LEMMA PageSame ==
  /\ Page!Init = PageProof!Init
  /\ [Page!Next]_(Page!vars) = [PageProof!Next]_(PageProof!vars)
<1>0. Page!Init = PageProof!Init
  BY DEF Page!Init, PageProof!Init, Page!Idle, PageProof!Idle
<1>1. \A i : Page!ArchiveChat(i) <=> PageProof!ArchiveChat(i)
  BY DEF Page!ArchiveChat, PageProof!ArchiveChat, Page!Disturbed, PageProof!Disturbed
<1>2. \A i, n : Page!Edit(i, n) <=> PageProof!Edit(i, n)
  BY DEF Page!Edit, PageProof!Edit, Page!Disturb, PageProof!Disturb, Page!Disturbed,
         PageProof!Disturbed
<1>3. \A c, i : Page!SaveToKnowledge(c, i) <=> PageProof!SaveToKnowledge(c, i)
  BY DEF Page!SaveToKnowledge, PageProof!SaveToKnowledge, Page!Begin, PageProof!Begin,
         Page!Disturbed, PageProof!Disturbed, Page!Idle, PageProof!Idle
<1>4. \A c, i : Page!RemoveFromKnowledge(c, i) <=> PageProof!RemoveFromKnowledge(c, i)
  BY DEF Page!RemoveFromKnowledge, PageProof!RemoveFromKnowledge, Page!Begin, PageProof!Begin,
         Page!Disturbed, PageProof!Disturbed, Page!Idle, PageProof!Idle
<1>5. \A c, i : Page!OpenChat(c, i) <=> PageProof!OpenChat(c, i)
  BY DEF Page!OpenChat, PageProof!OpenChat, Page!Begin, PageProof!Begin, Page!Disturbed,
         PageProof!Disturbed, Page!Idle, PageProof!Idle
<1>6. \A c : Page!ChatTurn(c) <=> PageProof!ChatTurn(c)
  BY DEF Page!ChatTurn, PageProof!ChatTurn, Page!Begin, PageProof!Begin, Page!Disturbed,
         PageProof!Disturbed, Page!Idle, PageProof!Idle
<1>7. \A c : Page!ReadReasons(c) <=> PageProof!ReadReasons(c)
  BY DEF Page!ReadReasons, PageProof!ReadReasons, Page!Why, PageProof!Why
<1>8. \A c : Page!Scan(c) <=> PageProof!Scan(c)
  BY DEF Page!Scan, PageProof!Scan, Page!OnDisk, PageProof!OnDisk
<1>9. \A c : Page!DeleteStale(c) <=> PageProof!DeleteStale(c)
  BY DEF Page!DeleteStale, PageProof!DeleteStale, Page!Min, PageProof!Min, Page!FilesOf,
         PageProof!FilesOf
<1>10. \A c : Page!Rewrite(c) <=> PageProof!Rewrite(c)
  BY DEF Page!Rewrite, PageProof!Rewrite, Page!FilesOf, PageProof!FilesOf, Page!Min,
         PageProof!Min, Page!Variants, PageProof!Variants
<1>11. \A c : Page!Write(c) <=> PageProof!Write(c)
  BY DEF Page!Write, PageProof!Write, Page!Min, PageProof!Min, Page!Rendered,
         PageProof!Rendered, Page!SamePath, PageProof!SamePath
<1>12. \A c : Page!Finish(c) <=> PageProof!Finish(c)
  BY DEF Page!Finish, PageProof!Finish, Page!Reconciled, PageProof!Reconciled, Page!Idle,
         PageProof!Idle
<1>13. \A c : Page!Fail(c) <=> PageProof!Fail(c)
  BY DEF Page!Fail, PageProof!Fail, Page!Disturb, PageProof!Disturb, Page!Reconciled,
         PageProof!Reconciled, Page!Idle, PageProof!Idle
<1>14. Page!Next <=> PageProof!Next
  BY <1>1, <1>2, <1>3, <1>4, <1>5, <1>6, <1>7, <1>8, <1>9, <1>10, <1>11, <1>12, <1>13
     DEF Page!Next, PageProof!Next
<1> QED BY <1>0, <1>14 DEF Page!vars, PageProof!vars

LEMMA ShelfSame ==
  /\ Shelf!Init = ShelfProof!Init
  /\ [Shelf!Next]_(Shelf!vars) = [ShelfProof!Next]_(ShelfProof!vars)
<1>0. Shelf!Init = ShelfProof!Init
  BY DEF Shelf!Init, ShelfProof!Init, Shelf!Idle, ShelfProof!Idle
<1>1. \A i : Shelf!ArchiveChat(i) <=> ShelfProof!ArchiveChat(i)
  BY DEF Shelf!ArchiveChat, ShelfProof!ArchiveChat, Shelf!Disturbed, ShelfProof!Disturbed
<1>2. \A i, n : Shelf!Edit(i, n) <=> ShelfProof!Edit(i, n)
  BY DEF Shelf!Edit, ShelfProof!Edit, Shelf!Disturb, ShelfProof!Disturb, Shelf!Disturbed,
         ShelfProof!Disturbed
<1>3. \A c, i : Shelf!SaveToKnowledge(c, i) <=> ShelfProof!SaveToKnowledge(c, i)
  BY DEF Shelf!SaveToKnowledge, ShelfProof!SaveToKnowledge, Shelf!Begin, ShelfProof!Begin,
         Shelf!Disturbed, ShelfProof!Disturbed, Shelf!Idle, ShelfProof!Idle
<1>4. \A c, i : Shelf!RemoveFromKnowledge(c, i) <=> ShelfProof!RemoveFromKnowledge(c, i)
  BY DEF Shelf!RemoveFromKnowledge, ShelfProof!RemoveFromKnowledge, Shelf!Begin,
         ShelfProof!Begin, Shelf!Disturbed, ShelfProof!Disturbed, Shelf!Idle, ShelfProof!Idle
<1>5. \A c, i : Shelf!OpenChat(c, i) <=> ShelfProof!OpenChat(c, i)
  BY DEF Shelf!OpenChat, ShelfProof!OpenChat, Shelf!Begin, ShelfProof!Begin, Shelf!Disturbed,
         ShelfProof!Disturbed, Shelf!Idle, ShelfProof!Idle
<1>6. \A c : Shelf!ChatTurn(c) <=> ShelfProof!ChatTurn(c)
  BY DEF Shelf!ChatTurn, ShelfProof!ChatTurn, Shelf!Begin, ShelfProof!Begin, Shelf!Disturbed,
         ShelfProof!Disturbed, Shelf!Idle, ShelfProof!Idle
<1>7. \A c : Shelf!ReadReasons(c) <=> ShelfProof!ReadReasons(c)
  BY DEF Shelf!ReadReasons, ShelfProof!ReadReasons, Shelf!Why, ShelfProof!Why
<1>8. \A c : Shelf!Scan(c) <=> ShelfProof!Scan(c)
  BY DEF Shelf!Scan, ShelfProof!Scan, Shelf!OnDisk, ShelfProof!OnDisk
<1>9. \A c : Shelf!DeleteStale(c) <=> ShelfProof!DeleteStale(c)
  BY DEF Shelf!DeleteStale, ShelfProof!DeleteStale, Shelf!Min, ShelfProof!Min, Shelf!FilesOf,
         ShelfProof!FilesOf
<1>10. \A c : Shelf!Rewrite(c) <=> ShelfProof!Rewrite(c)
  BY DEF Shelf!Rewrite, ShelfProof!Rewrite, Shelf!FilesOf, ShelfProof!FilesOf, Shelf!Min,
         ShelfProof!Min, Shelf!Variants, ShelfProof!Variants
<1>11. \A c : Shelf!Write(c) <=> ShelfProof!Write(c)
  BY DEF Shelf!Write, ShelfProof!Write, Shelf!Min, ShelfProof!Min, Shelf!Rendered,
         ShelfProof!Rendered, Shelf!SamePath, ShelfProof!SamePath
<1>12. \A c : Shelf!Finish(c) <=> ShelfProof!Finish(c)
  BY DEF Shelf!Finish, ShelfProof!Finish, Shelf!Reconciled, ShelfProof!Reconciled, Shelf!Idle,
         ShelfProof!Idle
<1>13. \A c : Shelf!Fail(c) <=> ShelfProof!Fail(c)
  BY DEF Shelf!Fail, ShelfProof!Fail, Shelf!Disturb, ShelfProof!Disturb, Shelf!Reconciled,
         ShelfProof!Reconciled, Shelf!Idle, ShelfProof!Idle
<1>14. Shelf!Next <=> ShelfProof!Next
  BY <1>1, <1>2, <1>3, <1>4, <1>5, <1>6, <1>7, <1>8, <1>9, <1>10, <1>11, <1>12, <1>13
     DEF Shelf!Next, ShelfProof!Next
<1> QED BY <1>0, <1>14 DEF Shelf!vars, ShelfProof!vars

LEMMA PageKept ==
  /\ Page!Init => PageProof!IInv
  /\ PageProof!IInv /\ [Page!Next]_(Page!vars) => PageProof!IInv'
  /\ PageProof!IInv => Page!LibraryRepaired
<1>1. Saved \subseteq Nat
  BY LibraryAssumption
<1>2. Page!LibraryRepaired <=> PageProof!LibraryRepaired
  BY DEF Page!LibraryRepaired, PageProof!LibraryRepaired, Page!Reconciled,
         PageProof!Reconciled, Page!Desired, PageProof!Desired, Page!Why, PageProof!Why,
         Page!Variants, PageProof!Variants
<1> QED BY <1>1, <1>2, PageSame, PageProof!Initially, PageProof!InvariantStep, PageProof!Repaired

LEMMA ShelfKept ==
  /\ Shelf!Init => ShelfProof!IInv
  /\ ShelfProof!IInv /\ [Shelf!Next]_(Shelf!vars) => ShelfProof!IInv'
  /\ ShelfProof!IInv => Shelf!LibraryRepaired
<1>1. Shelved \subseteq Nat
  BY LibraryAssumption
<1>2. Shelf!LibraryRepaired <=> ShelfProof!LibraryRepaired
  BY DEF Shelf!LibraryRepaired, ShelfProof!LibraryRepaired, Shelf!Reconciled,
         ShelfProof!Reconciled, Shelf!Desired, ShelfProof!Desired, Shelf!Why,
         ShelfProof!Why, Shelf!Variants, ShelfProof!Variants
<1> QED
  BY <1>1, <1>2, ShelfSame, ShelfProof!Initially, ShelfProof!InvariantStep, ShelfProof!Repaired

-----------------------------------------------------------------------------
(* The stored texts of a content: objects that are there or not, and files that are
   truncated first *)

\* Bodies stored as files or not, with any disturbances D, at most n of them.
Store(L, D, n) == INSTANCE ContentBodies
  WITH Local <- L, Disturbances <- D, MaxFaults <- n, job <- persisting, faults <- bodyFaults

Two == {"source", "rendered"}
Maybe == Texts \cup {NoText}
Persist == [pc : {"idle", "next", "writing"}, carried : [Two -> Maybe], loaded : [Two -> Maybe],
            todo : SUBSET Two]

BodyTypes ==
  /\ inline \in [Two -> Maybe] /\ pointer \in [Two -> Maybe]
  /\ object \in [Two -> [Texts -> {"none", "torn", "whole"}]]
  /\ persisting \in [Handlers -> Persist]

\* The variant a handler is at, and whether it is writing its text.
At(h) == IF "source" \in persisting[h].todo THEN "source" ELSE "rendered"
Writes(h, v, t) == persisting[h].pc = "writing" /\ At(h) = v /\ persisting[h].carried[v] = t

\* A handler carries the inline texts along; what it has put is stored, and a row it has
\* found is still there.
Carries(h) ==
  /\ \A v \in persisting[h].todo : persisting[h].carried[v] # NoText
  /\ persisting[h].pc = "writing" => persisting[h].todo # {}
  /\ \A v \in Two :
       /\ persisting[h].loaded[v] # NoText => pointer[v] # NoText
       /\ persisting[h].pc # "idle" =>
            /\ inline[v] # NoText => persisting[h].carried[v] # NoText
            /\ v \notin persisting[h].todo /\ persisting[h].carried[v] # NoText =>
                 object[v][persisting[h].carried[v]] # "none"

HandlerCarries == \A h \in Handlers : Carries(h)

\* What a row names was stored, and a torn file is being written.
TornIsWritten ==
  \A v \in Two : \A t \in Texts :
    object[v][t] = "torn" => \E h \in Handlers : Writes(h, v, t)

RowsNameObjects == \A v \in Two : pointer[v] # NoText => object[v][pointer[v]] # "none"

BodyInv == BodyTypes /\ HandlerCarries /\ TornIsWritten /\ RowsNameObjects
NoFiles == \A h \in Handlers : persisting[h].pc # "writing"

LEMMA BodyInit == ASSUME NEW L, NEW D, NEW n, Store(L, D, n)!Init PROVE BodyInv /\ NoFiles
<1> USE DEF Store!Init, Store!Variants, Store!Maybe, Store!Nothing, Store!Idle, Two, Maybe
<1>1. BodyTypes
  BY DEF BodyTypes, Persist
<1>2. \A h \in Handlers : persisting[h] = [pc |-> "idle", carried |-> [v \in Two |-> NoText],
                                           loaded |-> [v \in Two |-> NoText], todo |-> {}]
  OBVIOUS
<1>3. HandlerCarries /\ NoFiles
  BY <1>2 DEF HandlerCarries, Carries, NoFiles
<1>4. TornIsWritten /\ RowsNameObjects
  BY DEF TornIsWritten, RowsNameObjects
<1> QED BY <1>1, <1>3, <1>4 DEF BodyInv

\* The steps of a handler.
LEMMA ProduceStep ==
  ASSUME NEW L, NEW D, NEW n, BodyInv, NEW h \in Handlers, NEW v \in Two, NEW t \in Maybe,
         Store(L, D, n)!Produce(h, v, t)
  PROVE  BodyInv' /\ (NoFiles => NoFiles')
<1> DEFINE texts == [inline EXCEPT ![v] = IF t = NoText THEN @ ELSE t]
           todo == {u \in Two : texts[u] # NoText}
           now == [Store(L, D, n)!Idle EXCEPT !.pc = "next", !.carried = texts, !.todo = todo]
<1>1. /\ persisting[h].pc = "idle" /\ persisting' = [persisting EXCEPT ![h] = now]
      /\ UNCHANGED <<inline, pointer, object>>
  <2>1. Store(L, D, n)!Merged(v, t) = texts /\ Store(L, D, n)!Extracted(texts) = todo
    BY DEF Store!Merged, Store!Extracted, Store!Variants, Two
  <2> HIDE DEF texts, todo
  <2> QED BY <2>1 DEF Store!Produce
<1>2. texts \in [Two -> Maybe] /\ \A u \in Two : inline[u] # NoText => texts[u] # NoText
  BY DEF BodyInv, BodyTypes
<1>3. /\ now \in Persist /\ now.pc = "next" /\ now.carried = texts /\ now.todo = todo
      /\ \A u \in Two : now.loaded[u] = NoText
  <2>1. Store(L, D, n)!Idle = [pc |-> "idle", carried |-> [u \in Two |-> NoText],
                              loaded |-> [u \in Two |-> NoText], todo |-> {}]
    BY DEF Store!Idle, Store!Nothing, Store!Variants, Two
  <2>2. [u \in Two |-> NoText] \in [Two -> Maybe]
    BY DEF Maybe
  <2>3. /\ Store(L, D, n)!Idle \in Persist
        /\ \A u \in Two : Store(L, D, n)!Idle.loaded[u] = NoText
    BY <2>1, <2>2 DEF Persist
  <2>4. todo \in SUBSET Two
    OBVIOUS
  <2> HIDE DEF texts, todo
  <2> QED BY <1>2, <2>3, <2>4 DEF Persist
<1> HIDE DEF now
<1>4. persisting'[h] = now /\ \A g \in Handlers \ {h} : persisting'[g] = persisting[g]
  BY <1>1 DEF BodyInv, BodyTypes
<1>5. BodyTypes'
  BY <1>1, <1>3 DEF BodyInv, BodyTypes
<1>6. HandlerCarries'
  <2>1. \A u \in Two : u \in todo <=> texts[u] # NoText
    OBVIOUS
  <2>2. todo \subseteq Two
    OBVIOUS
  <2> HIDE DEF texts, todo
  <2>3. Carries(h)'
    BY <1>1, <1>2, <1>3, <1>4, <2>1, <2>2 DEF Carries
  <2>4. \A g \in Handlers \ {h} : Carries(g)'
    BY <1>1, <1>4 DEF BodyInv, HandlerCarries, Carries
  <2> QED BY <2>3, <2>4 DEF HandlerCarries
<1>7. \A g \in Handlers, u \in Two, s \in Texts : Writes(g, u, s) => Writes(g, u, s)'
  BY <1>1, <1>4 DEF Writes, At
<1>8. TornIsWritten' /\ RowsNameObjects'
  BY <1>1, <1>7 DEF BodyInv, TornIsWritten, RowsNameObjects
<1> QED BY <1>3, <1>4, <1>5, <1>6, <1>8 DEF BodyInv, NoFiles

\* A handler writes the text it is at: nothing that was stored goes away.
LEMMA StoreStep ==
  ASSUME BodyInv, NEW h \in Handlers, NEW state \in {"torn", "whole"},
         persisting[h].pc # "idle", persisting[h].todo # {},
         object' = [object EXCEPT ![At(h)][persisting[h].carried[At(h)]] = state]
  PROVE  /\ object' \in [Two -> [Texts -> {"none", "torn", "whole"}]]
         /\ At(h) \in persisting[h].todo /\ At(h) \in Two /\ persisting[h].carried[At(h)] \in Texts
         /\ object'[At(h)][persisting[h].carried[At(h)]] = state
         /\ \A v \in Two : \A t \in Texts :
              /\ object[v][t] # "none" => object'[v][t] # "none"
              /\ object'[v][t] = object[v][t] \/ (v = At(h) /\ t = persisting[h].carried[v])
<1>1. persisting[h] \in Persist
  BY DEF BodyInv, BodyTypes
<1>2. At(h) \in persisting[h].todo /\ At(h) \in Two
  BY <1>1 DEF At, Persist, Two
<1>3. persisting[h].carried[At(h)] \in Texts
  BY <1>1, <1>2 DEF BodyInv, HandlerCarries, Carries, Persist, Maybe
<1> HIDE DEF At
<1> QED BY <1>2, <1>3 DEF BodyInv, BodyTypes

LEMMA TruncateStep ==
  ASSUME NEW L, NEW D, NEW n, BodyInv, NEW h \in Handlers, Store(L, D, n)!Truncate(h)
  PROVE  BodyInv' /\ L
<1>1. /\ L /\ persisting[h].pc = "next" /\ persisting[h].todo # {}
      /\ object' = [object EXCEPT ![At(h)][persisting[h].carried[At(h)]] = "torn"]
      /\ persisting' = [persisting EXCEPT ![h].pc = "writing"]
      /\ UNCHANGED <<inline, pointer>>
  BY DEF Store!Truncate, Store!Stored, Store!Current, At
<1>2. persisting[h] \in Persist
  BY DEF BodyInv, BodyTypes
<1>3. /\ persisting'[h] = [persisting[h] EXCEPT !.pc = "writing"]
      /\ \A g \in Handlers \ {h} : persisting'[g] = persisting[g]
  BY <1>1 DEF BodyInv, BodyTypes
<1>4. /\ persisting'[h] \in Persist /\ persisting'[h].pc = "writing"
      /\ persisting'[h].carried = persisting[h].carried
      /\ persisting'[h].loaded = persisting[h].loaded
      /\ persisting'[h].todo = persisting[h].todo
  BY <1>2, <1>3 DEF Persist
<1>5. /\ object' \in [Two -> [Texts -> {"none", "torn", "whole"}]]
      /\ \A v \in Two : \A t \in Texts :
           /\ object[v][t] # "none" => object'[v][t] # "none"
           /\ object'[v][t] = object[v][t] \/ (v = At(h) /\ t = persisting[h].carried[v])
  BY <1>1, StoreStep
<1>6. BodyTypes'
  BY <1>1, <1>4, <1>5 DEF BodyInv, BodyTypes
<1>7. \A g \in Handlers, u \in Two, s \in Texts : Writes(g, u, s) => Writes(g, u, s)'
  BY <1>1, <1>3 DEF Writes, At
<1>8. \A u \in Two, s \in Texts : u = At(h) /\ s = persisting[h].carried[u] => Writes(h, u, s)'
  BY <1>4 DEF Writes, At
<1>9. TornIsWritten'
  BY <1>5, <1>7, <1>8 DEF BodyInv, TornIsWritten
<1>10. \A g \in Handlers, v \in Two : persisting[g].carried[v] \in Maybe /\ pointer[v] \in Maybe
  BY DEF BodyInv, BodyTypes, Persist
<1>11. RowsNameObjects'
  BY <1>1, <1>5, <1>10 DEF BodyInv, RowsNameObjects, Maybe
<1>12. HandlerCarries'
  BY <1>1, <1>3, <1>4, <1>5, <1>10 DEF BodyInv, HandlerCarries, Carries, Maybe
<1> QED BY <1>1, <1>6, <1>9, <1>11, <1>12 DEF BodyInv

LEMMA PutStep ==
  ASSUME NEW L, NEW D, NEW n, BodyInv, NEW h \in Handlers, Store(L, D, n)!Put(h)
  PROVE  BodyInv' /\ (NoFiles => NoFiles')
<1> DEFINE shared == \E g \in Handlers \ {h} : Writes(g, At(h), persisting[h].carried[At(h)])
           state == IF shared THEN "torn" ELSE "whole"
<1>1. /\ persisting[h].pc \in {"writing", "next"} /\ persisting[h].todo # {}
      /\ object' = [object EXCEPT ![At(h)][persisting[h].carried[At(h)]] = state]
      /\ persisting' = [persisting EXCEPT ![h].pc = "next", ![h].todo = @ \ {At(h)},
                                          ![h].loaded[At(h)] = pointer[At(h)]]
      /\ UNCHANGED <<inline, pointer>>
  BY DEF Store!Put, Store!Stored, Store!Current, Store!Shared, At, Writes
<1>2. persisting[h] \in Persist
  BY DEF BodyInv, BodyTypes
<1>3. /\ persisting'[h] = [persisting[h] EXCEPT !.pc = "next", !.todo = @ \ {At(h)},
                                               !.loaded[At(h)] = pointer[At(h)]]
      /\ \A g \in Handlers \ {h} : persisting'[g] = persisting[g]
  BY <1>1 DEF BodyInv, BodyTypes
<1>4. /\ object' \in [Two -> [Texts -> {"none", "torn", "whole"}]]
      /\ At(h) \in persisting[h].todo /\ At(h) \in Two /\ persisting[h].carried[At(h)] \in Texts
      /\ object'[At(h)][persisting[h].carried[At(h)]] = state
      /\ \A v \in Two : \A t \in Texts :
           /\ object[v][t] # "none" => object'[v][t] # "none"
           /\ object'[v][t] = object[v][t] \/ (v = At(h) /\ t = persisting[h].carried[v])
  <2>1. state \in {"torn", "whole"} /\ persisting[h].pc # "idle"
    BY <1>1
  <2> HIDE DEF state
  <2> QED BY <1>1, <2>1, StoreStep
<1>5. /\ persisting'[h].pc = "next"
      /\ persisting'[h].carried = persisting[h].carried
      /\ persisting'[h].loaded = [persisting[h].loaded EXCEPT ![At(h)] = pointer[At(h)]]
      /\ persisting'[h].todo = persisting[h].todo \ {At(h)}
  BY <1>2, <1>3 DEF Persist
<1>6. persisting'[h] \in Persist
  <2>1. pointer[At(h)] \in Maybe
    BY <1>4 DEF BodyInv, BodyTypes
  <2>2. [persisting[h].loaded EXCEPT ![At(h)] = pointer[At(h)]] \in [Two -> Maybe]
    BY <1>2, <2>1 DEF Persist
  <2> DEFINE l == [persisting[h].loaded EXCEPT ![At(h)] = pointer[At(h)]]
  <2>3. persisting'[h] = [persisting[h] EXCEPT !.pc = "next", !.todo = @ \ {At(h)}, !.loaded = l]
    BY <1>3
  <2> HIDE DEF l
  <2> QED BY <1>2, <2>2, <2>3 DEF Persist, l
<1>7. BodyTypes'
  BY <1>1, <1>3, <1>4, <1>6 DEF BodyInv, BodyTypes
<1>8. \A g \in Handlers \ {h}, u \in Two, s \in Texts : Writes(g, u, s) => Writes(g, u, s)'
  BY <1>3 DEF Writes, At
<1>9. \A u \in Two, s \in Texts : Writes(h, u, s) => u = At(h) /\ s = persisting[h].carried[u]
  BY DEF Writes
<1>10. ASSUME NEW u \in Two, NEW s \in Texts, object'[u][s] = "torn"
       PROVE  \E g \in Handlers : Writes(g, u, s)'
  <2>1. CASE u = At(h) /\ s = persisting[h].carried[u]
    BY <1>4, <1>8, <1>10, <2>1
  <2>2. CASE ~(u = At(h) /\ s = persisting[h].carried[u])
    <3>1. object[u][s] = "torn"
      BY <1>4, <1>10, <2>2
    <3>2. PICK g \in Handlers : Writes(g, u, s)
      BY <3>1 DEF BodyInv, TornIsWritten
    <3> QED BY <1>8, <1>9, <2>2, <3>2
  <2> QED BY <2>1, <2>2
<1> HIDE DEF state
<1>11. \A g \in Handlers, v \in Two : persisting[g].carried[v] \in Maybe /\ pointer[v] \in Maybe
  BY DEF BodyInv, BodyTypes, Persist
<1>12. RowsNameObjects'
  BY <1>1, <1>4, <1>11 DEF BodyInv, RowsNameObjects, Maybe
<1>13. /\ Carries(h) /\ persisting[h].pc # "idle"
       /\ \A v \in Two : \A t \in Texts : object[v][t] # "none" => object'[v][t] # "none"
       /\ object'[At(h)][persisting[h].carried[At(h)]] # "none"
       /\ At(h) \in Two
       /\ \A v \in Two \ {At(h)} : persisting'[h].loaded[v] = persisting[h].loaded[v]
       /\ persisting'[h].loaded[At(h)] = pointer[At(h)]
       /\ UNCHANGED <<inline, pointer>>
  <2>1. state # "none"
    BY DEF state
  <2>2. persisting[h].loaded \in [Two -> Maybe]
    BY <1>2 DEF Persist
  <2> QED BY <1>1, <1>4, <1>5, <2>1, <2>2 DEF BodyInv, HandlerCarries
<1>14. HandlerCarries'
  <2>1. Carries(h)'
    BY <1>5, <1>11, <1>13 DEF Carries, Maybe
  <2>2. ASSUME NEW g \in Handlers \ {h} PROVE Carries(g)'
    <3>1. Carries(g) /\ persisting'[g] = persisting[g]
      BY <1>3 DEF BodyInv, HandlerCarries
    <3> QED BY <1>11, <1>13, <3>1 DEF Carries, Maybe
  <2> QED BY <2>1, <2>2 DEF HandlerCarries
<1>15. BodyInv'
  BY <1>7, <1>10, <1>12, <1>14 DEF BodyInv, TornIsWritten
<1>16. NoFiles => NoFiles'
  BY <1>3, <1>5 DEF NoFiles
<1> QED BY <1>15, <1>16

\* A handler that ends without a commit leaves what it stored, and no torn file.
LEMMA DropStep ==
  ASSUME BodyInv, NEW h \in Handlers, persisting[h].pc # "writing",
         UNCHANGED <<inline, pointer, object>>,
         persisting' = [persisting EXCEPT ![h] = [pc |-> "idle", carried |-> [v \in Two |-> NoText],
                                                  loaded |-> [v \in Two |-> NoText], todo |-> {}]]
  PROVE  BodyInv' /\ (NoFiles => NoFiles')
<1> DEFINE idle == [pc |-> "idle", carried |-> [v \in Two |-> NoText],
                    loaded |-> [v \in Two |-> NoText], todo |-> {}]
<1>1. persisting'[h] = idle /\ \A g \in Handlers \ {h} : persisting'[g] = persisting[g]
  BY DEF BodyInv, BodyTypes
<1>2. idle \in Persist
  BY DEF Persist, Maybe
<1>3. BodyTypes'
  BY <1>2 DEF BodyInv, BodyTypes
<1>4. \A g \in Handlers, u \in Two, s \in Texts : Writes(g, u, s) => Writes(g, u, s)'
  BY <1>1 DEF Writes, At
<1>5. TornIsWritten' /\ RowsNameObjects'
  BY <1>4 DEF BodyInv, TornIsWritten, RowsNameObjects
<1>6. HandlerCarries'
  BY <1>1 DEF BodyInv, HandlerCarries, Carries
<1> QED BY <1>1, <1>3, <1>5, <1>6 DEF BodyInv, NoFiles

LEMMA CommitStep ==
  ASSUME NEW L, NEW D, NEW n, BodyInv, NEW h \in Handlers, Store(L, D, n)!Commit(h)
  PROVE  /\ BodyInv' /\ (NoFiles => NoFiles')
         /\ \A v \in Two : inline[v] # NoText \/ pointer[v] # NoText => pointer'[v] # NoText
<1>1. /\ persisting[h].pc = "next" /\ persisting[h].todo = {}
      /\ \A v \in Two : ~(/\ persisting[h].carried[v] # NoText
                          /\ persisting[h].loaded[v] = NoText /\ pointer[v] # NoText)
      /\ pointer' = [v \in Two |->
           IF persisting[h].carried[v] \in {NoText, persisting[h].loaded[v]} THEN pointer[v]
           ELSE persisting[h].carried[v]]
      /\ inline' = [v \in Two |-> NoText]
      /\ persisting' = [persisting EXCEPT ![h] = [pc |-> "idle", carried |-> [v \in Two |-> NoText],
                                                  loaded |-> [v \in Two |-> NoText], todo |-> {}]]
      /\ UNCHANGED object
  BY DEF Store!Commit, Store!Conflict, Store!Idle, Store!Nothing, Store!Variants, Two
<1> DEFINE idle == [pc |-> "idle", carried |-> [v \in Two |-> NoText],
                    loaded |-> [v \in Two |-> NoText], todo |-> {}]
<1>2. persisting'[h] = idle /\ \A g \in Handlers \ {h} : persisting'[g] = persisting[g]
  BY <1>1 DEF BodyInv, BodyTypes
<1>3. persisting[h] \in Persist
  BY DEF BodyInv, BodyTypes
<1>4. ASSUME NEW v \in Two
      PROVE  /\ pointer'[v] \in Maybe
             /\ pointer[v] # NoText => pointer'[v] # NoText
             /\ inline[v] # NoText => pointer'[v] # NoText
             /\ pointer'[v] # NoText => object[v][pointer'[v]] # "none"
  BY <1>1, <1>3 DEF BodyInv, BodyTypes, HandlerCarries, Carries, RowsNameObjects, Persist
<1>5. idle \in Persist
  BY DEF Persist, Maybe
<1>6. BodyTypes'
  <2>1. pointer' \in [Two -> Maybe]
    BY <1>1, <1>4
  <2>2. inline' \in [Two -> Maybe]
    BY <1>1 DEF Maybe
  <2> QED BY <1>1, <1>5, <2>1, <2>2 DEF BodyInv, BodyTypes
<1>7. \A g \in Handlers, u \in Two, s \in Texts : Writes(g, u, s) => Writes(g, u, s)'
  BY <1>1, <1>2 DEF Writes, At
<1>8. TornIsWritten' /\ RowsNameObjects'
  BY <1>1, <1>4, <1>7 DEF BodyInv, TornIsWritten, RowsNameObjects
<1>9. HandlerCarries'
  BY <1>1, <1>2, <1>4 DEF BodyInv, HandlerCarries, Carries
<1> QED BY <1>2, <1>4, <1>6, <1>8, <1>9 DEF BodyInv, NoFiles

\* No variant loses its text to a step: it stays inline, or a row comes to name it.
TextsStay ==
  \A v \in Two : /\ pointer[v] # NoText => pointer'[v] # NoText
                 /\ inline[v] # NoText => inline'[v] # NoText \/ pointer'[v] # NoText

\* Everything that a handler may do, as long as nobody dies inside a write of a file.
LEMMA BodyStep ==
  ASSUME NEW L, NEW D, NEW n, BodyInv, Store(L, D, n)!Next \/ UNCHANGED bodyVars,
         "death" \in D => ~L /\ NoFiles
  PROVE  BodyInv' /\ (~L /\ NoFiles => NoFiles') /\ TextsStay
<1> USE DEF TextsStay
<1>1. CASE UNCHANGED bodyVars
  <2> USE <1>1 DEF bodyVars
  <2>1. \A h : Carries(h) <=> Carries(h)'
    BY DEF Carries
  <2>2. \A h, v, t : Writes(h, v, t) <=> Writes(h, v, t)'
    BY DEF Writes, At
  <2>3. BodyInv'
    BY <2>1, <2>2 DEF BodyInv, BodyTypes, HandlerCarries, TornIsWritten, RowsNameObjects
  <2> QED BY <2>3 DEF NoFiles
<1>2. ASSUME NEW h \in Handlers, NEW v \in Two, NEW t \in Maybe, Store(L, D, n)!Produce(h, v, t)
      PROVE  UNCHANGED <<inline, pointer>>
  BY <1>2 DEF Store!Produce
<1>3. ASSUME NEW h \in Handlers, Store(L, D, n)!Truncate(h) \/ Store(L, D, n)!Put(h)
      PROVE  UNCHANGED <<inline, pointer>>
  BY <1>3, Zenon DEF Store!Truncate, Store!Put
<1>4. ASSUME NEW h \in Handlers, Store(L, D, n)!Abort(h) \/ Store(L, D, n)!Die(h)
      PROVE  BodyInv' /\ (NoFiles => NoFiles') /\ UNCHANGED <<inline, pointer>>
  <2>1. Store(L, D, n)!Idle = [pc |-> "idle", carried |-> [v \in Two |-> NoText],
                              loaded |-> [v \in Two |-> NoText], todo |-> {}]
    BY DEF Store!Idle, Store!Nothing, Store!Variants, Two
  <2>2. /\ UNCHANGED <<inline, pointer, object>>
        /\ persisting' = [persisting EXCEPT ![h] = Store(L, D, n)!Idle]
    BY <1>4 DEF Store!Abort, Store!Die
  <2>3. persisting[h].pc # "writing"
    BY <1>4 DEF Store!Abort, Store!Die, Store!Disturb, NoFiles
  <2> QED BY <2>1, <2>2, <2>3, DropStep
<1>5. ASSUME NEW h \in Handlers, Store(L, D, n)!Truncate(h), ~L PROVE FALSE
  BY <1>5 DEF Store!Truncate
<1>6. Store(L, D, n)!Variants = Two /\ Store(L, D, n)!Maybe = Maybe
  BY DEF Store!Variants, Store!Maybe, Two, Maybe
<1>7. CASE Store(L, D, n)!Next
  <2>1. PICK h \in Handlers :
          \/ \E v \in Two, t \in Maybe : Store(L, D, n)!Produce(h, v, t)
          \/ Store(L, D, n)!Truncate(h) \/ Store(L, D, n)!Put(h)
          \/ Store(L, D, n)!Abort(h) \/ Store(L, D, n)!Commit(h) \/ Store(L, D, n)!Die(h)
    BY <1>6, <1>7 DEF Store!Next
  <2>2. CASE \E v \in Two, t \in Maybe : Store(L, D, n)!Produce(h, v, t)
    BY <1>2, <2>2, ProduceStep
  <2>3. CASE Store(L, D, n)!Truncate(h)
    BY <1>3, <1>5, <2>3, TruncateStep
  <2>4. CASE Store(L, D, n)!Put(h)
    BY <1>3, <2>4, PutStep
  <2>5. CASE Store(L, D, n)!Commit(h)
    BY <2>5, CommitStep
  <2> QED BY <1>4, <2>1, <2>2, <2>3, <2>4, <2>5
<1> QED BY <1>1, <1>7

\* While the invariant holds, a text can be read, or is being written again, exactly when
\* a row names it or it is inline.
LEMMA BodySound ==
  ASSUME NEW L, NEW D, NEW n, BodyInv, NEW v \in Two
  PROVE  Store(L, D, n)!Resolvable(v) \/ Store(L, D, n)!BeingRewritten(v) <=>
           pointer[v] # NoText \/ inline[v] # NoText
<1>1. ASSUME pointer[v] # NoText
      PROVE  Store(L, D, n)!Resolvable(v) \/ Store(L, D, n)!BeingRewritten(v)
  <2>1. pointer[v] \in Texts /\ object[v][pointer[v]] \in {"torn", "whole"}
    BY <1>1 DEF BodyInv, BodyTypes, RowsNameObjects, Maybe
  <2>2. CASE object[v][pointer[v]] = "torn"
    <3>1. \E h \in Handlers : Writes(h, v, pointer[v])
      BY <2>1, <2>2 DEF BodyInv, TornIsWritten
    <3> QED BY <3>1 DEF Writes, At, Store!BeingRewritten, Store!Current
  <2> QED BY <1>1, <2>1, <2>2 DEF Store!Resolvable
<1>2. ASSUME pointer[v] = NoText
      PROVE  /\ Store(L, D, n)!Resolvable(v) <=> inline[v] # NoText
             /\ ~Store(L, D, n)!BeingRewritten(v)
  <2>1. ASSUME NEW h \in Handlers, persisting[h].pc = "writing"
        PROVE  persisting[h].carried[At(h)] # NoText
    <3>1. persisting[h] \in Persist /\ Carries(h)
      BY DEF BodyInv, BodyTypes, HandlerCarries
    <3> QED BY <2>1, <3>1 DEF Carries, Persist, At, Two
  <2> QED BY <1>2, <2>1 DEF Store!Resolvable, Store!BeingRewritten, Store!Current, At
<1> QED BY <1>1, <1>2

LEMMA BucketSame ==
  /\ Bucket!Init = Store(FALSE, {"crash", "death"}, Faults["bucket"])!Init
  /\ Bucket!Next = Store(FALSE, {"crash", "death"}, Faults["bucket"])!Next
<1>0. Bucket!Init = Store(FALSE, {"crash", "death"}, Faults["bucket"])!Init
  BY DEF Bucket!Init, Store!Init, Bucket!Variants, Store!Variants, Bucket!Maybe, Store!Maybe,
         Bucket!Nothing, Store!Nothing, Bucket!Idle, Store!Idle
<1>1. \A h, v, t : Bucket!Produce(h, v, t) <=>
         Store(FALSE, {"crash", "death"}, Faults["bucket"])!Produce(h, v, t)
  BY DEF Bucket!Produce, Store!Produce, Bucket!Merged, Store!Merged, Bucket!Idle, Store!Idle,
         Bucket!Extracted, Store!Extracted, Bucket!Nothing, Store!Nothing, Bucket!Variants,
         Store!Variants
<1>2. \A h : Bucket!Truncate(h) <=> Store(FALSE, {"crash", "death"}, Faults["bucket"])!Truncate(h)
  BY DEF Bucket!Truncate, Store!Truncate, Bucket!Stored, Store!Stored, Bucket!Current,
         Store!Current
<1>3. \A h : Bucket!Put(h) <=> Store(FALSE, {"crash", "death"}, Faults["bucket"])!Put(h)
  BY DEF Bucket!Put, Store!Put, Bucket!Current, Store!Current, Bucket!Stored, Store!Stored,
         Bucket!Shared, Store!Shared
<1>4. \A h : Bucket!Abort(h) <=> Store(FALSE, {"crash", "death"}, Faults["bucket"])!Abort(h)
  BY DEF Bucket!Abort, Store!Abort, Bucket!Conflict, Store!Conflict, Bucket!Idle, Store!Idle,
         Bucket!Variants, Store!Variants, Bucket!Nothing, Store!Nothing
<1>5. \A h : Bucket!Commit(h) <=> Store(FALSE, {"crash", "death"}, Faults["bucket"])!Commit(h)
  BY DEF Bucket!Commit, Store!Commit, Bucket!Conflict, Store!Conflict, Bucket!Variants,
         Store!Variants, Bucket!Nothing, Store!Nothing, Bucket!Idle, Store!Idle
<1>6. \A h : Bucket!Die(h) <=> Store(FALSE, {"crash", "death"}, Faults["bucket"])!Die(h)
  BY DEF Bucket!Die, Store!Die, Bucket!Disturb, Store!Disturb, Bucket!Idle, Store!Idle,
         Bucket!Nothing, Store!Nothing, Bucket!Variants, Store!Variants
<1> QED BY <1>0, <1>1, <1>2, <1>3, <1>4, <1>5, <1>6
       DEF Bucket!Next, Store!Next, Bucket!Variants, Store!Variants, Bucket!Maybe, Store!Maybe

LEMMA DiskSame ==
  /\ Disk!Init = Store(TRUE, {"crash"}, Faults["disk"])!Init
  /\ Disk!Next = Store(TRUE, {"crash"}, Faults["disk"])!Next
<1>0. Disk!Init = Store(TRUE, {"crash"}, Faults["disk"])!Init
  BY DEF Disk!Init, Store!Init, Disk!Variants, Store!Variants, Disk!Maybe, Store!Maybe,
         Disk!Nothing, Store!Nothing, Disk!Idle, Store!Idle
<1>1. \A h, v, t : Disk!Produce(h, v, t) <=>
         Store(TRUE, {"crash"}, Faults["disk"])!Produce(h, v, t)
  BY DEF Disk!Produce, Store!Produce, Disk!Merged, Store!Merged, Disk!Idle, Store!Idle,
         Disk!Extracted, Store!Extracted, Disk!Nothing, Store!Nothing, Disk!Variants,
         Store!Variants
<1>2. \A h : Disk!Truncate(h) <=> Store(TRUE, {"crash"}, Faults["disk"])!Truncate(h)
  BY DEF Disk!Truncate, Store!Truncate, Disk!Stored, Store!Stored, Disk!Current, Store!Current
<1>3. \A h : Disk!Put(h) <=> Store(TRUE, {"crash"}, Faults["disk"])!Put(h)
  BY DEF Disk!Put, Store!Put, Disk!Current, Store!Current, Disk!Stored, Store!Stored,
         Disk!Shared, Store!Shared
<1>4. \A h : Disk!Abort(h) <=> Store(TRUE, {"crash"}, Faults["disk"])!Abort(h)
  BY DEF Disk!Abort, Store!Abort, Disk!Conflict, Store!Conflict, Disk!Idle, Store!Idle,
         Disk!Variants, Store!Variants, Disk!Nothing, Store!Nothing
<1>5. \A h : Disk!Commit(h) <=> Store(TRUE, {"crash"}, Faults["disk"])!Commit(h)
  BY DEF Disk!Commit, Store!Commit, Disk!Conflict, Store!Conflict, Disk!Variants,
         Store!Variants, Disk!Nothing, Store!Nothing, Disk!Idle, Store!Idle
<1>6. \A h : Disk!Die(h) <=> Store(TRUE, {"crash"}, Faults["disk"])!Die(h)
  BY DEF Disk!Die, Store!Die, Disk!Disturb, Store!Disturb, Disk!Idle, Store!Idle, Disk!Nothing,
         Store!Nothing, Disk!Variants, Store!Variants
<1> QED BY <1>0, <1>1, <1>2, <1>3, <1>4, <1>5, <1>6
       DEF Disk!Next, Store!Next, Disk!Variants, Store!Variants, Disk!Maybe, Store!Maybe

\* What a reader of a variant finds depends on no disturbance.
Sound ==
  \A v \in Two : /\ Bucket!Resolvable(v) \/ Bucket!BeingRewritten(v) <=>
                     pointer[v] # NoText \/ inline[v] # NoText
                 /\ Disk!Resolvable(v) \/ Disk!BeingRewritten(v) <=>
                     pointer[v] # NoText \/ inline[v] # NoText

LEMMA BodiesSound == BodyInv => Sound
<1>1. \A v : /\ Bucket!Resolvable(v) <=> Store(TRUE, {}, 0)!Resolvable(v)
             /\ Disk!Resolvable(v) <=> Store(TRUE, {}, 0)!Resolvable(v)
  BY DEF Bucket!Resolvable, Disk!Resolvable, Store!Resolvable
<1>2. \A v : /\ Bucket!BeingRewritten(v) <=> Store(TRUE, {}, 0)!BeingRewritten(v)
             /\ Disk!BeingRewritten(v) <=> Store(TRUE, {}, 0)!BeingRewritten(v)
  BY DEF Bucket!BeingRewritten, Disk!BeingRewritten, Store!BeingRewritten, Bucket!Current,
         Disk!Current, Store!Current
<1> QED BY <1>1, <1>2, BodySound DEF Sound

LEMMA BodiesSoundNext == BodyInv' => Sound'
  BY BodiesSound, PTL

BodyScenes == BodyInv /\ (scene = "bucket" => NoFiles)

LEMMA BodiesKept ==
  /\ BackgroundInit => BodyScenes
  /\ BodyScenes /\ [BackgroundNext \/ NewsRest]_allVars =>
       /\ BodyScenes'
       /\ scene = "bucket" => Bucket!BodyKept
       /\ scene = "disk" => Disk!BodyKept
<1>1. BackgroundInit => BodyScenes
  BY BucketSame, BodyInit DEF BackgroundInit, BodyScenes
<1> SUFFICES ASSUME BodyScenes, [BackgroundNext \/ NewsRest]_allVars
             PROVE  /\ BodyScenes'
                    /\ scene = "bucket" => Bucket!BodyKept
                    /\ scene = "disk" => Disk!BodyKept
  BY <1>1
<1>2. /\ scene' = scene
      /\ scene = "bucket" =>
           Store(FALSE, {"crash", "death"}, Faults["bucket"])!Next \/ UNCHANGED bodyVars
      /\ scene = "disk" => Store(TRUE, {"crash"}, Faults["disk"])!Next \/ UNCHANGED bodyVars
      /\ scene \notin {"bucket", "disk"} => UNCHANGED bodyVars
  BY BucketSame, DiskSame DEF BackgroundNext, NewsRest, allVars
<1>3. CASE scene = "bucket"
  <2>1. BodyScenes' /\ TextsStay
    <3>1. Store(FALSE, {"crash", "death"}, Faults["bucket"])!Next \/ UNCHANGED bodyVars
      BY <1>2, <1>3
    <3>2. BodyInv /\ NoFiles
      BY <1>3 DEF BodyScenes
    <3>3. "death" \in {"crash", "death"} => ~FALSE /\ NoFiles
      BY <3>2
    <3>4. BodyInv' /\ (~FALSE /\ NoFiles => NoFiles') /\ TextsStay
      BY <3>1, <3>2, <3>3, BodyStep
    <3> QED BY <3>2, <3>4 DEF BodyScenes
  <2>2. Sound /\ Sound'
    BY <2>1, BodiesSound, BodiesSoundNext DEF BodyScenes
  <2>3. Bucket!BodyKept
    BY <2>1, <2>2 DEF Bucket!BodyKept, Bucket!Variants, Two, Sound, TextsStay
  <2> QED BY <1>3, <2>1, <2>3
<1>4. CASE scene # "bucket"
  <2>1. BodyScenes' /\ TextsStay
    <3>1. Store(TRUE, {"crash"}, Faults["disk"])!Next \/ UNCHANGED bodyVars
      BY <1>2, <1>4
    <3>2. BodyInv
      BY DEF BodyScenes
    <3>3. "death" \in {"crash"} => ~TRUE /\ NoFiles
      OBVIOUS
    <3>4. BodyInv' /\ TextsStay
      BY <3>1, <3>2, <3>3, BodyStep
    <3> QED BY <1>2, <1>4, <3>4 DEF BodyScenes
  <2>2. Sound /\ Sound'
    BY <2>1, BodiesSound, BodiesSoundNext DEF BodyScenes
  <2>3. Disk!BodyKept
    BY <2>1, <2>2 DEF Disk!BodyKept, Disk!Variants, Two, Sound, TextsStay
  <2> QED BY <1>4, <2>1, <2>3
<1> QED BY <1>3, <1>4

-----------------------------------------------------------------------------
(* Late and dead heartbeats: what is left of max_retries. *)

LastRetry == QueueRetries + Cardinality(QueueWorkers) - 1

\* Who may still retry a row: whatever the count is by now, it was below the limit at the claim.
Able(t) == {w \in QueueWorkers : /\ pc[w] # "idle" /\ job[w].task = t
                                 /\ job[w].retry < QueueRetries}

QueueTypes ==
  /\ retry_count \in [Tasks -> Nat]
  /\ pc \in [QueueWorkers -> {"idle", "busy", "finalizing"}]
  /\ job \in [QueueWorkers -> [task : Tasks \cup {NoTask}, retry : Nat]]
  /\ DOMAIN seen = QueueWorkers /\ \A w \in QueueWorkers : seen[w].retry \in Nat
  /\ \A w \in QueueWorkers : pc[w] # "idle" => job[w].task \in Tasks
  /\ watch = {}

\* Beyond the limit each step of the count, and of the count that a finalizing session has
\* loaded, is paid for by a worker that can do no more.
StepsArePaid ==
  \A t \in Tasks :
    /\ retry_count[t] >= QueueRetries => retry_count[t] + Cardinality(Able(t)) <= LastRetry
    /\ \A w \in Able(t) : pc[w] = "finalizing" /\ seen[w].retry >= QueueRetries =>
         retry_count[t] >= QueueRetries /\ seen[w].retry + Cardinality(Able(t)) <= LastRetry

OvershootInv == QueueTypes /\ StepsArePaid

\* With three workers and two retries a late finalization can bring the count back below the
\* limit while another one still carries a count above it.
FewWorkersOrRetries == QueueRetries <= 1 \/ Cardinality(QueueWorkers) <= 2

LEMMA AbleIsFinite ==
  \A t : /\ IsFiniteSet(Able(t)) /\ Cardinality(Able(t)) \in Nat
         /\ Cardinality(Able(t)) <= Cardinality(QueueWorkers)
         /\ Cardinality(QueueWorkers) \in Nat \ {0}
<1> TAKE t
<1>1. Able(t) \subseteq QueueWorkers
  BY DEF Able
<1>2. IsFiniteSet(Able(t)) /\ Cardinality(Able(t)) <= Cardinality(QueueWorkers)
  BY <1>1, StaleAssumption, FS_Subset
<1>3. Cardinality(QueueWorkers) \in Nat /\ Cardinality(QueueWorkers) # 0
  BY StaleAssumption, FS_CardinalityType, FS_EmptySet
<1> QED BY <1>2, <1>3, FS_CardinalityType

\* A worker that leaves the row alone changes nothing, but that it can do no more.
LEMMA FewerAreAble ==
  ASSUME OvershootInv, UNCHANGED <<retry_count, watch>>, QueueTypes',
         \A t \in Tasks : Able(t)' \subseteq Able(t),
         \A t \in Tasks : \A w \in Able(t)' : pc'[w] = "finalizing" =>
           pc[w] = "finalizing" /\ seen'[w] = seen[w]
  PROVE  OvershootInv'
<1>1. StepsArePaid'
  <2> SUFFICES ASSUME NEW t \in Tasks
               PROVE  /\ retry_count[t] >= QueueRetries =>
                           retry_count[t] + Cardinality(Able(t)') <= LastRetry
                      /\ \A w \in Able(t)' :
                           pc'[w] = "finalizing" /\ seen'[w].retry >= QueueRetries =>
                             /\ retry_count[t] >= QueueRetries
                             /\ seen'[w].retry + Cardinality(Able(t)') <= LastRetry
    BY DEF StepsArePaid, LastRetry
  <2>1. Cardinality(Able(t)') <= Cardinality(Able(t)) /\ Cardinality(Able(t)') \in Nat
    BY AbleIsFinite, FS_Subset, FS_CardinalityType
  <2>2. LastRetry \in Int /\ Cardinality(Able(t)) \in Nat
    BY AbleIsFinite, StaleAssumption DEF LastRetry
  <2>3. retry_count[t] \in Nat /\ \A w \in Able(t)' : seen'[w].retry \in Nat
    BY DEF OvershootInv, QueueTypes, Able
  <2> QED BY <2>1, <2>2, <2>3 DEF OvershootInv, StepsArePaid
<1> QED BY <1>1 DEF OvershootInv

LEMMA OvershootClaim ==
  ASSUME OvershootInv, NEW w \in QueueWorkers, NEW t \in Tasks, Stale!Claim(w, t)
  PROVE  OvershootInv'
<1> USE DEF OvershootInv
<1>1. /\ pc[w] = "idle" /\ pc' = [pc EXCEPT ![w] = "busy"]
      /\ job' = [job EXCEPT ![w] = [task |-> t, retry |-> retry_count[t]]]
      /\ UNCHANGED <<retry_count, seen, watch>>
  BY DEF Stale!Claim
<1>2. QueueTypes'
  BY <1>1 DEF QueueTypes
<1>3. \A u \in Tasks : Able(u)' \subseteq Able(u) \/ (u = t /\ retry_count[t] < QueueRetries)
  BY <1>1 DEF Able, QueueTypes
<1>4. CASE retry_count[t] < QueueRetries
  <2> SUFFICES ASSUME NEW u \in Tasks
               PROVE  /\ retry_count[u] >= QueueRetries =>
                           retry_count[u] + Cardinality(Able(u)') <= LastRetry
                      /\ \A v \in Able(u)' :
                           pc'[v] = "finalizing" /\ seen[v].retry >= QueueRetries =>
                             /\ retry_count[u] >= QueueRetries
                             /\ seen[v].retry + Cardinality(Able(u)') <= LastRetry
    BY <1>1, <1>2 DEF StepsArePaid, LastRetry
  <2>1. CASE u # t
    <3>1. Able(u)' = Able(u) /\ w \notin Able(u)
      BY <1>1, <2>1 DEF Able, QueueTypes
    <3>2. \A v \in Able(u) : pc'[v] = pc[v]
      BY <1>1, <3>1 DEF Able, QueueTypes
    <3> QED BY <3>1, <3>2 DEF StepsArePaid
  <2>2. CASE u = t
    <3>1. \A v \in Able(t)' : v = w \/ (v \in Able(t) /\ pc'[v] = pc[v])
      BY <1>1 DEF Able, QueueTypes
    <3>2. pc'[w] = "busy"
      BY <1>1 DEF QueueTypes
    <3>3. retry_count[t] \in Nat
      BY DEF QueueTypes
    <3> QED BY <2>2, <3>1, <3>2, <3>3, <1>4, StaleAssumption DEF StepsArePaid
  <2> QED BY <2>1, <2>2
<1>5. CASE ~(retry_count[t] < QueueRetries)
  <2>1. \A u \in Tasks : Able(u)' \subseteq Able(u)
    BY <1>3, <1>5
  <2>2. \A u \in Tasks : \A v \in Able(u)' : pc'[v] = "finalizing" => pc[v] = "finalizing"
    BY <1>1 DEF Able, QueueTypes
  <2> QED BY <1>1, <1>2, <2>1, <2>2, FewerAreAble
<1> QED BY <1>4, <1>5

LEMMA OvershootLoad ==
  ASSUME OvershootInv, NEW w \in QueueWorkers, NEW outcome, Stale!LoadForFinalize(w, outcome)
  PROVE  OvershootInv'
<1> USE DEF OvershootInv
<1> DEFINE r == job[w].task
<1>1. PICK now : now = [status |-> status[r], owner |-> locked_by[r],
                        retry |-> retry_count[r], outcome |-> outcome]
  OBVIOUS
<1>2. now.retry = retry_count[r]
  BY <1>1
<1>3. /\ pc[w] = "busy" /\ pc' = [pc EXCEPT ![w] = "finalizing"]
      /\ seen' = [seen EXCEPT ![w] = now] /\ UNCHANGED <<retry_count, job, watch>>
  BY <1>1 DEF Stale!LoadForFinalize, Stale!rows
<1>4. r \in Tasks
  BY <1>3 DEF QueueTypes
<1>5. QueueTypes'
  BY <1>2, <1>3, <1>4 DEF QueueTypes
<1>6. \A t \in Tasks : Able(t)' = Able(t)
  BY <1>3 DEF Able, QueueTypes
<1>7. ASSUME NEW t \in Tasks, NEW v \in Able(t)', pc'[v] = "finalizing",
             seen'[v].retry >= QueueRetries
      PROVE  retry_count[t] >= QueueRetries /\ seen'[v].retry + Cardinality(Able(t)) <= LastRetry
  <2>1. CASE v = w
    <3>1. r = t /\ seen'[v].retry = retry_count[t]
      BY <1>2, <1>3, <1>6, <1>7, <2>1 DEF Able, QueueTypes
    <3> QED BY <1>7, <3>1 DEF StepsArePaid
  <2>2. CASE v # w
    <3>1. v \in Able(t) /\ pc[v] = "finalizing" /\ seen'[v] = seen[v]
      BY <1>3, <1>6, <1>7, <2>2 DEF Able, QueueTypes
    <3> QED BY <1>7, <3>1 DEF StepsArePaid
  <2> QED BY <2>1, <2>2
<1>8. StepsArePaid'
  BY <1>3, <1>6, <1>7 DEF StepsArePaid, LastRetry
<1> QED BY <1>5, <1>8

\* Back to polling: one worker less.
LEMMA OvershootRelease ==
  ASSUME OvershootInv, NEW w \in QueueWorkers, Stale!Release(w)
  PROVE  /\ pc' \in [QueueWorkers -> {"idle", "busy", "finalizing"}]
         /\ job' \in [QueueWorkers -> [task : Tasks \cup {NoTask}, retry : Nat]]
         /\ DOMAIN seen' = QueueWorkers /\ \A v \in QueueWorkers : seen'[v].retry \in Nat
         /\ \A v \in QueueWorkers : pc'[v] # "idle" => job'[v].task \in Tasks
         /\ \A t \in Tasks : Able(t)' = Able(t) \ {w}
         /\ \A v \in QueueWorkers \ {w} : pc'[v] = pc[v] /\ seen'[v] = seen[v]
<1> USE DEF OvershootInv, QueueTypes
<1>1. /\ pc' = [pc EXCEPT ![w] = "idle"] /\ job' = [job EXCEPT ![w] = Stale!NoJob]
      /\ seen' = [seen EXCEPT ![w] = Stale!NotLoaded]
  BY DEF Stale!Release
<1>2. Stale!NoJob \in [task : Tasks \cup {NoTask}, retry : Nat]
  BY DEF Stale!NoJob
<1>3. Stale!NotLoaded.retry \in Nat
  BY DEF Stale!NotLoaded
<1>4. /\ pc'[w] = "idle" /\ pc' \in [QueueWorkers -> {"idle", "busy", "finalizing"}]
      /\ job' \in [QueueWorkers -> [task : Tasks \cup {NoTask}, retry : Nat]]
      /\ DOMAIN seen' = QueueWorkers /\ seen'[w].retry \in Nat
      /\ \A v \in QueueWorkers \ {w} : pc'[v] = pc[v] /\ job'[v] = job[v] /\ seen'[v] = seen[v]
  BY <1>1, <1>2, <1>3
<1>5. \A t \in Tasks : Able(t)' = Able(t) \ {w}
  BY <1>4 DEF Able
<1> QED BY <1>4, <1>5

LEMMA OvershootEnds ==
  ASSUME OvershootInv, NEW w \in QueueWorkers, Stale!Release(w),
         UNCHANGED <<retry_count, watch>>
  PROVE  OvershootInv'
<1>1. QueueTypes'
  BY OvershootRelease DEF OvershootInv, QueueTypes
<1>2. \A t \in Tasks : \A v \in Able(t)' : v \in QueueWorkers \ {w}
  BY OvershootRelease DEF Able
<1> QED BY <1>1, <1>2, OvershootRelease, FewerAreAble

LEMMA OvershootCommit ==
  ASSUME FewWorkersOrRetries, OvershootInv, NEW w \in QueueWorkers, NEW d,
         Stale!CommitFinalize(w, d)
  PROVE  OvershootInv'
<1> USE DEF OvershootInv
<1>0. pc[w] = "finalizing" /\ job[w].task \in Tasks
  BY DEF Stale!CommitFinalize, QueueTypes
<1> PICK r \in Tasks : r = job[w].task
  BY <1>0
<1> DEFINE new == Stale!Larger(seen[w].retry, job[w].retry) + 1
<1>1. /\ pc[w] = "finalizing" /\ Stale!Release(w) /\ UNCHANGED watch
      /\ retry_count' = [retry_count EXCEPT ![r] =
           IF Stale!Verdict(w) = "pending" THEN new ELSE @]
  BY DEF Stale!CommitFinalize
<1>2. r \in Tasks /\ seen[w].retry \in Nat /\ job[w].retry \in Nat
  BY <1>1 DEF QueueTypes
<1>3. new \in Nat /\ new >= seen[w].retry + 1 /\ new >= 1
      /\ (seen[w].retry >= job[w].retry => new = seen[w].retry + 1)
      /\ (seen[w].retry < job[w].retry => new = job[w].retry + 1)
  BY <1>2 DEF Stale!Larger
<1>4. Stale!Verdict(w) = "pending" => job[w].retry < QueueRetries
  BY DEF Stale!Verdict
<1> HIDE DEF new
<1>5. CASE Stale!Verdict(w) # "pending"
  <2>1. retry_count' = retry_count
    BY <1>1, <1>2, <1>5 DEF QueueTypes
  <2> QED BY <1>1, <2>1, OvershootEnds
<1>6. CASE Stale!Verdict(w) = "pending"
  <2>1. w \in Able(r)
    BY <1>1, <1>4, <1>6 DEF Able
  <2>2. /\ retry_count' \in [Tasks -> Nat] /\ retry_count'[r] = new
        /\ \A t \in Tasks \ {r} : retry_count'[t] = retry_count[t]
    BY <1>1, <1>2, <1>3, <1>6 DEF QueueTypes
  <2>3. QueueTypes'
    BY <1>1, <2>2, OvershootRelease DEF QueueTypes
  <2>4. \A t \in Tasks : Able(t)' = Able(t) \ {w}
    BY <1>1, OvershootRelease
  <2>5. \A t \in Tasks : \A v \in Able(t)' :
          /\ v \in Able(t) /\ v # w /\ v \in QueueWorkers
          /\ pc'[v] = pc[v] /\ seen'[v] = seen[v] /\ seen[v].retry \in Nat
    BY <1>1, <2>4, OvershootRelease DEF Able, QueueTypes
  <2>6. ASSUME NEW t \in Tasks, t # r
        PROVE  /\ retry_count'[t] >= QueueRetries =>
                    retry_count'[t] + Cardinality(Able(t)') <= LastRetry
               /\ \A v \in Able(t)' : pc'[v] = "finalizing" /\ seen'[v].retry >= QueueRetries =>
                    /\ retry_count'[t] >= QueueRetries
                    /\ seen'[v].retry + Cardinality(Able(t)') <= LastRetry
    <3>1. w \notin Able(t)
      BY <2>6 DEF Able
    <3>2. Able(t)' = Able(t) /\ retry_count'[t] = retry_count[t]
      BY <2>2, <2>4, <2>6, <3>1
    <3> QED BY <2>5, <3>2 DEF StepsArePaid
  <2> DEFINE n == Cardinality(Able(r))
             W == Cardinality(QueueWorkers)
  <2>7. Cardinality(Able(r)') = n - 1 /\ n \in Nat /\ n >= 1 /\ n <= W /\ W \in Nat \ {0}
    <3>1. IsFiniteSet(Able(r)) /\ n \in Nat /\ n <= W /\ W \in Nat \ {0}
      BY AbleIsFinite
    <3>2. Cardinality(Able(r) \ {w}) = n - 1 /\ n # 0
      BY <2>1, <3>1, FS_RemoveElement, FS_EmptySet
    <3> QED BY <1>2, <2>4, <3>1, <3>2
  <2>8. QueueRetries \in Nat /\ LastRetry = QueueRetries + W - 1
    BY StaleAssumption DEF LastRetry
  <2>9. seen[w].retry >= QueueRetries => seen[w].retry + n <= LastRetry
    BY <1>1, <1>2, <2>1 DEF StepsArePaid
  <2> HIDE DEF n, W
  <2>10. new >= QueueRetries => new + (n - 1) <= LastRetry
    BY <1>2, <1>3, <1>4, <1>6, <2>7, <2>8, <2>9
  <2>11. ASSUME NEW v \in Able(r)', pc'[v] = "finalizing", seen'[v].retry >= QueueRetries
         PROVE  new >= QueueRetries /\ seen'[v].retry + (n - 1) <= LastRetry
    <3>1. v \in Able(r) /\ v # w /\ pc[v] = "finalizing" /\ seen'[v] = seen[v]
          /\ seen[v].retry \in Nat /\ seen[v].retry >= QueueRetries
      BY <1>2, <2>5, <2>11
    <3>2. seen[v].retry + n <= LastRetry
      BY <1>2, <3>1 DEF StepsArePaid, n
    <3>3. n >= 2
      <4>1. Able(r)' # {} /\ IsFiniteSet(Able(r)')
        BY <2>4, <2>11, <1>2, AbleIsFinite, FS_Subset
      <4>2. Cardinality(Able(r)') # 0 /\ Cardinality(Able(r)') \in Nat
        BY <4>1, FS_EmptySet, FS_CardinalityType
      <4> QED BY <2>7, <4>2
    <3>4. QueueRetries <= 1
      BY <2>7, <2>8, <3>1, <3>2, <3>3 DEF FewWorkersOrRetries, W
    <3> QED BY <1>3, <2>7, <2>8, <3>1, <3>2, <3>4
  <2>12. StepsArePaid'
    <3> SUFFICES ASSUME NEW t \in Tasks
                 PROVE  /\ retry_count'[t] >= QueueRetries =>
                             retry_count'[t] + Cardinality(Able(t)') <= LastRetry
                        /\ \A v \in Able(t)' :
                             pc'[v] = "finalizing" /\ seen'[v].retry >= QueueRetries =>
                               /\ retry_count'[t] >= QueueRetries
                               /\ seen'[v].retry + Cardinality(Able(t)') <= LastRetry
      BY DEF StepsArePaid, LastRetry
    <3> QED BY <2>2, <2>6, <2>7, <2>10, <2>11
  <2> QED BY <2>3, <2>12
<1> QED BY <1>5, <1>6

LEMMA OvershootInit == Stale!Init => OvershootInv
<1> SUFFICES ASSUME Stale!Init PROVE OvershootInv
  OBVIOUS
<1>1. \A t \in Tasks : Able(t) = {} /\ retry_count[t] = 0
  BY DEF Stale!Init, Able
<1>2. QueueTypes
  BY DEF Stale!Init, QueueTypes, Stale!NoJob, Stale!NotLoaded
<1>3. Cardinality({}) = 0 /\ LastRetry >= 0 + 0 /\ LastRetry \in Int
      /\ LastRetry >= QueueRetries
  BY FS_EmptySet, StaleAssumption, AbleIsFinite DEF LastRetry
<1> QED BY <1>1, <1>2, <1>3 DEF OvershootInv, StepsArePaid

LEMMA OvershootStep ==
  ASSUME FewWorkersOrRetries, OvershootInv, [Stale!Next]_queueVars
  PROVE  OvershootInv'
<1>1. ASSUME UNCHANGED <<retry_count, job, watch>>,
             \A w \in QueueWorkers : pc'[w] = pc[w] /\ seen'[w] = seen[w],
             DOMAIN seen' = DOMAIN seen, pc' = pc
      PROVE  OvershootInv'
  <2>1. QueueTypes' /\ \A t \in Tasks : Able(t)' = Able(t)
    BY <1>1 DEF OvershootInv, QueueTypes, Able
  <2>2. \A t \in Tasks : \A w \in Able(t) : pc'[w] = pc[w] /\ seen'[w] = seen[w]
    BY <1>1 DEF Able
  <2> QED BY <1>1, <2>1, <2>2, FewerAreAble
<1>2. CASE UNCHANGED queueVars
  BY <1>1, <1>2 DEF queueVars
<1>3. ASSUME NEW t, NEW k, Stale!Enqueue(t, k) PROVE OvershootInv'
  BY <1>1, <1>3 DEF Stale!Enqueue, Stale!procs
<1>4. ASSUME NEW w \in QueueWorkers, Stale!WorkerStep(w) PROVE OvershootInv'
  <2>1. CASE Stale!Renew(w)
    BY <1>1, <2>1 DEF Stale!Renew
  <2>2. ASSUME Stale!FinalizeMissing(w) \/ Stale!FinalizeRejected(w) PROVE OvershootInv'
    BY <2>2, OvershootEnds DEF Stale!FinalizeMissing, Stale!FinalizeRejected, Stale!rows
  <2> QED BY <1>4, <2>1, <2>2, OvershootClaim, OvershootLoad, OvershootCommit
          DEF Stale!WorkerStep, Stale!Finish
<1>5. ASSUME NEW w \in QueueWorkers, Stale!Fault(w) PROVE OvershootInv'
  <2>1. CASE Stale!HeartbeatDies(w)
    BY <1>1, <2>1 DEF Stale!HeartbeatDies, Stale!rows
  <2>2. ASSUME Stale!FinalizeDbError(w) \/ Stale!Crash(w) PROVE OvershootInv'
    BY <2>2, OvershootEnds DEF Stale!FinalizeDbError, Stale!Crash, Stale!rows
  <2> QED BY <1>5, <2>1, <2>2 DEF Stale!Fault
<1>6. ~Stale!Watchdog
  BY DEF OvershootInv, QueueTypes, Stale!Watchdog, Stale!WatchdogLoad, Stale!WatchdogCommit,
         Stale!WatchdogRollback, Stale!Disturb
<1>7. ASSUME NEW t \in Tasks PROVE ~Stale!Manual(t)
  BY DEF Stale!Manual, Stale!RetryTask, Stale!CompleteTask, Stale!Cleanup, Stale!Disturb
<1>8. CASE Stale!Tick
  BY <1>1, <1>8 DEF Stale!Tick
<1> QED BY <1>2, <1>3, <1>4, <1>5, <1>6, <1>7, <1>8 DEF Stale!Next

-----------------------------------------------------------------------------
(* A behaviour stays in its scene. *)

LEMMA SceneStays ==
  ASSUME [BackgroundNext \/ NewsRest]_allVars
  PROVE  /\ scene' = scene
         /\ [Next]_vars
         /\ scene = "cluster" => [Cluster!Next]_(Cluster!vars)
         /\ scene = "press" => [Press!Next]_(Press!vars)
         /\ scene \notin {"cluster", "press"} => UNCHANGED newsVars
         /\ scene = "page" => [Page!Next]_(Page!vars)
         /\ scene = "shelf" => [Shelf!Next]_(Shelf!vars)
  BY DEF BackgroundNext, NewsRest, allVars, newsVars, fileVars, Cluster!vars, Press!vars,
         Page!vars, Shelf!vars

\* While the list of buckets stays the same none of them is left out more often than the
\* list is long, whatever the number of retries and the cursor it begins with
\* (QueueService._ordered_retry_counts).
THEOREM RotationIsSteady == BackgroundSpec => []SteadyRotation
<1>1. BackgroundInit => RotationInv
  BY RotationInit DEF BackgroundInit
<1>2. RotationInv /\ [BackgroundNext \/ NewsRest]_allVars => RotationInv'
  BY SceneStays, RotationStep
<1> QED BY <1>1, <1>2, RotationSound, PTL DEF BackgroundSpec

\* With late and dead heartbeats, crashes and lost finalizations, and at most two workers or one
\* retry, every worker but one can add one retry to the limit and no more, however often leases
\* run out (finalize_task compares the claimed count with max_retries).
THEOREM OvershootIsBounded ==
  ASSUME FewWorkersOrRetries PROVE BackgroundSpec => []BoundedOvershoot
<1>1. BackgroundInit => OvershootInv
  BY OvershootInit DEF BackgroundInit
<1>2. OvershootInv /\ [BackgroundNext \/ NewsRest]_allVars => OvershootInv'
  <2> SUFFICES ASSUME OvershootInv, [BackgroundNext \/ NewsRest]_allVars PROVE OvershootInv'
    OBVIOUS
  <2>1. [Stale!Next]_queueVars
    BY DEF BackgroundNext, NewsRest, allVars
  <2> QED BY <2>1, OvershootStep
<1>3. OvershootInv => BoundedOvershoot
  <2> SUFFICES ASSUME OvershootInv, NEW t \in Tasks
               PROVE  retry_count[t] <= QueueRetries + Stale!Cardinality(QueueWorkers) - 1
    BY DEF BoundedOvershoot, Stale!BoundedOvershoot
  <2>1. Stale!Cardinality(QueueWorkers) = Cardinality(QueueWorkers)
    BY DEF Stale!Cardinality, Cardinality
  <2>2. retry_count[t] \in Nat /\ QueueRetries \in Nat
    BY StaleAssumption DEF OvershootInv, QueueTypes
  <2>3. retry_count[t] >= QueueRetries => retry_count[t] + Cardinality(Able(t)) <= LastRetry
    BY DEF OvershootInv, StepsArePaid
  <2> QED BY <2>1, <2>2, <2>3, AbleIsFinite DEF LastRetry
<1> QED BY <1>1, <1>2, <1>3, PTL DEF BackgroundSpec

NewsInv ==
  /\ scene = "cluster" =>
       ClusterProof!SoleInv /\ ClusterProof!Unmet /\ ClusterProof!Copies
  /\ scene = "press" => PressProof!OnceInv /\ PressProof!Copies

MetadataGrow ==
  /\ scene = "cluster" => Cluster!MetadataGrows
  /\ scene = "press" => Press!MetadataGrows

LEMMA NewsKept ==
  /\ BackgroundInit => NewsInv
  /\ NewsInv /\ [BackgroundNext \/ NewsRest]_allVars => NewsInv' /\ MetadataGrow
<1>1. BackgroundInit => NewsInv
  BY ClusterKept, PressKept DEF BackgroundInit, NewsInv
<1>2. ASSUME NewsInv, [BackgroundNext \/ NewsRest]_allVars PROVE NewsInv' /\ MetadataGrow
  BY <1>2, SceneStays, ClusterKept, PressKept DEF NewsInv, MetadataGrow
<1> QED BY <1>1, <1>2

\* No item hides behind an item that hides behind it, with one process that repeats tasks
\* and with several that do not, and one process leaves no unsettled item to nobody
\* (process_news_item, reconcile_news_item_relation).
THEOREM NoNewsGetLost == BackgroundSpec => []NoNewsLost
<1>1. NewsInv => NoNewsLost
  BY ClusterSound, PressKept DEF NewsInv, NoNewsLost
<1> QED BY <1>1, NewsKept, PTL DEF BackgroundSpec

\* With one process a story is in the feed once and its size counts the rows behind it,
\* whatever fails and is repeated.
THEOREM StoriesAreToldOnce == BackgroundSpec => []OneRepresentative
<1>1. NewsInv => OneRepresentative
  BY ClusterSound DEF NewsInv, OneRepresentative
<1> QED BY <1>1, NewsKept, PTL DEF BackgroundSpec

\* What the metadata of a news item has is dropped only by a session that had loaded the
\* row before somebody else's commit, whatever fails, dies, is repeated or met again: no
\* handler writes back what it had loaded before a commit of its own.
THEOREM MetadataIsKept == BackgroundSpec => MetadataKept
  BY NewsKept, PTL DEF BackgroundSpec, MetadataKept, MetadataGrow

\* Whatever failed, overlapped or was renamed before, a call that runs alone leaves
\* exactly the files that belong to its contents (personal_markdown_library.py).
THEOREM LibraryGetsRepaired == BackgroundSpec => []LibraryRepaired
<1> DEFINE Inv == /\ scene = "page" => PageProof!IInv
                  /\ scene = "shelf" => ShelfProof!IInv
<1>1. BackgroundInit => Inv
  BY PageKept, ShelfKept DEF BackgroundInit
<1>2. Inv /\ [BackgroundNext \/ NewsRest]_allVars => Inv'
  BY SceneStays, PageKept, ShelfKept
<1>3. Inv => LibraryRepaired
  BY PageKept, ShelfKept DEF LibraryRepaired
<1> QED BY <1>1, <1>2, <1>3, PTL DEF BackgroundSpec

\* A text of a content that could be read once can be read for ever, but for the moments in
\* which its file is written again: handlers may put the same and other texts at the same
\* time, clash at their commits, and die anywhere but inside the write of a file
\* (content_bodies.py sync_content_body_storage, resolve).
THEOREM BodiesStayReadable == BackgroundSpec => BodyStays
  BY BodiesKept, PTL DEF BackgroundSpec, BodyStays
=============================================================================

--------------------------- MODULE ChatProofs ---------------------------
(***************************************************************************)
(* The chat, the app's session, the councils and the lists, for every set  *)
(* of requests, councils, contents and calls, every choice of kinds and    *)
(* disturbances and every number of faults: no turn is abandoned without a *)
(* fault, the context of a run is sound, an answer stays, a prompt is      *)
(* repeated only by the deaths of its worker; the app's session ends with  *)
(* a logout or an expired token; a council row shows answers that its      *)
(* branches gave, and a branch that answered never shows old turns again;  *)
(* nothing is missing at the end of a list.                                *)
(***************************************************************************)
EXTENDS Chat, FiniteSetTheorems, SequenceTheorems, WellFoundedInduction, NaturalsInduction, TLAPS

-----------------------------------------------------------------------------
(* The turns of a chat session *)

Statuses == {"processing", "completed", "failed"}
TurnRow == [request : Requests, status : Statuses, answered : BOOLEAN]
RunType == [kind : AllKinds \cup {"none"},
            pc : {"none", "filed", "waiting", "calling", "recorded", "over"},
            row : {NoRow} \cup DOMAIN rows, context : SUBSET DOMAIN rows]
Live == {"waiting", "calling", "recorded"}
Copies(r) == {i \in DOMAIN rows : rows[i].request = r}

\* A run that is under way has a row, and the row is its request's: no two
\* runs share one.
OwnRow ==
  \A r \in Requests : run[r].pc \in Live =>
    run[r].row \in DOMAIN rows /\ rows[run[r].row].request = r

\* Where a run stands tells the status of its row.
StatusOfRun ==
  \A r \in Requests :
    /\ run[r].pc \in {"waiting", "calling"} => rows[run[r].row].status = "processing"
    /\ run[r].pc = "recorded" => rows[run[r].row].status = "completed"

\* A completed row has been answered, and what was answered when a prompt was
\* sent is settled.
Settled ==
  /\ \A i \in DOMAIN rows : rows[i].status = "completed" => rows[i].answered
  /\ \A r \in Requests : \A i \in known[r] : rows[i].answered /\ rows[i].status # "processing"

\* A death of a worker is one of the faults.
DeathsAreFaults == \A r \in Requests : deaths[r] <= faults

\* Whether a row of the request may be there already.
Begun(p) == IF run[p].pc \in {"none", "filed"} THEN 0 ELSE 1

\* Before its row is created a request has a copy for each death at most.
Repeats ==
  \A r \in Requests :
    /\ IsFiniteSet(Copies(r))
    /\ Cardinality(Copies(r)) <= deaths[r] + Begun(r)

Core == TypeOK /\ OwnRow /\ StatusOfRun /\ DeathsAreFaults
IInv == Core /\ Settled /\ ContextSound /\ NothingAbandoned /\ Repeats

-----------------------------------------------------------------------------
(* What a step does to the rows *)

\* A new row leaves the others as they are.
LEMMA NewRow ==
  ASSUME rows \in Seq(TurnRow), NEW r \in Requests, rows' = Append(rows, Row(r))
  PROVE  /\ rows' \in Seq(TurnRow)
         /\ DOMAIN rows' = DOMAIN rows \cup {Len(rows) + 1}
         /\ Len(rows) + 1 \notin DOMAIN rows
         /\ Len(rows) + 1 \in Nat \ {0}
         /\ \A i \in DOMAIN rows : rows'[i] = rows[i]
         /\ rows'[Len(rows) + 1] = Row(r)
<1>1. Row(r) \in TurnRow
  BY DEF Row, TurnRow, Statuses
<1> QED BY <1>1

\* A row that is marked changes, and no other.
LEMMA MarkedRow ==
  ASSUME rows \in Seq(TurnRow), NEW i \in DOMAIN rows,
         NEW status \in Statuses, NEW answered \in BOOLEAN,
         rows' = [rows EXCEPT ![i].status = status, ![i].answered = answered]
  PROVE  /\ rows' \in Seq(TurnRow)
         /\ DOMAIN rows' = DOMAIN rows
         /\ \A j \in DOMAIN rows : j # i => rows'[j] = rows[j]
         /\ rows'[i] = [rows[i] EXCEPT !.status = status, !.answered = answered]
         /\ rows'[i].request = rows[i].request
         /\ rows'[i].status = status
         /\ rows'[i].answered = answered
<1> DEFINE new == [rows[i] EXCEPT !.status = status, !.answered = answered]
<1>1. rows[i] \in TurnRow
  OBVIOUS
<1>2. /\ new \in TurnRow
      /\ new.request = rows[i].request /\ new.status = status /\ new.answered = answered
  BY <1>1 DEF TurnRow, Statuses
<1>3. rows' = [rows EXCEPT ![i] = new]
  OBVIOUS
<1> HIDE DEF new
<1>4. rows' \in Seq(TurnRow) /\ DOMAIN rows' = DOMAIN rows
  <2>1. i \in 1..Len(rows)
    OBVIOUS
  <2>2. [rows EXCEPT ![i] = new] \in Seq(TurnRow) /\ Len([rows EXCEPT ![i] = new]) = Len(rows)
    BY <1>2, <2>1, ExceptSeq
  <2> QED BY <1>3, <2>2
<1>5. /\ rows'[i] = new
      /\ \A j \in DOMAIN rows : j # i => rows'[j] = rows[j]
  BY <1>3
<1> QED BY <1>2, <1>4, <1>5 DEF new

\* Rows are never removed, an answer is never unsaid, and a row that is settled
\* or has failed remains so.
RowsGrow ==
  /\ rows' \in Seq(TurnRow)
  /\ DOMAIN rows \subseteq DOMAIN rows'
  /\ \A i \in DOMAIN rows :
       /\ rows'[i].request = rows[i].request
       /\ rows[i].answered => rows'[i].answered
       /\ rows[i].status # "processing" => rows'[i].status # "processing"
       /\ rows[i].status = "failed" => rows'[i].status = "failed"

\* A new row, and none of the others.
RowAdded(r) ==
  /\ rows' = Append(rows, Row(r))
  /\ DOMAIN rows' = DOMAIN rows \cup {Len(rows) + 1}
  /\ Len(rows) + 1 \notin DOMAIN rows /\ Len(rows) + 1 # NoRow
  /\ \A i \in DOMAIN rows : rows'[i] = rows[i]
  /\ rows'[Len(rows) + 1] = Row(r)

\* The row of a run gets another status.
RowMarked(r, status) ==
  /\ DOMAIN rows' = DOMAIN rows
  /\ \A i \in DOMAIN rows \ {run[r].row} : rows'[i] = rows[i]
  /\ rows'[run[r].row].request = rows[run[r].row].request
  /\ rows'[run[r].row].status = status
  /\ status = "completed" => rows'[run[r].row].answered
  /\ status = "failed" => rows'[run[r].row].answered = rows[run[r].row].answered

LEMMA AppendEffect ==
  ASSUME TypeOK, NEW r \in Requests, rows' = Append(rows, Row(r))
  PROVE  RowsGrow /\ RowAdded(r)
  BY NewRow DEF TypeOK, TurnRow, Statuses, RowsGrow, RowAdded, NoRow

LEMMA CompletedEffect ==
  ASSUME TypeOK, OwnRow, StatusOfRun, NEW r \in Requests, run[r].pc = "calling",
         rows' = MarkCompleted(r)
  PROVE  RowsGrow /\ RowMarked(r, "completed") /\ run[r].row \in DOMAIN rows
<1>1. run[r].row \in DOMAIN rows /\ rows[run[r].row].status = "processing"
  BY DEF OwnRow, StatusOfRun, Live
<1>2. rows \in Seq(TurnRow)
  BY DEF TypeOK, TurnRow, Statuses
<1>3. rows' = [rows EXCEPT ![run[r].row].status = "completed", ![run[r].row].answered = TRUE]
  BY DEF MarkCompleted
<1> QED BY <1>1, <1>2, <1>3, MarkedRow DEF RowsGrow, RowMarked, Statuses

LEMMA FailedEffect ==
  ASSUME TypeOK, OwnRow, NEW r \in Requests, run[r].pc \in Live, rows' = MarkFailed(r)
  PROVE  RowsGrow /\ RowMarked(r, "failed") /\ run[r].row \in DOMAIN rows
<1>1. run[r].row \in DOMAIN rows
  BY DEF OwnRow
<1>2. rows \in Seq(TurnRow)
  BY DEF TypeOK, TurnRow, Statuses
<1> DEFINE old == rows[run[r].row].answered
<1>3. old \in BOOLEAN
  <2>1. rows[run[r].row] \in TurnRow
    BY <1>1, <1>2
  <2> QED BY <2>1 DEF TurnRow
<1>4. rows' = [rows EXCEPT ![run[r].row].status = "failed", ![run[r].row].answered = old]
  BY <1>1, <1>2, <1>3 DEF MarkFailed, TurnRow
<1> HIDE DEF old
<1>5. /\ rows' \in Seq(TurnRow) /\ DOMAIN rows' = DOMAIN rows
      /\ \A j \in DOMAIN rows : j # run[r].row => rows'[j] = rows[j]
      /\ rows'[run[r].row].request = rows[run[r].row].request
      /\ rows'[run[r].row].status = "failed"
      /\ rows'[run[r].row].answered = old
  BY <1>1, <1>2, <1>3, <1>4, MarkedRow DEF Statuses
<1> QED BY <1>1, <1>5 DEF RowsGrow, RowMarked, old

LEMMA SameRows ==
  ASSUME TypeOK, UNCHANGED rows
  PROVE  RowsGrow
  BY DEF TypeOK, RowsGrow, TurnRow, Statuses

LEMMA RowsStep ==
  ASSUME TypeOK, OwnRow, StatusOfRun, [Next]_vars
  PROVE  RowsGrow
<1>1. ASSUME NEW r \in Requests, \E k \in Kinds : Send(r, k) PROVE RowsGrow
  BY <1>1, AppendEffect DEF Send
<1>2. ASSUME NEW r \in Requests, EnqueueDigDeeper(r) \/ WorkerDies(r) PROVE RowsGrow
  BY <1>2, SameRows DEF EnqueueDigDeeper, WorkerDies
<1>3. ASSUME NEW r \in Requests, RunStep(r) PROVE RowsGrow
  BY <1>3, AppendEffect, CompletedEffect, FailedEffect, SameRows
     DEF RunStep, CreateDigDeeperMessage, StartRun, RecordAnswer, RecordFailure, TouchSession, Live
<1>4. ASSUME NEW r \in Requests, DatabaseError(r) PROVE RowsGrow
  BY <1>4, FailedEffect, SameRows DEF DatabaseError, AfterDatabaseError, Live
<1>5. CASE ServerRestart
  BY <1>5, SameRows DEF ServerRestart
<1>6. CASE UNCHANGED vars
  BY <1>6, SameRows DEF vars
<1> QED BY <1>1, <1>2, <1>3, <1>4, <1>5, <1>6 DEF Next

\* A step leaves the rows, adds one for a request without, or marks that of a run.
LEMMA RowsCases ==
  ASSUME TypeOK, OwnRow, StatusOfRun, [Next]_vars
  PROVE  \/ rows' = rows
         \/ \E r \in Requests : RowAdded(r)
         \/ \E r \in Requests, st \in {"completed", "failed"} :
              RowMarked(r, st) /\ run[r].row \in DOMAIN rows
<1>1. ASSUME NEW r \in Requests, (\E k \in Kinds : Send(r, k)) \/ CreateDigDeeperMessage(r)
      PROVE  RowAdded(r)
  BY <1>1, AppendEffect DEF Send, CreateDigDeeperMessage
<1>2. ASSUME NEW r \in Requests, RecordAnswer(r) \/ RecordFailure(r) \/ DatabaseError(r),
             rows' # rows
      PROVE  \E st \in {"completed", "failed"} : RowMarked(r, st) /\ run[r].row \in DOMAIN rows
  BY <1>2, CompletedEffect, FailedEffect
     DEF RecordAnswer, RecordFailure, DatabaseError, AfterDatabaseError, Live
<1>3. ASSUME NEW r \in Requests,
             EnqueueDigDeeper(r) \/ StartRun(r) \/ TouchSession(r) \/ WorkerDies(r)
      PROVE  rows' = rows
  BY <1>3 DEF EnqueueDigDeeper, StartRun, TouchSession, WorkerDies
<1>4. CASE ServerRestart \/ UNCHANGED vars
  BY <1>4 DEF ServerRestart, vars
<1> QED BY <1>1, <1>2, <1>3, <1>4 DEF Next, RunStep

-----------------------------------------------------------------------------
(* Type correctness *)

\* What the rows were is a type for a run as long as no row goes.
LEMMA RunKeepsType ==
  ASSUME RowsGrow, NEW u \in RunType
  PROVE  u \in RunType'
  BY DEF RowsGrow, RunType

LEMMA TypeInitially == Init => TypeOK
  BY ConstantsAssumption DEF Init, TypeOK, Idle, NoRow

\* Only a death of a worker adds to deaths, and it is a fault.
LEMMA DeathsStep ==
  ASSUME TypeOK, DeathsAreFaults, [Next]_vars
  PROVE  /\ DeathsAreFaults'
         /\ faults' \in faults..MaxFaults
         /\ deaths' \in [Requests -> 0..MaxFaults]
<1>0. /\ faults \in 0..MaxFaults /\ MaxFaults \in Nat
      /\ deaths \in [Requests -> 0..MaxFaults] /\ \A r \in Requests : deaths[r] <= faults
  BY ConstantsAssumption DEF TypeOK, DeathsAreFaults
<1>1. CASE UNCHANGED <<faults, deaths>>
  BY <1>0, <1>1 DEF DeathsAreFaults
<1>2. ASSUME NEW d, Disturb(d), UNCHANGED deaths
      PROVE  DeathsAreFaults' /\ faults' \in faults..MaxFaults
             /\ deaths' \in [Requests -> 0..MaxFaults]
  BY <1>0, <1>2 DEF DeathsAreFaults, Disturb
<1>3. ASSUME NEW r \in Requests, WorkerDies(r)
      PROVE  DeathsAreFaults' /\ faults' \in faults..MaxFaults
             /\ deaths' \in [Requests -> 0..MaxFaults]
  <2>1. faults < MaxFaults /\ faults' = faults + 1 /\ deaths' = [deaths EXCEPT ![r] = @ + 1]
    BY <1>3 DEF WorkerDies, Disturb
  <2> QED BY <1>0, <2>1 DEF DeathsAreFaults
<1>4. UNCHANGED <<faults, deaths>> \/ (\E d : Disturb(d) /\ UNCHANGED deaths)
        \/ \E r \in Requests : WorkerDies(r)
  BY DEF Next, vars, Send, EnqueueDigDeeper, RunStep, CreateDigDeeperMessage, StartRun,
     RecordAnswer, RecordFailure, TouchSession, DatabaseError, ServerRestart
<1> QED BY <1>1, <1>2, <1>3, <1>4

LEMMA TypeStep ==
  ASSUME Core, [Next]_vars
  PROVE  TypeOK'
<1> USE DEF Core
<1>0. RowsGrow
  BY RowsStep
<1>1. rows' \in Seq(TurnRow)
  BY <1>0 DEF RowsGrow
<1>2. run' \in [Requests -> RunType']
  <2>0. run \in [Requests -> RunType] /\ \A r \in Requests : run[r] \in RunType'
    BY <1>0, RunKeepsType DEF TypeOK, RunType
  <2>1. ASSUME NEW r \in Requests, NEW u \in RunType', run' = [run EXCEPT ![r] = u]
        PROVE  run' \in [Requests -> RunType']
    BY <2>0, <2>1
  <2>2. ASSUME NEW r \in Requests, NEW k \in Kinds, Send(r, k) PROVE run' \in [Requests -> RunType']
    <3>1. [kind |-> k, pc |-> "waiting", row |-> Len(rows) + 1, context |-> {}] \in RunType'
      BY <2>2, AppendEffect, ConstantsAssumption DEF Send, RowAdded, RunType
    <3> QED BY <2>1, <2>2, <3>1 DEF Send
  <2>3. ASSUME NEW r \in Requests, EnqueueDigDeeper(r) PROVE run' \in [Requests -> RunType']
    <3>1. [Idle EXCEPT !.kind = "queued", !.pc = "filed"] \in RunType'
      BY DEF Idle, RunType, AllKinds
    <3> QED BY <2>1, <2>3, <3>1 DEF EnqueueDigDeeper
  <2>4. ASSUME NEW r \in Requests, CreateDigDeeperMessage(r) PROVE run' \in [Requests -> RunType']
    <3>1. [run[r] EXCEPT !.pc = "waiting", !.row = Len(rows) + 1] \in RunType'
      BY <2>0, <2>4, AppendEffect DEF CreateDigDeeperMessage, RowAdded, RunType
    <3> QED BY <2>0, <2>1, <2>4, <3>1 DEF CreateDigDeeperMessage
  <2>5. ASSUME NEW r \in Requests, StartRun(r) PROVE run' \in [Requests -> RunType']
    <3>1. History(r) \subseteq DOMAIN rows'
      BY <1>0 DEF History, Answered, RowsGrow
    <3>2. [run[r] EXCEPT !.pc = "calling", !.context = History(r)] \in RunType'
      BY <2>0, <3>1 DEF RunType
    <3> QED BY <2>0, <2>1, <2>5, <3>2 DEF StartRun
  <2>6. ASSUME NEW r \in Requests, NEW stage \in {"recorded", "over", "filed"},
               run' = [run EXCEPT ![r].pc = stage]
        PROVE  run' \in [Requests -> RunType']
    <3>1. [run[r] EXCEPT !.pc = stage] \in RunType'
      BY <2>0 DEF RunType
    <3> QED BY <2>1, <2>6, <3>1
  <2>7. CASE ServerRestart
    <3>1. \A r \in Requests : [run[r] EXCEPT !.pc = "over"] \in RunType'
      BY <2>0 DEF RunType
    <3> QED BY <2>0, <2>7, <3>1 DEF ServerRestart
  <2>8. CASE UNCHANGED vars
    BY <2>0, <2>8 DEF vars
  <2> QED
    BY <2>2, <2>3, <2>4, <2>5, <2>6, <2>7, <2>8
       DEF Next, RunStep, RecordAnswer, RecordFailure, TouchSession, DatabaseError, WorkerDies, Stop
<1>3. known' \in [Requests -> SUBSET DOMAIN rows']
  <2>1. known \in [Requests -> SUBSET DOMAIN rows'] /\ Answered \subseteq DOMAIN rows'
    BY <1>0 DEF TypeOK, RowsGrow, Answered
  <2> QED
    BY <2>1 DEF Next, vars, Send, EnqueueDigDeeper, RunStep, CreateDigDeeperMessage, StartRun,
         RecordAnswer, RecordFailure, TouchSession, DatabaseError, WorkerDies, ServerRestart
<1>4. faults' \in 0..MaxFaults /\ deaths' \in [Requests -> 0..MaxFaults]
  BY DeathsStep DEF TypeOK
<1> QED BY <1>1, <1>2, <1>3, <1>4 DEF TypeOK, TurnRow, RunType, Statuses

-----------------------------------------------------------------------------
(* Rows and runs *)

\* A run goes on in its own row, and the row's status follows the run.
LEMMA OwnRowStep ==
  ASSUME Core, [Next]_vars
  PROVE  OwnRow' /\ StatusOfRun'
<1> USE DEF Core
<1>0. RowsGrow /\ run \in [Requests -> RunType]
  BY RowsStep DEF TypeOK, RunType
<1>1. ASSUME NEW r \in Requests, NEW k \in Kinds, Send(r, k) PROVE OwnRow' /\ StatusOfRun'
  <2>1. RowAdded(r)
    BY <1>1, AppendEffect DEF Send
  <2>2. run'[r] = [kind |-> k, pc |-> "waiting", row |-> Len(rows) + 1, context |-> {}]
    BY <1>0, <1>1 DEF Send
  <2>3. \A p \in Requests \ {r} : run'[p] = run[p]
    BY <1>0, <1>1 DEF Send
  <2> QED BY <2>1, <2>2, <2>3 DEF RowAdded, Row, OwnRow, StatusOfRun, Live
<1>2. ASSUME NEW r \in Requests, CreateDigDeeperMessage(r) PROVE OwnRow' /\ StatusOfRun'
  <2>1. RowAdded(r)
    BY <1>2, AppendEffect DEF CreateDigDeeperMessage
  <2>2. run'[r].pc = "waiting" /\ run'[r].row = Len(rows) + 1
    BY <1>0, <1>2 DEF CreateDigDeeperMessage, RunType
  <2>3. \A p \in Requests \ {r} : run'[p] = run[p]
    BY <1>0, <1>2 DEF CreateDigDeeperMessage
  <2> QED BY <2>1, <2>2, <2>3 DEF RowAdded, Row, OwnRow, StatusOfRun, Live
<1>3. ASSUME NEW r \in Requests, StartRun(r) PROVE OwnRow' /\ StatusOfRun'
  <2>1. run'[r].pc = "calling" /\ run'[r].row = run[r].row
    BY <1>0, <1>3 DEF StartRun, RunType
  <2>2. \A p \in Requests \ {r} : run'[p] = run[p]
    BY <1>0, <1>3 DEF StartRun
  <2>3. rows' = rows /\ run[r].pc = "waiting"
    BY <1>3 DEF StartRun
  <2> QED BY <2>1, <2>2, <2>3 DEF OwnRow, StatusOfRun, Live
<1>4. ASSUME NEW r \in Requests, NEW stage \in {"recorded", "over", "filed"},
             run' = [run EXCEPT ![r].pc = stage],
             \/ rows' = rows /\ stage # "recorded"
             \/ run[r].pc \in Live /\ \E st \in {"completed", "failed"} :
                  RowMarked(r, st) /\ (stage = "recorded" => st = "completed")
      PROVE  OwnRow' /\ StatusOfRun'
  <2>1. run'[r].pc = stage /\ run'[r].row = run[r].row
    BY <1>0, <1>4 DEF RunType
  <2>2. \A p \in Requests \ {r} : run'[p] = run[p]
    BY <1>0, <1>4
  <2>3. CASE rows' = rows /\ stage # "recorded"
    BY <2>1, <2>2, <2>3 DEF OwnRow, StatusOfRun, Live
  <2>4. ASSUME NEW st \in {"completed", "failed"}, RowMarked(r, st), run[r].pc \in Live,
               stage = "recorded" => st = "completed"
        PROVE  OwnRow' /\ StatusOfRun'
    <3>1. \A p \in Requests \ {r} : run[p].pc \in Live => run[p].row # run[r].row
      BY <2>4 DEF OwnRow
    <3> QED BY <2>1, <2>2, <2>4, <3>1 DEF RowMarked, OwnRow, StatusOfRun, Live
  <2> QED BY <1>4, <2>3, <2>4
<1>5. ASSUME NEW r \in Requests, EnqueueDigDeeper(r) PROVE OwnRow' /\ StatusOfRun'
  <2>1. run'[r].pc = "filed" /\ \A p \in Requests \ {r} : run'[p] = run[p]
    BY <1>0, <1>5 DEF EnqueueDigDeeper, Idle
  <2>2. rows' = rows
    BY <1>5 DEF EnqueueDigDeeper
  <2> QED BY <2>1, <2>2 DEF OwnRow, StatusOfRun, Live
<1>6. ASSUME NEW r \in Requests, RecordAnswer(r) \/ RecordFailure(r) \/ TouchSession(r)
                                 \/ DatabaseError(r) \/ WorkerDies(r)
      PROVE  OwnRow' /\ StatusOfRun'
  <2>1. CASE RecordAnswer(r)
    <3>1. run[r].pc \in Live /\ RowMarked(r, "completed")
      BY <2>1, CompletedEffect DEF RecordAnswer, Live
    <3> QED BY <1>4, <2>1, <3>1 DEF RecordAnswer, Stop
  <2>2. CASE RecordFailure(r)
    <3>1. run[r].pc \in Live /\ RowMarked(r, "failed")
      BY <2>2, FailedEffect DEF RecordFailure, Live
    <3> QED BY <1>4, <2>2, <3>1 DEF RecordFailure, Stop
  <2>3. CASE TouchSession(r)
    BY <1>4, <2>3 DEF TouchSession, Stop
  <2>4. CASE DatabaseError(r)
    <3>1. run[r].pc \in Live /\ (rows' = rows \/ RowMarked(r, "failed"))
      BY <2>4, FailedEffect DEF DatabaseError, AfterDatabaseError, Live
    <3> QED BY <1>4, <2>4, <3>1 DEF DatabaseError, Stop
  <2>5. CASE WorkerDies(r)
    BY <1>4, <2>5 DEF WorkerDies
  <2> QED BY <1>6, <2>1, <2>2, <2>3, <2>4, <2>5
<1>7. CASE ServerRestart
  <2>1. \A r \in Requests : run'[r] = run[r] \/ run'[r].pc = "over"
    BY <1>0, <1>7 DEF ServerRestart, RunType
  <2>2. rows' = rows
    BY <1>7 DEF ServerRestart
  <2> QED BY <2>1, <2>2 DEF OwnRow, StatusOfRun, Live
<1>8. CASE UNCHANGED vars
  BY <1>8 DEF vars, OwnRow, StatusOfRun, Live
<1> QED BY <1>1, <1>2, <1>3, <1>5, <1>6, <1>7, <1>8 DEF Next, RunStep

\* What was answered stays answered and what a prompt found settled stays settled.
LEMMA SettledStep ==
  ASSUME Core, Settled, [Next]_vars
  PROVE  Settled'
<1> USE DEF Core
<1>0. RowsGrow /\ known \in [Requests -> SUBSET DOMAIN rows]
  BY RowsStep DEF TypeOK
<1>1. \A i \in DOMAIN rows' : rows'[i].status = "completed" => rows'[i].answered
  <2>1. CASE rows' = rows
    BY <2>1 DEF Settled
  <2>2. ASSUME NEW r \in Requests, RowAdded(r)
        PROVE  \A i \in DOMAIN rows' : rows'[i].status = "completed" => rows'[i].answered
    BY <2>2 DEF Settled, RowAdded, Row
  <2>3. ASSUME NEW r \in Requests, NEW st \in {"completed", "failed"}, RowMarked(r, st),
               run[r].row \in DOMAIN rows
        PROVE  \A i \in DOMAIN rows' : rows'[i].status = "completed" => rows'[i].answered
    BY <2>3 DEF Settled, RowMarked
  <2> QED BY <2>1, <2>2, <2>3, RowsCases
<1>2. \A r \in Requests : \A i \in known'[r] :
        i \in DOMAIN rows /\ rows[i].answered /\ rows[i].status # "processing"
  <2>1. \A i \in Answered : i \in DOMAIN rows /\ rows[i].answered /\ rows[i].status # "processing"
    BY DEF Answered, Settled
  <2>2. known' = known \/ \E r \in Requests : known' = [known EXCEPT ![r] = Answered]
    BY DEF Next, vars, Send, EnqueueDigDeeper, RunStep, CreateDigDeeperMessage, StartRun,
       RecordAnswer, RecordFailure, TouchSession, DatabaseError, WorkerDies, ServerRestart
  <2> QED BY <1>0, <2>1, <2>2 DEF Settled
<1> QED BY <1>0, <1>1, <1>2 DEF Settled, RowsGrow

\* A run either starts or keeps what it was started with.
LEMMA ContextKept ==
  ASSUME Core, [Next]_vars, NEW p \in Requests, run'[p].pc \in {"calling", "recorded"}
  PROVE  \/ StartRun(p)
         \/ /\ run[p].pc \in {"calling", "recorded"} /\ known'[p] = known[p]
            /\ run'[p].context = run[p].context /\ run'[p].row = run[p].row
            /\ run'[p].kind = run[p].kind
<1> USE DEF Core
<1>0. run \in [Requests -> RunType] /\ known \in [Requests -> SUBSET DOMAIN rows]
  BY DEF TypeOK, RunType
<1>1. ASSUME NEW r \in Requests, NEW k \in Kinds, Send(r, k)
      PROVE  p # r /\ run'[p] = run[p] /\ known'[p] = known[p]
  BY <1>0, <1>1 DEF Send
<1>2. ASSUME NEW r \in Requests, EnqueueDigDeeper(r)
      PROVE  p # r /\ run'[p] = run[p] /\ known'[p] = known[p]
  BY <1>0, <1>2 DEF EnqueueDigDeeper, Idle
<1>3. ASSUME NEW r \in Requests, CreateDigDeeperMessage(r)
      PROVE  p # r /\ run'[p] = run[p] /\ known'[p] = known[p]
  BY <1>0, <1>3 DEF CreateDigDeeperMessage, RunType
<1>4. ASSUME NEW r \in Requests, StartRun(r)
      PROVE  p = r \/ (run'[p] = run[p] /\ known'[p] = known[p])
  BY <1>0, <1>4 DEF StartRun
<1>5. ASSUME NEW r \in Requests, RecordAnswer(r) \/ RecordFailure(r) \/ TouchSession(r)
                                 \/ DatabaseError(r) \/ WorkerDies(r)
      PROVE  /\ run[p].pc \in {"calling", "recorded"} /\ known'[p] = known[p]
             /\ run'[p].context = run[p].context /\ run'[p].row = run[p].row
             /\ run'[p].kind = run[p].kind
  <2>1. run[r].pc = "calling" \/ run'[r].pc \in {"filed", "over"}
    BY <1>0, <1>5 DEF RecordAnswer, RecordFailure, TouchSession, DatabaseError, WorkerDies, Stop,
                      RunType
  <2>2. \E stage \in {"recorded", "over", "filed"} : run' = [run EXCEPT ![r].pc = stage]
    BY <1>5 DEF RecordAnswer, RecordFailure, TouchSession, DatabaseError, WorkerDies, Stop
  <2>3. known' = known
    BY <1>5 DEF RecordAnswer, RecordFailure, TouchSession, DatabaseError, WorkerDies
  <2> QED BY <1>0, <2>1, <2>2, <2>3 DEF RunType
<1>6. CASE ServerRestart
  BY <1>0, <1>6 DEF ServerRestart, RunType
<1>7. CASE UNCHANGED vars
  BY <1>7 DEF vars
<1> QED BY <1>1, <1>2, <1>3, <1>4, <1>5, <1>6, <1>7 DEF Next, RunStep

\* The context of a run is fixed when it starts; the rows in it keep their answer and
\* those left out have failed for good.
LEMMA ContextStep ==
  ASSUME Core, Settled, ContextSound, [Next]_vars
  PROVE  ContextSound'
<1> USE DEF Core
<1>0. RowsGrow /\ run \in [Requests -> RunType] /\ known \in [Requests -> SUBSET DOMAIN rows]
  BY RowsStep DEF TypeOK, RunType
<1> SUFFICES ASSUME NEW p \in Requests, run'[p].pc \in {"calling", "recorded"}
             PROVE  /\ \A i \in run'[p].context : rows'[i].answered /\ i # run'[p].row
                    /\ run'[p].kind # "research" =>
                         \A i \in known'[p] \ run'[p].context : rows'[i].status = "failed"
  BY DEF ContextSound
<1>1. CASE StartRun(p)
  <2>1. /\ run'[p].context = History(p) /\ run'[p].row = run[p].row /\ run'[p].kind = run[p].kind
        /\ rows' = rows /\ known' = known /\ run[p].pc = "waiting"
    BY <1>0, <1>1 DEF StartRun, RunType
  <2>2. rows[run[p].row].status = "processing"
    BY <2>1 DEF StatusOfRun
  <2>3. \A i \in DOMAIN rows : rows[i].status \in Statuses
    <3>1. rows \in Seq(TurnRow)
      BY DEF TypeOK, TurnRow, Statuses
    <3>2. \A i \in DOMAIN rows : rows[i] \in TurnRow
      BY <3>1
    <3> QED BY <3>2 DEF TurnRow
  <2> QED BY <1>0, <2>1, <2>2, <2>3 DEF History, Answered, Settled, Statuses
<1>2. CASE /\ run[p].pc \in {"calling", "recorded"} /\ known'[p] = known[p]
           /\ run'[p].context = run[p].context /\ run'[p].row = run[p].row
           /\ run'[p].kind = run[p].kind
  <2>1. run[p].context \subseteq DOMAIN rows /\ known[p] \subseteq DOMAIN rows
    BY <1>0 DEF RunType
  <2> QED BY <1>0, <1>2, <2>1 DEF ContextSound, RowsGrow
<1> QED BY <1>1, <1>2, ContextKept

-----------------------------------------------------------------------------
(* Abandoned and repeated prompts *)

\* Without a fault a run lets go of a row only when it settles it.
LEMMA AbandonedStep ==
  ASSUME Core, NothingAbandoned, [Next]_vars
  PROVE  NothingAbandoned'
<1> USE DEF Core
<1>0. run \in [Requests -> RunType] /\ faults \in Nat
  BY ConstantsAssumption DEF TypeOK, RunType
<1>1. SUFFICES ASSUME faults' = 0, NEW i \in DOMAIN rows', rows'[i].status = "processing"
               PROVE  Serving(i)'
  BY DEF NothingAbandoned
<1>2. faults = 0 /\ ~ \E d : Disturb(d)
  BY <1>0, <1>1, DeathsStep DEF Disturb, TypeOK
<1>3. ASSUME i \in DOMAIN rows, rows[i].status = "processing"
      PROVE  \E r \in Requests : run[r].row = i /\ run[r].pc \in {"waiting", "calling"}
  <2>1. PICK r \in Requests : run[r].row = i /\ run[r].pc \in Live
    BY <1>2, <1>3 DEF NothingAbandoned, Serving, Live
  <2>2. run[r].pc # "recorded"
    BY <1>3, <2>1 DEF StatusOfRun
  <2> QED BY <2>1, <2>2 DEF Live
<1>4. ASSUME NEW r \in Requests, (\E k \in Kinds : Send(r, k)) \/ CreateDigDeeperMessage(r)
      PROVE  Serving(i)'
  <2>1. RowAdded(r) /\ run[r].pc \in {"none", "filed"}
    BY <1>4, AppendEffect DEF Send, CreateDigDeeperMessage
  <2>2. run'[r].pc = "waiting" /\ run'[r].row = Len(rows) + 1
    BY <1>0, <1>4 DEF Send, CreateDigDeeperMessage, RunType
  <2>3. \A p \in Requests \ {r} : run'[p] = run[p]
    BY <1>0, <1>4 DEF Send, CreateDigDeeperMessage
  <2>4. CASE i = Len(rows) + 1
    BY <2>2, <2>4 DEF Serving
  <2>5. CASE i # Len(rows) + 1
    <3>1. i \in DOMAIN rows /\ rows[i].status = "processing"
      BY <1>1, <2>1, <2>5 DEF RowAdded
    <3>2. PICK p \in Requests : run[p].row = i /\ run[p].pc \in {"waiting", "calling"}
      BY <1>3, <3>1
    <3>3. p # r
      BY <2>1, <3>2
    <3> QED BY <2>3, <3>2, <3>3 DEF Serving
  <2> QED BY <2>4, <2>5
<1>5. ASSUME NEW r \in Requests, EnqueueDigDeeper(r) \/ StartRun(r) \/ TouchSession(r)
      PROVE  Serving(i)'
  <2>1. rows' = rows
    BY <1>5 DEF EnqueueDigDeeper, StartRun, TouchSession
  <2>2. PICK p \in Requests : run[p].row = i /\ run[p].pc \in {"waiting", "calling"}
    BY <1>1, <1>3, <2>1
  <2>3. run'[p] = run[p] \/ (run'[p].row = run[p].row /\ run'[p].pc = "calling")
    BY <1>0, <1>5, <2>2 DEF EnqueueDigDeeper, StartRun, TouchSession, Stop, RunType
  <2> QED BY <2>2, <2>3 DEF Serving
<1>6. ASSUME NEW r \in Requests, RecordAnswer(r) \/ RecordFailure(r)
      PROVE  Serving(i)'
  <2>1. /\ \E st \in {"completed", "failed"} : RowMarked(r, st)
        /\ run[r].row \in DOMAIN rows
    BY <1>6, CompletedEffect, FailedEffect DEF RecordAnswer, RecordFailure, Live
  <2>2. i \in DOMAIN rows /\ i # run[r].row /\ rows[i].status = "processing"
    BY <1>1, <2>1 DEF RowMarked
  <2>3. PICK p \in Requests : run[p].row = i /\ run[p].pc \in {"waiting", "calling"}
    BY <1>3, <2>2
  <2>4. run'[p] = run[p]
    BY <1>0, <1>6, <2>2, <2>3 DEF RecordAnswer, RecordFailure, Stop
  <2> QED BY <2>3, <2>4 DEF Serving
<1>7. CASE UNCHANGED vars
  BY <1>1, <1>3, <1>7 DEF vars, Serving
<1>8. ~ServerRestart /\ \A r \in Requests : ~DatabaseError(r) /\ ~WorkerDies(r)
  BY <1>2 DEF ServerRestart, DatabaseError, WorkerDies
<1> QED BY <1>4, <1>5, <1>6, <1>7, <1>8 DEF Next, RunStep

\* A row is created once by a run, and a run is repeated only after a death.
LEMMA RepeatsStep ==
  ASSUME Core, Repeats, [Next]_vars
  PROVE  Repeats'
<1> USE DEF Core
<1>0. /\ run \in [Requests -> RunType] /\ rows \in Seq(TurnRow)
      /\ deaths \in [Requests -> Nat]
      /\ \A p \in Requests : /\ IsFiniteSet(Copies(p)) /\ Cardinality(Copies(p)) \in Nat
                             /\ Cardinality(Copies(p)) <= deaths[p] + Begun(p)
  BY ConstantsAssumption, FS_CardinalityType DEF TypeOK, RunType, TurnRow, Statuses, Repeats
<1>1. ASSUME NEW r \in Requests, (\E k \in Kinds : Send(r, k)) \/ CreateDigDeeperMessage(r)
      PROVE  Repeats'
  <2>1. RowAdded(r) /\ run[r].pc \in {"none", "filed"} /\ deaths' = deaths
    BY <1>1, AppendEffect DEF Send, CreateDigDeeperMessage
  <2>2. run'[r].pc = "waiting" /\ \A p \in Requests \ {r} : run'[p] = run[p]
    BY <1>0, <1>1 DEF Send, CreateDigDeeperMessage, RunType
  <2>3. /\ Copies(r)' = Copies(r) \cup {Len(rows) + 1} /\ Len(rows) + 1 \notin Copies(r)
        /\ \A p \in Requests \ {r} : Copies(p)' = Copies(p)
    BY <2>1 DEF Copies, RowAdded, Row
  <2>4. IsFiniteSet(Copies(r)') /\ Cardinality(Copies(r)') = Cardinality(Copies(r)) + 1
    BY <1>0, <2>3, FS_AddElement
  <2>5. Begun(r) = 0 /\ Begun(r)' = 1 /\ \A p \in Requests \ {r} : Begun(p)' = Begun(p)
    BY <2>1, <2>2 DEF Begun
  <2>6. ASSUME NEW p \in Requests \ {r}
        PROVE  IsFiniteSet(Copies(p)') /\ Cardinality(Copies(p)') <= deaths'[p] + Begun(p)'
    BY <1>0, <2>1, <2>3, <2>5
  <2>7. Cardinality(Copies(r)') <= deaths'[r] + Begun(r)'
    BY <1>0, <2>1, <2>4, <2>5
  <2> QED BY <2>4, <2>6, <2>7 DEF Repeats
<1>2. ASSUME \A p \in Requests : Copies(p)' = Copies(p),
             \A p \in Requests : deaths'[p] \in Nat
                                 /\ deaths[p] + Begun(p) <= deaths'[p] + Begun(p)'
      PROVE  Repeats'
  <2>1. \A p \in Requests : Begun(p) \in {0, 1} /\ Begun(p)' \in {0, 1}
    BY DEF Begun
  <2> QED BY <1>0, <1>2, <2>1 DEF Repeats
<1>3. ASSUME ~ \E r \in Requests : (\E k \in Kinds : Send(r, k)) \/ CreateDigDeeperMessage(r)
      PROVE  \A p \in Requests : Copies(p)' = Copies(p)
  <2>1. CASE rows' = rows
    BY <2>1 DEF Copies
  <2>2. ASSUME NEW r \in Requests, RecordAnswer(r) \/ RecordFailure(r) \/ DatabaseError(r),
               rows' # rows
        PROVE  \A p \in Requests : Copies(p)' = Copies(p)
    <3>1. \E st \in {"completed", "failed"} : RowMarked(r, st) /\ run[r].row \in DOMAIN rows
      BY <2>2, CompletedEffect, FailedEffect
         DEF RecordAnswer, RecordFailure, DatabaseError, AfterDatabaseError, Live
    <3> QED BY <3>1 DEF RowMarked, Copies
  <2>3. ASSUME rows' # rows
        PROVE  \E r \in Requests : RecordAnswer(r) \/ RecordFailure(r) \/ DatabaseError(r)
    BY <1>3, <2>3
       DEF Next, RunStep, vars, EnqueueDigDeeper, StartRun, TouchSession, WorkerDies, ServerRestart
  <2> QED BY <2>1, <2>2, <2>3
<1>4. ASSUME NEW r \in Requests, EnqueueDigDeeper(r) \/ StartRun(r) \/ RecordAnswer(r)
               \/ RecordFailure(r) \/ TouchSession(r) \/ DatabaseError(r)
      PROVE  \A p \in Requests : deaths'[p] \in Nat
                                 /\ deaths[p] + Begun(p) <= deaths'[p] + Begun(p)'
  <2>1. deaths' = deaths
    BY <1>4 DEF EnqueueDigDeeper, StartRun, RecordAnswer, RecordFailure, TouchSession, DatabaseError
  <2>2. ASSUME NEW p \in Requests PROVE Begun(p) <= Begun(p)'
    <3>1. CASE EnqueueDigDeeper(r)
      BY <1>0, <3>1 DEF EnqueueDigDeeper, Idle, Begun
    <3>2. CASE ~EnqueueDigDeeper(r)
      <4>1. \E stage \in {"calling", "recorded", "over"} : run'[r].pc = stage
        BY <1>0, <1>4, <3>2 DEF StartRun, RecordAnswer, RecordFailure, TouchSession,
           DatabaseError, Stop, RunType
      <4>2. \A q \in Requests \ {r} : run'[q] = run[q]
        BY <1>0, <1>4, <3>2 DEF StartRun, RecordAnswer, RecordFailure, TouchSession,
           DatabaseError, Stop
      <4>3. Begun(r)' = 1 /\ Begun(r) \in {0, 1}
        BY <4>1 DEF Begun
      <4> QED BY <4>2, <4>3 DEF Begun
    <3> QED BY <3>1, <3>2
  <2>3. \A p \in Requests : Begun(p) \in {0, 1} /\ Begun(p)' \in {0, 1}
    BY DEF Begun
  <2> QED BY <1>0, <2>1, <2>2, <2>3
<1>5. ASSUME NEW r \in Requests, WorkerDies(r)
      PROVE  \A p \in Requests : deaths'[p] \in Nat
                                 /\ deaths[p] + Begun(p) <= deaths'[p] + Begun(p)'
  <2>1. \A p \in Requests \ {r} : Begun(p)' = Begun(p) /\ deaths'[p] = deaths[p]
    BY <1>0, <1>5 DEF WorkerDies, Begun
  <2>2. deaths'[r] = deaths[r] + 1
    BY <1>0, <1>5 DEF WorkerDies
  <2>3. \A p \in Requests : Begun(p) \in {0, 1} /\ Begun(p)' \in {0, 1}
    BY DEF Begun
  <2> QED BY <1>0, <2>1, <2>2, <2>3
<1>6. ASSUME ServerRestart \/ UNCHANGED vars
      PROVE  \A p \in Requests : deaths'[p] \in Nat
                                 /\ deaths[p] + Begun(p) <= deaths'[p] + Begun(p)'
  <2>1. deaths' = deaths
    BY <1>6 DEF ServerRestart, vars
  <2>2. ASSUME NEW p \in Requests PROVE Begun(p) = Begun(p)'
    BY <1>0, <1>6 DEF ServerRestart, vars, RunType, Begun
  <2>3. \A p \in Requests : Begun(p) \in {0, 1}
    BY DEF Begun
  <2> QED BY <1>0, <2>1, <2>2, <2>3
<1> QED BY <1>1, <1>2, <1>3, <1>4, <1>5, <1>6 DEF Next, RunStep

-----------------------------------------------------------------------------
(* Theorems *)

LEMMA InitiallyInvariant == Init => IInv
<1> SUFFICES ASSUME Init PROVE IInv
  OBVIOUS
<1>1. Core
  BY TypeInitially, ConstantsAssumption
     DEF Init, Core, OwnRow, StatusOfRun, DeathsAreFaults, Idle, Live
<1>2. Settled /\ ContextSound /\ NothingAbandoned
  BY DEF Init, Settled, ContextSound, NothingAbandoned, Idle
<1>3. ASSUME NEW r \in Requests
      PROVE  Copies(r) = {} /\ deaths[r] = 0 /\ Begun(r) = 0
  BY DEF Init, Copies, Begun, Idle
<1>4. ASSUME NEW r \in Requests
      PROVE  IsFiniteSet(Copies(r)) /\ Cardinality(Copies(r)) <= deaths[r] + Begun(r)
  BY <1>3, FS_EmptySet
<1> QED BY <1>1, <1>2, <1>4 DEF IInv, Repeats

LEMMA InvariantStep == IInv /\ [Next]_vars => IInv'
<1> SUFFICES ASSUME IInv, [Next]_vars PROVE IInv'
  OBVIOUS
<1>1. Core'
  BY TypeStep, OwnRowStep, DeathsStep DEF IInv, Core
<1> QED BY <1>1, SettledStep, ContextStep, AbandonedStep, RepeatsStep DEF IInv

\* The session alone and the composition take the same steps on its variables.
LEMMA TurnsAreTaken == Spec \/ ChatSpec => Init /\ [][Next]_vars
<1>1. ChatInit => Init
  BY DEF ChatInit
<1>2. [ChatNext]_allVars => [Next]_vars
  BY DEF ChatNext, allVars
<1>3. Spec => Init /\ [][Next]_vars
  BY PTL DEF Spec
<1>4. ChatSpec => Init /\ [][Next]_vars
  BY <1>1, <1>2, PTL DEF ChatSpec
<1> QED BY <1>3, <1>4

LEMMA InvariantHolds == Spec \/ ChatSpec => []IInv
<1>1. Init /\ [][Next]_vars => []IInv
  BY InitiallyInvariant, InvariantStep, PTL
<1> QED BY <1>1, TurnsAreTaken

\* Every run and every row keeps its type, for all requests, kinds and faults.
THEOREM TurnsTypeCorrect == Spec \/ ChatSpec => []TypeOK
<1>1. IInv => TypeOK
  BY DEF IInv, Core
<1> QED BY <1>1, InvariantHolds, PTL

\* Unless a process dies or the database fails, a row that is being processed has a
\* run that will settle it.
THEOREM TurnsNothingAbandoned == Spec \/ ChatSpec => []NothingAbandoned
<1>1. IInv => NothingAbandoned
  BY DEF IInv
<1> QED BY <1>1, InvariantHolds, PTL

\* The model always sees the turns that were answered, and only those.
THEOREM TurnsContextSound == Spec \/ ChatSpec => []ContextSound
<1>1. IInv => ContextSound
  BY DEF IInv
<1> QED BY <1>1, InvariantHolds, PTL

\* However restarts, deaths and failures fall, a prompt is repeated once per death.
THEOREM TurnsBoundedRepeats == Spec \/ ChatSpec => []BoundedRepeats
<1>1. IInv => BoundedRepeats
  <2> SUFFICES ASSUME IInv, NEW r \in Requests
               PROVE  Cardinality(Copies(r)) <= 1 + deaths[r]
    BY DEF BoundedRepeats, Copies
  <2>1. Cardinality(Copies(r)) \in Nat /\ deaths[r] \in Nat
    BY FS_CardinalityType, ConstantsAssumption DEF IInv, Core, TypeOK, Repeats
  <2>2. Begun(r) \in {0, 1}
    BY DEF Begun
  <2> QED BY <2>1, <2>2 DEF IInv, Repeats
<1> QED BY <1>1, InvariantHolds, PTL

\* An answer stays an answer, except for the assistant's after a database error.
THEOREM TurnsAnswerStays == Spec \/ ChatSpec => AnswerStays
<1>1. IInv /\ [Next]_vars => [AnswersKept]_vars
  <2> SUFFICES ASSUME IInv, Next, NEW i \in DOMAIN rows, rows[i].status = "completed"
               PROVE  \/ rows'[i].status = "completed"
                      \/ faults' > faults /\ \E r \in Requests :
                           run[r].row = i /\ run[r].kind = "assistant" /\ run[r].pc = "recorded"
    BY DEF AnswersKept
  <2> USE DEF IInv, Core
  <2>1. CASE rows' = rows
    BY <2>1
  <2>2. ASSUME NEW r \in Requests, RowAdded(r) PROVE rows'[i].status = "completed"
    BY <2>2 DEF RowAdded
  <2>3. ASSUME NEW r \in Requests, RecordAnswer(r) \/ RecordFailure(r)
        PROVE  rows'[i].status = "completed"
    <3>1. rows[run[r].row].status = "processing"
      BY <2>3 DEF RecordAnswer, RecordFailure, StatusOfRun
    <3>2. i # run[r].row /\ \E st \in {"completed", "failed"} : RowMarked(r, st)
      BY <2>3, <3>1, CompletedEffect, FailedEffect DEF RecordAnswer, RecordFailure, Live
    <3> QED BY <3>2 DEF RowMarked
  <2>4. ASSUME NEW r \in Requests, DatabaseError(r), rows' # rows
        PROVE  \/ rows'[i].status = "completed"
               \/ faults' > faults /\ run[r].row = i /\ run[r].kind = "assistant"
                  /\ run[r].pc = "recorded"
    <3>1. run[r].kind = "assistant" /\ RowMarked(r, "failed") /\ faults' = faults + 1
      BY <2>4, FailedEffect DEF DatabaseError, AfterDatabaseError, Disturb, Live
    <3>2. faults \in Nat
      BY ConstantsAssumption DEF TypeOK
    <3>3. CASE i = run[r].row
      <4>1. run[r].pc = "recorded"
        BY <2>4, <3>3 DEF DatabaseError, StatusOfRun
      <4> QED BY <3>1, <3>2, <3>3, <4>1
    <3>4. CASE i # run[r].row
      BY <3>1, <3>4 DEF RowMarked
    <3> QED BY <3>3, <3>4
  <2>5. ASSUME rows' # rows
        PROVE  \E r \in Requests : RowAdded(r) \/ RecordAnswer(r) \/ RecordFailure(r)
               \/ DatabaseError(r)
    BY <2>5, AppendEffect
       DEF Next, RunStep, Send, CreateDigDeeperMessage, EnqueueDigDeeper, StartRun, TouchSession,
           WorkerDies, ServerRestart
  <2> QED BY <2>1, <2>2, <2>3, <2>4, <2>5
<1> QED BY <1>1, InvariantHolds, TurnsAreTaken, PTL DEF AnswerStays

-----------------------------------------------------------------------------
(* The app's session *)

Callers == AppRequests \cup {Launch}
CallType == [pc : {"idle", "sent", "check", "start", "wait", "denied"}, token : Nat,
             again : BOOLEAN, on : Callers]
RefreshType == [pc : {"none", "asking", "ok", "refused", "failed", "unread"}, token : Nat]

ClientTypes ==
  /\ issued \in Nat /\ access \in 0..issued /\ refresh \in 0..issued
  /\ lapsed \subseteq 1..issued /\ refused \subseteq 1..issued
  /\ call \in [Callers -> CallType] /\ refreshing \in [Callers -> RefreshType]

\* The user has logged out, or the refresh token is gone or has expired.
Over == signedOut \/ refresh = 0 \/ refresh \in refused

Asks(c) == refreshing[c].pc = "asking"
Doomed(c) == refreshing[c].token \in refused
WaitsFor(c, pc) == call[c].pc = "wait" /\ refreshing[call[c].on].pc = pc

\* Who has started a refresh waits for it, and what is registered is under way.
TasksHeld ==
  /\ \A c \in Callers : Asks(c) => call[c].pc = "wait" /\ call[c].on = c
  /\ current # Client!Nobody => current \in Callers /\ Asks(current)

\* Refreshes that are under way end alike: the tokens they carry have expired all or none,
\* with the one in the keychain.
OneFate ==
  /\ \A c, d \in Callers : Asks(c) /\ Asks(d) => (Doomed(c) <=> Doomed(d))
  /\ \A c \in Callers : Asks(c) /\ refresh # 0 => (Doomed(c) <=> refresh \in refused)
  /\ \A c \in Callers : Asks(c) /\ refresh = 0 /\ ~signedOut => Doomed(c)

\* Whatever is about to end the session has a reason.
EndsForReason ==
  /\ notice => Over
  /\ call[Launch].pc = "denied" => Over
  /\ \A c \in Callers : WaitsFor(c, "refused") => Over

\* Who asks again after a refresh has a token that is accepted.
AgainAccepted ==
  /\ recent => access \notin lapsed
  /\ \A c \in Callers : call[c].pc = "idle" => ~call[c].again
  /\ \A c \in Callers : call[c].pc = "sent" /\ call[c].again =>
       Over \/ Client!Accepted(call[c].token)
  /\ \A c \in Callers : WaitsFor(c, "ok") =>
       Over \/ (access \notin lapsed /\ (c = Launch => access # 0))

ClientInv == ClientTypes /\ TasksHeld /\ OneFate /\ EndsForReason /\ AgainAccepted

\* While the app starts there is no call but its own, and nobody waits to log out.
LaunchAlone ==
  /\ call[Launch].pc # "idle" => auth = "loading"
  /\ auth = "loading" => ~notice /\ \A c \in AppRequests : call[c].pc = "idle"

LEMMA ClientInit == Client!Init => ClientInv
<1> SUFFICES ASSUME Client!Init PROVE ClientInv
  OBVIOUS
<1> USE DEF Client!Init, Client!Callers, Client!NoCall, Client!NoTask, Callers
<1>1. ClientTypes
  BY DEF ClientTypes, CallType, RefreshType
<1>2. \A c \in Callers : call[c].pc = "idle" /\ ~call[c].again /\ refreshing[c].pc = "none"
  OBVIOUS
<1>3. TasksHeld /\ OneFate /\ EndsForReason /\ AgainAccepted
  BY <1>2 DEF TasksHeld, OneFate, EndsForReason, AgainAccepted, Asks, WaitsFor, Over
<1> QED BY <1>1, <1>3 DEF ClientInv

\* One caller moves on, between steps of the network: nothing it relies on changes.
LEMMA CallMoves ==
  ASSUME ClientInv, NEW c \in Callers, NEW now \in CallType, call' = [call EXCEPT ![c] = now],
         UNCHANGED <<access, refresh, issued, lapsed, refused, signedOut, refreshing, current,
                     recent>>,
         notice' => Over,
         ~Asks(c),
         now.pc = "idle" => ~now.again,
         now.pc = "denied" => Over,
         now.pc = "wait" => now.on \in Callers /\ Asks(now.on),
         now.pc = "sent" /\ now.again => Over \/ Client!Accepted(now.token)
  PROVE  ClientInv'
<1>1. call'[c] = now /\ \A d \in Callers \ {c} : call'[d] = call[d]
  BY DEF ClientInv, ClientTypes
<1>2. ClientTypes'
  BY DEF ClientInv, ClientTypes
<1>3. Over' = Over /\ \A d \in Callers : Asks(d)' = Asks(d) /\ Doomed(d)' = Doomed(d)
  BY DEF Over, Asks, Doomed
<1>4. TasksHeld' /\ OneFate'
  BY <1>1, <1>3 DEF ClientInv, TasksHeld, OneFate
<1>5. ~WaitsFor(c, "refused")' /\ ~WaitsFor(c, "ok")'
  BY <1>1 DEF WaitsFor, Asks
<1>6. \A d \in Callers \ {c} : /\ WaitsFor(d, "refused")' = WaitsFor(d, "refused")
                               /\ WaitsFor(d, "ok")' = WaitsFor(d, "ok")
  BY <1>1 DEF WaitsFor
<1>7. Launch \in Callers
  BY DEF Callers
<1>8. EndsForReason'
  BY <1>1, <1>3, <1>5, <1>6, <1>7 DEF ClientInv, EndsForReason
<1>9. AgainAccepted'
  BY <1>1, <1>3, <1>5, <1>6 DEF ClientInv, AgainAccepted, Client!Accepted
<1> QED BY <1>2, <1>4, <1>8, <1>9 DEF ClientInv

\* The session is over as soon as anything may end it, and a refresh revives none.
LEMMA OverStays ==
  ASSUME ClientInv, Over, NEW c \in Callers, Client!RefreshSucceeds(c)
  PROVE  signedOut
  BY DEF Over, ClientInv, OneFate, Asks, Doomed, Client!RefreshSucceeds

LEMMA EndStep ==
  ASSUME ClientInv, Client!UserLogout \/ Client!NoticeArrives
  PROVE  ClientInv'
<1> USE DEF Client!UserLogout, Client!NoticeArrives, Client!ClearAll, Client!ShowOut, Client!server,
        Client!NoCall, Client!screen
<1>1. /\ access' = 0 /\ refresh' = 0 /\ (signedOut => signedOut')
      /\ UNCHANGED <<issued, lapsed, refused, call, refreshing, current, recent>>
      /\ signedOut' \/ Over
  BY DEF ClientInv, EndsForReason
<1>2. ClientTypes' /\ TasksHeld'
  BY <1>1 DEF ClientInv, ClientTypes, TasksHeld, Asks
<1>3. OneFate'
  BY <1>1 DEF ClientInv, OneFate, Over, Asks, Doomed
<1>4. EndsForReason' /\ AgainAccepted'
  BY <1>1 DEF ClientInv, ClientTypes, EndsForReason, AgainAccepted, Over, WaitsFor, Client!Accepted
<1> QED BY <1>2, <1>3, <1>4 DEF ClientInv

LEMMA SignInStep ==
  ASSUME ClientInv, Client!SignIn
  PROVE  ClientInv'
<1>1. /\ ~notice /\ \A c \in Callers : call[c].pc = "idle"
      /\ issued' = issued + 1 /\ access' = issued + 1 /\ refresh' = issued + 1
      /\ UNCHANGED <<lapsed, refused, notice, call, refreshing, current, recent>>
  BY DEF Client!SignIn, Client!Quiet, Client!Disturb, Client!Callers, Callers
<1>2. \A c \in Callers : ~Asks(c)
  BY <1>1 DEF ClientInv, TasksHeld
<1>3. Launch \in Callers
  BY DEF Callers
<1>4. ClientTypes' /\ TasksHeld'
  BY <1>1 DEF ClientInv, ClientTypes, TasksHeld, Asks
<1>5. OneFate'
  BY <1>1, <1>2 DEF OneFate, Asks
<1>6. EndsForReason' /\ AgainAccepted'
  BY <1>1, <1>3 DEF ClientInv, ClientTypes, EndsForReason, AgainAccepted, WaitsFor
<1> QED BY <1>4, <1>5, <1>6 DEF ClientInv

\* Time passes.
LEMMA TimeStep ==
  ASSUME ClientInv, Client!AccessLapses \/ Client!CooldownEnds \/ Client!RefreshLapses
  PROVE  ClientInv'
<1> USE DEF Client!keychain, Client!server, Client!screen, Client!Callers, Callers
<1>1. /\ UNCHANGED <<access, refresh, issued, notice, call, refreshing, current, signedOut>>
      /\ lapsed \subseteq lapsed' /\ refused \subseteq refused' /\ (recent' => recent)
      /\ lapsed' \subseteq 1..issued /\ refused' \subseteq 1..issued
      /\ lapsed' # lapsed => /\ ~recent'
                             /\ \A c \in Callers : call[c].pc # "wait"
                             /\ \A c \in Callers : call[c].pc = "sent" => ~call[c].again
      /\ refused' # refused => \A c \in Callers : call[c].pc = "idle"
  <2>1. CASE Client!AccessLapses
    BY <2>1 DEF ClientInv, ClientTypes, Client!AccessLapses
  <2>2. CASE Client!CooldownEnds
    BY <2>2 DEF ClientInv, ClientTypes, Client!CooldownEnds
  <2>3. CASE Client!RefreshLapses
    <3>1. /\ refresh # 0 /\ Client!Quiet /\ ~recent /\ recent' = recent
          /\ refused' = refused \cup {refresh} /\ lapsed' = lapsed \cup {refresh}
          /\ UNCHANGED <<access, refresh, issued, notice, call, refreshing, current, signedOut>>
      BY <2>3 DEF Client!RefreshLapses
    <3>2. refresh \in 1..issued
      BY <3>1 DEF ClientInv, ClientTypes
    <3>3. \A c \in Callers : call[c].pc = "idle"
      BY <3>1 DEF Client!Quiet
    <3> QED BY <3>1, <3>2, <3>3 DEF ClientInv, ClientTypes
  <2> QED BY <2>1, <2>2, <2>3
<1>2. ClientTypes' /\ TasksHeld' /\ (Over => Over')
  BY <1>1 DEF ClientInv, ClientTypes, TasksHeld, Asks, Over
<1>3. OneFate'
  <2>1. CASE refused' = refused
    BY <1>1, <2>1 DEF ClientInv, OneFate, Asks, Doomed
  <2>2. CASE refused' # refused
    BY <1>1, <2>2 DEF ClientInv, TasksHeld, OneFate, Asks
  <2> QED BY <2>1, <2>2
<1>4. EndsForReason'
  BY <1>1, <1>2 DEF ClientInv, EndsForReason, WaitsFor
<1>5. AgainAccepted'
  <2>1. CASE lapsed' = lapsed
    BY <1>1, <1>2, <2>1 DEF ClientInv, AgainAccepted, WaitsFor, Client!Accepted
  <2>2. CASE lapsed' # lapsed
    BY <1>1, <2>2 DEF ClientInv, AgainAccepted, WaitsFor
  <2> QED BY <2>1, <2>2
<1> QED BY <1>2, <1>3, <1>4, <1>5 DEF ClientInv

\* The app starts again with what is in the keychain.
LEMMA RestartStep ==
  ASSUME ClientInv, Client!Restart
  PROVE  ClientInv'
<1> USE DEF Client!keychain, Client!server, Client!Callers, Client!NoCall, Client!NoTask, Callers
<1>1. /\ UNCHANGED <<access, refresh, issued, lapsed, refused, signedOut>>
      /\ call' = [c \in Callers |-> Client!NoCall]
         /\ refreshing' = [c \in Callers |-> Client!NoTask]
      /\ notice' = FALSE /\ current' = Client!Nobody /\ recent' = FALSE
  BY DEF Client!Restart
<1>2. \A c \in Callers : call'[c].pc = "idle" /\ ~call'[c].again /\ refreshing'[c].pc = "none"
  BY <1>1
<1>3. ClientTypes'
  BY <1>1 DEF ClientInv, ClientTypes, CallType, RefreshType
<1>4. Launch \in Callers
  OBVIOUS
<1> QED
  BY <1>1, <1>2, <1>3, <1>4
     DEF ClientInv, TasksHeld, OneFate, EndsForReason, AgainAccepted, Asks, WaitsFor

\* A call that is sent with the token in the keychain, or goes back to the refresh.
LEMMA SendStep ==
  ASSUME ClientInv, NEW c \in Callers, NEW again \in BOOLEAN, Client!Send(c, again),
         ~Asks(c), again => Over \/ access \notin lapsed,
         UNCHANGED <<access, refresh, issued, lapsed, refused, signedOut, refreshing, current,
                     recent, notice>>
  PROVE  ClientInv'
<1>1. PICK now : now = IF access = 0 /\ refresh # 0
                         THEN [call[c] EXCEPT !.pc = "check", !.again = again]
                         ELSE [call[c] EXCEPT !.pc = "sent", !.token = access, !.again = again]
  OBVIOUS
<1>2. call' = [call EXCEPT ![c] = now]
  BY <1>1 DEF Client!Send, ClientInv, ClientTypes
<1>3. call[c] \in CallType /\ access \in Nat
  BY DEF ClientInv, ClientTypes
<1>4. now \in CallType /\ now.pc \in {"check", "sent"} /\ now.again = again
  BY <1>1, <1>3 DEF CallType
<1>5. now.pc = "sent" => now.token = access /\ ~(access = 0 /\ refresh # 0)
  BY <1>1, <1>3 DEF CallType
<1>6. now.pc = "sent" /\ now.again => Over \/ Client!Accepted(now.token)
  BY <1>4, <1>5 DEF Over, Client!Accepted
<1>7. notice' => Over
  BY DEF ClientInv, EndsForReason
<1> QED BY <1>2, <1>4, <1>6, <1>7, CallMoves

\* Whose call does not wait has no refresh under way, and who waits for one that has ended
\* has started none that has not.
LEMMA NotAsking ==
  ASSUME ClientInv, NEW c \in Callers,
         call[c].pc # "wait" \/ refreshing[call[c].on].pc # "asking"
  PROVE  ~Asks(c)
  BY DEF ClientInv, TasksHeld, Asks

LEMMA IdleStep ==
  ASSUME ClientInv, NEW c \in Callers, Client!Idle(c), ~Asks(c),
         UNCHANGED <<access, refresh, issued, lapsed, refused, signedOut, refreshing, current,
                     recent>>,
         notice' => Over
  PROVE  ClientInv'
<1>1. Client!NoCall \in CallType /\ Client!NoCall.pc = "idle" /\ ~Client!NoCall.again
  BY DEF Client!NoCall, CallType, Callers
<1> QED BY <1>1, CallMoves DEF Client!Idle

LEMMA RequestStep ==
  ASSUME ClientInv, NEW c \in Callers,
         \/ Client!StartRequest(c) \/ Client!RequestSucceeds(c) \/ Client!RequestRejected(c)
         \/ Client!RequestLost(c) \/ Client!RequestGivesUp(c)
  PROVE  ClientInv'
<1> USE DEF Client!keychain, Client!server, Client!screen
<1>0. /\ UNCHANGED <<access, refresh, issued, lapsed, refused, signedOut, refreshing, current,
                     recent>>
      /\ ~Asks(c)
  <2>1. call[c].pc # "wait" \/ refreshing[call[c].on].pc # "asking"
    BY DEF Client!StartRequest, Client!RequestSucceeds, Client!RequestRejected, Client!RequestLost,
           Client!RequestGivesUp
  <2> QED
    BY <2>1, NotAsking
       DEF Client!StartRequest, Client!RequestSucceeds, Client!RequestRejected, Client!RequestLost,
           Client!RequestGivesUp
<1>1. CASE Client!StartRequest(c)
  BY <1>0, <1>1, SendStep DEF Client!StartRequest
<1>2. ASSUME Client!Idle(c), UNCHANGED notice PROVE ClientInv'
  BY <1>0, <1>2, IdleStep DEF ClientInv, EndsForReason
<1>3. CASE Client!RequestRejected(c)
  <2>1. CASE call[c].again
    <3>1. Over
      BY <1>3, <2>1 DEF Client!RequestRejected, ClientInv, AgainAccepted
    <3> QED BY <1>0, <1>3, <2>1, <3>1, IdleStep DEF Client!RequestRejected
  <2>2. CASE ~call[c].again
    <3> DEFINE now == [call[c] EXCEPT !.pc = "check", !.again = TRUE]
    <3>1. call' = [call EXCEPT ![c] = now] /\ notice' = notice
      BY <1>3, <2>2 DEF Client!RequestRejected, ClientInv, ClientTypes
    <3>2. now \in CallType /\ now.pc = "check"
      <4>1. call[c] \in CallType
        BY DEF ClientInv, ClientTypes
      <4> QED BY <4>1 DEF CallType
    <3> HIDE DEF now
    <3> QED BY <1>0, <3>1, <3>2, CallMoves DEF ClientInv, EndsForReason
  <2> QED BY <2>1, <2>2
<1>4. CASE Client!RequestGivesUp(c)
  <2>1. refreshing[call[c].on].pc = "refused" => Over
    BY <1>4 DEF Client!RequestGivesUp, ClientInv, EndsForReason, WaitsFor
  <2>2. notice' => Over
    BY <1>4, <2>1 DEF Client!RequestGivesUp, ClientInv, EndsForReason
  <2> QED BY <1>0, <1>4, <2>2, IdleStep DEF Client!RequestGivesUp
<1> QED BY <1>1, <1>2, <1>3, <1>4 DEF Client!RequestSucceeds, Client!RequestLost

LEMMA ResumeStep ==
  ASSUME ClientInv, NEW c \in Callers,
         Client!FindTask(c) \/ Client!UseCached(c) \/ Client!RefreshHelps(c)
  PROVE  ClientInv'
<1> USE DEF Client!keychain, Client!server, Client!screen
<1>0. /\ UNCHANGED <<access, refresh, issued, lapsed, refused, signedOut, refreshing, current,
                     recent, notice>>
      /\ ~Asks(c) /\ (notice' => Over) /\ call[c] \in CallType
  <2>1. call[c].pc # "wait" \/ refreshing[call[c].on].pc # "asking"
    BY DEF Client!FindTask, Client!UseCached, Client!RefreshHelps
  <2> QED
    BY <2>1, NotAsking DEF Client!FindTask, Client!UseCached, Client!RefreshHelps, ClientInv,
       ClientTypes, EndsForReason
<1>1. CASE Client!FindTask(c)
  <2>1. PICK now : now = IF current = Client!Nobody THEN [call[c] EXCEPT !.pc = "start"]
                         ELSE [call[c] EXCEPT !.pc = "wait", !.on = current]
    OBVIOUS
  <2>2. call' = [call EXCEPT ![c] = now]
    BY <1>1, <2>1 DEF Client!FindTask, ClientInv, ClientTypes
  <2>3. current # Client!Nobody => current \in Callers /\ Asks(current)
    BY DEF ClientInv, TasksHeld
  <2>4. now \in CallType /\ now.pc \in {"start", "wait"}
    BY <1>0, <2>1, <2>3 DEF CallType
  <2>5. now.pc = "wait" => now.on \in Callers /\ Asks(now.on)
    BY <1>0, <2>1, <2>3 DEF CallType
  <2> QED BY <1>0, <2>2, <2>4, <2>5, CallMoves
<1>2. ASSUME Client!Resume(c), Over \/ (access \notin lapsed /\ (c = Launch => access # 0))
      PROVE  ClientInv'
  <2>1. CASE c = Launch
    <3>1. PICK now : now = IF access = 0 THEN [call[c] EXCEPT !.pc = "denied"]
                           ELSE [call[c] EXCEPT !.pc = "sent", !.token = access, !.again = TRUE]
      OBVIOUS
    <3>2. call' = [call EXCEPT ![c] = now]
      BY <1>2, <2>1, <3>1 DEF Client!Resume, ClientInv, ClientTypes
    <3>3. access \in Nat
      BY DEF ClientInv, ClientTypes
    <3>4. now \in CallType /\ now.pc \in {"denied", "sent"}
      BY <1>0, <3>1, <3>3 DEF CallType
    <3>5. (now.pc = "denied" => access = 0) /\ (now.pc = "sent" => now.token = access /\ access # 0)
      BY <1>0, <3>1, <3>3 DEF CallType
    <3> QED BY <1>0, <1>2, <2>1, <3>2, <3>4, <3>5, CallMoves DEF Client!Accepted
  <2>2. CASE c # Launch
    BY <1>0, <1>2, <2>2, SendStep DEF Client!Resume, CallType
  <2> QED BY <2>1, <2>2
<1>3. CASE Client!UseCached(c)
  BY <1>2, <1>3 DEF Client!UseCached, ClientInv, AgainAccepted
<1>4. CASE Client!RefreshHelps(c)
  BY <1>2, <1>4 DEF Client!RefreshHelps, ClientInv, AgainAccepted, WaitsFor
<1> QED BY <1>1, <1>3, <1>4

\* The refresh of a caller ends, the others go on.
Ended(c, as) ==
  /\ \A d \in Callers \ {c} : refreshing'[d] = refreshing[d]
  /\ refreshing'[c].pc = as /\ refreshing' \in [Callers -> RefreshType]

LEMMA TaskEnds ==
  ASSUME ClientInv, NEW c \in Callers, NEW as \in {"ok", "refused", "failed", "unread"},
         refreshing' = [refreshing EXCEPT ![c].pc = as]
  PROVE  Ended(c, as)
<1>1. refreshing[c] \in RefreshType
  BY DEF ClientInv, ClientTypes
<1>2. [refreshing[c] EXCEPT !.pc = as] \in RefreshType /\ [refreshing[c] EXCEPT !.pc = as].pc = as
  BY <1>1 DEF RefreshType
<1>3. refreshing' = [refreshing EXCEPT ![c] = [refreshing[c] EXCEPT !.pc = as]]
  BY DEF ClientInv, ClientTypes
<1> QED BY <1>2, <1>3 DEF ClientInv, ClientTypes, Ended

\* It ends without a new pair of tokens.
LEMMA RefreshEnds ==
  ASSUME ClientInv, NEW c \in Callers, Asks(c), NEW as \in {"refused", "failed", "unread"},
         Ended(c, as), current' = Client!Nobody,
         UNCHANGED <<issued, lapsed, refused, signedOut, call, recent, notice>>,
         \/ UNCHANGED <<access, refresh>> /\ as # "refused"
         \/ access' = 0 /\ refresh' = 0 /\ Doomed(c)
  PROVE  ClientInv'
<1>1. /\ \A d \in Callers \ {c} : refreshing'[d] = refreshing[d]
      /\ refreshing'[c].pc = as /\ refreshing' \in [Callers -> RefreshType]
  BY DEF Ended
<1>2. ClientTypes'
  <2>0. 0 \in 0..issued /\ access \in 0..issued /\ refresh \in 0..issued
    BY DEF ClientInv, ClientTypes
  <2>1. access' \in 0..issued /\ refresh' \in 0..issued
    BY <2>0
  <2>2. issued \in Nat /\ lapsed \subseteq 1..issued /\ refused \subseteq 1..issued
    BY DEF ClientInv, ClientTypes
  <2>3. call \in [Callers -> CallType]
    BY DEF ClientInv, ClientTypes
  <2>4. refreshing' \in [Callers -> RefreshType]
    BY <1>1
  <2>5. issued' = issued /\ lapsed' = lapsed /\ refused' = refused /\ call' = call
    OBVIOUS
  <2> QED BY <2>1, <2>2, <2>3, <2>4, <2>5 DEF ClientTypes
<1>3. \A d \in Callers : Asks(d)' => d # c /\ Asks(d) /\ Doomed(d)' = Doomed(d)
  BY <1>1 DEF Asks, Doomed
<1>4. TasksHeld'
  BY <1>3 DEF ClientInv, TasksHeld
<1>5. OneFate'
  BY <1>3 DEF ClientInv, OneFate
<1>6. (Over => Over') /\ (as = "refused" => Over')
  BY DEF Over
<1>7. \A d \in Callers : call[d].pc = "wait" => call[d].on \in Callers
  BY DEF ClientInv, ClientTypes, CallType
<1>8. EndsForReason'
  BY <1>1, <1>6, <1>7 DEF ClientInv, EndsForReason, WaitsFor
<1>9. AgainAccepted'
  <2>1. access' = access \/ (access' = 0 /\ Over')
    BY DEF Over
  <2>2. 0 \notin lapsed
    BY DEF ClientInv, ClientTypes
  <2>3. \A d \in Callers : WaitsFor(d, "ok")' => WaitsFor(d, "ok")
    BY <1>1, <1>7 DEF WaitsFor
  <2>4. AgainAccepted /\ UNCHANGED <<lapsed, call, recent>>
    BY DEF ClientInv
  <2>5. recent' => access' \notin lapsed'
    BY <2>1, <2>2, <2>4 DEF AgainAccepted
  <2>6. \A d \in Callers : call'[d].pc = "sent" /\ call'[d].again =>
          Over' \/ Client!Accepted(call[d].token)'
    BY <1>6, <2>4 DEF AgainAccepted, Client!Accepted
  <2>7. \A d \in Callers : WaitsFor(d, "ok")' =>
          Over' \/ (access' \notin lapsed' /\ (d = Launch => access' # 0))
    BY <1>6, <2>1, <2>3, <2>4 DEF AgainAccepted
  <2> QED BY <2>4, <2>5, <2>6, <2>7 DEF AgainAccepted, Client!Accepted
<1> QED BY <1>2, <1>4, <1>5, <1>8, <1>9 DEF ClientInv

LEMMA RefreshStep ==
  ASSUME ClientInv, NEW c \in Callers,
         \/ Client!RefreshSucceeds(c) \/ Client!RefreshRefused(c)
         \/ Client!RefreshLost(c) \/ Client!RefreshUnread(c)
  PROVE  ClientInv'
<1> USE DEF Client!keychain, Client!server, Client!screen
<1>1. CASE Client!RefreshRefused(c)
  <2>1. Ended(c, "refused")
    BY <1>1, TaskEnds DEF Client!RefreshRefused
  <2>2. /\ Asks(c) /\ Doomed(c) /\ access' = 0 /\ refresh' = 0 /\ current' = Client!Nobody
        /\ UNCHANGED <<issued, lapsed, refused, signedOut, call, recent, notice>>
    BY <1>1 DEF Client!RefreshRefused, Client!ClearAll, Asks, Doomed
  <2> QED BY <2>1, <2>2, RefreshEnds
<1>2. CASE Client!RefreshLost(c)
  <2>1. Ended(c, "failed")
    BY <1>2, TaskEnds DEF Client!RefreshLost
  <2>2. /\ Asks(c) /\ UNCHANGED <<access, refresh>> /\ current' = Client!Nobody
        /\ UNCHANGED <<issued, lapsed, refused, signedOut, call, recent, notice>>
    BY <1>2 DEF Client!RefreshLost, Asks
  <2> QED BY <2>1, <2>2, RefreshEnds
<1>4. CASE Client!RefreshUnread(c)
  <2>1. Ended(c, "unread")
    BY <1>4, TaskEnds DEF Client!RefreshUnread
  <2>2. /\ Asks(c) /\ UNCHANGED <<access, refresh>> /\ current' = Client!Nobody
        /\ UNCHANGED <<issued, lapsed, refused, signedOut, call, recent, notice>>
    BY <1>4 DEF Client!RefreshUnread, Asks
  <2> QED BY <2>1, <2>2, RefreshEnds
<1>3. CASE Client!RefreshSucceeds(c)
  <2>1. /\ Asks(c) /\ ~Doomed(c)
        /\ issued' = issued + 1 /\ access' = issued + 1 /\ refresh' = issued + 1
        /\ refreshing' = [refreshing EXCEPT ![c].pc = "ok"]
        /\ current' = Client!Nobody /\ recent' = TRUE
        /\ UNCHANGED <<lapsed, refused, signedOut, notice, call>>
    BY <1>3 DEF Client!RefreshSucceeds, Asks, Doomed
  <2>2. /\ \A d \in Callers \ {c} : refreshing'[d] = refreshing[d]
        /\ refreshing'[c].pc = "ok" /\ refreshing' \in [Callers -> RefreshType]
    BY <2>1, TaskEnds DEF Ended
  <2>3. ClientTypes'
    BY <2>1, <2>2 DEF ClientInv, ClientTypes
  <2>4. \A d \in Callers : Asks(d)' => d # c /\ Asks(d) /\ Doomed(d)' = Doomed(d) /\ ~Doomed(d)
    BY <2>1, <2>2 DEF Asks, Doomed, ClientInv, OneFate
  <2>5. access' \notin lapsed /\ access' # 0 /\ refresh' # 0 /\ refresh' \notin refused
    BY <2>1 DEF ClientInv, ClientTypes
  <2>6. TasksHeld' /\ OneFate'
    BY <2>1, <2>4, <2>5 DEF ClientInv, TasksHeld, OneFate
  <2>7. Over => Over'
    BY <1>3, <2>1, OverStays DEF Over
  <2>8. \A d \in Callers : call[d].pc = "wait" => call[d].on \in Callers
    BY DEF ClientInv, ClientTypes, CallType
  <2>9. EndsForReason'
    BY <2>1, <2>2, <2>7, <2>8 DEF ClientInv, EndsForReason, WaitsFor
  <2>10. AgainAccepted'
    BY <2>1, <2>5, <2>7 DEF ClientInv, AgainAccepted, Client!Accepted
  <2> QED BY <2>3, <2>6, <2>9, <2>10 DEF ClientInv
<1> QED BY <1>1, <1>2, <1>3, <1>4

LEMMA StartTaskStep ==
  ASSUME ClientInv, NEW c \in Callers, Client!StartTask(c)
  PROVE  ClientInv'
<1> PICK now, task :
      /\ now = [call[c] EXCEPT !.pc = "wait", !.on = c]
      /\ task = IF refresh = 0 THEN [pc |-> "refused", token |-> 0]
                ELSE [pc |-> "asking", token |-> refresh]
  OBVIOUS
<1>1. /\ call[c].pc = "start" /\ \A d \in Callers : call[d].pc = "wait" => call[d].on # c
      /\ refreshing' = [refreshing EXCEPT ![c] = task] /\ call' = [call EXCEPT ![c] = now]
      /\ current' = (IF refresh = 0 THEN Client!Nobody ELSE c)
      /\ UNCHANGED <<access, refresh, issued, lapsed, refused, signedOut, notice, recent>>
  BY DEF Client!StartTask, Client!Disturb, Client!keychain, Client!server, Client!screen,
         Client!Callers, Callers, ClientInv, ClientTypes
<1>2. call[c] \in CallType /\ refresh \in Nat
  BY DEF ClientInv, ClientTypes
<1>3. now \in CallType /\ now.pc = "wait" /\ now.on = c
  BY <1>2 DEF CallType
<1>4. task \in RefreshType /\ (task.pc = "asking" <=> refresh # 0)
      /\ task.pc \in {"asking", "refused"}
      /\ (task.pc = "asking" => task.token = refresh)
  BY <1>2 DEF RefreshType
<1>5. /\ call'[c] = now /\ \A d \in Callers \ {c} : call'[d] = call[d]
      /\ refreshing'[c] = task /\ \A d \in Callers \ {c} : refreshing'[d] = refreshing[d]
  BY <1>1 DEF ClientInv, ClientTypes
<1>6. ClientTypes'
  BY <1>1, <1>3, <1>4 DEF ClientInv, ClientTypes
<1>7. TasksHeld'
  <2>1. ASSUME NEW d \in Callers, Asks(d)' PROVE call'[d].pc = "wait" /\ call'[d].on = d
    <3>1. CASE d = c
      BY <1>3, <1>5, <3>1
    <3>2. CASE d # c
      BY <1>5, <2>1, <3>2 DEF ClientInv, TasksHeld, Asks
    <3> QED BY <3>1, <3>2
  <2>2. current' # Client!Nobody => current' \in Callers /\ refreshing'[current'].pc = "asking"
    BY <1>1, <1>4, <1>5 DEF Asks
  <2> QED BY <2>1, <2>2 DEF TasksHeld, Asks
<1>8. OneFate'
  BY <1>1, <1>4, <1>5 DEF ClientInv, OneFate, Asks, Doomed
<1>9. Over' = Over /\ (task.pc = "refused" => Over)
  BY <1>1, <1>4 DEF Over
<1>10. \A d \in Callers \ {c} : \A pc : WaitsFor(d, pc)' <=> WaitsFor(d, pc)
  BY <1>1, <1>5 DEF WaitsFor, ClientInv, ClientTypes, CallType
<1>11. /\ WaitsFor(c, "refused")' => Over
       /\ ~WaitsFor(c, "ok")'
  BY <1>3, <1>4, <1>5, <1>9 DEF WaitsFor
<1>12. EndsForReason'
  BY <1>1, <1>3, <1>5, <1>9, <1>10, <1>11 DEF ClientInv, EndsForReason, Callers
<1>13. AgainAccepted'
  BY <1>1, <1>3, <1>5, <1>9, <1>10, <1>11 DEF ClientInv, AgainAccepted, Client!Accepted
<1> QED BY <1>6, <1>7, <1>8, <1>12, <1>13 DEF ClientInv

\* The launch asks, and asks again with the new token; it ends without touching the tokens.
LEMMA LaunchStep ==
  ASSUME ClientInv,
         \/ Client!LaunchFindsNoTokens \/ Client!LaunchAsks \/ Client!LaunchSucceeds
         \/ Client!LaunchLost \/ Client!LaunchGivesUp \/ Client!LaunchUnread
  PROVE  ClientInv'
<1> USE DEF Client!keychain, Client!server, Client!screen
<1>0. /\ UNCHANGED <<access, refresh, issued, lapsed, refused, signedOut, refreshing, current,
                     recent, notice>>
      /\ Launch \in Callers /\ (notice' => Over)
      /\ access \in Nat /\ call \in [Callers -> CallType] /\ call[Launch] \in CallType
  BY DEF Client!LaunchFindsNoTokens, Client!LaunchAsks, Client!LaunchSucceeds, Client!LaunchLost,
         Client!LaunchGivesUp, Client!LaunchUnread, Client!ShowKnown, Callers, ClientInv,
         ClientTypes, EndsForReason
<1>1. CASE Client!LaunchFindsNoTokens
  BY <1>0, <1>1
     DEF Client!LaunchFindsNoTokens, ClientInv, ClientTypes, TasksHeld, OneFate, EndsForReason,
         AgainAccepted, Asks, Doomed, WaitsFor, Over, Client!Accepted
<1>2. ~Client!LaunchFindsNoTokens => ~Asks(Launch)
  BY <1>0, NotAsking
     DEF Client!LaunchAsks, Client!LaunchSucceeds, Client!LaunchLost, Client!LaunchGivesUp,
         Client!LaunchUnread
<1>3. CASE Client!LaunchAsks
  <2>1. PICK now : now = IF access = 0 THEN [call[Launch] EXCEPT !.pc = "check"]
                         ELSE [call[Launch] EXCEPT !.pc = "sent", !.token = access]
    OBVIOUS
  <2>2. call' = [call EXCEPT ![Launch] = now]
    BY <1>0, <1>3, <2>1 DEF Client!LaunchAsks
  <2>3. now \in CallType /\ now.pc \in {"check", "sent"} /\ now.again = call[Launch].again
    BY <1>0, <2>1 DEF CallType
  <2>4. ~call[Launch].again /\ ~Asks(Launch)
    BY <1>0, <1>2, <1>3 DEF Client!LaunchAsks, Client!LaunchFindsNoTokens, ClientInv, AgainAccepted
  <2> QED BY <1>0, <2>2, <2>3, <2>4, CallMoves
<1>4. CASE Client!Idle(Launch) /\ ~Client!LaunchFindsNoTokens
  BY <1>0, <1>2, <1>4, IdleStep
<1> QED
  BY <1>1, <1>3, <1>4
     DEF Client!LaunchSucceeds, Client!LaunchLost, Client!LaunchGivesUp, Client!LaunchUnread

LEMMA LaunchEndsStep ==
  ASSUME ClientInv, Client!LaunchRejected \/ Client!LaunchLogsOut
  PROVE  ClientInv'
<1> USE DEF Client!keychain, Client!server, Client!screen
<1>0. /\ UNCHANGED <<issued, lapsed, refused, signedOut, refreshing, current, recent, notice>>
      /\ access' = 0 /\ Launch \in Callers /\ 0 \notin lapsed /\ 0 \in 0..issued
      /\ refresh \in 0..issued /\ call \in [Callers -> CallType] /\ call[Launch] \in CallType
  BY DEF Client!LaunchRejected, Client!LaunchLogsOut, Client!ClearAll, Callers, ClientInv,
         ClientTypes
<1>1. /\ call[Launch].pc # "wait" \/ refreshing[call[Launch].on].pc # "asking"
      /\ ~Asks(Launch)
  BY <1>0, NotAsking DEF Client!LaunchRejected, Client!LaunchLogsOut
<1>2. PICK now : /\ call' = [call EXCEPT ![Launch] = now] /\ now \in CallType
                 /\ now.pc \in {"idle", "check", "denied"} /\ (now.pc = "idle" => ~now.again)
                 /\ now.pc = "denied" => call[Launch].pc = "sent"
                    /\ (call[Launch].again \/ refresh = 0)
                                         /\ ~Client!Accepted(call[Launch].token)
  <2>1. CASE Client!LaunchRejected
    <3>1. PICK now : now = [call[Launch] EXCEPT !.pc =
                              IF call[Launch].again \/ refresh = 0 THEN "denied" ELSE "check"]
      OBVIOUS
    <3>2. call' = [call EXCEPT ![Launch] = now]
      BY <1>0, <2>1, <3>1 DEF Client!LaunchRejected
    <3>3. now \in CallType /\ now.pc = IF call[Launch].again \/ refresh = 0 THEN "denied"
                                                                            ELSE "check"
      BY <1>0, <3>1 DEF CallType
    <3> QED BY <2>1, <3>2, <3>3 DEF Client!LaunchRejected
  <2>2. CASE Client!LaunchLogsOut
    <3>1. Client!NoCall \in CallType /\ Client!NoCall.pc = "idle" /\ ~Client!NoCall.again
      BY DEF Client!NoCall, CallType, Callers
    <3> QED BY <2>2, <3>1 DEF Client!LaunchLogsOut, Client!Idle
  <2> QED BY <2>1, <2>2
<1>3. call'[Launch] = now /\ \A c \in Callers \ {Launch} : call'[c] = call[c]
  BY <1>0, <1>2
<1>4. (now.pc = "denied" => Over) /\ (Over => Over')
      /\ (refresh' = refresh \/ (refresh' = 0 /\ Over))
  <2>1. now.pc = "denied" => Over
    BY <1>0, <1>2 DEF ClientInv, AgainAccepted, Over
  <2>2. refresh' = refresh \/ (refresh' = 0 /\ Over)
    BY <1>0 DEF Client!LaunchRejected, Client!LaunchLogsOut, Client!ClearAll, ClientInv,
                EndsForReason,
       WaitsFor
  <2> QED BY <1>0, <2>1, <2>2 DEF Over
<1>5. \A c \in Callers : Asks(c)' = Asks(c) /\ Doomed(c)' = Doomed(c)
  BY <1>0 DEF Asks, Doomed
<1>6. ClientTypes'
  BY <1>0, <1>2, <1>4 DEF ClientInv, ClientTypes
<1>7. TasksHeld'
  <2>1. \A c \in Callers : Asks(c)' => c # Launch /\ Asks(c)
    BY <1>1, <1>5
  <2>2. current # Client!Nobody => current \in Callers /\ Asks(current)'
    BY <1>0 DEF ClientInv, TasksHeld, Asks
  <2> QED BY <1>0, <1>3, <2>1, <2>2 DEF ClientInv, TasksHeld
<1>8. OneFate'
  <2>1. \A c \in Callers : Asks(c) /\ refresh' = 0 /\ ~signedOut => Doomed(c)
    BY <1>4 DEF ClientInv, OneFate, Over
  <2>2. \A c \in Callers : Asks(c) /\ refresh' # 0 => (Doomed(c) <=> refresh' \in refused)
    BY <1>4 DEF ClientInv, OneFate
  <2>3. \A c, d \in Callers : Asks(c) /\ Asks(d) => (Doomed(c) <=> Doomed(d))
    BY DEF ClientInv, OneFate
  <2> QED BY <1>0, <1>5, <2>1, <2>2, <2>3 DEF OneFate
<1>9. \A c \in Callers : \A pc : WaitsFor(c, pc)' => WaitsFor(c, pc)
  BY <1>0, <1>2, <1>3 DEF WaitsFor
<1>10. EndsForReason'
  BY <1>0, <1>3, <1>4, <1>9 DEF ClientInv, EndsForReason
<1>11. AgainAccepted'
  <2>1. \A c \in Callers : WaitsFor(c, "ok")' =>
          c # Launch /\ (Over' \/ (access' \notin lapsed' /\ (c = Launch => access' # 0)))
    BY <1>0, <1>2, <1>3, <1>4, <1>9 DEF ClientInv, AgainAccepted, WaitsFor
  <2>2. \A c \in Callers : call'[c].pc = "sent" /\ call'[c].again =>
          Over' \/ Client!Accepted(call[c].token)'
    BY <1>0, <1>2, <1>3, <1>4 DEF ClientInv, AgainAccepted, Client!Accepted
  <2>3. \A c \in Callers : call'[c].pc = "idle" => ~call'[c].again
    BY <1>2, <1>3 DEF ClientInv, AgainAccepted
  <2> QED BY <1>0, <2>1, <2>2, <2>3 DEF AgainAccepted, Client!Accepted
<1> QED BY <1>6, <1>7, <1>8, <1>10, <1>11 DEF ClientInv

\* A start that cannot read an answer logs out, and leaves no refresh under way.
LEMMA MisreadStep ==
  ASSUME ClientInv, LaunchAlone, Client!LaunchMisreads
  PROVE  ClientInv'
<1> USE DEF Client!server, Client!screen
<1>0. /\ UNCHANGED <<issued, lapsed, refused, signedOut, refreshing, current, recent, notice>>
      /\ access' = 0 /\ refresh' = 0 /\ Launch \in Callers /\ 0 \notin lapsed /\ 0 \in 0..issued
      /\ call \in [Callers -> CallType]
  BY DEF Client!LaunchMisreads, Client!ClearAll, Callers, ClientInv, ClientTypes
<1>1. \A c \in Callers : ~Asks(c)
  <2>1. call[Launch].pc \in {"wait", "sent"}
        /\ (call[Launch].pc = "wait" => refreshing[call[Launch].on].pc = "unread")
    BY DEF Client!LaunchMisreads
  <2>2. \A c \in Callers : c = Launch \/ call[c].pc = "idle"
    BY <2>1 DEF LaunchAlone, Callers
  <2> QED BY <2>1, <2>2 DEF ClientInv, TasksHeld, Asks
<1>2. Client!NoCall \in CallType /\ Client!NoCall.pc = "idle" /\ ~Client!NoCall.again
  BY DEF Client!NoCall, CallType, Callers
<1>3. /\ call' \in [Callers -> CallType] /\ call'[Launch] = Client!NoCall
      /\ \A c \in Callers \ {Launch} : call'[c] = call[c]
  BY <1>0, <1>2 DEF Client!LaunchMisreads, Client!Idle
<1>4. \A c \in Callers : ~Asks(c)'
  BY <1>0, <1>1 DEF Asks
<1>5. ClientTypes'
  BY <1>0, <1>3 DEF ClientInv, ClientTypes
<1>6. TasksHeld'
  BY <1>0, <1>1, <1>4 DEF ClientInv, TasksHeld
<1>7. OneFate'
  BY <1>4 DEF OneFate
<1>8. EndsForReason' /\ AgainAccepted'
  BY <1>0, <1>2, <1>3 DEF EndsForReason, AgainAccepted, Over, ClientInv
<1> QED BY <1>5, <1>6, <1>7, <1>8 DEF ClientInv

\* The app shows its start while the start is under way, and starts no request.
LEMMA AloneStep ==
  ASSUME ClientInv, LaunchAlone, Client!Next
  PROVE  LaunchAlone'
<1> USE DEF Client!keychain, Client!server, Client!screen
<1>1. call \in [Callers -> CallType] /\ Launch \in Callers /\ Launch \notin AppRequests
      /\ AppRequests \subseteq Callers
  BY LaunchAssumption DEF ClientInv, ClientTypes, Callers
<1>2. CASE Client!SignIn \/ Client!UserLogout \/ Client!NoticeArrives
  BY <1>2 DEF Client!SignIn, Client!UserLogout, Client!NoticeArrives, Client!ShowOut, LaunchAlone
<1>3. ASSUME NEW c \in AppRequests, NEW now, call' = [call EXCEPT ![c] = now],
             UNCHANGED auth, auth # "loading"
      PROVE  LaunchAlone'
  BY <1>1, <1>3 DEF LaunchAlone
<1>4. ASSUME NEW now, call' = [call EXCEPT ![Launch] = now], UNCHANGED <<auth, notice>>,
             auth = "loading"
      PROVE  LaunchAlone'
  BY <1>1, <1>4 DEF LaunchAlone
<1>5. ASSUME NEW c \in Client!Callers,
             \/ Client!StartRequest(c) \/ Client!RequestSucceeds(c) \/ Client!RequestRejected(c)
             \/ Client!RequestLost(c) \/ Client!RequestGivesUp(c)
      PROVE  LaunchAlone'
  <2>1. c \in AppRequests /\ UNCHANGED auth /\ auth # "loading"
    BY <1>5 DEF Client!StartRequest, Client!RequestSucceeds, Client!RequestRejected,
                Client!RequestLost, Client!RequestGivesUp, LaunchAlone
  <2>2. \E now : call' = [call EXCEPT ![c] = now]
    BY <1>5 DEF Client!StartRequest, Client!RequestSucceeds, Client!RequestRejected,
                Client!RequestLost, Client!RequestGivesUp, Client!Send, Client!Idle
  <2> QED BY <1>3, <2>1, <2>2
<1>6. ASSUME NEW c \in Client!Callers,
             \/ Client!FindTask(c) \/ Client!UseCached(c) \/ Client!StartTask(c)
             \/ Client!RefreshHelps(c)
      PROVE  LaunchAlone'
  <2>1. call[c].pc # "idle" /\ UNCHANGED <<auth, notice>>
    BY <1>6 DEF Client!FindTask, Client!UseCached, Client!StartTask, Client!RefreshHelps
  <2>2. \E now : call' = [call EXCEPT ![c] = now]
    BY <1>6 DEF Client!FindTask, Client!UseCached, Client!StartTask, Client!RefreshHelps,
                Client!Resume, Client!Send
  <2>3. CASE c = Launch
    BY <1>4, <2>1, <2>2, <2>3 DEF LaunchAlone
  <2>4. CASE c \in AppRequests
    BY <1>3, <2>1, <2>2, <2>4 DEF LaunchAlone
  <2> QED BY <2>3, <2>4 DEF Client!Callers
<1>7. ASSUME NEW c \in Client!Callers,
             \/ Client!RefreshSucceeds(c) \/ Client!RefreshRefused(c)
             \/ Client!RefreshLost(c) \/ Client!RefreshUnread(c)
      PROVE  LaunchAlone'
  BY <1>7 DEF Client!RefreshSucceeds, Client!RefreshRefused, Client!RefreshLost,
              Client!RefreshUnread, LaunchAlone
<1>8. CASE Client!LaunchAsks \/ Client!LaunchRejected
  <2>1. auth = "loading" /\ UNCHANGED <<auth, notice>>
    BY <1>8 DEF Client!LaunchAsks, Client!LaunchRejected, LaunchAlone
  <2>2. \E now : call' = [call EXCEPT ![Launch] = now]
    BY <1>8 DEF Client!LaunchAsks, Client!LaunchRejected
  <2> QED BY <1>4, <2>1, <2>2
<1>9. CASE Client!LaunchFindsNoTokens
  BY <1>9 DEF Client!LaunchFindsNoTokens, LaunchAlone
<1>10. CASE \/ Client!LaunchSucceeds \/ Client!LaunchLost \/ Client!LaunchGivesUp
            \/ Client!LaunchUnread \/ Client!LaunchMisreads \/ Client!LaunchLogsOut
  <2>1. Client!Idle(Launch) /\ auth' \in {"in", "out"}
    BY <1>10 DEF Client!LaunchSucceeds, Client!LaunchLost, Client!LaunchGivesUp,
                 Client!LaunchUnread, Client!LaunchMisreads, Client!LaunchLogsOut,
                 Client!ShowKnown
  <2>2. call'[Launch] = Client!NoCall
    BY <1>1, <2>1 DEF Client!Idle
  <2> QED BY <2>1, <2>2 DEF Client!NoCall, LaunchAlone
<1>11. CASE Client!AccessLapses \/ Client!CooldownEnds \/ Client!RefreshLapses
  BY <1>11 DEF Client!AccessLapses, Client!CooldownEnds, Client!RefreshLapses, LaunchAlone
<1>12. CASE Client!Restart
  BY <1>1, <1>12 DEF Client!Restart, Client!NoCall, Client!Callers, Callers, LaunchAlone
<1> QED
  BY <1>2, <1>5, <1>6, <1>7, <1>8, <1>9, <1>10, <1>11, <1>12 DEF Client!Next

LEMMA ClientStep ==
  ASSUME ClientInv, LaunchAlone, Client!Next
  PROVE  ClientInv'
<1>1. ASSUME NEW c \in Client!Callers,
             \/ Client!StartRequest(c) \/ Client!RequestSucceeds(c) \/ Client!RequestRejected(c)
             \/ Client!RequestLost(c) \/ Client!RequestGivesUp(c)
      PROVE  ClientInv'
  BY <1>1, RequestStep DEF Client!Callers, Callers
<1>2. ASSUME NEW c \in Client!Callers,
             Client!FindTask(c) \/ Client!UseCached(c) \/ Client!RefreshHelps(c)
      PROVE  ClientInv'
  BY <1>2, ResumeStep DEF Client!Callers, Callers
<1>3. ASSUME NEW c \in Client!Callers,
             \/ Client!RefreshSucceeds(c) \/ Client!RefreshRefused(c)
             \/ Client!RefreshLost(c) \/ Client!RefreshUnread(c)
      PROVE  ClientInv'
  BY <1>3, RefreshStep DEF Client!Callers, Callers
<1>4. ASSUME NEW c \in Client!Callers, Client!StartTask(c)
      PROVE  ClientInv'
  BY <1>4, StartTaskStep DEF Client!Callers, Callers
<1> QED
  BY <1>1, <1>2, <1>3, <1>4, EndStep, SignInStep, TimeStep, RestartStep, LaunchStep,
     LaunchEndsStep, MisreadStep DEF Client!Next

\* Only five steps delete the refresh token.
LEMMA KeptStep ==
  ASSUME ClientInv, Client!Next
  PROVE  Client!SessionKept
<1> SUFFICES ASSUME ~signedOut, refresh # 0, refresh' = 0, ~Client!UserLogout, ~Over,
                    ~Client!LaunchMisreads
             PROVE  FALSE
  BY DEF Client!SessionKept, Over
<1> USE DEF Client!keychain
<1>1. ~Client!NoticeArrives /\ ~Client!LaunchLogsOut
  <2>1. Launch \in Callers
    BY DEF Callers
  <2> QED
    BY <2>1 DEF Client!NoticeArrives, Client!LaunchLogsOut, ClientInv, EndsForReason, WaitsFor
<1>2. \A c \in Client!Callers : ~Client!RefreshRefused(c)
  BY DEF Client!RefreshRefused, Client!Callers, Callers, ClientInv, OneFate, Over, Asks, Doomed
<1>3. issued \in Nat
  BY DEF ClientInv, ClientTypes
<1>4. ~Client!SignIn /\ ~Client!Restart /\ ~Client!AccessLapses /\ ~Client!CooldownEnds
      /\ ~Client!RefreshLapses
  BY <1>3 DEF Client!SignIn, Client!Restart, Client!AccessLapses, Client!CooldownEnds,
              Client!RefreshLapses
<1>5. /\ ~Client!LaunchFindsNoTokens /\ ~Client!LaunchAsks /\ ~Client!LaunchSucceeds
      /\ ~Client!LaunchRejected /\ ~Client!LaunchLost /\ ~Client!LaunchGivesUp
      /\ ~Client!LaunchUnread
  BY DEF Client!LaunchFindsNoTokens, Client!LaunchAsks, Client!LaunchSucceeds,
         Client!LaunchRejected, Client!LaunchLost, Client!LaunchGivesUp, Client!LaunchUnread
<1>6. \A c \in Client!Callers :
        /\ ~Client!StartRequest(c) /\ ~Client!RequestSucceeds(c) /\ ~Client!RequestRejected(c)
        /\ ~Client!RequestLost(c) /\ ~Client!RequestGivesUp(c)
  BY DEF Client!StartRequest, Client!RequestSucceeds, Client!RequestRejected, Client!RequestLost,
         Client!RequestGivesUp
<1>7. \A c \in Client!Callers :
        /\ ~Client!FindTask(c) /\ ~Client!UseCached(c) /\ ~Client!StartTask(c)
        /\ ~Client!RefreshSucceeds(c) /\ ~Client!RefreshLost(c) /\ ~Client!RefreshUnread(c)
        /\ ~Client!RefreshHelps(c)
  BY <1>3 DEF Client!FindTask, Client!UseCached, Client!StartTask, Client!RefreshSucceeds,
              Client!RefreshLost, Client!RefreshUnread, Client!RefreshHelps
<1> QED BY <1>1, <1>2, <1>4, <1>5, <1>6, <1>7 DEF Client!Next

\* The app's session ends with a logout, an expired refresh token or a start that cannot read
\* an answer, whichever calls, refreshes and restarts overlap (auth.py:264): any number of calls
\* may be under way.
THEOREM SessionIsKept == ChatSpec => SessionKept
<1>1. ChatInit => ClientInv /\ LaunchAlone
  <2>1. Client!Init => LaunchAlone
    BY DEF Client!Init, LaunchAlone, Client!Callers, Client!NoCall
  <2> QED BY <2>1, ClientInit DEF ChatInit
<1>2. ClientInv /\ LaunchAlone /\ [ChatNext]_allVars => (ClientInv /\ LaunchAlone)'
  <2> SUFFICES ASSUME ClientInv, LaunchAlone, [ChatNext]_allVars
               PROVE  ClientInv' /\ LaunchAlone'
    OBVIOUS
  <2>1. CASE Client!Next
    BY <2>1, ClientStep, AloneStep
  <2>2. CASE UNCHANGED sessionVars
    <3>1. ClientInv'
      BY <2>2 DEF sessionVars, ClientInv, ClientTypes, TasksHeld, OneFate, EndsForReason,
                  AgainAccepted, Over, Asks, Doomed, WaitsFor, Client!Accepted
    <3> QED BY <2>2, <3>1 DEF sessionVars, LaunchAlone
  <2> QED BY <2>1, <2>2 DEF ChatNext, allVars
<1>3. ClientInv /\ [ChatNext]_allVars => [Client!SessionKept]_allVars
  <2> SUFFICES ASSUME ClientInv, ChatNext PROVE Client!SessionKept
    OBVIOUS
  <2>1. CASE Client!Next
    BY <2>1, KeptStep
  <2>2. CASE UNCHANGED sessionVars
    BY <2>2 DEF sessionVars, Client!SessionKept
  <2> QED BY <2>1, <2>2 DEF ChatNext
<1> QED BY <1>1, <1>2, <1>3, PTL DEF ChatSpec, SessionKept

-----------------------------------------------------------------------------
(* Councils *)

\* The scenes of a council differ in their requests and disturbances only.
Council(S, R, D) == INSTANCE CouncilChat WITH Starts <- S, Retries <- R, Disturbances <- D

Personas == 1..NumPersonas
Branches(S) == S \X Personas
Shown(S) == Branches(S) \cup {NoBranch}
Turn == [id : Nat, of : Nat, kind : {"clone", "answer"} \cup FollowUps]
Child == [from : Nat, turns : SUBSET Turn]
Cands == [Personas -> Nat]
RowType(S) == [saved : BOOLEAN, cands : Cands, active : Shown(S), text : Shown(S) \X Nat]
StartType == [pc : {"none", "asking", "saved", "done", "lost"}, result : Cands,
              open : SUBSET Personas]
RetryType(S) == [pc : {"none", "asking", "answered", "stamped", "failed", "done"},
                 branch : Shown(S), cands : Cands, active : Shown(S), text : Shown(S) \X Nat,
                 answer : Nat]
Session(S) == [mode : BOOLEAN, active : Shown(S), council : S \cup {NoStart}]

CouncilTypes(S, R) ==
  /\ nextId \in Nat \ {0}
  /\ parent \subseteq [id : Nat, of : Nat] /\ IsFiniteSet(parent)
  /\ session \in Session(S)
  /\ row \in [S -> RowType(S)] /\ branch \in [Branches(S) -> Child]
  /\ start \in [S -> StartType] /\ retry \in [R -> RetryType(S)]

\* A branch starts behind the turns it was cloned from.
IdsInOrder(S) ==
  /\ \A m \in parent : m.id < nextId /\ m.of = m.id
  /\ \A b \in Branches(S) : \A t \in branch[b].turns :
       t.id < nextId /\ (branch[b].from # 0 => t.of = t.id \/ t.id <= branch[b].from)

Gave(b, n) == n # 0 => \E t \in branch[b].turns : t.id = n /\ t.kind = "answer"
Working(q) == retry[q].pc \notin {"none", "done"}

\* Whatever may become a candidate is an answer its branch keeps.
AnswersGiven(S, R) ==
  /\ \A s \in S : \A p \in Personas :
       Gave(<<s, p>>, start[s].result[p]) /\ Gave(<<s, p>>, row[s].cands[p])
  /\ \A q \in R : Working(q) =>
       /\ retry[q].branch \in Branches(S) /\ Gave(retry[q].branch, retry[q].answer)
       /\ \A p \in Personas : Gave(<<retry[q].branch[1], p>>, retry[q].cands[p])

\* Only the branches of a council that was entered are worked on.
Entered(S, R) ==
  /\ session.mode => /\ session.active \in Branches(S) /\ session.council \in S
                     /\ start[session.council].pc = "done"
  /\ \A q \in R : Working(q) => start[retry[q].branch[1]].pc = "done"
  /\ \A q \in R : retry[q].pc = "answered" => retry[q].answer # 0
  /\ \A s \in S : start[s].pc = "none" =>
       \A p \in Personas : start[s].result[p] = 0 /\ row[s].cands[p] = 0

CouncilInv(S, R) == CouncilTypes(S, R) /\ IdsInOrder(S) /\ AnswersGiven(S, R) /\ Entered(S, R)

-----------------------------------------------------------------------------
LEMMA LeastOf ==
  ASSUME NEW T \in SUBSET Nat, T # {}
  PROVE  \E x \in T : \A y \in T : x <= y
<1> DEFINE L == OpToRel(<, Nat)
<1>1. \A x, y \in T : y < x => <<y, x>> \in L
  BY Zenon DEF OpToRel
<1>2. IsWellFoundedOn(L, Nat)
  BY NatLessThanWellFounded, Zenon
<1> HIDE DEF L
<1>3. \E x \in T : \A y \in T : ~(<<y, x>> \in L)
  BY <1>2, WFMin, Zenon
<1>4. PICK x \in T : \A y \in T : ~(y < x)
  BY <1>1, <1>3
<1>5. \A y \in T : x <= y
  BY <1>4
<1> QED BY <1>5

LEMMA GreatestOf ==
  ASSUME NEW T \in SUBSET Nat, T # {}, NEW n \in Nat, \A x \in T : x <= n
  PROVE  \E x \in T : \A y \in T : x >= y
<1> DEFINE U == {u \in Nat : \A x \in T : x <= u}
<1>1. PICK u \in U : \A v \in U : u <= v
  <2>1. n \in U
    OBVIOUS
  <2> QED BY <2>1, LeastOf
<1>2. CASE u \in T
  BY <1>2
<1>3. CASE u \notin T
  <2>0. u \in Nat /\ \A x \in T : x \in Nat /\ x < u
    BY <1>1, <1>3
  <2>1. u # 0 /\ \A x \in T : x <= u - 1
    <3>1. PICK x \in T : TRUE
      OBVIOUS
    <3> QED BY <2>0, <3>1
  <2>2. u - 1 \in U
    BY <2>1
  <2> QED BY <1>1, <2>2
<1> QED BY <1>2, <1>3

LEMMA PersonasOf ==
  ASSUME NEW S, NEW R, NEW D
  PROVE  /\ Council(S, R, D)!Personas = Personas /\ Council(S, R, D)!Branches = Branches(S)
         /\ \A X : Council(S, R, D)!Cardinality(X) = Cardinality(X)
         /\ Cardinality(Personas) = NumPersonas /\ Personas \subseteq Nat \ {0} /\ Personas # {}
<1>1. \A X : Council(S, R, D)!Cardinality(X) = Cardinality(X)
  BY DEF Council!Cardinality, Cardinality
<1>2. NumPersonas \in Nat \ {0}
  BY CouncilAssumption
<1>3. Cardinality(1..NumPersonas) = NumPersonas
  BY <1>2, FS_Interval
<1>4. 1 \in Personas
  BY <1>2 DEF Personas
<1> QED
  BY <1>1, <1>2, <1>3, <1>4 DEF Council!Personas, Council!Branches, Personas, Branches

LEMMA FirstOfPersonas ==
  ASSUME NEW S, NEW R, NEW D, NEW cands
  PROVE  Council(S, R, D)!FirstAnswered(cands) \in Personas
<1>1. \A T : T \subseteq Personas /\ T # {} => Council(S, R, D)!Min(T) \in T
  <2> TAKE T
  <2> HAVE T \subseteq Personas /\ T # {}
  <2>1. T \in SUBSET Nat
    BY PersonasOf
  <2> QED BY <2>1, LeastOf DEF Council!Min
<1> DEFINE answered == {p \in Personas : cands[p] # Council(S, R, D)!Failure}
<1>2. Council(S, R, D)!FirstAnswered(cands) =
        IF answered = {} THEN Council(S, R, D)!Min(Personas) ELSE Council(S, R, D)!Min(answered)
  BY PersonasOf DEF Council!FirstAnswered
<1>3. answered \subseteq Personas /\ Personas # {}
  BY PersonasOf
<1> HIDE DEF answered
<1> QED BY <1>1, <1>2, <1>3

\* The clones are numbered from nextId, one branch after the other.
LEMMA CloneIds ==
  ASSUME NEW S, NEW R, NEW D, CouncilTypes(S, R), IdsInOrder(S), NEW p \in Personas,
         NEW t \in Council(S, R, D)!Clone(p)
  PROVE  /\ t \in Turn
         /\ t.id < nextId + Cardinality(Personas) * Cardinality(parent)
<1> DEFINE rank(m) == Cardinality({x \in parent : x.id < m.id})
           size == Cardinality(parent)
<1>1. PICK m \in parent :
        t = [id |-> nextId + (p - 1) * size + rank(m), of |-> m.of, kind |-> "clone"]
  <2>1. PICK m \in parent :
          t = [id |-> nextId + (p - 1) * Council(S, R, D)!Cardinality(parent)
                        + Council(S, R, D)!Cardinality({x \in parent : x.id < m.id}),
               of |-> m.of, kind |-> "clone"]
    BY DEF Council!Clone
  <2>2. /\ Council(S, R, D)!Cardinality(parent) = size
        /\ Council(S, R, D)!Cardinality({x \in parent : x.id < m.id}) = rank(m)
    BY PersonasOf, Zenon
  <2> QED BY <2>1, <2>2
<1>2. size \in Nat /\ rank(m) \in 0..(size - 1)
  <2>1. IsFiniteSet(parent) /\ m.id \in Nat
    BY DEF CouncilTypes
  <2> DEFINE less == {x \in parent : x.id < m.id}
  <2>2. less \subseteq parent /\ less # parent
    BY <2>1
  <2> HIDE DEF less
  <2>3. /\ Cardinality(less) \in Nat /\ Cardinality(parent) \in Nat
        /\ Cardinality(less) <= Cardinality(parent) /\ Cardinality(less) # Cardinality(parent)
    BY <2>1, <2>2, FS_Subset, FS_CardinalityType
  <2> QED BY <2>3 DEF less
<1> HIDE DEF rank, size
<1>3. p \in 1..NumPersonas /\ NumPersonas \in Nat /\ nextId \in Nat /\ m.of \in Nat
  BY CouncilAssumption DEF Personas, CouncilTypes
<1>4. (p - 1) * size + size <= NumPersonas * size
  <2>1. (NumPersonas - p) * size >= 0
    BY <1>2, <1>3
  <2> QED BY <1>2, <1>3, <2>1
<1>5. (p - 1) * size \in Nat /\ NumPersonas * size \in Nat
  BY <1>2, <1>3
<1>6. t.id = nextId + (p - 1) * size + rank(m) /\ t \in Turn
  BY <1>1, <1>2, <1>3, <1>5 DEF Turn
<1>7. t.id < nextId + NumPersonas * size
  BY <1>2, <1>3, <1>4, <1>5, <1>6
<1>8. Cardinality(Personas) = NumPersonas
  BY PersonasOf
<1> QED BY <1>6, <1>7, <1>8, Zenon DEF size

\* A turn is added to a branch, which goes on or starts there.
LEMMA TurnIsAdded ==
  ASSUME NEW S, NEW R, CouncilTypes(S, R), IdsInOrder(S), NEW b \in Branches(S),
         NEW from \in {branch[b].from, nextId}, NEW k \in {"answer"} \cup FollowUps,
         branch' = [branch EXCEPT ![b] =
           [from |-> from,
            turns |-> branch[b].turns \cup {[id |-> nextId, of |-> nextId, kind |-> k]}]],
         nextId' = nextId + 1, parent' = parent, NEW n, n = nextId
  PROVE  /\ nextId' \in Nat \ {0} /\ branch' \in [Branches(S) -> Child] /\ IdsInOrder(S)'
         /\ \A c \in Branches(S), m \in Nat : Gave(c, m) => Gave(c, m)'
         /\ k = "answer" => Gave(b, n)'
<1> PICK turn : turn = [id |-> nextId, of |-> nextId, kind |-> k]
  OBVIOUS
<1>1. nextId \in Nat \ {0} /\ branch \in [Branches(S) -> Child] /\ branch[b] \in Child
  BY DEF CouncilTypes
<1>2. turn \in Turn /\ turn.id = nextId /\ turn.of = nextId /\ turn.kind = k
  BY <1>1 DEF Turn
<1> PICK child : child = [from |-> from, turns |-> branch[b].turns \cup {turn}]
  OBVIOUS
<1>3. child \in Child /\ child.from = from /\ child.turns = branch[b].turns \cup {turn}
  BY <1>1, <1>2 DEF Child
<1>4. branch' = [branch EXCEPT ![b] = child]
  OBVIOUS
<1>5. branch' \in [Branches(S) -> Child] /\ branch'[b] = child
      /\ \A c \in Branches(S) \ {b} : branch'[c] = branch[c]
  BY <1>1, <1>3, <1>4
<1>6. IdsInOrder(S)'
  <2>1. \A m \in parent : m.id \in Nat /\ m.id < nextId /\ m.of = m.id
    BY DEF CouncilTypes, IdsInOrder
  <2>2. ASSUME NEW c \in Branches(S), NEW t \in branch'[c].turns
        PROVE  /\ t.id < nextId' 
               /\ branch'[c].from # 0 => t.of = t.id \/ t.id <= branch'[c].from
    <3>1. CASE t \in branch[c].turns
      <4>1. /\ t.id \in Nat /\ t.id < nextId
            /\ branch[c].from # 0 => t.of = t.id \/ t.id <= branch[c].from
        BY <1>1, <3>1 DEF IdsInOrder, Child, Turn
      <4>2. branch'[c].from \in {branch[c].from, nextId}
        BY <1>3, <1>5
      <4> QED BY <1>1, <4>1, <4>2
    <3>2. CASE t \notin branch[c].turns
      <4>1. t = turn
        BY <1>3, <1>5, <2>2, <3>2
      <4> QED BY <1>1, <1>2, <4>1
    <3> QED BY <3>1, <3>2
  <2> QED BY <1>1, <2>1, <2>2 DEF IdsInOrder
<1>7. \A c \in Branches(S) : branch[c].turns \subseteq branch'[c].turns
  BY <1>3, <1>5
<1>8. k = "answer" => Gave(b, n)'
  BY <1>2, <1>3, <1>5 DEF Gave
<1> QED BY <1>1, <1>5, <1>6, <1>7, <1>8 DEF Gave

LEMMA CouncilInit ==
  ASSUME NEW S, NEW R, NEW D, Council(S, R, D)!Init
  PROVE  CouncilInv(S, R)
<1> USE DEF Council!NoRow, Council!NoRetry, Council!NoChild, Council!Failure, Council!Unanswered
<1>1. /\ nextId = 2 /\ parent = {[id |-> 1, of |-> 1]}
      /\ session = [mode |-> FALSE, active |-> NoBranch, council |-> NoStart]
      /\ row = [s \in S |-> Council(S, R, D)!NoRow]
      /\ branch = [b \in Branches(S) |-> Council(S, R, D)!NoChild]
      /\ start = [s \in S |-> [pc |-> "none", result |-> Council(S, R, D)!NoRow.cands, open |-> {}]]
      /\ retry = [q \in R |-> Council(S, R, D)!NoRetry]
  BY PersonasOf DEF Council!Init
<1>2. Council(S, R, D)!NoRow.cands \in Cands
      /\ \A p \in Personas : Council(S, R, D)!NoRow.cands[p] = 0
  BY PersonasOf DEF Cands
<1>3. Council(S, R, D)!NoRow \in RowType(S)
  BY <1>2 DEF RowType, Shown
<1>4. Council(S, R, D)!NoRetry \in RetryType(S) /\ Council(S, R, D)!NoRetry.pc = "none"
  BY <1>2 DEF RetryType, Shown
<1>5. Council(S, R, D)!NoChild \in Child /\ Council(S, R, D)!NoChild.turns = {}
  BY DEF Child
<1>6. [pc |-> "none", result |-> Council(S, R, D)!NoRow.cands, open |-> {}] \in StartType
  BY <1>2 DEF StartType
<1>7. parent \subseteq [id : Nat, of : Nat] /\ IsFiniteSet(parent)
  <2>1. IsFiniteSet({[id |-> 1, of |-> 1]})
    BY FS_Singleton
  <2> QED BY <1>1, <2>1
<1> HIDE DEF Council!NoRow, Council!NoRetry, Council!NoChild
<1>8. CouncilTypes(S, R)
  BY <1>1, <1>3, <1>4, <1>5, <1>6, <1>7 DEF CouncilTypes, Session, Shown
<1>9. IdsInOrder(S)
  BY <1>1, <1>5 DEF IdsInOrder
<1>10. AnswersGiven(S, R) /\ Entered(S, R)
  BY <1>1, <1>2, <1>4 DEF AnswersGiven, Entered, Working, Gave
<1> QED BY <1>8, <1>9, <1>10 DEF CouncilInv

LEMMA StartCouncilStep ==
  ASSUME NEW S, NEW R, NEW D, CouncilInv(S, R), NEW s \in S, Council(S, R, D)!StartCouncil(s)
  PROVE  CouncilInv(S, R)'
<1>0. CouncilTypes(S, R) /\ IdsInOrder(S) /\ AnswersGiven(S, R) /\ Entered(S, R)
  BY DEF CouncilInv
<1>1. /\ start[s].pc = "none" /\ UNCHANGED <<parent, session, row, retry>>
      /\ nextId' = nextId + Cardinality(Personas) * Cardinality(parent)
  <2>1. /\ Council(S, R, D)!Personas = Personas
        /\ \A X : Council(S, R, D)!Cardinality(X) = Cardinality(X)
    BY PersonasOf
  <2> QED BY <2>1 DEF Council!StartCouncil
<1>3. PICK now \in StartType : /\ start' = [start EXCEPT ![s] = now]
                               /\ now.pc = "asking" /\ now.result = start[s].result
  <2>1. PICK now : now = [start[s] EXCEPT !.pc = "asking", !.open = Personas]
    OBVIOUS
  <2>2. start[s] \in StartType
    BY <1>0 DEF CouncilTypes
  <2>3. now \in StartType /\ now.pc = "asking" /\ now.result = start[s].result
    BY <2>1, <2>2 DEF StartType
  <2>4. start' = [start EXCEPT ![s] = now]
    BY <1>0, <2>1, PersonasOf DEF Council!StartCouncil, CouncilTypes
  <2> QED BY <2>3, <2>4
<1>4. start' \in [S -> StartType] /\ start'[s] = now /\ \A x \in S \ {s} : start'[x] = start[x]
  BY <1>0, <1>3 DEF CouncilTypes
<1>5. /\ \A b \in Branches(S) : b[1] # s => branch'[b] = branch[b]
      /\ \A b \in Branches(S) : b[1] = s =>
           branch'[b] = [from |-> 0, turns |-> Council(S, R, D)!Clone(b[2])]
      /\ DOMAIN branch' = Branches(S)
  BY PersonasOf DEF Council!StartCouncil, Council!NoChild, Council!Unanswered
<1>6. nextId \in Nat \ {0} /\ nextId' \in Nat \ {0} /\ nextId <= nextId'
  <2>1. Cardinality(Personas) \in Nat /\ Cardinality(parent) \in Nat
    BY <1>0, PersonasOf, CouncilAssumption, FS_CardinalityType DEF CouncilTypes
  <2>2. Cardinality(Personas) * Cardinality(parent) \in Nat
    BY <2>1
  <2> QED BY <1>0, <1>1, <2>2 DEF CouncilTypes
<1>7. ASSUME NEW b \in Branches(S)
      PROVE  /\ branch'[b] \in Child
             /\ \A t \in branch'[b].turns :
                  t.id < nextId' /\ (branch'[b].from # 0 => t.of = t.id \/ t.id <= branch'[b].from)
  <2>1. CASE b[1] = s
    <3>1. b[2] \in Personas /\ branch'[b] = [from |-> 0, turns |-> Council(S, R, D)!Clone(b[2])]
      BY <1>5, <2>1 DEF Branches
    <3>2. \A t \in Council(S, R, D)!Clone(b[2]) : t \in Turn /\ t.id < nextId'
      BY <1>0, <1>1, <3>1, CloneIds
    <3> QED BY <3>1, <3>2 DEF Child
  <2>2. CASE b[1] # s
    <3>1. branch'[b] = branch[b] /\ branch[b] \in Child
      BY <1>0, <1>5, <2>2 DEF CouncilTypes
    <3>2. \A t \in branch[b].turns : t.id \in Nat /\ t.id < nextId
      BY <1>0, <3>1 DEF IdsInOrder, Child, Turn
    <3> QED BY <1>0, <1>6, <3>1, <3>2 DEF IdsInOrder
  <2> QED BY <2>1, <2>2
<1>8. CouncilTypes(S, R)'
  <2>1. branch' \in [Branches(S) -> Child]
    <3>1. branch' = [b \in Branches(S) |-> branch'[b]]
      BY PersonasOf DEF Council!StartCouncil
    <3> QED BY <1>7, <3>1
  <2> QED BY <1>0, <1>1, <1>4, <1>6, <2>1 DEF CouncilTypes
<1>9. IdsInOrder(S)'
  <2>1. \A m \in parent' : m.id < nextId' /\ m.of = m.id
    BY <1>0, <1>1, <1>6 DEF IdsInOrder, CouncilTypes
  <2> QED BY <1>7, <2>1 DEF IdsInOrder
<1>10. \A b \in Branches(S) : b[1] # s => \A n : Gave(b, n) => Gave(b, n)'
  BY <1>5 DEF Gave
<1>11. \A p \in Personas : start[s].result[p] = 0 /\ row[s].cands[p] = 0
  BY <1>0, <1>1 DEF Entered
<1>12. \A x \in S : \A p \in Personas : <<x, p>> \in Branches(S)
  BY DEF Branches
<1>13. AnswersGiven(S, R)'
  <2>1. ASSUME NEW x \in S, NEW p \in Personas
        PROVE  Gave(<<x, p>>, start[x].result[p])' /\ Gave(<<x, p>>, row[x].cands[p])'
    <3>1. CASE x = s
      BY <1>1, <1>3, <1>4, <1>11, <3>1 DEF Gave
    <3>2. CASE x # s
      BY <1>0, <1>1, <1>4, <1>5, <1>12, <3>2 DEF AnswersGiven, Gave
    <3> QED BY <3>1, <3>2
  <2>2. ASSUME NEW q \in R, Working(q)
        PROVE  /\ retry[q].branch \in Branches(S) /\ Gave(retry[q].branch, retry[q].answer)'
               /\ \A p \in Personas : Gave(<<retry[q].branch[1], p>>, retry[q].cands[p])'
    <3>1. start[retry[q].branch[1]].pc = "done"
      BY <1>0, <2>2 DEF Entered
    <3>2. retry[q].branch \in Branches(S) /\ retry[q].branch[1] \in S /\ retry[q].branch[1] # s
      BY <1>0, <1>1, <2>2, <3>1 DEF AnswersGiven, Branches
    <3> QED BY <1>0, <1>1, <1>5, <1>12, <2>2, <3>2 DEF AnswersGiven, Gave
  <2> QED BY <1>1, <2>1, <2>2 DEF AnswersGiven, Working
<1>14. Entered(S, R)'
  BY <1>0, <1>1, <1>3, <1>4 DEF Entered, Working, AnswersGiven, Branches
<1> QED BY <1>8, <1>9, <1>13, <1>14 DEF CouncilInv

LEMMA BranchAnswersStep ==
  ASSUME NEW S, NEW R, NEW D, CouncilInv(S, R), NEW s \in S, NEW p \in Personas,
         Council(S, R, D)!BranchAnswers(s, p)
  PROVE  CouncilInv(S, R)'
<1>0. CouncilTypes(S, R) /\ IdsInOrder(S) /\ AnswersGiven(S, R) /\ Entered(S, R)
  BY DEF CouncilInv
<1>1. /\ start[s].pc = "asking" /\ UNCHANGED <<parent, session, row, retry>>
      /\ nextId' = nextId + 1
      /\ <<s, p>> \in Branches(S) /\ nextId \in Nat \ {0}
  BY <1>0 DEF Council!BranchAnswers, CouncilTypes, Branches
<1>2. PICK n : n = nextId
  OBVIOUS
<1>3. branch' = [branch EXCEPT ![<<s, p>>] =
        [from |-> nextId,
         turns |-> branch[<<s, p>>].turns \cup {[id |-> nextId, of |-> nextId, kind |-> "answer"]}]]
  BY <1>0, <1>1 DEF Council!BranchAnswers, CouncilTypes
<1>4. /\ nextId' \in Nat \ {0} /\ branch' \in [Branches(S) -> Child] /\ IdsInOrder(S)'
      /\ \A c \in Branches(S), m \in Nat : Gave(c, m) => Gave(c, m)'
      /\ Gave(<<s, p>>, n)'
  BY <1>0, <1>1, <1>2, <1>3, TurnIsAdded
<1>5. PICK now \in StartType : /\ start' = [start EXCEPT ![s] = now] /\ now.pc = "asking"
                               /\ now.result = [start[s].result EXCEPT ![p] = n]
  <2>1. PICK now : now = [start[s] EXCEPT !.open = start[s].open \ {p},
                                          !.result = [start[s].result EXCEPT ![p] = n]]
    OBVIOUS
  <2>2. start[s] \in StartType /\ [start[s].result EXCEPT ![p] = n] \in Cands
    BY <1>0, <1>1, <1>2 DEF CouncilTypes, StartType, Cands
  <2>3. now \in StartType /\ now.pc = "asking" /\ now.result = [start[s].result EXCEPT ![p] = n]
    BY <1>1, <2>1, <2>2 DEF StartType
  <2>4. start' = [start EXCEPT ![s] = now]
    BY <1>0, <1>2, <2>1, <2>2 DEF Council!BranchAnswers, CouncilTypes, StartType
  <2> QED BY <2>3, <2>4
<1>6. start' \in [S -> StartType] /\ start'[s] = now /\ \A x \in S \ {s} : start'[x] = start[x]
  BY <1>0, <1>5 DEF CouncilTypes
<1>7. CouncilTypes(S, R)'
  BY <1>0, <1>1, <1>4, <1>6 DEF CouncilTypes
<1>8. \A x \in S, r \in Personas : start[x].result[r] \in Nat /\ row[x].cands[r] \in Nat
  BY <1>0 DEF CouncilTypes, StartType, RowType, Cands
<1>9. AnswersGiven(S, R)'
  <2>1. ASSUME NEW x \in S, NEW r \in Personas
        PROVE  Gave(<<x, r>>, start[x].result[r])' /\ Gave(<<x, r>>, row[x].cands[r])'
    <3>1. <<x, r>> \in Branches(S)
      BY DEF Branches
    <3>2. Gave(<<x, r>>, row[x].cands[r])'
      BY <1>0, <1>1, <1>4, <1>8, <3>1 DEF AnswersGiven, Gave
    <3>3. CASE x = s /\ r = p
      <4>1. start'[x].result[r] = n
        BY <1>0, <1>5, <1>6, <3>3 DEF CouncilTypes, StartType, Cands
      <4> QED BY <1>4, <3>2, <3>3, <4>1 DEF Gave
    <3>4. CASE ~(x = s /\ r = p)
      <4>1. start'[x].result[r] = start[x].result[r]
        BY <1>0, <1>5, <1>6, <3>4 DEF CouncilTypes, StartType, Cands
      <4> QED BY <1>0, <1>4, <1>8, <3>1, <3>2, <4>1 DEF AnswersGiven, Gave
    <3> QED BY <3>3, <3>4
  <2>2. ASSUME NEW q \in R, Working(q)
        PROVE  /\ retry[q].branch \in Branches(S) /\ Gave(retry[q].branch, retry[q].answer)'
               /\ \A r \in Personas : Gave(<<retry[q].branch[1], r>>, retry[q].cands[r])'
    <3>1. /\ retry[q].branch \in Branches(S) /\ retry[q].answer \in Nat
          /\ \A r \in Personas : /\ retry[q].cands[r] \in Nat
                                 /\ <<retry[q].branch[1], r>> \in Branches(S)
      BY <1>0, <2>2 DEF AnswersGiven, Branches, CouncilTypes, RetryType, Cands
    <3> QED BY <1>0, <1>1, <1>4, <2>2, <3>1 DEF AnswersGiven, Gave
  <2> QED BY <1>1, <2>1, <2>2 DEF AnswersGiven, Working
<1>10. Entered(S, R)'
  BY <1>0, <1>1, <1>5, <1>6 DEF Entered, Working, AnswersGiven, Branches
<1> QED BY <1>4, <1>7, <1>9, <1>10 DEF CouncilInv

\* A request moves on and its results stay: another branch failed, or the row is saved.
LEMMA StartMoves ==
  ASSUME NEW S, NEW R, CouncilTypes(S, R), NEW s \in S,
         start[s].pc # "none", start[s].pc # "done",
         NEW now \in StartType, start' = [start EXCEPT ![s] = now],
         now.result = start[s].result, now.pc # "none",
         Entered(S, R), UNCHANGED <<retry, session>>, UNCHANGED row,
         AnswersGiven(S, R), UNCHANGED branch
  PROVE  start' \in [S -> StartType] /\ Entered(S, R)' /\ AnswersGiven(S, R)'
<1>1. start' \in [S -> StartType] /\ start'[s] = now /\ \A x \in S \ {s} : start'[x] = start[x]
  BY DEF CouncilTypes
<1>2. \A x \in S : start'[x].result = start[x].result
  BY <1>1
<1>3. Entered(S, R)'
  BY <1>1, <1>2 DEF Entered, Working, AnswersGiven, Branches
<1>4. AnswersGiven(S, R)'
  BY <1>2 DEF AnswersGiven, Working, Gave
<1> QED BY <1>1, <1>3, <1>4

LEMMA BranchFailsStep ==
  ASSUME NEW S, NEW R, NEW D, CouncilInv(S, R), NEW s \in S, NEW p \in Personas,
         Council(S, R, D)!BranchFails(s, p)
  PROVE  CouncilInv(S, R)'
<1>0. CouncilTypes(S, R) /\ IdsInOrder(S) /\ AnswersGiven(S, R) /\ Entered(S, R)
  BY DEF CouncilInv
<1>1. PICK now : now = [start[s] EXCEPT !.open = start[s].open \ {p}]
  OBVIOUS
<1>2. start[s] \in StartType
  BY <1>0 DEF CouncilTypes
<1>3. /\ start' = [start EXCEPT ![s] = now] /\ start[s].pc = "asking"
      /\ UNCHANGED <<nextId, parent, session, row, branch, retry>>
  BY <1>0, <1>1 DEF Council!BranchFails, CouncilTypes
<1>4. now \in StartType /\ now.pc = start[s].pc /\ now.result = start[s].result
  BY <1>1, <1>2 DEF StartType
<1>5. start' \in [S -> StartType] /\ Entered(S, R)' /\ AnswersGiven(S, R)'
  BY <1>0, <1>3, <1>4, StartMoves
<1>6. CouncilTypes(S, R)' /\ IdsInOrder(S)'
  BY <1>0, <1>3, <1>5 DEF CouncilTypes, IdsInOrder
<1> QED BY <1>5, <1>6 DEF CouncilInv

LEMMA EnterCouncilStep ==
  ASSUME NEW S, NEW R, NEW D, CouncilInv(S, R), NEW s \in S, Council(S, R, D)!EnterCouncil(s)
  PROVE  CouncilInv(S, R)'
<1>0. CouncilTypes(S, R) /\ IdsInOrder(S) /\ AnswersGiven(S, R) /\ Entered(S, R)
  BY DEF CouncilInv
<1>1. PICK now : now = [start[s] EXCEPT !.pc = "done"]
  OBVIOUS
<1>2. start[s] \in StartType
  BY <1>0 DEF CouncilTypes
<1>3. PICK p \in Personas :
        /\ session' = [mode |-> TRUE, council |-> s, active |-> <<s, p>>]
        /\ start' = [start EXCEPT ![s] = now] /\ start[s].pc = "saved"
        /\ UNCHANGED <<nextId, parent, row, branch, retry>>
  BY <1>0, <1>1, FirstOfPersonas DEF Council!EnterCouncil, CouncilTypes
<1>4. now \in StartType /\ now.pc = "done" /\ now.result = start[s].result
  BY <1>1, <1>2 DEF StartType
<1>5. start' \in [S -> StartType] /\ start'[s] = now /\ \A x \in S \ {s} : start'[x] = start[x]
  BY <1>0, <1>3, <1>4 DEF CouncilTypes
<1>6. \A x \in S : start'[x].result = start[x].result
  BY <1>4, <1>5
<1>7. <<s, p>> \in Branches(S) /\ session' \in Session(S)
  BY <1>3 DEF Branches, Session, Shown
<1>8. CouncilTypes(S, R)' /\ IdsInOrder(S)'
  BY <1>0, <1>3, <1>5, <1>7 DEF CouncilTypes, IdsInOrder
<1>9. AnswersGiven(S, R)'
  BY <1>0, <1>3, <1>6 DEF AnswersGiven, Working, Gave
<1>10. Entered(S, R)'
  BY <1>0, <1>3, <1>4, <1>5, <1>6, <1>7 DEF Entered, Working, AnswersGiven, Branches
<1> QED BY <1>8, <1>9, <1>10 DEF CouncilInv

LEMMA SaveCouncilRowStep ==
  ASSUME NEW S, NEW R, NEW D, CouncilInv(S, R), NEW s \in S, Council(S, R, D)!SaveCouncilRow(s)
  PROVE  CouncilInv(S, R)'
<1>0. CouncilTypes(S, R) /\ IdsInOrder(S) /\ AnswersGiven(S, R) /\ Entered(S, R)
  BY DEF CouncilInv
<1>1. PICK now : now = [start[s] EXCEPT !.pc = "saved"]
  OBVIOUS
<1>2. start[s] \in StartType
  BY <1>0 DEF CouncilTypes
<1>3. PICK p \in Personas :
        /\ row' = [row EXCEPT ![s] =
             [saved |-> TRUE, cands |-> start[s].result, active |-> <<s, p>>,
              text |-> <<<<s, p>>, start[s].result[p]>>]]
        /\ parent' = parent \cup {[id |-> nextId, of |-> nextId]} /\ nextId' = nextId + 1
        /\ start' = [start EXCEPT ![s] = now] /\ start[s].pc = "asking"
        /\ UNCHANGED <<session, branch, retry>>
  <2>1. PICK p \in Personas : p = Council(S, R, D)!FirstAnswered(start[s].result)
    BY FirstOfPersonas
  <2> QED BY <1>0, <1>1, <2>1 DEF Council!SaveCouncilRow, CouncilTypes
<1>4. now \in StartType /\ now.pc = "saved" /\ now.result = start[s].result
  BY <1>1, <1>2 DEF StartType
<1>5. start' \in [S -> StartType] /\ start'[s] = now /\ \A x \in S \ {s} : start'[x] = start[x]
  BY <1>0, <1>3, <1>4 DEF CouncilTypes
<1>6. \A x \in S : start'[x].result = start[x].result
  BY <1>4, <1>5
<1>7. PICK saved : saved = [saved |-> TRUE, cands |-> start[s].result, active |-> <<s, p>>,
                            text |-> <<<<s, p>>, start[s].result[p]>>]
  OBVIOUS
<1>8. saved \in RowType(S) /\ saved.cands = start[s].result
  <2>1. <<s, p>> \in Shown(S) /\ start[s].result \in Cands /\ start[s].result[p] \in Nat
    BY <1>2 DEF Branches, Shown, StartType, Cands
  <2> QED BY <1>7, <2>1 DEF RowType
<1>9. row' \in [S -> RowType(S)] /\ row'[s] = saved /\ \A x \in S \ {s} : row'[x] = row[x]
  BY <1>0, <1>3, <1>7, <1>8 DEF CouncilTypes
<1>10. /\ nextId' \in Nat \ {0} /\ nextId < nextId'
       /\ parent' \subseteq [id : Nat, of : Nat] /\ IsFiniteSet(parent')
  <2>1. IsFiniteSet(parent) /\ nextId \in Nat \ {0} /\ parent \subseteq [id : Nat, of : Nat]
    BY <1>0 DEF CouncilTypes
  <2>2. IsFiniteSet(parent \cup {[id |-> nextId, of |-> nextId]})
    BY <2>1, FS_AddElement
  <2> QED BY <1>3, <2>1, <2>2
<1>11. CouncilTypes(S, R)'
  BY <1>0, <1>3, <1>5, <1>9, <1>10 DEF CouncilTypes
<1>12. IdsInOrder(S)'
  <2>1. \A m \in parent' : m.id < nextId' /\ m.of = m.id
    BY <1>0, <1>3, <1>10 DEF IdsInOrder, CouncilTypes
  <2>2. \A b \in Branches(S) : \A t \in branch[b].turns : t.id \in Nat
    BY <1>0 DEF CouncilTypes, Child, Turn
  <2> QED BY <1>0, <1>3, <1>10, <2>1, <2>2 DEF IdsInOrder, CouncilTypes
<1>13. AnswersGiven(S, R)'
  BY <1>0, <1>3, <1>6, <1>8, <1>9 DEF AnswersGiven, Working, Gave
<1>14. Entered(S, R)'
  BY <1>0, <1>3, <1>4, <1>5, <1>6, <1>9 DEF Entered, Working, AnswersGiven, Branches
<1> QED BY <1>11, <1>12, <1>13, <1>14 DEF CouncilInv

LEMMA SelectBranchStep ==
  ASSUME NEW S, NEW R, NEW D, CouncilInv(S, R), NEW b \in Branches(S),
         Council(S, R, D)!SelectBranch(b)
  PROVE  CouncilInv(S, R)'
<1>0. CouncilTypes(S, R) /\ IdsInOrder(S) /\ AnswersGiven(S, R) /\ Entered(S, R)
  BY DEF CouncilInv
<1>1. /\ session.mode /\ session' = [session EXCEPT !.active = b]
      /\ UNCHANGED <<nextId, parent, branch, start, retry>>
  BY DEF Council!SelectBranch
<1>2. /\ session' \in Session(S) /\ session'.active = b
      /\ session'.mode = session.mode /\ session'.council = session.council
  BY <1>0, <1>1 DEF CouncilTypes, Session, Shown
<1>3. row' \in [S -> RowType(S)] /\ \A s \in S : row'[s].cands = row[s].cands
  <2>1. CASE row' = row
    BY <1>0, <2>1 DEF CouncilTypes
  <2>2. CASE row' # row
    <3>1. PICK now : now = [row[b[1]] EXCEPT !.active = b, !.text = <<b, row[b[1]].cands[b[2]]>>]
      OBVIOUS
    <3>2. row' = [row EXCEPT ![b[1]] = now]
      BY <1>0, <2>2, <3>1 DEF Council!SelectBranch, CouncilTypes
    <3>3. b[1] \in S /\ b \in Shown(S) /\ row[b[1]] \in RowType(S) /\ row[b[1]].cands[b[2]] \in Nat
      BY <1>0 DEF CouncilTypes, Branches, Shown, RowType, Cands
    <3>4. now \in RowType(S) /\ now.cands = row[b[1]].cands
      BY <3>1, <3>3 DEF RowType
    <3> QED BY <1>0, <3>2, <3>3, <3>4 DEF CouncilTypes
  <2> QED BY <2>1, <2>2
<1>4. CouncilTypes(S, R)' /\ IdsInOrder(S)'
  BY <1>0, <1>1, <1>2, <1>3 DEF CouncilTypes, IdsInOrder
<1>5. AnswersGiven(S, R)' /\ Entered(S, R)'
  BY <1>0, <1>1, <1>2, <1>3 DEF AnswersGiven, Entered, Working, Gave
<1> QED BY <1>4, <1>5 DEF CouncilInv

\* A turn is added while neither the requests nor the rows change.
LEMMA TurnsStay ==
  ASSUME NEW S, NEW R, CouncilTypes(S, R), AnswersGiven(S, R), UNCHANGED <<start, row>>,
         \A c \in Branches(S), m \in Nat : Gave(c, m) => Gave(c, m)',
         \A q \in R : Working(q)' => /\ Working(q) /\ retry'[q].branch = retry[q].branch
                                     /\ retry'[q].cands = retry[q].cands
                                     /\ \/ retry'[q].answer = retry[q].answer
                                        \/ Gave(retry[q].branch, retry[q].answer)'
  PROVE  AnswersGiven(S, R)'
<1>1. ASSUME NEW s \in S, NEW p \in Personas
      PROVE  Gave(<<s, p>>, start[s].result[p])' /\ Gave(<<s, p>>, row[s].cands[p])'
  <2>1. <<s, p>> \in Branches(S) /\ start[s].result[p] \in Nat /\ row[s].cands[p] \in Nat
    BY DEF Branches, CouncilTypes, StartType, RowType, Cands
  <2> QED BY <2>1 DEF AnswersGiven, Gave
<1>2. ASSUME NEW q \in R, Working(q)'
      PROVE  /\ retry'[q].branch \in Branches(S) /\ Gave(retry[q].branch, retry[q].answer)'
             /\ \A p \in Personas : Gave(<<retry[q].branch[1], p>>, retry[q].cands[p])'
  <2>1. /\ Working(q) /\ retry[q].branch \in Branches(S) /\ retry[q].answer \in Nat
        /\ \A p \in Personas : /\ retry[q].cands[p] \in Nat
                               /\ <<retry[q].branch[1], p>> \in Branches(S)
    BY <1>2 DEF AnswersGiven, Branches, CouncilTypes, RetryType, Cands
  <2>2. Gave(retry[q].branch, retry[q].answer)'
    BY <1>2, <2>1 DEF AnswersGiven, Gave
  <2>3. \A p \in Personas : Gave(<<retry[q].branch[1], p>>, retry[q].cands[p])'
    BY <1>2, <2>1 DEF AnswersGiven, Gave
  <2> QED BY <1>2, <2>1, <2>2, <2>3
<1> QED BY <1>1, <1>2 DEF AnswersGiven

LEMMA SendFollowUpStep ==
  ASSUME NEW S, NEW R, NEW D, CouncilInv(S, R), NEW f \in FollowUps,
         Council(S, R, D)!SendFollowUp(f)
  PROVE  CouncilInv(S, R)'
<1>0. CouncilTypes(S, R) /\ IdsInOrder(S) /\ AnswersGiven(S, R) /\ Entered(S, R)
  BY DEF CouncilInv
<1>1. PICK b \in Branches(S) : b = session.active
  BY <1>0 DEF Council!SendFollowUp, Entered
<1>2. /\ nextId' = nextId + 1 /\ UNCHANGED <<parent, session, row, start, retry>>
      /\ branch' = [branch EXCEPT ![b] =
           [from |-> branch[b].from,
            turns |-> branch[b].turns \cup {[id |-> nextId, of |-> nextId, kind |-> f]}]]
  <2>1. branch[b] \in Child
    BY <1>0 DEF CouncilTypes
  <2>2. PICK new : new = branch[b].turns \cup {[id |-> nextId, of |-> nextId, kind |-> f]}
    OBVIOUS
  <2>3. [branch[b] EXCEPT !.turns = new] = [from |-> branch[b].from, turns |-> new]
    BY <2>1 DEF Child
  <2>4. branch' = [branch EXCEPT ![b] = [branch[b] EXCEPT !.turns = new]]
    BY <1>0, <1>1, <2>2 DEF Council!SendFollowUp, CouncilTypes
  <2> QED BY <2>2, <2>3, <2>4 DEF Council!SendFollowUp
<1>3. /\ nextId' \in Nat \ {0} /\ branch' \in [Branches(S) -> Child] /\ IdsInOrder(S)'
      /\ \A c \in Branches(S), m \in Nat : Gave(c, m) => Gave(c, m)'
  <2>1. PICK n : n = nextId
    OBVIOUS
  <2>2. f \in {"answer"} \cup FollowUps /\ branch[b].from \in {branch[b].from, nextId}
    OBVIOUS
  <2> QED BY <1>0, <1>2, <2>1, <2>2, TurnIsAdded
<1>4. CouncilTypes(S, R)'
  BY <1>0, <1>2, <1>3 DEF CouncilTypes
<1>5. AnswersGiven(S, R)'
  <2>1. \A q \in R : Working(q)' => /\ Working(q) /\ retry'[q].branch = retry[q].branch
                                    /\ retry'[q].cands = retry[q].cands
                                    /\ retry'[q].answer = retry[q].answer
    BY <1>2 DEF Working
  <2> QED BY <1>0, <1>2, <1>3, <2>1, TurnsStay
<1>6. Entered(S, R)'
  BY <1>0, <1>2 DEF Entered, Working
<1> QED BY <1>3, <1>4, <1>5, <1>6 DEF CouncilInv

LEMMA RetryAnswersStep ==
  ASSUME NEW S, NEW R, NEW D, CouncilInv(S, R), NEW q \in R, Council(S, R, D)!RetryAnswers(q)
  PROVE  CouncilInv(S, R)'
<1>0. CouncilTypes(S, R) /\ IdsInOrder(S) /\ AnswersGiven(S, R) /\ Entered(S, R)
  BY DEF CouncilInv
<1>1. PICK b \in Branches(S) : b = retry[q].branch
  BY <1>0 DEF Council!RetryAnswers, AnswersGiven, Working
<1>2. /\ nextId' = nextId + 1 /\ UNCHANGED <<parent, session, row, start>>
      /\ retry[q].pc = "asking"
      /\ branch' = [branch EXCEPT ![b] =
           [from |-> branch[b].from,
            turns |-> branch[b].turns \cup {[id |-> nextId, of |-> nextId, kind |-> "answer"]}]]
  <2>1. branch[b] \in Child
    BY <1>0 DEF CouncilTypes
  <2>2. PICK new : new = branch[b].turns \cup {[id |-> nextId, of |-> nextId, kind |-> "answer"]}
    OBVIOUS
  <2>3. [branch[b] EXCEPT !.turns = new] = [from |-> branch[b].from, turns |-> new]
    BY <2>1 DEF Child
  <2>4. branch' = [branch EXCEPT ![b] = [branch[b] EXCEPT !.turns = new]]
    BY <1>0, <1>1, <2>2 DEF Council!RetryAnswers, CouncilTypes
  <2> QED BY <2>2, <2>3, <2>4 DEF Council!RetryAnswers
<1>3. PICK n : n = nextId
  OBVIOUS
<1>4. /\ nextId' \in Nat \ {0} /\ branch' \in [Branches(S) -> Child] /\ IdsInOrder(S)'
      /\ \A c \in Branches(S), m \in Nat : Gave(c, m) => Gave(c, m)'
      /\ Gave(b, n)' /\ n \in Nat \ {0}
  <2>1. "answer" \in {"answer"} \cup FollowUps /\ branch[b].from \in {branch[b].from, nextId}
    OBVIOUS
  <2> QED BY <1>0, <1>2, <1>3, <2>1, TurnIsAdded DEF CouncilTypes
<1>5. PICK now \in RetryType(S) :
        /\ retry' = [retry EXCEPT ![q] = now]
        /\ now.pc = "answered" /\ now.answer = n
        /\ now.branch = retry[q].branch /\ now.cands = retry[q].cands
  <2>1. PICK now : now = [retry[q] EXCEPT !.pc = "answered", !.answer = n]
    OBVIOUS
  <2>2. retry[q] \in RetryType(S)
    BY <1>0 DEF CouncilTypes
  <2>3. /\ now \in RetryType(S) /\ now.pc = "answered" /\ now.answer = n
        /\ now.branch = retry[q].branch /\ now.cands = retry[q].cands
    BY <1>4, <2>1, <2>2 DEF RetryType
  <2>4. retry' = [retry EXCEPT ![q] = now]
    BY <1>0, <1>3, <2>1 DEF Council!RetryAnswers, CouncilTypes
  <2> QED BY <2>3, <2>4
<1>6. retry' \in [R -> RetryType(S)] /\ retry'[q] = now /\ \A r \in R \ {q} : retry'[r] = retry[r]
  BY <1>0, <1>5 DEF CouncilTypes
<1>7. CouncilTypes(S, R)'
  BY <1>0, <1>2, <1>4, <1>6 DEF CouncilTypes
<1>8. AnswersGiven(S, R)'
  <2>1. Gave(retry[q].branch, retry[q].answer)'
    BY <1>1, <1>4, <1>5, <1>6 DEF Gave
  <2>2. ASSUME NEW r \in R, Working(r)'
        PROVE  /\ Working(r) /\ retry'[r].branch = retry[r].branch
               /\ retry'[r].cands = retry[r].cands
               /\ \/ retry'[r].answer = retry[r].answer
                  \/ Gave(retry[r].branch, retry[r].answer)'
    BY <1>2, <1>5, <1>6, <2>1, <2>2 DEF Working
  <2> QED BY <1>0, <1>2, <1>4, <2>2, TurnsStay
<1>9. Entered(S, R)'
  BY <1>0, <1>2, <1>4, <1>5, <1>6 DEF Entered, Working
<1> QED BY <1>4, <1>7, <1>8, <1>9 DEF CouncilInv

\* A retry moves on with what it holds.
LEMMA RetryMoves ==
  ASSUME NEW S, NEW R, CouncilTypes(S, R), AnswersGiven(S, R), Entered(S, R), NEW q \in R,
         NEW now \in RetryType(S), retry' = [retry EXCEPT ![q] = now],
         UNCHANGED <<start, row, branch, session>>,
         now.pc \notin {"none", "done"} =>
           /\ now.branch \in Branches(S) /\ Gave(now.branch, now.answer)
           /\ \A p \in Personas : Gave(<<now.branch[1], p>>, now.cands[p])
           /\ start[now.branch[1]].pc = "done",
         now.pc = "answered" => now.answer # 0
  PROVE  retry' \in [R -> RetryType(S)] /\ AnswersGiven(S, R)' /\ Entered(S, R)'
<1>1. retry' \in [R -> RetryType(S)] /\ retry'[q] = now /\ \A r \in R \ {q} : retry'[r] = retry[r]
  BY DEF CouncilTypes
<1>2. AnswersGiven(S, R)'
  BY <1>1 DEF AnswersGiven, Working, Gave
<1>3. Entered(S, R)'
  BY <1>1 DEF Entered, Working
<1> QED BY <1>1, <1>2, <1>3

LEMMA BeginRetryStep ==
  ASSUME NEW S, NEW R, NEW D, CouncilInv(S, R), NEW q \in R, NEW b \in Branches(S),
         Council(S, R, D)!BeginRetry(q, b)
  PROVE  CouncilInv(S, R)'
<1>0. CouncilTypes(S, R) /\ IdsInOrder(S) /\ AnswersGiven(S, R) /\ Entered(S, R)
  BY DEF CouncilInv
<1>1. PICK now : now = [pc |-> "asking", branch |-> b, cands |-> row[b[1]].cands,
                        active |-> session.active, text |-> row[b[1]].text, answer |-> 0]
  OBVIOUS
<1>2. /\ session.mode /\ b[1] = session.council /\ retry' = [retry EXCEPT ![q] = now]
      /\ UNCHANGED <<nextId, parent, session, row, branch, start>>
  BY <1>1 DEF Council!BeginRetry, Council!IsCandidate, Council!Failure
<1>3. b[1] \in S /\ row[b[1]] \in RowType(S) /\ session \in Session(S) /\ b \in Shown(S)
  BY <1>0 DEF CouncilTypes, Branches, Shown
<1>4. now \in RetryType(S) /\ now.branch = b /\ now.cands = row[b[1]].cands /\ now.answer = 0
  BY <1>1, <1>3 DEF RetryType, RowType, Session
<1>5. \A p \in Personas : Gave(<<b[1], p>>, row[b[1]].cands[p])
  BY <1>0, <1>3 DEF AnswersGiven
<1>6. start[b[1]].pc = "done"
  BY <1>0, <1>2 DEF Entered
<1>7. retry' \in [R -> RetryType(S)] /\ AnswersGiven(S, R)' /\ Entered(S, R)'
  <2>1. now.pc = "asking" /\ Gave(now.branch, now.answer)
    BY <1>1, <1>4 DEF Gave
  <2> QED BY <1>0, <1>2, <1>4, <1>5, <1>6, <2>1, RetryMoves
<1>8. CouncilTypes(S, R)' /\ IdsInOrder(S)'
  BY <1>0, <1>2, <1>7 DEF CouncilTypes, IdsInOrder
<1> QED BY <1>7, <1>8 DEF CouncilInv

LEMMA RetryFailsStep ==
  ASSUME NEW S, NEW R, NEW D, CouncilInv(S, R), NEW q \in R, Council(S, R, D)!RetryFails(q)
  PROVE  CouncilInv(S, R)'
<1>0. CouncilTypes(S, R) /\ IdsInOrder(S) /\ AnswersGiven(S, R) /\ Entered(S, R)
  BY DEF CouncilInv
<1>1. PICK now : now = [retry[q] EXCEPT !.pc = "failed"]
  OBVIOUS
<1>2. /\ retry' = [retry EXCEPT ![q] = now] /\ Working(q)
      /\ UNCHANGED <<nextId, parent, session, row, branch, start>>
  BY <1>0, <1>1 DEF Council!RetryFails, CouncilTypes, Working
<1>3. retry[q] \in RetryType(S)
  BY <1>0 DEF CouncilTypes
<1>4. /\ now \in RetryType(S) /\ now.branch = retry[q].branch /\ now.cands = retry[q].cands
      /\ now.answer = retry[q].answer /\ now.pc = "failed"
  BY <1>1, <1>3 DEF RetryType
<1>5. /\ now.branch \in Branches(S) /\ Gave(now.branch, now.answer)
      /\ \A p \in Personas : Gave(<<now.branch[1], p>>, now.cands[p])
      /\ start[now.branch[1]].pc = "done"
  BY <1>0, <1>2, <1>4 DEF AnswersGiven, Entered
<1>6. retry' \in [R -> RetryType(S)] /\ AnswersGiven(S, R)' /\ Entered(S, R)'
  BY <1>0, <1>2, <1>4, <1>5, RetryMoves
<1>7. CouncilTypes(S, R)' /\ IdsInOrder(S)'
  BY <1>0, <1>2, <1>6 DEF CouncilTypes, IdsInOrder
<1> QED BY <1>6, <1>7 DEF CouncilInv

\* The newest turn of a branch becomes its start: none that was cloned comes after it.
LEMMA RetryStampsStep ==
  ASSUME NEW S, NEW R, NEW D, CouncilInv(S, R), NEW q \in R, Council(S, R, D)!RetryStamps(q)
  PROVE  CouncilInv(S, R)'
<1>0. CouncilTypes(S, R) /\ IdsInOrder(S) /\ AnswersGiven(S, R) /\ Entered(S, R)
  BY DEF CouncilInv
<1>1. PICK b \in Branches(S) : b = retry[q].branch
  BY <1>0 DEF Council!RetryStamps, AnswersGiven, Working
<1>2. PICK from : from = Council(S, R, D)!Max({t.id : t \in branch[b].turns})
  OBVIOUS
<1>3. branch[b] \in Child /\ nextId \in Nat \ {0}
  BY <1>0 DEF CouncilTypes
<1>4. PICK now, child : now = [retry[q] EXCEPT !.pc = "stamped"]
                        /\ child = [branch[b] EXCEPT !.from = from]
  OBVIOUS
<1>5. /\ branch' = [branch EXCEPT ![b] = child]
      /\ retry' = [retry EXCEPT ![q] = now] /\ retry[q].pc = "answered"
      /\ UNCHANGED <<nextId, parent, session, row, start>>
  BY <1>0, <1>1, <1>2, <1>4 DEF Council!RetryStamps, CouncilTypes

<1>6. from \in Nat /\ \A t \in branch[b].turns : t.id <= from
  <2> DEFINE T == {t.id : t \in branch[b].turns}
  <2>1. T \in SUBSET Nat /\ \A x \in T : x <= nextId
    BY <1>0, <1>3 DEF Child, Turn, IdsInOrder
  <2>2. PICK t \in branch[b].turns : t.id = retry[q].answer
    BY <1>0, <1>1, <1>5 DEF AnswersGiven, Entered, Working, Gave
  <2>3. T # {}
    BY <2>2
  <2>4. \A turn \in branch[b].turns : turn.id \in T
    OBVIOUS
  <2>5. from = Council(S, R, D)!Max(T)
    BY <1>2
  <2> HIDE DEF T
  <2>6. \E x \in T : \A y \in T : x >= y
    BY <1>3, <2>1, <2>3, GreatestOf
  <2>7. from \in T /\ \A y \in T : from >= y
    BY <2>5, <2>6 DEF Council!Max
  <2>8. \A x \in T : x \in Nat
    BY <2>1
  <2> QED BY <2>4, <2>7, <2>8
<1>7. child \in Child /\ child.from = from /\ child.turns = branch[b].turns
  BY <1>3, <1>4, <1>6 DEF Child
<1>8. branch' \in [Branches(S) -> Child] /\ branch'[b] = child
      /\ \A c \in Branches(S) \ {b} : branch'[c] = branch[c]
  BY <1>0, <1>5, <1>7 DEF CouncilTypes
<1>9. \A c \in Branches(S) : branch'[c].turns = branch[c].turns
  BY <1>7, <1>8
<1>10. retry[q] \in RetryType(S)
  BY <1>0 DEF CouncilTypes
<1>11. /\ now \in RetryType(S) /\ now.branch = retry[q].branch /\ now.cands = retry[q].cands
       /\ now.answer = retry[q].answer /\ now.pc = "stamped"
  BY <1>4, <1>10 DEF RetryType
<1>12. retry' \in [R -> RetryType(S)] /\ retry'[q] = now /\ \A r \in R \ {q} : retry'[r] = retry[r]
  BY <1>0, <1>5, <1>11 DEF CouncilTypes
<1>13. CouncilTypes(S, R)'
  BY <1>0, <1>5, <1>8, <1>12 DEF CouncilTypes
<1>14. IdsInOrder(S)'
  BY <1>0, <1>5, <1>6, <1>7, <1>8 DEF IdsInOrder
<1>15. AnswersGiven(S, R)'
  <2>1. \A c \in Branches(S), m \in Nat : Gave(c, m) => Gave(c, m)'
    BY <1>9 DEF Gave
  <2>2. ASSUME NEW r \in R, Working(r)'
        PROVE  /\ Working(r) /\ retry'[r].branch = retry[r].branch
               /\ retry'[r].cands = retry[r].cands /\ retry'[r].answer = retry[r].answer
    BY <1>5, <1>11, <1>12, <2>2 DEF Working
  <2> QED BY <1>0, <1>5, <2>1, <2>2, TurnsStay
<1>16. Entered(S, R)'
  BY <1>0, <1>5, <1>11, <1>12 DEF Entered, Working
<1> QED BY <1>13, <1>14, <1>15, <1>16 DEF CouncilInv

\* The row takes candidates that were given.
LEMMA RowIsWritten ==
  ASSUME NEW S, NEW R, CouncilTypes(S, R), AnswersGiven(S, R), Entered(S, R),
         NEW q \in R, NEW s \in S, start[s].pc = "done",
         NEW now \in RowType(S), row' = [row EXCEPT ![s] = now],
         \A p \in Personas : Gave(<<s, p>>, now.cands[p]),
         NEW free \in RetryType(S), free.pc = "done", retry' = [retry EXCEPT ![q] = free],
         UNCHANGED <<start, branch>>
  PROVE  /\ row' \in [S -> RowType(S)] /\ retry' \in [R -> RetryType(S)] /\ AnswersGiven(S, R)'
         /\ (/\ UNCHANGED <<session.mode, session.council>>
             /\ session'.mode => session'.active \in Branches(S)) => Entered(S, R)'
<1>1. retry' \in [R -> RetryType(S)] /\ retry'[q] = free /\ \A r \in R \ {q} : retry'[r] = retry[r]
  BY DEF CouncilTypes
<1>2. row' \in [S -> RowType(S)] /\ row'[s] = now /\ \A x \in S \ {s} : row'[x] = row[x]
  BY DEF CouncilTypes
<1>3. AnswersGiven(S, R)'
  <2>1. \A x \in S : \A p \in Personas :
          Gave(<<x, p>>, start[x].result[p])' /\ Gave(<<x, p>>, row[x].cands[p])'
    BY <1>2 DEF AnswersGiven, Gave
  <2>2. \A r \in R : Working(r)' => Working(r) /\ retry'[r] = retry[r]
    BY <1>1 DEF Working
  <2>3. \A r \in R : Working(r)' =>
          /\ retry'[r].branch \in Branches(S) /\ Gave(retry[r].branch, retry[r].answer)'
          /\ \A p \in Personas : Gave(<<retry[r].branch[1], p>>, retry[r].cands[p])'
    BY <2>2 DEF AnswersGiven, Gave
  <2> QED BY <2>1, <2>3 DEF AnswersGiven
<1>4. ASSUME UNCHANGED <<session.mode, session.council>>,
             session'.mode => session'.active \in Branches(S)
      PROVE  Entered(S, R)'
  BY <1>1, <1>2, <1>4 DEF Entered, Working
<1> QED BY <1>1, <1>2, <1>3, <1>4

LEMMA CommitRetryStep ==
  ASSUME NEW S, NEW R, NEW D, CouncilInv(S, R), NEW q \in R, Council(S, R, D)!CommitRetry(q)
  PROVE  CouncilInv(S, R)'
<1>0. CouncilTypes(S, R) /\ IdsInOrder(S) /\ AnswersGiven(S, R) /\ Entered(S, R)
  BY DEF CouncilInv
<1>1. PICK b \in Branches(S) : b = retry[q].branch
  BY <1>0 DEF Council!CommitRetry, AnswersGiven, Working
<1>2. PICK now, free :
        /\ now = [saved |-> TRUE, cands |-> [retry[q].cands EXCEPT ![b[2]] = retry[q].answer],
                  active |-> b, text |-> <<b, retry[q].answer>>]
        /\ free = [Council(S, R, D)!NoRetry EXCEPT !.pc = "done"]
  OBVIOUS
<1>3. /\ row' = [row EXCEPT ![b[1]] = now] /\ retry' = [retry EXCEPT ![q] = free]
      /\ session' = [session EXCEPT !.active = b] /\ Working(q)
      /\ UNCHANGED <<nextId, parent, branch, start>>
  BY <1>1, <1>2 DEF Council!CommitRetry, Working
<1>4. /\ b[1] \in S /\ b[2] \in Personas /\ b = <<b[1], b[2]>> /\ b \in Shown(S)
      /\ retry[q].cands \in Cands /\ retry[q].answer \in Nat
  BY <1>0 DEF Branches, Shown, CouncilTypes, RetryType
<1>5. PICK cands : cands = [retry[q].cands EXCEPT ![b[2]] = retry[q].answer]
  OBVIOUS
<1>6. /\ cands \in Cands /\ cands[b[2]] = retry[q].answer
      /\ \A p \in Personas \ {b[2]} : cands[p] = retry[q].cands[p]
  BY <1>4, <1>5 DEF Cands
<1>7. now \in RowType(S) /\ now.cands = cands
  BY <1>2, <1>4, <1>5, <1>6 DEF RowType
<1>8. \A p \in Personas : Gave(<<b[1], p>>, now.cands[p])
  <2>1. /\ Gave(<<b[1], b[2]>>, retry[q].answer)
        /\ \A p \in Personas : Gave(<<b[1], p>>, retry[q].cands[p])
    BY <1>0, <1>1, <1>3, <1>4 DEF AnswersGiven
  <2> QED BY <1>6, <1>7, <2>1
<1>9. free \in RetryType(S) /\ free.pc = "done"
  BY <1>2, PersonasOf
     DEF Council!NoRetry, Council!NoRow, Council!Failure, RetryType, Cands, Shown
<1>10. start[b[1]].pc = "done"
  BY <1>0, <1>1, <1>3 DEF Entered
<1>11. /\ session' \in Session(S) /\ session'.active = b
       /\ session'.mode = session.mode /\ session'.council = session.council
  BY <1>0, <1>3, <1>4 DEF CouncilTypes, Session
<1>12. /\ row' \in [S -> RowType(S)] /\ retry' \in [R -> RetryType(S)]
       /\ AnswersGiven(S, R)' /\ Entered(S, R)'
  BY <1>0, <1>3, <1>4, <1>7, <1>8, <1>9, <1>10, <1>11, RowIsWritten
<1>13. CouncilTypes(S, R)' /\ IdsInOrder(S)'
  BY <1>0, <1>3, <1>11, <1>12 DEF CouncilTypes, IdsInOrder
<1> QED BY <1>12, <1>13 DEF CouncilInv

LEMMA CommitFailedRetryStep ==
  ASSUME NEW S, NEW R, NEW D, CouncilInv(S, R), NEW q \in R,
         Council(S, R, D)!CommitFailedRetry(q)
  PROVE  CouncilInv(S, R)'
<1>0. CouncilTypes(S, R) /\ IdsInOrder(S) /\ AnswersGiven(S, R) /\ Entered(S, R)
  BY DEF CouncilInv
<1>1. PICK b \in Branches(S) : b = retry[q].branch
  BY <1>0 DEF Council!CommitFailedRetry, AnswersGiven, Working
<1>2. /\ b[1] \in S /\ b[2] \in Personas /\ b \in Shown(S) /\ row[b[1]] \in RowType(S)
      /\ retry[q].cands \in Cands /\ retry[q].active \in Shown(S)
  BY <1>0 DEF Branches, Shown, CouncilTypes, RetryType
<1>3. PICK old, new, written, text :
        /\ old = [cands |-> retry[q].cands, active |-> retry[q].active]
        /\ new = [old EXCEPT !.cands = [old.cands EXCEPT ![b[2]] = 0]]
        /\ written \in {new, [cands |-> row[b[1]].cands, active |-> row[b[1]].active]}
        /\ text \in {row[b[1]].text, <<b, 0>>}
        /\ row' = [row EXCEPT ![b[1]] = [saved |-> TRUE, cands |-> written.cands,
                                         active |-> written.active, text |-> text]]
  <2>1. PICK old, new, written, text :
          /\ old = [cands |-> retry[q].cands, active |-> retry[q].active]
          /\ new = [old EXCEPT !.cands = [old.cands EXCEPT ![b[2]] = 0]]
          /\ written = Council(S, R, D)!Flush(old, new, [cands |-> row[b[1]].cands,
                                                         active |-> row[b[1]].active])
          /\ text = Council(S, R, D)!Flush(retry[q].text, <<b, 0>>, row[b[1]].text)
    OBVIOUS
  <2>2. row' = [row EXCEPT ![b[1]] = [saved |-> TRUE, cands |-> written.cands,
                                      active |-> written.active, text |-> text]]
    BY <1>0, <1>1, <1>2, <2>1 DEF Council!CommitFailedRetry, Council!Failure, CouncilTypes
  <2> QED BY <2>1, <2>2 DEF Council!Flush
<1>4. PICK now, free :
        /\ now = [saved |-> TRUE, cands |-> written.cands, active |-> written.active, text |-> text]
        /\ free = [Council(S, R, D)!NoRetry EXCEPT !.pc = "done"]
  OBVIOUS
<1>5. /\ row' = [row EXCEPT ![b[1]] = now] /\ retry' = [retry EXCEPT ![q] = free]
      /\ Working(q) /\ UNCHANGED <<nextId, parent, session, branch, start>>
  BY <1>1, <1>3, <1>4 DEF Council!CommitFailedRetry, Working
<1>6. PICK cands : cands = [retry[q].cands EXCEPT ![b[2]] = 0]
  OBVIOUS
<1>7. /\ cands \in Cands /\ cands[b[2]] = 0
      /\ \A p \in Personas \ {b[2]} : cands[p] = retry[q].cands[p]
  BY <1>2, <1>6 DEF Cands
<1>8. /\ written.cands \in {cands, row[b[1]].cands}
      /\ written.active \in {retry[q].active, row[b[1]].active}
  BY <1>3, <1>6
<1>9. now \in RowType(S) /\ now.cands = written.cands
  <2>1. written.cands \in Cands /\ written.active \in Shown(S) /\ text \in Shown(S) \X Nat
    BY <1>2, <1>3, <1>7, <1>8 DEF RowType
  <2> QED BY <1>4, <2>1 DEF RowType
<1>10. \A p \in Personas : Gave(<<b[1], p>>, now.cands[p])
  <2>1. \A p \in Personas : /\ Gave(<<b[1], p>>, retry[q].cands[p])
                            /\ Gave(<<b[1], p>>, row[b[1]].cands[p])
    BY <1>0, <1>1, <1>2, <1>5 DEF AnswersGiven
  <2>2. \A c : Gave(c, 0)
    BY DEF Gave
  <2> QED BY <1>7, <1>8, <1>9, <2>1, <2>2
<1>11. free \in RetryType(S) /\ free.pc = "done"
  BY <1>4, PersonasOf
     DEF Council!NoRetry, Council!NoRow, Council!Failure, RetryType, Cands, Shown
<1>12. start[b[1]].pc = "done"
  BY <1>0, <1>1, <1>5 DEF Entered
<1>13. /\ row' \in [S -> RowType(S)] /\ retry' \in [R -> RetryType(S)]
       /\ AnswersGiven(S, R)' /\ Entered(S, R)'
  <2>1. /\ UNCHANGED <<session.mode, session.council>>
        /\ session'.mode => session'.active \in Branches(S)
    BY <1>0, <1>5 DEF Entered
  <2> QED BY <1>0, <1>2, <1>5, <1>9, <1>10, <1>11, <1>12, <2>1, RowIsWritten
<1>14. CouncilTypes(S, R)' /\ IdsInOrder(S)'
  BY <1>0, <1>5, <1>13 DEF CouncilTypes, IdsInOrder
<1> QED BY <1>13, <1>14 DEF CouncilInv

LEMMA ServerRestartStep ==
  ASSUME NEW S, NEW R, NEW D, CouncilInv(S, R), Council(S, R, D)!ServerRestart
  PROVE  CouncilInv(S, R)'
<1>0. CouncilTypes(S, R) /\ IdsInOrder(S) /\ AnswersGiven(S, R) /\ Entered(S, R)
  BY DEF CouncilInv
<1>1. /\ start' = [s \in S |-> IF start[s].pc \in {"asking", "saved"}
                               THEN [start[s] EXCEPT !.pc = "lost"] ELSE start[s]]
      /\ retry' = [q \in R |-> IF retry[q].pc \notin {"none", "done"}
                               THEN [Council(S, R, D)!NoRetry EXCEPT !.pc = "done"] ELSE retry[q]]
      /\ UNCHANGED <<nextId, parent, session, row, branch>>
  BY DEF Council!ServerRestart
<1>2. ASSUME NEW s \in S
      PROVE  /\ start'[s] \in StartType /\ start'[s].result = start[s].result
             /\ start'[s].pc \in {start[s].pc, "lost"}
             /\ start[s].pc \in {"none", "done"} => start'[s].pc = start[s].pc
  <2>1. start[s] \in StartType
    BY <1>0 DEF CouncilTypes
  <2>2. PICK now : now = [start[s] EXCEPT !.pc = "lost"]
    OBVIOUS
  <2>3. now \in StartType /\ now.result = start[s].result /\ now.pc = "lost"
    BY <2>1, <2>2 DEF StartType
  <2>4. start'[s] = IF start[s].pc \in {"asking", "saved"} THEN now ELSE start[s]
    BY <1>1, <2>2
  <2> QED BY <2>1, <2>3, <2>4
<1>3. ASSUME NEW q \in R
      PROVE  retry'[q] \in RetryType(S) /\ (Working(q)' => Working(q) /\ retry'[q] = retry[q])
             /\ (retry'[q].pc = "answered" => retry'[q] = retry[q])
  <2>1. PICK free : free = [Council(S, R, D)!NoRetry EXCEPT !.pc = "done"]
    OBVIOUS
  <2>2. free \in RetryType(S) /\ free.pc = "done"
    BY <2>1, PersonasOf
       DEF Council!NoRetry, Council!NoRow, Council!Failure, RetryType, Cands, Shown
  <2>3. retry'[q] = (IF retry[q].pc \notin {"none", "done"} THEN free ELSE retry[q])
        /\ retry[q] \in RetryType(S)
    BY <1>0, <1>1, <2>1 DEF CouncilTypes
  <2> QED BY <2>2, <2>3 DEF Working
<1>4. start' \in [S -> StartType] /\ retry' \in [R -> RetryType(S)]
  <2>1. start' = [s \in S |-> start'[s]] /\ retry' = [q \in R |-> retry'[q]]
    BY <1>1
  <2> QED BY <1>2, <1>3, <2>1
<1>5. CouncilTypes(S, R)' /\ IdsInOrder(S)'
  BY <1>0, <1>1, <1>4 DEF CouncilTypes, IdsInOrder
<1>6. AnswersGiven(S, R)'
  <2>0. branch' = branch /\ row' = row
    BY <1>1
  <2>1. ASSUME NEW q \in R, Working(q)'
        PROVE  /\ retry'[q].branch \in Branches(S) /\ Gave(retry[q].branch, retry[q].answer)'
               /\ \A p \in Personas : Gave(<<retry[q].branch[1], p>>, retry[q].cands[p])'
    <3>1. Working(q) /\ retry'[q] = retry[q]
      BY <1>3, <2>1
    <3> QED BY <1>0, <2>0, <3>1 DEF AnswersGiven, Gave
  <2>2. \A s \in S : \A p \in Personas :
          Gave(<<s, p>>, start[s].result[p])' /\ Gave(<<s, p>>, row[s].cands[p])'
    BY <1>0, <1>2, <2>0 DEF AnswersGiven, Gave
  <2> QED BY <2>1, <2>2 DEF AnswersGiven
<1>7. Entered(S, R)'
  <2>1. \A q \in R : Working(q)' => start'[retry'[q].branch[1]].pc = "done"
    <3>1. \A q \in R : Working(q) => retry[q].branch[1] \in S
      BY <1>0 DEF AnswersGiven, Branches
    <3> QED BY <1>0, <1>2, <1>3, <3>1 DEF Entered
  <2>2. session.mode => start'[session.council].pc = "done"
    BY <1>0, <1>2 DEF Entered
  <2>3. \A q \in R : retry'[q].pc = "answered" => retry'[q].answer # 0
    BY <1>0, <1>3 DEF Entered
  <2>4. \A s \in S : start'[s].pc = "none" =>
          \A p \in Personas : start'[s].result[p] = 0 /\ row'[s].cands[p] = 0
    <3>1. \A s \in S : start'[s].pc = "none" =>
            start[s].pc = "none" /\ start'[s].result = start[s].result
      BY <1>2
    <3> QED BY <1>0, <1>1, <3>1 DEF Entered
  <2> QED BY <1>0, <1>1, <2>1, <2>2, <2>3, <2>4 DEF Entered
<1> QED BY <1>5, <1>6, <1>7 DEF CouncilInv

LEMMA CouncilStep ==
  ASSUME NEW S, NEW R, NEW D, CouncilInv(S, R), Council(S, R, D)!Next
  PROVE  CouncilInv(S, R)'
<1>1. Council(S, R, D)!Personas = Personas /\ Council(S, R, D)!Branches = Branches(S)
  BY PersonasOf
<1>2. ASSUME NEW s \in S, Council(S, R, D)!StartCouncil(s) \/ Council(S, R, D)!StartStep(s)
      PROVE  CouncilInv(S, R)'
  BY <1>1, <1>2, StartCouncilStep, BranchAnswersStep, BranchFailsStep, SaveCouncilRowStep,
     EnterCouncilStep DEF Council!StartStep
<1>3. ASSUME NEW q \in R, (\E b \in Branches(S) : Council(S, R, D)!BeginRetry(q, b))
                          \/ Council(S, R, D)!RetryStep(q)
      PROVE  CouncilInv(S, R)'
  BY <1>3, BeginRetryStep, RetryAnswersStep, RetryStampsStep, RetryFailsStep, CommitRetryStep,
     CommitFailedRetryStep DEF Council!RetryStep
<1> QED BY <1>1, <1>2, <1>3, SelectBranchStep, SendFollowUpStep, ServerRestartStep DEF Council!Next

LEMMA CandidatesGiven ==
  ASSUME NEW S, NEW R, NEW D, CouncilInv(S, R)
  PROVE  Council(S, R, D)!CandidatesAreReal
BY PersonasOf DEF CouncilInv, AnswersGiven, Gave, Council!CandidatesAreReal, Council!Failure

LEMMA BranchShownOnce ==
  ASSUME NEW S, NEW R, NEW D, CouncilInv(S, R)
  PROVE  Council(S, R, D)!AnsweredBranchShownOnce
<1> SUFFICES ASSUME session.mode, branch[session.active].from # 0
             PROVE  \A t \in Council(S, R, D)!Shown : t.of = t.id
  BY DEF Council!AnsweredBranchShownOnce, Council!ShownOnce, Council!Unanswered
<1>1. PICK b \in Branches(S) : b = session.active
  BY DEF CouncilInv, Entered
<1>2. branch[b] \in Child /\ \A m \in parent : m.of = m.id
  BY DEF CouncilInv, CouncilTypes, IdsInOrder
<1>3. \A t \in branch[b].turns : t.id > branch[b].from => t.of = t.id
  BY <1>1, <1>2 DEF CouncilInv, IdsInOrder, Child, Turn
<1> QED BY <1>1, <1>2, <1>3 DEF Council!Shown

\* Without restarts and failed retries there is one council, whose row is the session's.
Matches(s, b) ==
  b[1] = s /\ row[s].active = b /\ row[s].text = <<b, row[s].cands[b[2]]>>

OneCouncil(S, R, D) ==
  /\ \A s, t \in S : start[s].pc # "none" /\ start[t].pc # "none" => s = t
  /\ \A s \in S : start[s].pc # "lost"
  /\ \A q \in R : retry[q].pc # "failed" /\ (Working(q) => session.mode)
  /\ \A b \in Branches(S) : branch[b].turns # {} => start[b[1]].pc # "none"
  /\ \A s \in S : start[s].pc = "saved" =>
       Matches(s, <<s, Council(S, R, D)!FirstAnswered(start[s].result)>>)
  /\ session.mode => Matches(session.council, session.active)

\* One request moves on and the others do not.
LEMMA OneMoves ==
  ASSUME NEW S, NEW R, NEW D, OneCouncil(S, R, D), NEW s \in S,
         start'[s].pc # "none", start'[s].pc # "lost", \A x \in S \ {s} : start'[x] = start[x],
         start[s].pc = "none" => \A x \in S : start[x].pc = "none"
  PROVE  /\ \A x, t \in S : start'[x].pc # "none" /\ start'[t].pc # "none" => x = t
         /\ \A x \in S : start'[x].pc # "lost"
BY DEF OneCouncil

LEMMA OneStarts ==
  ASSUME NEW S, NEW R, NEW D, D = {"overlap", "failure"}, CouncilInv(S, R),
         OneCouncil(S, R, D), NEW s \in S, Council(S, R, D)!StartCouncil(s)
  PROVE  OneCouncil(S, R, D)'
<1>0. CouncilTypes(S, R) /\ Council(S, R, D)!Personas = Personas
      /\ Council(S, R, D)!Branches = Branches(S)
  BY PersonasOf DEF CouncilInv
<1>1. /\ start[s].pc = "none" /\ \A x \in S : start[x].pc = "none"
      /\ ~session.mode /\ UNCHANGED <<session, row, retry>>
  BY DEF Council!StartCouncil, OneCouncil
<1>2. start'[s].pc = "asking" /\ \A x \in S \ {s} : start'[x] = start[x]
  <2>1. PICK now : now = [start[s] EXCEPT !.pc = "asking", !.open = Personas]
    OBVIOUS
  <2>2. start[s] \in StartType
    BY <1>0 DEF CouncilTypes
  <2>3. now.pc = "asking"
    BY <2>1, <2>2 DEF StartType
  <2>4. start' = [start EXCEPT ![s] = now]
    BY <1>0, <2>1 DEF Council!StartCouncil, CouncilTypes
  <2> QED BY <1>0, <2>3, <2>4 DEF CouncilTypes
<1>3. \A b \in Branches(S) : b[1] # s => branch'[b] = branch[b]
  BY <1>0 DEF Council!StartCouncil
<1>4. \A b \in Branches(S) : branch'[b].turns # {} => start'[b[1]].pc # "none"
  BY <1>1, <1>2, <1>3 DEF Branches, OneCouncil
<1>5. \A x \in S : start'[x].pc # "saved"
  BY <1>1, <1>2
<1>6. /\ \A x, t \in S : start'[x].pc # "none" /\ start'[t].pc # "none" => x = t
      /\ \A x \in S : start'[x].pc # "lost"
  BY <1>1, <1>2
<1>7. \A q \in R : retry'[q].pc # "failed" /\ (Working(q)' => session'.mode)
  BY <1>1 DEF OneCouncil, Working
<1> QED BY <1>1, <1>4, <1>5, <1>6, <1>7 DEF OneCouncil

\* Branches answer or fail while the council is asked.
LEMMA OneIsAsked ==
  ASSUME NEW S, NEW R, NEW D, CouncilInv(S, R), OneCouncil(S, R, D), NEW s \in S,
         NEW p \in Personas, Council(S, R, D)!BranchAnswers(s, p)
            \/ Council(S, R, D)!BranchFails(s, p)
  PROVE  OneCouncil(S, R, D)'
<1>0. CouncilTypes(S, R) /\ CouncilInv(S, R)
  BY DEF CouncilInv
<1>1. start[s].pc = "asking" /\ UNCHANGED <<session, row, retry>>
      /\ \A b \in Branches(S) : b # <<s, p>> => branch'[b] = branch[b]
  BY <1>0 DEF Council!BranchAnswers, Council!BranchFails, CouncilTypes
<1>2. start'[s].pc = "asking" /\ \A x \in S \ {s} : start'[x] = start[x]
  <2>1. start[s] \in StartType
    BY <1>0 DEF CouncilTypes
  <2>2. PICK failed, gave : /\ failed = [start[s] EXCEPT !.open = start[s].open \ {p}]
                            /\ gave = [start[s] EXCEPT !.open = start[s].open \ {p},
                                         !.result = [start[s].result EXCEPT ![p] = nextId]]
    OBVIOUS
  <2>3. failed.pc = "asking" /\ gave.pc = "asking"
    BY <1>1, <2>1, <2>2 DEF StartType
  <2>4. start' = [start EXCEPT ![s] = failed] \/ start' = [start EXCEPT ![s] = gave]
    BY <1>0, <2>1, <2>2 DEF Council!BranchAnswers, Council!BranchFails, CouncilTypes, StartType
  <2> QED BY <1>0, <2>3, <2>4 DEF CouncilTypes
<1>3. /\ \A x, t \in S : start'[x].pc # "none" /\ start'[t].pc # "none" => x = t
      /\ \A x \in S : start'[x].pc # "lost"
  BY <1>1, <1>2, OneMoves
<1>4. \A b \in Branches(S) : branch'[b].turns # {} => start'[b[1]].pc # "none"
  BY <1>1, <1>2 DEF Branches, OneCouncil
<1>5. \A x \in S : start'[x].pc = "saved" => start'[x] = start[x]
  BY <1>2
<1>6. \A q \in R : retry'[q].pc # "failed" /\ (Working(q)' => session'.mode)
  BY <1>1 DEF OneCouncil, Working
<1>7. \A x \in S : start'[x].pc = "saved" =>
        Matches(x, <<x, Council(S, R, D)!FirstAnswered(start[x].result)>>)'
  BY <1>1, <1>5 DEF OneCouncil, Matches
<1>8. session'.mode => Matches(session.council, session.active)'
  BY <1>1 DEF OneCouncil, Matches
<1> QED BY <1>3, <1>4, <1>6, <1>7, <1>8 DEF OneCouncil

LEMMA OneIsSaved ==
  ASSUME NEW S, NEW R, NEW D, CouncilInv(S, R), OneCouncil(S, R, D), NEW s \in S,
         Council(S, R, D)!SaveCouncilRow(s)
  PROVE  OneCouncil(S, R, D)'
<1>0. CouncilTypes(S, R) /\ Entered(S, R)
  BY DEF CouncilInv
<1>1. start[s] \in StartType
  BY <1>0 DEF CouncilTypes
<1>2. PICK p \in Personas : p = Council(S, R, D)!FirstAnswered(start[s].result)
  BY FirstOfPersonas
<1>3. PICK now, saved :
        /\ now = [start[s] EXCEPT !.pc = "saved"]
        /\ saved = [saved |-> TRUE, cands |-> start[s].result, active |-> <<s, p>>,
                    text |-> <<<<s, p>>, start[s].result[p]>>]
  OBVIOUS
<1>4. /\ row' = [row EXCEPT ![s] = saved] /\ start' = [start EXCEPT ![s] = now]
      /\ start[s].pc = "asking" /\ UNCHANGED <<session, branch, retry>>
  BY <1>0, <1>2, <1>3 DEF Council!SaveCouncilRow, CouncilTypes
<1>5. now.pc = "saved" /\ now.result = start[s].result
  BY <1>1, <1>3 DEF StartType
<1>6. start'[s] = now /\ (\A x \in S \ {s} : start'[x] = start[x]) /\ row'[s] = saved
  BY <1>0, <1>4 DEF CouncilTypes
<1>7. /\ \A x, t \in S : start'[x].pc # "none" /\ start'[t].pc # "none" => x = t
      /\ \A x \in S : start'[x].pc # "lost"
  BY <1>4, <1>5, <1>6, OneMoves
<1>8. ~session.mode
  BY <1>0, <1>4 DEF OneCouncil, Entered
<1>9. ASSUME NEW x \in S, start'[x].pc = "saved"
      PROVE  Matches(x, <<x, Council(S, R, D)!FirstAnswered(start[x].result)>>)'
  <2>1. x = s
    BY <1>5, <1>6, <1>7, <1>9
  <2>2. row'[s].active = <<s, p>> /\ row'[s].text = <<<<s, p>>, row'[s].cands[p]>>
    BY <1>3, <1>6
  <2>3. Council(S, R, D)!FirstAnswered(start'[x].result) = p
    BY <1>2, <1>5, <1>6, <2>1
  <2> QED BY <2>1, <2>2, <2>3 DEF Matches
<1>10. \A b \in Branches(S) : branch'[b].turns # {} => start'[b[1]].pc # "none"
  BY <1>4, <1>5, <1>6 DEF OneCouncil, Branches
<1>11. \A q \in R : retry'[q].pc # "failed" /\ (Working(q)' => session'.mode)
  BY <1>4 DEF OneCouncil, Working
<1> QED BY <1>4, <1>7, <1>8, <1>9, <1>10, <1>11 DEF OneCouncil

LEMMA OneIsEntered ==
  ASSUME NEW S, NEW R, NEW D, CouncilInv(S, R), OneCouncil(S, R, D), NEW s \in S,
         Council(S, R, D)!EnterCouncil(s)
  PROVE  OneCouncil(S, R, D)'
<1>0. CouncilTypes(S, R) /\ Entered(S, R)
  BY DEF CouncilInv
<1>1. start[s] \in StartType
  BY <1>0 DEF CouncilTypes
<1>2. PICK now : now = [start[s] EXCEPT !.pc = "done"]
  OBVIOUS
<1>3. /\ session' = [mode |-> TRUE, council |-> s,
                     active |-> <<s, Council(S, R, D)!FirstAnswered(start[s].result)>>]
      /\ start' = [start EXCEPT ![s] = now] /\ start[s].pc = "saved"
      /\ UNCHANGED <<row, branch, retry>>
  BY <1>0, <1>2 DEF Council!EnterCouncil, CouncilTypes
<1>4. now.pc = "done"
  BY <1>1, <1>2 DEF StartType
<1>5. start'[s] = now /\ (\A x \in S \ {s} : start'[x] = start[x])
  BY <1>0, <1>3 DEF CouncilTypes
<1>6. /\ \A x, t \in S : start'[x].pc # "none" /\ start'[t].pc # "none" => x = t
      /\ \A x \in S : start'[x].pc # "lost"
  BY <1>3, <1>4, <1>5, OneMoves
<1>7. \A x \in S : start'[x].pc # "saved"
  BY <1>4, <1>5, <1>6
<1>8. Matches(session.council, session.active)' /\ session'.mode
  <2>1. Matches(s, <<s, Council(S, R, D)!FirstAnswered(start[s].result)>>)
    BY <1>3 DEF OneCouncil
  <2> QED BY <1>3, <2>1 DEF Matches
<1>9. \A b \in Branches(S) : branch'[b].turns # {} => start'[b[1]].pc # "none"
  BY <1>3, <1>4, <1>5 DEF OneCouncil, Branches
<1>10. \A q \in R : retry'[q].pc # "failed" /\ (Working(q)' => session'.mode)
  BY <1>3, <1>8 DEF OneCouncil, Working
<1> QED BY <1>6, <1>7, <1>8, <1>9, <1>10 DEF OneCouncil

\* In council mode the requests to start are behind us: turns and the row change.
LEMMA OneGoesOn ==
  ASSUME NEW S, NEW R, NEW D, CouncilInv(S, R), OneCouncil(S, R, D), session.mode,
         UNCHANGED start, session'.mode, session'.council = session.council,
         \A q \in R : retry'[q].pc # "failed",
         \A b \in Branches(S) : b[1] # session.council => branch'[b].turns = branch[b].turns,
         Matches(session.council, session.active)'
  PROVE  OneCouncil(S, R, D)'
<1>1. session.council \in S /\ start[session.council].pc = "done"
  BY DEF CouncilInv, Entered
<1>2. \A x \in S : start'[x].pc # "saved"
  BY <1>1 DEF OneCouncil
<1>3. \A b \in Branches(S) : branch'[b].turns # {} => start'[b[1]].pc # "none"
  BY <1>1 DEF OneCouncil, Branches
<1>4. /\ \A x, t \in S : start'[x].pc # "none" /\ start'[t].pc # "none" => x = t
      /\ \A x \in S : start'[x].pc # "lost"
  BY DEF OneCouncil
<1> QED BY <1>2, <1>3, <1>4 DEF OneCouncil

\* What is worked on belongs to the council of the session.
LEMMA OneIsWorkedOn ==
  ASSUME NEW S, NEW R, NEW D, CouncilInv(S, R), OneCouncil(S, R, D)
  PROVE  /\ \A q \in R : Working(q) => /\ session.mode /\ retry[q].branch \in Branches(S)
                                       /\ retry[q].branch[1] = session.council
         /\ session.mode => \A b \in Branches(S) : branch[b].turns # {} => b[1] = session.council
         /\ session.mode => session.council \in S /\ session.active \in Branches(S)
<1>1. session.mode => /\ session.council \in S /\ start[session.council].pc = "done"
                      /\ session.active \in Branches(S)
  BY DEF CouncilInv, Entered
<1>2. \A q \in R : Working(q) => /\ retry[q].branch \in Branches(S)
                                 /\ start[retry[q].branch[1]].pc = "done"
                                 /\ retry[q].branch[1] \in S /\ session.mode
  BY DEF CouncilInv, AnswersGiven, Entered, Branches, OneCouncil
<1>3. \A b \in Branches(S) : b[1] \in S
  BY DEF Branches
<1> QED BY <1>1, <1>2, <1>3 DEF OneCouncil

LEMMA OneSelects ==
  ASSUME NEW S, NEW R, NEW D, CouncilInv(S, R), OneCouncil(S, R, D), NEW b \in Branches(S),
         Council(S, R, D)!SelectBranch(b)
  PROVE  OneCouncil(S, R, D)'
<1>0. CouncilTypes(S, R)
  BY DEF CouncilInv
<1>1. /\ session.mode /\ session' = [session EXCEPT !.active = b] /\ branch[b].turns # {}
      /\ UNCHANGED <<branch, start, retry>>
  BY DEF Council!SelectBranch
<1>2. session'.active = b /\ session'.mode /\ session'.council = session.council
  BY <1>0, <1>1 DEF CouncilTypes, Session
<1>3. b[1] = session.council /\ b[1] \in S
  BY <1>1, OneIsWorkedOn DEF Branches
<1>4. PICK now : now = [row[b[1]] EXCEPT !.active = b, !.text = <<b, row[b[1]].cands[b[2]]>>]
  OBVIOUS
<1>5. row' = [row EXCEPT ![b[1]] = now]
  BY <1>0, <1>3, <1>4 DEF Council!SelectBranch, Council!IsCandidate, CouncilTypes
<1>6. row[b[1]] \in RowType(S)
  BY <1>0, <1>3 DEF CouncilTypes
<1>7. now.active = b /\ now.text = <<b, row[b[1]].cands[b[2]]>> /\ now.cands = row[b[1]].cands
  BY <1>4, <1>6 DEF RowType
<1>8. row'[b[1]] = now
  BY <1>0, <1>3, <1>5 DEF CouncilTypes
<1>9. Matches(session.council, session.active)'
  BY <1>2, <1>3, <1>7, <1>8 DEF Matches
<1>10. \A q \in R : retry'[q].pc # "failed"
  BY <1>1 DEF OneCouncil
<1> QED BY <1>1, <1>2, <1>9, <1>10, OneGoesOn

LEMMA OneTurn ==
  ASSUME NEW S, NEW R, NEW D, CouncilInv(S, R), OneCouncil(S, R, D), session.mode,
         NEW b \in Branches(S), b[1] = session.council, UNCHANGED <<session, row, start>>,
         \A c \in Branches(S) \ {b} : branch'[c] = branch[c],
         \A q \in R : retry'[q].pc # "failed"
  PROVE  OneCouncil(S, R, D)'
<1>1. Matches(session.council, session.active)'
  BY DEF OneCouncil, Matches
<1> QED BY <1>1, OneGoesOn

LEMMA OneTalks ==
  ASSUME NEW S, NEW R, NEW D, CouncilInv(S, R), OneCouncil(S, R, D), NEW f \in FollowUps,
         Council(S, R, D)!SendFollowUp(f)
  PROVE  OneCouncil(S, R, D)'
<1>1. session.mode /\ UNCHANGED <<session, row, start, retry>>
  BY DEF Council!SendFollowUp
<1>2. PICK b \in Branches(S) : b = session.active /\ b[1] = session.council
  <2>1. session.active \in Branches(S)
    BY <1>1, OneIsWorkedOn
  <2>2. session.active[1] = session.council
    BY <1>1 DEF OneCouncil, Matches
  <2> QED BY <2>1, <2>2
<1>3. \A c \in Branches(S) \ {b} : branch'[c] = branch[c]
  BY <1>2 DEF Council!SendFollowUp, CouncilInv, CouncilTypes
<1>4. \A q \in R : retry'[q].pc # "failed"
  BY <1>1 DEF OneCouncil
<1> QED BY <1>1, <1>2, <1>3, <1>4, OneTurn

LEMMA OneRetries ==
  ASSUME NEW S, NEW R, NEW D, D = {"overlap", "failure"}, CouncilInv(S, R), OneCouncil(S, R, D),
         NEW q \in R, Council(S, R, D)!RetryStep(q)
  PROVE  OneCouncil(S, R, D)'
<1>0. CouncilTypes(S, R) /\ retry[q] \in RetryType(S)
  BY DEF CouncilInv, CouncilTypes
<1>1. ~Council(S, R, D)!RetryFails(q) /\ ~Council(S, R, D)!CommitFailedRetry(q)
  BY DEF Council!RetryFails, Council!CommitFailedRetry, OneCouncil
<1>2. CASE Council(S, R, D)!RetryAnswers(q) \/ Council(S, R, D)!RetryStamps(q)
  <2>1. Working(q) /\ UNCHANGED <<session, row, start>>
    BY <1>2 DEF Council!RetryAnswers, Council!RetryStamps, Working
  <2>2. PICK b \in Branches(S) : b = retry[q].branch /\ b[1] = session.council /\ session.mode
    BY <2>1, OneIsWorkedOn
  <2>3. \A c \in Branches(S) \ {b} : branch'[c] = branch[c]
    BY <1>0, <1>2, <2>2 DEF Council!RetryAnswers, Council!RetryStamps, CouncilTypes
  <2>4. retry'[q].pc \in {"answered", "stamped"} /\ \A r \in R \ {q} : retry'[r] = retry[r]
    <3>1. PICK answered, stamped :
            /\ answered = [retry[q] EXCEPT !.pc = "answered", !.answer = nextId]
            /\ stamped = [retry[q] EXCEPT !.pc = "stamped"]
      OBVIOUS
    <3>2. answered.pc = "answered" /\ stamped.pc = "stamped"
      BY <1>0, <3>1 DEF RetryType
    <3>3. retry' = [retry EXCEPT ![q] = answered] \/ retry' = [retry EXCEPT ![q] = stamped]
      BY <1>0, <1>2, <3>1 DEF Council!RetryAnswers, Council!RetryStamps, CouncilTypes
    <3> QED BY <1>0, <3>2, <3>3 DEF CouncilTypes
  <2>5. \A r \in R : retry'[r].pc # "failed"
    BY <2>4 DEF OneCouncil
  <2> QED BY <2>1, <2>2, <2>3, <2>5, OneTurn
<1>3. CASE Council(S, R, D)!CommitRetry(q)
  <2>1. PICK b \in Branches(S) : b = retry[q].branch /\ b[1] = session.council /\ session.mode
    BY <1>3, OneIsWorkedOn DEF Council!CommitRetry, Working
  <2>2. PICK now, cands, free :
          /\ cands = [retry[q].cands EXCEPT ![b[2]] = retry[q].answer]
          /\ now = [saved |-> TRUE, cands |-> cands, active |-> b, text |-> <<b, retry[q].answer>>]
          /\ free = [Council(S, R, D)!NoRetry EXCEPT !.pc = "done"]
    OBVIOUS
  <2>3. /\ row' = [row EXCEPT ![b[1]] = now] /\ retry' = [retry EXCEPT ![q] = free]
        /\ session' = [session EXCEPT !.active = b] /\ UNCHANGED <<branch, start>>
    BY <1>3, <2>1, <2>2 DEF Council!CommitRetry
  <2>4. session'.active = b /\ session'.mode /\ session'.council = session.council
    BY <1>0, <2>1, <2>3 DEF CouncilTypes, Session
  <2>5. b[1] \in S /\ b[2] \in Personas /\ cands[b[2]] = retry[q].answer
    BY <1>0, <2>2 DEF Branches, RetryType, Cands
  <2>6. row'[b[1]] = now /\ now.active = b /\ now.text = <<b, now.cands[b[2]]>>
    BY <1>0, <2>2, <2>3, <2>5 DEF CouncilTypes
  <2>7. Matches(session.council, session.active)'
    BY <2>1, <2>4, <2>6 DEF Matches
  <2>8. free.pc = "done"
    BY <2>2 DEF Council!NoRetry
  <2>9. \A r \in R : retry'[r].pc # "failed"
    BY <1>0, <2>3, <2>8 DEF OneCouncil, CouncilTypes
  <2> QED BY <2>1, <2>3, <2>4, <2>7, <2>9, OneGoesOn
<1> QED BY <1>1, <1>2, <1>3 DEF Council!RetryStep

LEMMA OneCouncilStep ==
  ASSUME NEW S, NEW R, NEW D, D = {"overlap", "failure"}, CouncilInv(S, R), OneCouncil(S, R, D),
         Council(S, R, D)!Next
  PROVE  OneCouncil(S, R, D)'
<1>1. Council(S, R, D)!Personas = Personas /\ Council(S, R, D)!Branches = Branches(S)
  BY PersonasOf
<1>2. ~Council(S, R, D)!ServerRestart
  BY DEF Council!ServerRestart
<1>3. ASSUME NEW s \in S, Council(S, R, D)!StartCouncil(s) \/ Council(S, R, D)!StartStep(s)
      PROVE  OneCouncil(S, R, D)'
  BY <1>1, <1>3, OneStarts, OneIsAsked, OneIsSaved, OneIsEntered DEF Council!StartStep
<1>4. ASSUME NEW q \in R, NEW b \in Branches(S), Council(S, R, D)!BeginRetry(q, b)
      PROVE  OneCouncil(S, R, D)'
  <2>1. /\ session.mode /\ b[1] = session.council /\ UNCHANGED <<session, row, start, branch>>
        /\ \E now : now.pc = "asking" /\ retry' = [retry EXCEPT ![q] = now]
    BY <1>4 DEF Council!BeginRetry, Council!IsCandidate
  <2>2. \A r \in R : retry'[r].pc # "failed"
    BY <2>1 DEF OneCouncil, CouncilInv, CouncilTypes
  <2> QED BY <2>1, <2>2, OneTurn
<1> QED BY <1>1, <1>2, <1>3, <1>4, OneSelects, OneTalks, OneRetries DEF Council!Next

LEMMA OneInit ==
  ASSUME NEW S, NEW R, NEW D, Council(S, R, D)!Init
  PROVE  OneCouncil(S, R, D)
<1>1. /\ session = [mode |-> FALSE, active |-> NoBranch, council |-> NoStart]
      /\ \A s \in S : start[s].pc = "none"
      /\ \A q \in R : retry[q].pc = "none"
      /\ \A b \in Branches(S) : branch[b].turns = {}
  BY PersonasOf DEF Council!Init, Council!NoRetry, Council!NoChild
<1> QED BY <1>1 DEF OneCouncil, Working

LEMMA RowOfSession ==
  ASSUME NEW S, NEW R, NEW D, OneCouncil(S, R, D)
  PROVE  Council(S, R, D)!RowMatchesSession
BY DEF OneCouncil, Matches, Council!RowMatchesSession

-----------------------------------------------------------------------------
Calm == {"overlap", "failure"}
Stormy == {"restart", "retry", "overlap", "failure"}

ScenesInv ==
  /\ scene = "overlap" => CouncilInv(Starts, Retries) /\ OneCouncil(Starts, Retries, Calm)
  /\ scene = "storm" => CouncilInv(StormStarts, StormRetries)

\* The instances of the composition are the council of their requests.
LEMMA OverlapIsCouncil ==
  /\ Overlap!Init = Council(Starts, Retries, Calm)!Init
  /\ Overlap!Next = Council(Starts, Retries, Calm)!Next
<1>0. Overlap!Init = Council(Starts, Retries, Calm)!Init
  BY DEF Overlap!Init, Council!Init, Overlap!Branches, Council!Branches, Overlap!Personas,
  Council!Personas, Overlap!NoRow, Council!NoRow, Overlap!NoChild, Council!NoChild,
  Overlap!NoRetry, Council!NoRetry, Overlap!Failure, Council!Failure, Overlap!Unanswered,
  Council!Unanswered
<1>1. \A s :
        Overlap!StartCouncil(s) <=> Council(Starts, Retries, Calm)!StartCouncil(s)
  BY DEF Calm, Overlap!StartCouncil, Council!StartCouncil, Overlap!Branches, Council!Branches,
  Overlap!Personas, Council!Personas, Overlap!NoChild, Council!NoChild, Overlap!Unanswered,
  Council!Unanswered, Overlap!Clone, Council!Clone, Overlap!Cardinality, Council!Cardinality
<1>2. \A s, p :
        Overlap!BranchAnswers(s, p) <=> Council(Starts, Retries, Calm)!BranchAnswers(s, p)
  BY DEF Calm, Overlap!BranchAnswers, Council!BranchAnswers
<1>3. \A s, p :
        Overlap!BranchFails(s, p) <=> Council(Starts, Retries, Calm)!BranchFails(s, p)
  BY DEF Calm, Overlap!BranchFails, Council!BranchFails
<1>4. \A s :
        Overlap!SaveCouncilRow(s) <=> Council(Starts, Retries, Calm)!SaveCouncilRow(s)
  BY DEF Calm, Overlap!SaveCouncilRow, Council!SaveCouncilRow, Overlap!FirstAnswered,
  Council!FirstAnswered, Overlap!Personas, Council!Personas, Overlap!Failure, Council!Failure,
  Overlap!Min, Council!Min
<1>5. \A s :
        Overlap!EnterCouncil(s) <=> Council(Starts, Retries, Calm)!EnterCouncil(s)
  BY DEF Calm, Overlap!EnterCouncil, Council!EnterCouncil, Overlap!FirstAnswered,
  Council!FirstAnswered, Overlap!Personas, Council!Personas, Overlap!Failure, Council!Failure,
  Overlap!Min, Council!Min
<1>6. \A b :
        Overlap!SelectBranch(b) <=> Council(Starts, Retries, Calm)!SelectBranch(b)
  BY DEF Calm, Overlap!SelectBranch, Council!SelectBranch, Overlap!IsCandidate,
  Council!IsCandidate
<1>7. \A f :
        Overlap!SendFollowUp(f) <=> Council(Starts, Retries, Calm)!SendFollowUp(f)
  BY DEF Calm, Overlap!SendFollowUp, Council!SendFollowUp, Overlap!Branches, Council!Branches,
  Overlap!Personas, Council!Personas
<1>8. \A q, b :
        Overlap!BeginRetry(q, b) <=> Council(Starts, Retries, Calm)!BeginRetry(q, b)
  BY DEF Calm, Overlap!BeginRetry, Council!BeginRetry, Overlap!IsCandidate, Council!IsCandidate,
  Overlap!Failure, Council!Failure
<1>9. \A q :
        Overlap!RetryAnswers(q) <=> Council(Starts, Retries, Calm)!RetryAnswers(q)
  BY DEF Calm, Overlap!RetryAnswers, Council!RetryAnswers
<1>10. \A q :
        Overlap!RetryStamps(q) <=> Council(Starts, Retries, Calm)!RetryStamps(q)
  BY DEF Calm, Overlap!RetryStamps, Council!RetryStamps, Overlap!Max, Council!Max
<1>11. \A q :
        Overlap!RetryFails(q) <=> Council(Starts, Retries, Calm)!RetryFails(q)
  BY DEF Calm, Overlap!RetryFails, Council!RetryFails
<1>12. \A q :
        Overlap!CommitRetry(q) <=> Council(Starts, Retries, Calm)!CommitRetry(q)
  BY DEF Calm, Overlap!CommitRetry, Council!CommitRetry, Overlap!NoRetry, Council!NoRetry,
  Overlap!NoRow, Council!NoRow, Overlap!Personas, Council!Personas, Overlap!Failure,
  Council!Failure
<1>13. \A q :
        Overlap!CommitFailedRetry(q) <=> Council(Starts, Retries, Calm)!CommitFailedRetry(q)
  BY DEF Calm, Overlap!CommitFailedRetry, Council!CommitFailedRetry, Overlap!NoRetry,
  Council!NoRetry, Overlap!NoRow, Council!NoRow, Overlap!Personas, Council!Personas,
  Overlap!Failure, Council!Failure, Overlap!Flush, Council!Flush
<1>14. Overlap!ServerRestart <=> Council(Starts, Retries, Calm)!ServerRestart
  BY DEF Calm, Overlap!ServerRestart, Council!ServerRestart, Overlap!NoRetry, Council!NoRetry,
  Overlap!NoRow, Council!NoRow, Overlap!Personas, Council!Personas, Overlap!Failure,
  Council!Failure
<1>15. /\ Overlap!Personas = Council(Starts, Retries, Calm)!Personas
       /\ Overlap!Branches = Council(Starts, Retries, Calm)!Branches
  BY DEF Overlap!Personas, Council!Personas, Overlap!Branches, Council!Branches
<1> QED
  BY <1>0, <1>1, <1>2, <1>3, <1>4, <1>5, <1>6, <1>7, <1>8, <1>9, <1>10, <1>11, <1>12, <1>13,
  <1>14, <1>15
     DEF Overlap!Next, Council!Next, Overlap!StartStep, Council!StartStep, Overlap!RetryStep,
     Council!RetryStep

LEMMA StormIsCouncil ==
  /\ Storm!Init = Council(StormStarts, StormRetries, Stormy)!Init
  /\ Storm!Next = Council(StormStarts, StormRetries, Stormy)!Next
<1>0. Storm!Init = Council(StormStarts, StormRetries, Stormy)!Init
  BY DEF Storm!Init, Council!Init, Storm!Branches, Council!Branches, Storm!Personas,
  Council!Personas, Storm!NoRow, Council!NoRow, Storm!NoChild, Council!NoChild, Storm!NoRetry,
  Council!NoRetry, Storm!Failure, Council!Failure, Storm!Unanswered, Council!Unanswered
<1>1. \A s :
        Storm!StartCouncil(s) <=> Council(StormStarts, StormRetries, Stormy)!StartCouncil(s)
  BY DEF Stormy, Storm!StartCouncil, Council!StartCouncil, Storm!Branches, Council!Branches,
  Storm!Personas, Council!Personas, Storm!NoChild, Council!NoChild, Storm!Unanswered,
  Council!Unanswered, Storm!Clone, Council!Clone, Storm!Cardinality, Council!Cardinality
<1>2. \A s, p :
        Storm!BranchAnswers(s, p) <=> Council(StormStarts, StormRetries, Stormy)!BranchAnswers(s, p)
  BY DEF Stormy, Storm!BranchAnswers, Council!BranchAnswers
<1>3. \A s, p :
        Storm!BranchFails(s, p) <=> Council(StormStarts, StormRetries, Stormy)!BranchFails(s, p)
  BY DEF Stormy, Storm!BranchFails, Council!BranchFails
<1>4. \A s :
        Storm!SaveCouncilRow(s) <=> Council(StormStarts, StormRetries, Stormy)!SaveCouncilRow(s)
  BY DEF Stormy, Storm!SaveCouncilRow, Council!SaveCouncilRow, Storm!FirstAnswered,
  Council!FirstAnswered, Storm!Personas, Council!Personas, Storm!Failure, Council!Failure,
  Storm!Min, Council!Min
<1>5. \A s :
        Storm!EnterCouncil(s) <=> Council(StormStarts, StormRetries, Stormy)!EnterCouncil(s)
  BY DEF Stormy, Storm!EnterCouncil, Council!EnterCouncil, Storm!FirstAnswered,
  Council!FirstAnswered, Storm!Personas, Council!Personas, Storm!Failure, Council!Failure,
  Storm!Min, Council!Min
<1>6. \A b :
        Storm!SelectBranch(b) <=> Council(StormStarts, StormRetries, Stormy)!SelectBranch(b)
  BY DEF Stormy, Storm!SelectBranch, Council!SelectBranch, Storm!IsCandidate, Council!IsCandidate
<1>7. \A f :
        Storm!SendFollowUp(f) <=> Council(StormStarts, StormRetries, Stormy)!SendFollowUp(f)
  BY DEF Stormy, Storm!SendFollowUp, Council!SendFollowUp, Storm!Branches, Council!Branches,
  Storm!Personas, Council!Personas
<1>8. \A q, b :
        Storm!BeginRetry(q, b) <=> Council(StormStarts, StormRetries, Stormy)!BeginRetry(q, b)
  BY DEF Stormy, Storm!BeginRetry, Council!BeginRetry, Storm!IsCandidate, Council!IsCandidate,
  Storm!Failure, Council!Failure
<1>9. \A q :
        Storm!RetryAnswers(q) <=> Council(StormStarts, StormRetries, Stormy)!RetryAnswers(q)
  BY DEF Stormy, Storm!RetryAnswers, Council!RetryAnswers
<1>10. \A q :
        Storm!RetryStamps(q) <=> Council(StormStarts, StormRetries, Stormy)!RetryStamps(q)
  BY DEF Stormy, Storm!RetryStamps, Council!RetryStamps, Storm!Max, Council!Max
<1>11. \A q :
        Storm!RetryFails(q) <=> Council(StormStarts, StormRetries, Stormy)!RetryFails(q)
  BY DEF Stormy, Storm!RetryFails, Council!RetryFails
<1>12. \A q :
        Storm!CommitRetry(q) <=> Council(StormStarts, StormRetries, Stormy)!CommitRetry(q)
  BY DEF Stormy, Storm!CommitRetry, Council!CommitRetry, Storm!NoRetry, Council!NoRetry,
  Storm!NoRow, Council!NoRow, Storm!Personas, Council!Personas, Storm!Failure, Council!Failure
<1>13. \A q :
        Storm!CommitFailedRetry(q)
           <=> Council(StormStarts, StormRetries, Stormy)!CommitFailedRetry(q)
  BY DEF Stormy, Storm!CommitFailedRetry, Council!CommitFailedRetry, Storm!NoRetry,
  Council!NoRetry, Storm!NoRow, Council!NoRow, Storm!Personas, Council!Personas, Storm!Failure,
  Council!Failure, Storm!Flush, Council!Flush
<1>14. Storm!ServerRestart <=> Council(StormStarts, StormRetries, Stormy)!ServerRestart
  BY DEF Stormy, Storm!ServerRestart, Council!ServerRestart, Storm!NoRetry, Council!NoRetry,
  Storm!NoRow, Council!NoRow, Storm!Personas, Council!Personas, Storm!Failure, Council!Failure
<1>15. /\ Storm!Personas = Council(StormStarts, StormRetries, Stormy)!Personas
       /\ Storm!Branches = Council(StormStarts, StormRetries, Stormy)!Branches
  BY DEF Storm!Personas, Council!Personas, Storm!Branches, Council!Branches
<1> QED
  BY <1>0, <1>1, <1>2, <1>3, <1>4, <1>5, <1>6, <1>7, <1>8, <1>9, <1>10, <1>11, <1>12, <1>13,
  <1>14, <1>15
     DEF Storm!Next, Council!Next, Storm!StartStep, Council!StartStep, Storm!RetryStep,
     Council!RetryStep

LEMMA ScenesStep ==
  ASSUME ScenesInv, [ChatNext]_allVars
  PROVE  ScenesInv'
<1>1. scene' = scene
  BY DEF ChatNext, allVars
<1>2. CASE scene = "overlap"
  <2>1. CASE Overlap!Next
    BY <1>1, <1>2, <2>1, OverlapIsCouncil, CouncilStep, OneCouncilStep DEF ScenesInv, Calm
  <2>2. CASE UNCHANGED councilVars
    BY <1>1, <1>2, <2>2
       DEF ScenesInv, councilVars, CouncilInv, CouncilTypes, IdsInOrder, AnswersGiven, Entered,
           OneCouncil, Gave, Working, Matches
  <2> QED BY <1>2, <2>1, <2>2 DEF ChatNext, allVars
<1>3. CASE scene = "storm"
  <2>1. CASE Storm!Next
    BY <1>1, <1>3, <2>1, StormIsCouncil, CouncilStep DEF ScenesInv
  <2>2. CASE UNCHANGED councilVars
    BY <1>1, <1>3, <2>2
       DEF ScenesInv, councilVars, CouncilInv, CouncilTypes, IdsInOrder, AnswersGiven, Entered,
           Gave, Working
  <2> QED BY <1>3, <2>1, <2>2 DEF ChatNext, allVars
<1>4. CASE scene \notin {"overlap", "storm"}
  BY <1>1, <1>4 DEF ScenesInv
<1> QED BY <1>2, <1>3, <1>4

LEMMA ScenesHold == ChatSpec => []ScenesInv
<1>1. ChatInit => ScenesInv
  BY OverlapIsCouncil, StormIsCouncil, CouncilInit, OneInit DEF ChatInit, ScenesInv
<1>2. ScenesInv /\ [ChatNext]_allVars => ScenesInv'
  BY ScenesStep
<1> QED BY <1>1, <1>2, PTL DEF ChatSpec

\* Candidates are answers of their own branches, and the row shows the branch that is active
\* in the session, for any number of experts, requests and follow-ups.
THEOREM CouncilRowIsSound == ChatSpec => []CouncilRowSound
<1>1. ScenesInv => CouncilRowSound
  <2>1. /\ Overlap!CandidatesAreReal = Council(Starts, Retries, Calm)!CandidatesAreReal
        /\ Storm!CandidatesAreReal = Council(StormStarts, StormRetries, Stormy)!CandidatesAreReal
    BY DEF Overlap!CandidatesAreReal, Storm!CandidatesAreReal, Council!CandidatesAreReal,
           Overlap!Personas, Storm!Personas, Council!Personas,
           Overlap!Failure, Storm!Failure, Council!Failure
  <2>2. Overlap!RowMatchesSession = Council(Starts, Retries, Calm)!RowMatchesSession
    BY DEF Overlap!RowMatchesSession, Council!RowMatchesSession
  <2> QED BY <2>1, <2>2, CandidatesGiven, RowOfSession DEF ScenesInv, CouncilRowSound
<1> QED BY <1>1, ScenesHold, PTL

\* The turns a branch was cloned from are not shown again once it has answered: their numbers
\* are below its start, for any number of experts and turns.
THEOREM BranchesAreShownOnce == ChatSpec => []AnsweredBranchShownOnce
<1>1. ScenesInv => AnsweredBranchShownOnce
  <2>1. /\ Overlap!AnsweredBranchShownOnce
             = Council(Starts, Retries, Calm)!AnsweredBranchShownOnce
        /\ Storm!AnsweredBranchShownOnce
             = Council(StormStarts, StormRetries, Stormy)!AnsweredBranchShownOnce
    BY DEF Overlap!AnsweredBranchShownOnce, Storm!AnsweredBranchShownOnce,
           Council!AnsweredBranchShownOnce, Overlap!ShownOnce, Storm!ShownOnce,
           Council!ShownOnce, Overlap!Shown, Storm!Shown, Council!Shown,
           Overlap!Unanswered, Storm!Unanswered, Council!Unanswered
  <2> QED BY <2>1, BranchShownOnce DEF ScenesInv, AnsweredBranchShownOnce
<1> QED BY <1>1, ScenesHold, PTL

-----------------------------------------------------------------------------
(* The unread list *)

Rows == Items \cup {List!Start}
PageType == [pc : {"none", "sent", "served"}, cursor : Rows, replace : BOOLEAN,
             page : SUBSET Items, more : BOOLEAN, next : Rows, since : SUBSET Items]

ListTypes ==
  /\ listed \subseteq Items /\ shown \subseteq Items /\ steady \subseteq listed
  /\ read \subseteq Items /\ marking \subseteq read
  /\ cursor \in Rows /\ hasMore \in BOOLEAN /\ loading \in BOOLEAN
  /\ page \in [PageCalls -> PageType]

\* A refresh is alone: it has set loading, and what it asks for a page is on its way alone.
RefreshAlone ==
  \A q \in List!InFlight : page[q].replace =>
    loading /\ List!InFlight = {q} /\ page[q].cursor = List!Start
            /\ page[q].since \subseteq listed \cup read

\* Nothing between the first row of a list and a cursor has been passed over.
Reached(c, S, T) == c # List!Start => \A i \in S : List!After(c, i) \/ i \in T

\* What a page that was served leaves out comes after it.
PageCovers(q) ==
  LET covered == page[q].page \cup read \cup (IF page[q].replace THEN {} ELSE shown)
      wanted == IF page[q].replace THEN page[q].since ELSE steady
  IN IF page[q].more THEN page[q].next # List!Start /\ Reached(page[q].next, wanted, covered)
     ELSE wanted \subseteq covered

NothingPassed ==
  /\ Reached(cursor, steady, shown \cup read)
  /\ ~hasMore => steady \subseteq shown \cup read
  /\ state = "endOfFeed" => ~hasMore
  /\ \A q \in List!InFlight :
       ~page[q].replace => Reached(page[q].cursor, steady, shown \cup read)
  /\ \A q \in PageCalls : page[q].pc = "served" => PageCovers(q)

ListInv == ListTypes /\ RefreshAlone /\ NothingPassed

-----------------------------------------------------------------------------
LEMMA LastOf ==
  ASSUME NEW S \in SUBSET Items, S # {}
  PROVE  List!Last(S) \in S /\ \A j \in S \ {List!Last(S)} : List!After(j, List!Last(S))
<1> DEFINE Stamps == {Stamp[i] : i \in S}
<1>1. Stamps \in SUBSET Nat /\ Stamps # {}
  BY ListAssumption
<1>2. PICK t \in Stamps : \A u \in Stamps : t <= u
  BY <1>1, LeastOf
<1> DEFINE Eldest == {i \in S : Stamp[i] = t}
<1>3. Eldest \in SUBSET Nat /\ Eldest # {}
  BY <1>2, ListAssumption
<1>4. PICK i \in Eldest : \A j \in Eldest : i <= j
  BY <1>3, LeastOf
<1>5. \A j \in S \ {i} : List!After(j, i)
  <2> TAKE j \in S \ {i}
  <2>1. Stamp[j] \in Nat /\ Stamp[i] \in Nat /\ j \in Nat /\ i \in Nat /\ Stamp[i] = t
    BY ListAssumption
  <2>2. t <= Stamp[j]
    BY <1>2
  <2>3. Stamp[j] = t => i <= j /\ i # j
    BY <1>4
  <2> HIDE DEF Stamps, Eldest
  <2> QED BY <2>1, <2>2, <2>3 DEF List!After
<1> QED BY <1>5 DEF List!Last

\* The first rows of a list, as many as one asks for: there are such rows.
LEMMA RowsExist ==
  ASSUME NEW S \in SUBSET Items, NEW n \in Nat, n <= Cardinality(S)
  PROVE  \E P \in SUBSET S : Cardinality(P) = n /\ \A i \in P, j \in S \ P : List!After(i, j)
<1> DEFINE Ahead(X) == \A i \in X, j \in S \ X : List!After(i, j)
           Sizes == {m \in Nat : m >= n /\ \E X \in SUBSET S : Cardinality(X) = m /\ Ahead(X)}
<1>1. IsFiniteSet(S) /\ \A P \in SUBSET S : IsFiniteSet(P) /\ Cardinality(P) \in Nat
  BY ListAssumption, FS_Subset, FS_CardinalityType
<1>2. Ahead(S)
  OBVIOUS
<1>3. Sizes \in SUBSET Nat /\ Cardinality(S) \in Sizes
  BY <1>1, <1>2
<1>4. PICK m \in Sizes : \A k \in Sizes : m <= k
  BY <1>3, LeastOf
<1>5. PICK P \in SUBSET S : Cardinality(P) = m /\ Ahead(P)
  BY <1>4
<1>6. m \in Nat /\ m >= n
  BY <1>4
<1>7. CASE m = n
  BY <1>5, <1>7
<1>8. CASE m > n
  <2> DEFINE l == List!Last(P)
             Q == P \ {l}
  <2>1. P # {} /\ P \in SUBSET Items
    BY <1>1, <1>5, <1>6, <1>8, FS_EmptySet
  <2>2. l \in P /\ \A j \in Q : List!After(j, l)
    BY <2>1, LastOf
  <2>3. Cardinality(Q) = m - 1
    BY <1>1, <1>5, <2>2, FS_RemoveElement
  <2>4. Ahead(Q)
    BY <1>5, <2>2
  <2>5. m - 1 \in Sizes
    BY <2>3, <2>4, <1>6, <1>8
  <2> QED BY <2>5, <1>4, <1>6
<1> QED BY <1>6, <1>7, <1>8

LEMMA FirstOf ==
  ASSUME NEW S \in SUBSET Items, NEW n \in Nat
  PROVE  /\ List!First(S, n) \in SUBSET S
         /\ \A i \in List!First(S, n), j \in S \ List!First(S, n) : List!After(i, j)
         /\ Cardinality(S) <= n => List!First(S, n) = S
         /\ Cardinality(S) > n => Cardinality(List!First(S, n)) = n
<1>0. Cardinality(S) \in Nat
  BY ListAssumption, FS_Subset, FS_CardinalityType
<1>1. CASE Cardinality(S) <= n
  BY <1>1, <1>0 DEF List!First, List!Cardinality, Cardinality
<1>2. CASE Cardinality(S) > n
  <2> DEFINE K == List!kSubset(n, S)
             Good(X) == \A i \in X, j \in S \ X : List!After(i, j)
  <2>1. PICK P \in SUBSET S : Cardinality(P) = n /\ Good(P)
    BY <1>0, <1>2, RowsExist
  <2>2. \A X : X \in K <=> X \in SUBSET S /\ Cardinality(X) = n
    BY DEF List!kSubset, List!Cardinality, Cardinality
  <2>3. ~(List!Cardinality(S) <= n)
    BY <1>0, <1>2 DEF List!Cardinality, Cardinality
  <2>4. List!First(S, n) = CHOOSE Q \in K : Good(Q)
    BY <2>3, Zenon DEF List!First
  <2> HIDE DEF K, Good
  <2>5. List!First(S, n) \in K /\ Good(List!First(S, n))
    BY <2>1, <2>2, <2>4
  <2> QED BY <1>0, <1>2, <2>2, <2>5 DEF Good
<1> QED BY <1>0, <1>1, <1>2

\* A page leaves out only what comes after its last row, and then says there is more.
LEMMA PageOf ==
  ASSUME NEW S \in SUBSET Items,
         NEW found, found = List!First(S, Limit + 1), NEW pg, pg = List!First(found, Limit)
  PROVE  /\ pg \in SUBSET Items
         /\ List!Cardinality(found) > Limit =>
              List!Last(pg) \in Items /\ \A i \in S : i \in pg \/ List!After(List!Last(pg), i)
         /\ ~(List!Cardinality(found) > Limit) => S \subseteq pg
<1>1. Limit \in Nat \ {0} /\ Limit + 1 \in Nat
  BY ListAssumption
<1>2. \A T \in SUBSET Items : IsFiniteSet(T) /\ Cardinality(T) \in Nat
  BY ListAssumption, FS_Subset, FS_CardinalityType
<1>3. List!Cardinality(found) = Cardinality(found)
  BY DEF List!Cardinality, Cardinality
<1>4. /\ found \in SUBSET S
      /\ \A i \in found, j \in S \ found : List!After(i, j)
      /\ Cardinality(S) <= Limit + 1 => found = S
      /\ Cardinality(S) > Limit + 1 => Cardinality(found) = Limit + 1
  BY <1>1, FirstOf
<1>5. found \in SUBSET Items
  BY <1>4
<1>6. /\ pg \in SUBSET found
      /\ \A i \in pg, j \in found \ pg : List!After(i, j)
      /\ Cardinality(found) <= Limit => pg = found
      /\ Cardinality(found) > Limit => Cardinality(pg) = Limit
  BY <1>1, <1>5, FirstOf
<1>7. ASSUME Cardinality(found) > Limit
      PROVE  List!Last(pg) \in Items /\ \A i \in S : i \in pg \/ List!After(List!Last(pg), i)
  <2>1. Cardinality(pg) = Limit
    BY <1>6, <1>7
  <2>2. pg # {} /\ pg \in SUBSET Items
    BY <2>1, <1>1, <1>5, <1>6, FS_EmptySet
  <2>3. List!Last(pg) \in pg
    BY <2>2, LastOf
  <2> QED BY <2>2, <2>3, <1>4, <1>6
<1>8. ASSUME ~(Cardinality(found) > Limit)
      PROVE  S \subseteq pg
  <2>1. Cardinality(found) <= Limit
    BY <1>1, <1>2, <1>5, <1>8
  <2>2. ~(Cardinality(S) > Limit + 1)
    BY <2>1, <1>1, <1>4
  <2>3. Cardinality(S) \in Nat
    BY <1>2
  <2>4. Cardinality(S) <= Limit + 1
    BY <2>2, <2>3, <1>1
  <2> QED BY <2>1, <2>4, <1>4, <1>6
<1> QED BY <1>3, <1>5, <1>6, <1>7, <1>8

LEMMA ListBegins == List!Init => ListInv
<1> SUFFICES ASSUME List!Init PROVE ListInv
  OBVIOUS
<1> USE DEF List!Init, List!NoCall, List!Start
<1>1. ListTypes
  BY DEF ListTypes, PageType, Rows
<1>2. \A q \in PageCalls : page[q].pc = "none"
  OBVIOUS
<1>3. RefreshAlone /\ NothingPassed
  BY <1>2 DEF RefreshAlone, NothingPassed, Reached, List!InFlight
<1> QED BY <1>1, <1>3 DEF ListInv

LEMMA ListServe ==
  ASSUME ListInv, NEW q \in PageCalls, List!Serve(q)
  PROVE  ListInv'
<1> USE DEF ListInv
<1> DEFINE S == List!Below(page[q].cursor)
           found == List!First(S, Limit + 1)
           pg == List!First(found, Limit)
           more == List!Cardinality(found) > Limit
           next == IF more THEN List!Last(pg) ELSE List!Start
<1>1. /\ page[q].pc = "sent" /\ UNCHANGED <<listed, shown, cursor, hasMore, loading, state, read,
                                           marking, steady>>
      /\ page' = [page EXCEPT ![q].pc = "served", ![q].page = pg, ![q].more = more,
                              ![q].next = next]
  BY DEF List!Serve, List!list
<1>2. S \in SUBSET Items
  BY DEF List!Below, ListTypes
<1>3. /\ pg \in SUBSET Items
      /\ more => List!Last(pg) \in Items /\ \A i \in S : i \in pg \/ List!After(List!Last(pg), i)
      /\ ~more => S \subseteq pg
  BY <1>2, PageOf
<1>4. \A i \in listed : i \in S \/ (page[q].cursor # List!Start /\ ~List!After(page[q].cursor, i))
  BY DEF List!Below
<1> HIDE DEF S, found, pg, more, next
<1>5. more \in BOOLEAN /\ next \in Rows
  BY <1>3 DEF more, next, Rows
<1>6. page[q] \in PageType
  BY DEF ListTypes
<1>7. PICK now : now = [page[q] EXCEPT !.pc = "served", !.page = pg, !.more = more, !.next = next]
  OBVIOUS
<1>8. now \in PageType
  BY <1>3, <1>5, <1>6, <1>7 DEF PageType
<1>9. /\ now.pc = "served" /\ now.page = pg /\ now.more = more /\ now.next = next
      /\ now.cursor = page[q].cursor /\ now.replace = page[q].replace /\ now.since = page[q].since
  BY <1>6, <1>7 DEF PageType
<1>10. page' = [page EXCEPT ![q] = now]
  BY <1>1, <1>6, <1>7 DEF ListTypes, PageType
<1>11. /\ page' \in [PageCalls -> PageType] /\ page'[q] = now
       /\ \A p \in PageCalls : p # q => page'[p] = page[p]
  BY <1>8, <1>10 DEF ListTypes
<1>12. ListTypes'
  BY <1>1, <1>11 DEF ListTypes
<1>13. List!InFlight' = List!InFlight /\ q \in List!InFlight
  BY <1>1, <1>9, <1>11 DEF List!InFlight
<1>14. RefreshAlone'
  BY <1>1, <1>9, <1>11, <1>13 DEF RefreshAlone, List!InFlight
<1>15. PageCovers(q)'
  <2>1. CASE page[q].replace
    <3>1. page[q].cursor = List!Start /\ page[q].since \subseteq listed \cup read
      BY <2>1, <1>13 DEF RefreshAlone
    <3>2. \A i \in page[q].since : i \in S \/ i \in read
      BY <3>1, <1>4
    <3> QED BY <2>1, <3>2, <1>1, <1>3, <1>9, <1>11, ListAssumption
            DEF PageCovers, Reached, next, List!Start
  <2>2. CASE ~page[q].replace
    <3>1. Reached(page[q].cursor, steady, shown \cup read)
      BY <2>2, <1>13 DEF NothingPassed
    <3>2. \A i \in steady : i \in S \/ i \in shown \cup read
      BY <3>1, <1>4 DEF Reached, ListTypes
    <3> QED BY <2>2, <3>2, <1>1, <1>3, <1>9, <1>11, ListAssumption
            DEF PageCovers, Reached, next, List!Start
  <2> QED BY <2>1, <2>2
<1>16. \A p \in PageCalls : p # q /\ PageCovers(p) => PageCovers(p)'
  BY <1>1, <1>11 DEF PageCovers, Reached
<1>17. NothingPassed'
  BY <1>1, <1>9, <1>11, <1>13, <1>15, <1>16 DEF NothingPassed, Reached, List!InFlight
<1> QED BY <1>12, <1>14, <1>17

LEMMA PageIsSent ==
  ASSUME ListTypes, NEW q \in PageCalls, NEW c \in Rows, NEW replace \in BOOLEAN,
         List!Send(q, c, replace)
  PROVE  /\ page' \in [PageCalls -> PageType] /\ q \notin List!InFlight
         /\ List!InFlight' = List!InFlight \cup {q}
         /\ page'[q].pc = "sent" /\ page'[q].cursor = c /\ page'[q].replace = replace
         /\ page'[q].since = listed
         /\ \A p \in PageCalls : p # q => page'[p] = page[p]
<1>1. PICK now : now = [List!NoCall EXCEPT !.pc = "sent", !.cursor = c, !.replace = replace,
                                           !.since = listed]
  OBVIOUS
<1>2. now \in PageType /\ now.pc = "sent" /\ now.cursor = c /\ now.replace = replace
      /\ now.since = listed
  BY <1>1 DEF PageType, List!NoCall, Rows, ListTypes
<1>3. page' = [page EXCEPT ![q] = now] /\ q \notin List!InFlight
  BY <1>1 DEF List!Send
<1>4. /\ page' \in [PageCalls -> PageType] /\ page'[q] = now
      /\ \A p \in PageCalls : p # q => page'[p] = page[p]
  BY <1>2, <1>3 DEF ListTypes
<1>5. List!InFlight' = List!InFlight \cup {q}
  BY <1>2, <1>4 DEF List!InFlight
<1> QED BY <1>2, <1>3, <1>4, <1>5

LEMMA ListStart ==
  ASSUME ListInv, NEW q \in PageCalls, List!StartInitialLoad(q)
  PROVE  ListInv'
<1> USE DEF ListInv
<1>1. /\ List!Send(q, List!Start, FALSE) /\ List!InFlight = {}
      /\ shown' = {} /\ cursor' = List!Start /\ hasMore' = TRUE /\ loading' = TRUE
      /\ state' = "initialLoading" /\ steady' = listed /\ UNCHANGED <<listed, read, marking>>
  BY DEF List!StartInitialLoad, List!Disturb
<1>2. List!Start \in Rows
  BY DEF Rows
<1>3. /\ page' \in [PageCalls -> PageType]
      /\ List!InFlight' = {q} /\ page'[q].pc = "sent" /\ page'[q].cursor = List!Start
      /\ ~page'[q].replace /\ \A p \in PageCalls : p # q => page'[p] = page[p]
  BY <1>1, <1>2, PageIsSent
<1>4. ListTypes'
  BY <1>1, <1>2, <1>3 DEF ListTypes
<1>5. RefreshAlone'
  BY <1>3 DEF RefreshAlone
<1>6. \A p \in PageCalls : page'[p].pc # "served"
  BY <1>1, <1>3 DEF List!InFlight
<1>7. NothingPassed'
  BY <1>1, <1>3, <1>6 DEF NothingPassed, Reached
<1> QED BY <1>4, <1>5, <1>7

LEMMA ListRefresh ==
  ASSUME ListInv, NEW q \in PageCalls, List!RefreshInBackground(q)
  PROVE  ListInv'
<1> USE DEF ListInv
<1>1. /\ List!Send(q, List!Start, TRUE) /\ List!InFlight = {} /\ loading' = TRUE
      /\ UNCHANGED <<listed, shown, cursor, hasMore, state, read, marking, steady>>
  BY DEF List!RefreshInBackground, List!Disturb
<1>2. List!Start \in Rows
  BY DEF Rows
<1>3. /\ page' \in [PageCalls -> PageType]
      /\ List!InFlight' = {q} /\ page'[q].pc = "sent" /\ page'[q].cursor = List!Start
      /\ page'[q].replace /\ page'[q].since = listed
      /\ \A p \in PageCalls : p # q => page'[p] = page[p]
  BY <1>1, <1>2, PageIsSent
<1>4. ListTypes'
  BY <1>1, <1>3 DEF ListTypes
<1>5. RefreshAlone'
  BY <1>1, <1>3 DEF RefreshAlone
<1>6. \A p \in PageCalls : page'[p].pc # "served"
  BY <1>1, <1>3 DEF List!InFlight
<1>7. NothingPassed'
  BY <1>1, <1>3, <1>6 DEF NothingPassed, Reached
<1> QED BY <1>4, <1>5, <1>7

LEMMA ListLoad ==
  ASSUME ListInv, NEW q \in PageCalls, List!LoadNextPage(q)
  PROVE  ListInv'
<1> USE DEF ListInv
<1>1. /\ List!Send(q, cursor, FALSE) /\ ~loading /\ state' = "loadingMore"
      /\ UNCHANGED <<listed, shown, cursor, hasMore, loading, read, marking, steady>>
  BY DEF List!LoadNextPage
<1>2. /\ page' \in [PageCalls -> PageType] /\ List!InFlight' = List!InFlight \cup {q}
      /\ page'[q].pc = "sent" /\ page'[q].cursor = cursor /\ ~page'[q].replace
      /\ \A p \in PageCalls : p # q => page'[p] = page[p]
  <2>1. cursor \in Rows
    BY DEF ListTypes
  <2> QED BY <1>1, <2>1, PageIsSent
<1>3. ListTypes'
  BY <1>1, <1>2 DEF ListTypes
<1>4. \A p \in List!InFlight : ~page[p].replace
  BY <1>1 DEF RefreshAlone
<1>5. \A p \in List!InFlight' : p \in PageCalls /\ ~page'[p].replace
  BY <1>2, <1>4 DEF List!InFlight
<1>6. RefreshAlone'
  BY <1>5 DEF RefreshAlone
<1>7. \A p \in PageCalls : page'[p].pc = "served" => p # q /\ PageCovers(p) /\ PageCovers(p)'
  BY <1>1, <1>2 DEF NothingPassed, PageCovers, Reached
<1>8. \A p \in List!InFlight' : Reached(page'[p].cursor, steady, shown \cup read)
  BY <1>2, <1>4 DEF NothingPassed, List!InFlight
<1>9. NothingPassed'
  BY <1>1, <1>7, <1>8 DEF NothingPassed, Reached
<1> QED BY <1>3, <1>6, <1>9

LEMMA PageIsOver ==
  ASSUME ListTypes, NEW q \in PageCalls, page' = [page EXCEPT ![q] = List!NoCall]
  PROVE  /\ page' \in [PageCalls -> PageType] /\ page'[q].pc = "none"
         /\ List!InFlight' = List!InFlight \ {q}
         /\ \A p \in PageCalls : p # q => page'[p] = page[p]
<1>1. List!NoCall \in PageType /\ List!NoCall.pc = "none"
  BY DEF List!NoCall, PageType, Rows
<1>2. page' \in [PageCalls -> PageType] /\ page'[q].pc = "none"
  BY <1>1 DEF ListTypes
<1>3. \A p \in PageCalls : p # q => page'[p] = page[p]
  BY DEF ListTypes
<1> QED BY <1>2, <1>3 DEF List!InFlight

LEMMA ListReceive ==
  ASSUME ListInv, NEW q \in PageCalls, List!Receive(q)
  PROVE  ListInv'
<1> USE DEF ListInv
<1> DEFINE old == page[q]
<1>1. /\ old.pc = "served" /\ page' = [page EXCEPT ![q] = List!NoCall]
      /\ shown' = (IF old.replace THEN {} ELSE shown) \cup old.page
      /\ cursor' = old.next /\ hasMore' = old.more /\ loading' = FALSE
      /\ state' = (IF old.more THEN "idle" ELSE "endOfFeed")
      /\ steady' = (IF old.replace THEN old.since \cap listed ELSE steady)
      /\ UNCHANGED <<listed, read, marking>>
  BY DEF List!Receive
<1>2. old \in PageType
  BY DEF ListTypes
<1> HIDE DEF old
<1>3. /\ page' \in [PageCalls -> PageType] /\ page'[q].pc = "none"
      /\ List!InFlight' = List!InFlight \ {q}
      /\ \A p \in PageCalls : p # q => page'[p] = page[p]
  BY <1>1, PageIsOver
<1>4. q \in List!InFlight
  BY <1>1 DEF List!InFlight, old
<1>5. ListTypes'
  <2>1. old.page \in SUBSET Items /\ old.next \in Rows /\ old.more \in BOOLEAN
    BY <1>2 DEF PageType
  <2> QED BY <1>1, <1>3, <2>1 DEF ListTypes
<1>6. /\ ~old.more => steady' \subseteq shown' \cup read
      /\ Reached(old.next, steady', shown' \cup read)
  BY <1>1 DEF NothingPassed, PageCovers, Reached, old
<1>7. CASE old.replace
  <2>1. List!InFlight' = {}
    BY <1>3, <1>4, <1>7 DEF RefreshAlone, old
  <2>2. \A p \in PageCalls : page'[p].pc # "served"
    BY <2>1, <1>3 DEF List!InFlight, PageType
  <2>3. RefreshAlone'
    BY <2>1 DEF RefreshAlone
  <2>4. NothingPassed'
    BY <2>1, <2>2, <1>1, <1>6 DEF NothingPassed, Reached
  <2> QED BY <2>3, <2>4, <1>5
<1>8. CASE ~old.replace
  <2>1. \A p \in List!InFlight : p \in PageCalls /\ ~page[p].replace
    BY <1>4, <1>8 DEF RefreshAlone, List!InFlight, old
  <2>2. \A p \in List!InFlight' : p \in List!InFlight /\ page'[p] = page[p] /\ p # q
    BY <1>3, <2>1
  <2>3. RefreshAlone'
    BY <2>1, <2>2 DEF RefreshAlone
  <2>4. steady' = steady /\ shown \subseteq shown' /\ read' = read
    BY <1>1, <1>8
  <2>5. \A p \in PageCalls : page'[p].pc = "served" =>
          /\ page'[p] = page[p] /\ ~page[p].replace /\ PageCovers(p)
    BY <1>3, <2>1 DEF List!InFlight, NothingPassed
  <2>6. \A p \in PageCalls : page'[p].pc = "served" => PageCovers(p)'
    BY <2>4, <2>5 DEF PageCovers, Reached
  <2>7. \A p \in List!InFlight' : Reached(page'[p].cursor, steady', shown' \cup read')
    BY <2>1, <2>2, <2>4 DEF NothingPassed, Reached
  <2>8. NothingPassed'
    BY <2>6, <2>7, <1>1, <1>6 DEF NothingPassed, Reached
  <2> QED BY <2>3, <2>8, <1>5
<1> QED BY <1>7, <1>8

LEMMA ListFail ==
  ASSUME ListInv, NEW q \in PageCalls, List!Fail(q)
  PROVE  ListInv'
<1> USE DEF ListInv
<1>1. /\ page' = [page EXCEPT ![q] = List!NoCall] /\ loading' = FALSE /\ state' = "error"
      /\ q \in List!InFlight
      /\ UNCHANGED <<listed, shown, cursor, hasMore, read, marking, steady>>
  BY DEF List!Fail
<1>2. /\ page' \in [PageCalls -> PageType] /\ page'[q].pc = "none"
      /\ List!InFlight' = List!InFlight \ {q}
      /\ \A p \in PageCalls : p # q => page'[p] = page[p]
  BY <1>1, PageIsOver
<1>3. ListTypes'
  BY <1>1, <1>2 DEF ListTypes
<1>4. \A p \in List!InFlight' : p \in List!InFlight /\ page'[p] = page[p] /\ p # q
                                /\ ~page[p].replace
  BY <1>1, <1>2 DEF RefreshAlone, List!InFlight
<1>5. RefreshAlone'
  BY <1>4 DEF RefreshAlone
<1>6. \A p \in PageCalls : page'[p].pc = "served" => PageCovers(p) /\ PageCovers(p)'
  BY <1>1, <1>2 DEF NothingPassed, PageCovers, Reached
<1>7. NothingPassed'
  BY <1>1, <1>4, <1>6 DEF NothingPassed, Reached
<1> QED BY <1>3, <1>5, <1>7

\* What happens to the contents takes nothing from what was reached.
LEMMA ListContents ==
  ASSUME ListInv, UNCHANGED <<cursor, hasMore, loading, state, page>>,
         listed' \subseteq Items, shown' \subseteq Items, steady' \subseteq listed',
         read' \subseteq Items, marking' \subseteq read',
         steady' \subseteq steady, read \subseteq read',
         shown \cup read \subseteq shown' \cup read',
         listed \cup read \subseteq listed' \cup read'
  PROVE  ListInv'
<1> USE DEF ListInv
<1>1. ListTypes'
  BY DEF ListTypes
<1>2. List!InFlight' = List!InFlight
  BY DEF List!InFlight
<1>3. RefreshAlone'
  BY <1>2 DEF RefreshAlone
<1>4. \A q \in PageCalls : PageCovers(q) => PageCovers(q)'
  BY DEF PageCovers, Reached
<1>5. NothingPassed'
  BY <1>2, <1>4 DEF NothingPassed, Reached
<1> QED BY <1>1, <1>3, <1>5

LEMMA ListStep == ListInv /\ [List!Next]_listVars => ListInv'
<1> SUFFICES ASSUME ListInv, [List!Next]_listVars PROVE ListInv'
  OBVIOUS
<1>1. CASE UNCHANGED listVars
  <2>1. ListTypes
    BY DEF ListInv
  <2> QED BY <2>1, <1>1, ListContents DEF listVars, ListTypes
<1>2. ASSUME NEW q \in PageCalls,
             \/ List!StartInitialLoad(q) \/ List!RefreshInBackground(q) \/ List!LoadNextPage(q)
             \/ List!Serve(q) \/ List!Receive(q) \/ List!Fail(q)
      PROVE  ListInv'
  BY <1>2, ListStart, ListRefresh, ListLoad, ListServe, ListReceive, ListFail
<1>3. ASSUME NEW i \in Items,
             \/ List!Appear(i) \/ List!ReadElsewhere(i) \/ List!MarkArrives(i)
             \/ List!MarkAsRead(i) \/ List!MarkLost(i)
      PROVE  ListInv'
  <2>1. ListTypes
    BY DEF ListInv
  <2>2. CASE List!Appear(i)
    BY <2>1, <2>2, ListContents DEF List!Appear, List!list, ListTypes
  <2>3. CASE List!ReadElsewhere(i)
    BY <2>1, <2>3, ListContents DEF List!ReadElsewhere, List!list, ListTypes
  <2>4. CASE List!MarkArrives(i)
    BY <2>1, <2>4, ListContents DEF List!MarkArrives, List!list, ListTypes
  <2>5. CASE List!MarkAsRead(i)
    BY <2>1, <2>5, ListContents DEF List!MarkAsRead, ListTypes
  <2>6. CASE List!MarkLost(i)
    BY <2>1, <2>6, ListContents DEF List!MarkLost, List!list, ListTypes
  <2> QED BY <1>3, <2>2, <2>3, <2>4, <2>5, <2>6
<1> QED BY <1>1, <1>2, <1>3 DEF List!Next

\* At the end of the list nothing is missing: for any contents, timestamps, ties, page size and
\* number of calls, a content that could be seen all along is shown or was read, whatever
\* arrived, was read or was asked for again between two pages.
THEOREM NothingIsHidden == ChatSpec => []NothingHidden
<1>1. ChatInit => ListInv
  BY ListBegins DEF ChatInit
<1>2. ListInv /\ [ChatNext]_allVars => ListInv'
  <2> SUFFICES ASSUME ListInv, [ChatNext]_allVars PROVE ListInv'
    OBVIOUS
  <2>1. [List!Next]_listVars
    BY DEF ChatNext, allVars
  <2> QED BY <2>1, ListStep
<1>3. ListInv => NothingHidden
  BY DEF ListInv, NothingPassed, NothingHidden, List!NothingHidden
<1> QED BY <1>1, <1>2, <1>3, PTL DEF ChatSpec
==============================================================================

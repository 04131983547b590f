----------------------------- MODULE ChatTurns -----------------------------
(***************************************************************************)
(* One chat session and the turns that answer its prompts.                 *)
(*                                                                         *)
(* A prompt becomes a row of chat_messages with status processing; a run   *)
(* reads the history, calls the model and records the outcome in that row. *)
(* A run lives in the memory of the server (FastAPI background task) or,   *)
(* for dig-deeper requests, in a queue worker.  Nothing but the row and    *)
(* the queue task survives the process.                                    *)
(***************************************************************************)
EXTENDS Integers, Sequences, FiniteSets

CONSTANTS Requests,      \* prompts and dig-deeper requests of the session
          Kinds,         \* how they may be served, a subset of AllKinds
          Disturbances,  \* subset of {"restart", "worker", "database"}
          MaxFaults      \* bound on disturbances in a behaviour

AllKinds == {"agent", "assistant", "research", "queued"}

ASSUME ConstantsAssumption == Kinds \subseteq AllKinds /\ MaxFaults \in Nat

VARIABLES rows,    \* chat_messages of the session in creation order
          run,     \* for each request the run that serves it
          known,   \* history: rows answered when the request was made
          faults,  \* disturbances so far
          deaths   \* history: worker deaths suffered by a queued request

vars == <<rows, run, known, faults, deaths>>

NoRow == 0
Idle == [kind |-> "none", pc |-> "none", row |-> NoRow, context |-> {}]
Row(r) == [request |-> r, status |-> "processing", answered |-> FALSE]
Answered == {i \in DOMAIN rows : rows[i].status = "completed"}

Init ==
  /\ rows = <<>>
  /\ run = [r \in Requests |-> Idle]
  /\ known = [r \in Requests |-> {}]
  /\ faults = 0
  /\ deaths = [r \in Requests |-> 0]

-----------------------------------------------------------------------------
(* Requests *)

\* POST .../messages and POST /assistant/turns: the row is committed, then the
\* background task is handed to the server.
Send(r, k) ==
  /\ k \in Kinds \ {"queued"}
  /\ run[r].pc = "none"
  /\ rows' = Append(rows, Row(r))
  /\ run' = [run EXCEPT ![r] = [kind |-> k, pc |-> "waiting",
                                row |-> Len(rows) + 1, context |-> {}]]
  /\ known' = [known EXCEPT ![r] = Answered]
  /\ UNCHANGED <<faults, deaths>>

\* A dig-deeper task is queued; its handler creates the row.
EnqueueDigDeeper(r) ==
  /\ "queued" \in Kinds
  /\ run[r].pc = "none"
  /\ run' = [run EXCEPT ![r] = [Idle EXCEPT !.kind = "queued", !.pc = "filed"]]
  /\ known' = [known EXCEPT ![r] = Answered]
  /\ UNCHANGED <<rows, faults, deaths>>

CreateDigDeeperMessage(r) ==
  /\ run[r].pc = "filed"
  /\ rows' = Append(rows, Row(r))
  /\ run' = [run EXCEPT ![r].pc = "waiting", ![r].row = Len(rows) + 1]
  /\ UNCHANGED <<known, faults, deaths>>

-----------------------------------------------------------------------------
(* Runs *)

\* Mutant of History: placeholders and failed turns become context.
HistoryOfAllRows(r) ==
  IF run[r].kind = "research" THEN {} ELSE DOMAIN rows \ {run[r].row}

\* Completed rows other than the run's own; deep research sends no history.
History(r) == IF run[r].kind = "research" THEN {} ELSE Answered \ {run[r].row}

StartRun(r) ==
  /\ run[r].pc = "waiting"
  /\ run' = [run EXCEPT ![r].pc = "calling", ![r].context = History(r)]
  /\ UNCHANGED <<rows, known, faults, deaths>>

Stop(r) == run' = [run EXCEPT ![r].pc = "over"]

MarkCompleted(r) == [rows EXCEPT ![run[r].row].status = "completed",
                                 ![run[r].row].answered = TRUE]
MarkFailed(r) == [rows EXCEPT ![run[r].row].status = "failed"]

\* update_message_completed commits the answer; the session's timestamps follow
\* in a commit of their own, except in a deep-research turn.
RecordAnswer(r) ==
  /\ run[r].pc = "calling"
  /\ rows' = MarkCompleted(r)
  /\ IF run[r].kind = "research" THEN Stop(r)
                                 ELSE run' = [run EXCEPT ![r].pc = "recorded"]
  /\ UNCHANGED <<known, faults, deaths>>

\* Mutant of RecordFailure: a failed call leaves the row as it is.
FailureUnrecorded(r) ==
  /\ run[r].pc = "calling"
  /\ Stop(r)
  /\ UNCHANGED <<rows, known, faults, deaths>>

\* The model call raises, or the research ends without a text.
RecordFailure(r) ==
  /\ run[r].pc = "calling"
  /\ rows' = MarkFailed(r)
  /\ Stop(r)
  /\ UNCHANGED <<known, faults, deaths>>

TouchSession(r) ==
  /\ run[r].pc = "recorded"
  /\ Stop(r)
  /\ UNCHANGED <<rows, known, faults, deaths>>

-----------------------------------------------------------------------------
(* Disturbances *)

Disturb(d) == d \in Disturbances /\ faults < MaxFaults /\ faults' = faults + 1

\* Mutant of AfterDatabaseError: every handler rolls back before it reports.
AlwaysRollBack(r) == {rows, MarkFailed(r)}

\* What the exception handler does after a commit has failed.  Only the
\* assistant's rolls back first; in the others update_message_failed meets the
\* unusable session, raises and is logged.
AfterDatabaseError(r) ==
  IF run[r].kind = "assistant" THEN {rows, MarkFailed(r)} ELSE {rows}

\* Mutant of DatabaseError: the handler reports the failure and the task is retried.
RetryAfterDatabaseError(r) ==
  /\ run[r].pc \in {"calling", "recorded"}
  /\ Disturb("database")
  /\ run' = [run EXCEPT ![r].pc = IF run[r].kind = "queued" THEN "filed" ELSE "over"]
  /\ UNCHANGED <<rows, known, deaths>>

DatabaseError(r) ==
  /\ run[r].pc \in {"calling", "recorded"}
  /\ Disturb("database")
  /\ rows' \in AfterDatabaseError(r)
  /\ Stop(r)
  /\ UNCHANGED <<known, deaths>>

\* The server process ends: its background tasks are gone.
ServerRestart ==
  /\ Disturb("restart")
  /\ run' = [r \in Requests |->
       IF run[r].kind # "queued" /\ run[r].pc \in {"waiting", "calling", "recorded"}
         THEN [run[r] EXCEPT !.pc = "over"] ELSE run[r]]
  /\ UNCHANGED <<rows, known, deaths>>

\* Mutant of WorkerDies: the task is gone with its worker.
WorkerDropsTask(r) ==
  /\ run[r].kind = "queued" /\ run[r].pc \in {"waiting", "calling", "recorded"}
  /\ Disturb("worker")
  /\ run' = [run EXCEPT ![r].pc = "over"]
  /\ deaths' = [deaths EXCEPT ![r] = @ + 1]
  /\ UNCHANGED <<rows, known>>

\* The worker dies: the lease runs out and the task is handled from the start.
WorkerDies(r) ==
  /\ run[r].kind = "queued" /\ run[r].pc \in {"waiting", "calling", "recorded"}
  /\ Disturb("worker")
  /\ run' = [run EXCEPT ![r].pc = "filed"]
  /\ deaths' = [deaths EXCEPT ![r] = @ + 1]
  /\ UNCHANGED <<rows, known>>

-----------------------------------------------------------------------------
RunStep(r) ==
  \/ CreateDigDeeperMessage(r)
  \/ StartRun(r)
  \/ RecordAnswer(r)
  \/ RecordFailure(r)
  \/ TouchSession(r)

Next ==
  \/ \E r \in Requests :
       \/ \E k \in Kinds : Send(r, k)
       \/ EnqueueDigDeeper(r)
       \/ RunStep(r)
       \/ DatabaseError(r)
       \/ WorkerDies(r)
  \/ ServerRestart

\* The event loop and the chat worker run what they were given, and a model
\* call ends (its client has a timeout).
Fairness == \A r \in Requests : WF_vars(RunStep(r))

Spec == Init /\ [][Next]_vars /\ Fairness

-----------------------------------------------------------------------------
(* Properties *)

Serving(i) == \E r \in Requests :
                run[r].row = i /\ run[r].pc \in {"waiting", "calling", "recorded"}

TypeOK ==
  /\ rows \in Seq([request : Requests,
                   status : {"processing", "completed", "failed"},
                   answered : BOOLEAN])
  /\ run \in [Requests -> [kind : AllKinds \cup {"none"},
                           pc : {"none", "filed", "waiting", "calling", "recorded", "over"},
                           row : {NoRow} \cup DOMAIN rows, context : SUBSET DOMAIN rows]]
  /\ known \in [Requests -> SUBSET DOMAIN rows]
  /\ faults \in 0..MaxFaults
  /\ deaths \in [Requests -> 0..MaxFaults]

\* The model sees every turn that had been answered when the prompt was sent (an
\* assistant turn may have been turned into a failed one since), nothing that never
\* got an answer, and not the placeholder of its own turn.
ContextSound ==
  \A r \in Requests : run[r].pc \in {"calling", "recorded"} =>
    /\ \A i \in run[r].context : rows[i].answered /\ i # run[r].row
    /\ run[r].kind # "research" =>
         \A i \in known[r] \ run[r].context : rows[i].status = "failed"

\* A row without a run is settled, unless a process died or the database failed.
NothingAbandoned ==
  faults = 0 => \A i \in DOMAIN rows : rows[i].status = "processing" => Serving(i)

\* A dig-deeper request leaves one row more than the times its worker died, and
\* any other request exactly one: reruns are the only source of repeated prompts.
BoundedRepeats ==
  \A r \in Requests :
    Cardinality({i \in DOMAIN rows : rows[i].request = r}) <= 1 + deaths[r]

\* An answer a reader may have seen stays an answer; only the handler of
\* assistant turns can turn it into a failure, after a database error.
AnswersKept ==
  \A i \in DOMAIN rows :
    rows[i].status = "completed" =>
      \/ rows'[i].status = "completed"
      \/ faults' > faults /\ \E r \in Requests :
           run[r].row = i /\ run[r].kind = "assistant" /\ run[r].pc = "recorded"

AnswerStays == [][AnswersKept]_vars

\* A queued request is settled although workers die: the queue keeps the task.
QueuedIsSettled ==
  \A r \in Requests :
    run[r].pc = "filed" ~> \E i \in DOMAIN rows :
      rows[i].request = r /\ rows[i].status # "processing"
=============================================================================

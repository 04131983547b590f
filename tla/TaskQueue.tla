------------------------------ MODULE TaskQueue ------------------------------
(***************************************************************************)
(* The Postgres-backed task queue (app/services/queue.py), the worker       *)
(* processes that drain it (app/pipeline/sequential_task_processor.py) and  *)
(* the recovery watchdog (scripts/watchdog_queue_recovery.py).              *)
(*                                                                          *)
(* A row of processing_tasks is one element of Tasks; every column that the *)
(* queue decides on is a variable.  The timestamps available_at,            *)
(* lease_expires_at and started_at are kept relative to the database clock, *)
(* so the clock itself needs no variable and no bound: Tick moves all three.*)
(* lease_expires_at is NULL exactly when locked_by is, because the code     *)
(* always writes both, so a cleared lease is locked_by = NoWorker.          *)
(*                                                                          *)
(* A handler that loads a row with the ORM and commits it later is two      *)
(* actions, with the loaded values in between: SQLAlchemy's unit of work    *)
(* writes, at the flush, only the columns whose value changed since the     *)
(* load (operator Flush).                                                   *)
(***************************************************************************)
EXTENDS Integers, FiniteSets

CONSTANTS
  Tasks,          \* ids the table's sequence may hand out (bounds the inserts)
  NoTask,         \* what an idle worker works on
  Workers,        \* worker processes, each with its own worker_id
  NoWorker,       \* NULL in locked_by
  Keys,           \* dedupe keys
  NoKey,          \* NULL in dedupe_key
  MaxRetries,     \* settings.queue.max_retries
  LeaseTicks,     \* settings.queue.worker_timeout_seconds
  BeatTicks,      \* interval between two renewals of the heartbeat thread
  Delays,         \* possible retry delays: handler's choice or the backoff
  StaleTicks,     \* age at which the watchdog calls a running task stale
  Hazards,        \* which disturbances the environment may cause
  MaxFaults       \* bound on the number of disturbances in a behaviour

HazardKinds ==
  {"crash",       \* a worker process is killed and restarted by supervisor
   "dberror",     \* the finalizing transaction raises OperationalError
   "beatdeath",   \* renew_lease raises, which ends the heartbeat thread
   "pause",       \* a heartbeat is late: the clock does not wait for it
   "watchdog",    \* the watchdog service is running
   "manual"}      \* retry_task, complete_task and cleanup_old_tasks are called

ASSUME ConstantsAssumption ==
  /\ NoTask \notin Tasks
  /\ IsFiniteSet(Workers)
  /\ NoWorker \notin Workers
  /\ NoKey \notin Keys
  /\ MaxRetries \in Nat
  /\ LeaseTicks \in Nat
  /\ BeatTicks \in Nat
  /\ Delays \subseteq Nat
  /\ StaleTicks \in Nat
  /\ Hazards \subseteq HazardKinds
  /\ MaxFaults \in Nat

\* _lease_heartbeat: max(min(lease / 3, 30), 5) keeps the renewal interval
\* below the lease whenever the lease is longer than the 5 second floor.
ASSUME BeatAssumption == BeatTicks < LeaseTicks

VARIABLES
  status, dedupe_key, retry_count, locked_by, lease, available, age,
  pc, job, beating, due, seen, watch, faults

rows     == <<status, dedupe_key, retry_count, locked_by, lease, available, age>>
procs    == <<pc, job, beating, due, seen>>
vars     == <<rows, procs, watch, faults>>

Active   == {"pending", "processing"}
Terminal == {"completed", "failed"}
Statuses == {"absent", "deleted"} \cup Active \cup Terminal
Outcomes == {"success", "retryable", "fatal"}
Owners   == Workers \cup {NoWorker}

\* What a finalizing session remembers of the row it loaded.
Loaded   == [status: Statuses, owner: Owners, retry: Nat, outcome: Outcomes]
Envelope == [task: Tasks \cup {NoTask}, retry: Nat]

NoJob     == [task |-> NoTask, retry |-> 0]
NotLoaded == [status |-> "absent", owner |-> NoWorker, retry |-> 0, outcome |-> "fatal"]

\* One bounded disturbance of the given kind.
Disturb(kind) == /\ kind \in Hazards
                 /\ faults < MaxFaults
                 /\ faults' = faults + 1

-----------------------------------------------------------------------------
(* Helpers *)

Larger(a, b) == IF a >= b THEN a ELSE b

\* SQLAlchemy writes a column only if its new value differs from the loaded one.
Flush(old, new, current) == IF new = old THEN current ELSE new

\* Mutant of KeyTaken: an index that forgets running tasks.
KeyTakenByPending(k, t) ==
  k # NoKey /\ \E u \in Tasks \ {t} : status[u] = "pending" /\ dedupe_key[u] = k

\* uq_processing_tasks_dedupe_key_active, seen from a row about to become active.
KeyTaken(k, t) == /\ k # NoKey
                  /\ \E u \in Tasks \ {t} : status[u] \in Active /\ dedupe_key[u] = k

\* Mutants of Claimable: a claim that ignores the lease; one that forgets expired leases.
ClaimableIgnoringLease(t) ==
  \/ status[t] = "pending" /\ available[t] = 0
  \/ status[t] = "processing" /\ locked_by[t] # NoWorker

ClaimableOnlyPending(t) == status[t] = "pending" /\ available[t] = 0

\* _claimable_task_filters
Claimable(t) ==
  \/ status[t] = "pending" /\ available[t] = 0
  \/ status[t] = "processing" /\ locked_by[t] # NoWorker /\ lease[t] = 0

Running(w, t) == pc[w] # "idle" /\ job[w].task = t

Init ==
  /\ status = [t \in Tasks |-> "absent"]
  /\ dedupe_key = [t \in Tasks |-> NoKey]
  /\ retry_count = [t \in Tasks |-> 0]
  /\ locked_by = [t \in Tasks |-> NoWorker]
  /\ lease = [t \in Tasks |-> 0]
  /\ available = [t \in Tasks |-> 0]
  /\ age = [t \in Tasks |-> 0]
  /\ pc = [w \in Workers |-> "idle"]
  /\ job = [w \in Workers |-> NoJob]
  /\ beating = [w \in Workers |-> FALSE]
  /\ due = [w \in Workers |-> 0]
  /\ seen = [w \in Workers |-> NotLoaded]
  /\ watch = {}
  /\ faults = 0

-----------------------------------------------------------------------------
(* QueueService.enqueue: insert ... on conflict do nothing.  When an active  *)
(* row holds the key the caller gets that row's id and nothing is written,   *)
(* so only the insert is a step.                                             *)
Enqueue(t, k) ==
  /\ status[t] = "absent"
  /\ ~ KeyTaken(k, t)
  /\ status' = [status EXCEPT ![t] = "pending"]
  /\ dedupe_key' = [dedupe_key EXCEPT ![t] = k]
  /\ UNCHANGED <<retry_count, locked_by, lease, available, age, procs, watch, faults>>

\* QueueService.dequeue by an idle worker: the UPDATE over FOR UPDATE SKIP LOCKED
\* takes one claimable row; the worker starts the heartbeat thread and the handler.
Claim(w, t) ==
  /\ pc[w] = "idle"
  /\ Claimable(t)
  /\ status' = [status EXCEPT ![t] = "processing"]
  /\ locked_by' = [locked_by EXCEPT ![t] = w]
  /\ lease' = [lease EXCEPT ![t] = LeaseTicks]
  /\ age' = [age EXCEPT ![t] = 0]
  /\ pc' = [pc EXCEPT ![w] = "busy"]
  /\ job' = [job EXCEPT ![w] = [task |-> t, retry |-> retry_count[t]]]
  /\ beating' = [beating EXCEPT ![w] = TRUE]
  /\ due' = [due EXCEPT ![w] = BeatTicks]
  /\ UNCHANGED <<dedupe_key, retry_count, available, seen, watch, faults>>

\* Mutants of Renew: the heartbeat extends the old expiry; it never extends the lease.
RenewAccumulating(w) ==
  /\ pc[w] # "idle" /\ beating[w] /\ due[w] = 0
  /\ lease' = [lease EXCEPT ![job[w].task] = @ + LeaseTicks]
  /\ due' = [due EXCEPT ![w] = BeatTicks]
  /\ UNCHANGED <<status, dedupe_key, retry_count, locked_by, available, age,
                 pc, job, beating, seen, watch, faults>>

RenewWithoutExtending(w) ==
  /\ pc[w] # "idle" /\ beating[w] /\ due[w] = 0
  /\ due' = [due EXCEPT ![w] = BeatTicks]
  /\ UNCHANGED <<rows, pc, job, beating, seen, watch, faults>>

\* One round of the heartbeat thread: renew_lease matches only a PROCESSING row
\* locked by this worker; the thread returns for good when it matches none.
Renew(w) ==
  LET t == job[w].task
      held == status[t] = "processing" /\ locked_by[t] = w
  IN  /\ pc[w] # "idle" /\ beating[w] /\ due[w] = 0
      /\ lease' = IF held THEN [lease EXCEPT ![t] = LeaseTicks] ELSE lease
      /\ beating' = [beating EXCEPT ![w] = held]
      /\ due' = [due EXCEPT ![w] = IF held THEN BeatTicks ELSE 0]
      /\ UNCHANGED <<status, dedupe_key, retry_count, locked_by, available, age,
                     pc, job, seen, watch, faults>>

\* The renewal raises (a database error): nothing catches it in the thread.
HeartbeatDies(w) ==
  /\ Disturb("beatdeath")
  /\ pc[w] # "idle" /\ beating[w]
  /\ beating' = [beating EXCEPT ![w] = FALSE]
  /\ due' = [due EXCEPT ![w] = 0]
  /\ UNCHANGED <<rows, pc, job, seen, watch>>

\* The worker forgets its task and goes back to polling.
Release(w) ==
  /\ pc' = [pc EXCEPT ![w] = "idle"]
  /\ beating' = [beating EXCEPT ![w] = FALSE]
  /\ due' = [due EXCEPT ![w] = 0]
  /\ seen' = [seen EXCEPT ![w] = NotLoaded]
  /\ job' = [job EXCEPT ![w] = NoJob]

\* The handler returns and finalize_task loads the row, whoever owns it by now.
LoadForFinalize(w, outcome) ==
  LET t == job[w].task
  IN  /\ pc[w] = "busy"
      /\ status[t] # "deleted"
      /\ pc' = [pc EXCEPT ![w] = "finalizing"]
      /\ seen' = [seen EXCEPT ![w] = [status |-> status[t], owner |-> locked_by[t],
                                      retry |-> retry_count[t], outcome |-> outcome]]
      /\ UNCHANGED <<rows, job, beating, due, watch, faults>>

\* finalize_task finds no row: it logs and returns None.
FinalizeMissing(w) ==
  /\ pc[w] = "busy"
  /\ status[job[w].task] = "deleted"
  /\ Release(w)
  /\ UNCHANGED <<rows, watch, faults>>

\* Mutants of Verdict: an off-by-one in the bound; a retry that keeps the row processing.
VerdictOffByOne(w) ==
  CASE seen[w].outcome = "success" -> "completed"
    [] seen[w].outcome = "retryable" /\ job[w].retry <= MaxRetries -> "pending"
    [] OTHER -> "failed"

VerdictKeepsProcessing(w) ==
  CASE seen[w].outcome = "success" -> "completed"
    [] seen[w].outcome = "retryable" /\ job[w].retry < MaxRetries -> "processing"
    [] OTHER -> "failed"

\* The status finalize_task decides on: the retry count is the claimed one.
Verdict(w) ==
  CASE seen[w].outcome = "success" -> "completed"
    [] seen[w].outcome = "retryable" /\ job[w].retry < MaxRetries -> "pending"
    [] OTHER -> "failed"

\* The commit of finalize_task: status, retry bookkeeping, cleared lease.
CommitFinalize(w, d) ==
  LET t == job[w].task
      new == Flush(seen[w].status, Verdict(w), status[t])
      retrying == Verdict(w) = "pending"
  IN  /\ pc[w] = "finalizing"
      /\ status[t] # "deleted"
      /\ new \in Active => ~ KeyTaken(dedupe_key[t], t)
      /\ status' = [status EXCEPT ![t] = new]
      /\ locked_by' = [locked_by EXCEPT ![t] = Flush(seen[w].owner, NoWorker, @)]
      /\ lease' = [lease EXCEPT ![t] = IF seen[w].owner = NoWorker THEN @ ELSE 0]
      /\ retry_count' = [retry_count EXCEPT ![t] =
           IF retrying THEN Larger(seen[w].retry, job[w].retry) + 1 ELSE @]
      /\ available' = [available EXCEPT ![t] = IF retrying THEN d ELSE @]
      /\ Release(w)
      /\ UNCHANGED <<dedupe_key, age, watch, faults>>

\* The commit violates the active-key index, or its row was deleted meanwhile: the
\* exception reaches run(), which sleeps and polls again; the row stays as it was.
FinalizeRejected(w) ==
  LET t == job[w].task
  IN  /\ pc[w] = "finalizing"
      /\ \/ status[t] = "deleted"
         \/ /\ Flush(seen[w].status, Verdict(w), status[t]) \in Active
            /\ KeyTaken(dedupe_key[t], t)
      /\ Release(w)
      /\ UNCHANGED <<rows, watch, faults>>

\* finalize_task raises OperationalError: _finalize_processed_task swallows it.
FinalizeDbError(w) ==
  /\ Disturb("dberror")
  /\ pc[w] = "finalizing"
  /\ Release(w)
  /\ UNCHANGED <<rows, watch>>

\* The process dies; supervisor starts a new one with the same worker_id.
Crash(w) ==
  /\ Disturb("crash")
  /\ pc[w] # "idle"
  /\ Release(w)
  /\ UNCHANGED <<rows, watch>>

-----------------------------------------------------------------------------
(* The watchdog's session: rows are loaded and changed in memory, the Slack  *)
(* alert is posted, and only then does _run_cycle commit.                    *)

Stale == {t \in Tasks : status[t] = "processing" /\ age[t] >= StaleTicks}

WatchdogLoad ==
  /\ Disturb("watchdog")
  /\ watch = {}
  /\ Stale # {}
  /\ watch' = {[task |-> t, retry |-> retry_count[t], owner |-> locked_by[t]] : t \in Stale}
  /\ UNCHANGED <<rows, procs>>

Watched == {e.task : e \in watch}

LoadedEntry(t) == CHOOSE e \in watch : e.task = t

\* Every loaded row was PROCESSING, so its new status, retry count and available_at
\* differ from the loaded ones and overwrite the row as it is now.
WatchdogCommit ==
  /\ watch # {}
  /\ \A t \in Watched : status[t] # "deleted" /\ ~ KeyTaken(dedupe_key[t], t)
  /\ status' = [t \in Tasks |-> IF t \in Watched THEN "pending" ELSE status[t]]
  /\ locked_by' = [t \in Tasks |->
       IF t \in Watched THEN Flush(LoadedEntry(t).owner, NoWorker, locked_by[t])
                        ELSE locked_by[t]]
  /\ lease' = [t \in Tasks |->
       IF t \in Watched /\ LoadedEntry(t).owner # NoWorker THEN 0 ELSE lease[t]]
  /\ available' = [t \in Tasks |-> IF t \in Watched THEN 0 ELSE available[t]]
  /\ retry_count' = [t \in Tasks |->
       IF t \in Watched THEN LoadedEntry(t).retry + 1 ELSE retry_count[t]]
  /\ watch' = {}
  /\ UNCHANGED <<dedupe_key, age, procs, faults>>

\* The cycle's transaction fails (index violated, or a row gone) and is rolled back whole.
WatchdogRollback ==
  /\ watch # {}
  /\ \E t \in Watched : status[t] = "deleted" \/ KeyTaken(dedupe_key[t], t)
  /\ watch' = {}
  /\ UNCHANGED <<rows, procs, faults>>

-----------------------------------------------------------------------------
(* The service's remaining operations, which the gateway exposes. *)

Present(t) == status[t] \notin {"absent", "deleted"}

\* QueueService.retry_task: whatever the row's status, back to pending.
RetryTask(t, d) ==
  /\ Disturb("manual")
  /\ Present(t)
  /\ ~ KeyTaken(dedupe_key[t], t)
  /\ status' = [status EXCEPT ![t] = "pending"]
  /\ retry_count' = [retry_count EXCEPT ![t] = @ + 1]
  /\ locked_by' = [locked_by EXCEPT ![t] = NoWorker]
  /\ lease' = [lease EXCEPT ![t] = 0]
  /\ available' = [available EXCEPT ![t] = d]
  /\ UNCHANGED <<dedupe_key, age, procs, watch>>

\* QueueService.complete_task: whatever the row's status, to a terminal one.
CompleteTask(t, s) ==
  /\ Disturb("manual")
  /\ Present(t)
  /\ status' = [status EXCEPT ![t] = s]
  /\ locked_by' = [locked_by EXCEPT ![t] = NoWorker]
  /\ lease' = [lease EXCEPT ![t] = 0]
  /\ UNCHANGED <<dedupe_key, retry_count, available, age, procs, watch>>

\* QueueService.cleanup_old_tasks, for a completed row that is old enough.
Cleanup(t) ==
  /\ Disturb("manual")
  /\ status[t] = "completed"
  /\ status' = [status EXCEPT ![t] = "deleted"]
  /\ UNCHANGED <<dedupe_key, retry_count, locked_by, lease, available, age, procs, watch>>

-----------------------------------------------------------------------------
Less(n) == IF n = 0 THEN 0 ELSE n - 1

\* The clock.  Without the "pause" hazard a live heartbeat is never late.
Tick ==
  /\ \A w \in Workers : beating[w] /\ due[w] = 0 => "pause" \in Hazards
  /\ lease' = [t \in Tasks |-> Less(lease[t])]
  /\ available' = [t \in Tasks |-> Less(available[t])]
  /\ age' = [t \in Tasks |->
       IF status[t] = "processing" /\ age[t] < StaleTicks THEN age[t] + 1 ELSE age[t]]
  /\ due' = [w \in Workers |-> Less(due[w])]
  /\ UNCHANGED <<status, dedupe_key, retry_count, locked_by, pc, job, beating, seen,
                 watch, faults>>

\* The end of one attempt, as the worker's loop sees it.
Finish(w) ==
  \/ \E outcome \in Outcomes : LoadForFinalize(w, outcome)
  \/ FinalizeMissing(w)
  \/ \E d \in Delays : CommitFinalize(w, d)
  \/ FinalizeRejected(w)

Watchdog == WatchdogLoad \/ WatchdogCommit \/ WatchdogRollback

Manual(t) == \/ \E d \in Delays : RetryTask(t, d)
             \/ \E s \in Terminal : CompleteTask(t, s)
             \/ Cleanup(t)

WorkerStep(w) == \/ \E t \in Tasks : Claim(w, t)
                 \/ Renew(w)
                 \/ Finish(w)

Fault(w) == HeartbeatDies(w) \/ FinalizeDbError(w) \/ Crash(w)

Next ==
  \/ \E t \in Tasks, k \in Keys \cup {NoKey} : Enqueue(t, k)
  \/ \E w \in Workers : WorkerStep(w) \/ Fault(w)
  \/ Watchdog
  \/ \E t \in Tasks : Manual(t)
  \/ Tick

Spec == Init /\ [][Next]_vars

\* A live worker polls, renews and finishes its handler; the clock advances.
Fairness ==
  /\ WF_vars(Tick)
  /\ WF_vars(WatchdogCommit \/ WatchdogRollback)
  /\ \A w \in Workers : /\ WF_vars(\E t \in Tasks : Claim(w, t))
                        /\ WF_vars(Renew(w))
                        /\ WF_vars(Finish(w))

FairSpec == Spec /\ Fairness

-----------------------------------------------------------------------------
(* Properties *)

\* Every column, process variable and snapshot keeps its type; a claimed lease and a
\* heartbeat never exceed their configured lengths (app/models/schema.py, queue.py).
TypeOK ==
  /\ status \in [Tasks -> Statuses]
  /\ dedupe_key \in [Tasks -> Keys \cup {NoKey}]
  /\ retry_count \in [Tasks -> Nat]
  /\ locked_by \in [Tasks -> Owners]
  /\ lease \in [Tasks -> 0..LeaseTicks]
  /\ available \in [Tasks -> Nat]
  /\ age \in [Tasks -> 0..StaleTicks]
  /\ pc \in [Workers -> {"idle", "busy", "finalizing"}]
  /\ job \in [Workers -> Envelope]
  /\ beating \in [Workers -> BOOLEAN]
  /\ due \in [Workers -> 0..BeatTicks]
  /\ seen \in [Workers -> Loaded]
  /\ watch \in SUBSET [task: Tasks, retry: Nat, owner: Owners]
  /\ faults \in Nat

\* The environment only kills workers and loses finalizing transactions.
Quiet == Hazards \subseteq {"crash", "dberror"}

\* No two workers ever run the handler of the same task at once: what the lease, its
\* renewal and SKIP LOCKED are for.  Promised only in a Quiet environment.
ExclusiveExecution ==
  \A v, w \in Workers, t \in Tasks : Running(v, t) /\ Running(w, t) => v = w

\* A task is retried at most max_retries times, and no crash, lost finalization or
\* reclaim adds to the count (finalize_task's bound).  Quiet environment.
RetryBudget == \A t \in Tasks : retry_count[t] <= MaxRetries

\* A task that completed or failed is never run or queued again (finalize_task,
\* dequeue).  Quiet environment.
TerminalIsFinal ==
  [][\A t \in Tasks : status[t] \in Terminal => status'[t] = status[t]]_vars

\* At most one pending or processing row per dedupe key, whatever the environment does:
\* enqueue, every kind of retry and the watchdog included.
ActiveKeyUnique ==
  \A t, u \in Tasks :
    /\ status[t] \in Active /\ status[u] \in Active
    /\ dedupe_key[t] = dedupe_key[u] /\ dedupe_key[t] # NoKey
    => t = u

\* Stale workers that finalize a task others already took over can push the retry
\* count past max_retries, but only by one each: what finalize_task's comparison with
\* the claimed count guarantees when the watchdog and retry_task are not used, and there
\* are no more than two workers or one retry.  With three workers and two retries a late
\* finalization brings the count back below the limit while another still carries one above.
BoundedOvershoot ==
  \A t \in Tasks : retry_count[t] <= MaxRetries + Cardinality(Workers) - 1

\* A processing row carries a lease, so dequeue can reclaim it when its worker is gone;
\* dequeue never selects a processing row whose lease is NULL.  Two workers whose
\* heartbeats die or come late keep this, although their finalizations overlap.  Three of
\* them do not, nor do two with the watchdog or manual operations: a late finalization
\* then clears the lease of a claim that it knows nothing of.
Reclaimable == \A t \in Tasks : status[t] = "processing" => locked_by[t] # NoWorker

\* Every accepted task is eventually completed or failed, through worker crashes and
\* lost finalizations (dequeue's reclaim of expired leases and finalize_task's bound).
EventuallySettles ==
  \A t \in Tasks : status[t] \in Active ~> status[t] \in Terminal

\* The watchdog puts back only tasks that are still processing.
RequeuesOnlyProcessing ==
  [][\A t \in Tasks :
       WatchdogCommit /\ t \in Watched => status[t] = "processing"]_vars
=============================================================================

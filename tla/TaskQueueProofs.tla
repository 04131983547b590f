--------------------------- MODULE TaskQueueProofs ---------------------------
(***************************************************************************)
(* The task queue for every value of its constants.  First what holds in    *)
(* every environment; then that the lease protocol is a mutual exclusion    *)
(* protocol in a Quiet one, for any number of workers, rows, retries and    *)
(* any lease longer than a beat, and implements the contract.               *)
(***************************************************************************)
EXTENDS TaskQueueContract, TLAPS

\* A worker that is not idle has a task: what TypeOK needs to be inductive.
BusyHasTask == \A w \in Workers : pc[w] # "idle" => job[w].task \in Tasks

TypeInv == TypeOK /\ BusyHasTask

LEMMA TypeInit == Init => TypeInv
  BY ConstantsAssumption, BeatAssumption
  DEF Init, TypeInv, TypeOK, BusyHasTask, Statuses, Owners, Envelope, NoJob, Loaded,
      NotLoaded, Outcomes

\* Leaving the row columns alone and going back to polling keeps the types.
LEMMA ReleaseTypes ==
  ASSUME TypeInv, NEW w \in Workers, Release(w), UNCHANGED <<rows, watch>>, faults' \in Nat
  PROVE  TypeInv'
<1>1. TypeOK'
  BY ConstantsAssumption DEF TypeInv, TypeOK, Release, rows, NotLoaded, Loaded, Statuses,
     Outcomes, Owners, NoJob, Envelope
<1>2. BusyHasTask'
  BY DEF TypeInv, TypeOK, BusyHasTask, Release
<1>. QED
  BY <1>1, <1>2 DEF TypeInv

LEMMA DisturbTypes ==
  ASSUME TypeInv, NEW kind, Disturb(kind)
  PROVE  faults' \in Nat
  BY DEF TypeInv, TypeOK, Disturb

LEMMA ClaimTypes ==
  ASSUME TypeInv, NEW w \in Workers, NEW t \in Tasks, Claim(w, t)
  PROVE  TypeInv'
<1>. USE ConstantsAssumption, BeatAssumption DEF TypeInv, TypeOK
<1>1. [task |-> t, retry |-> retry_count[t]] \in Envelope
  BY DEF Envelope
<1>2. /\ status' \in [Tasks -> Statuses]
      /\ locked_by' \in [Tasks -> Owners]
      /\ lease' \in [Tasks -> 0..LeaseTicks]
      /\ age' \in [Tasks -> 0..StaleTicks]
  BY DEF Claim, Statuses, Active, Owners
<1>3. /\ pc' \in [Workers -> {"idle", "busy", "finalizing"}]
      /\ job' \in [Workers -> Envelope]
      /\ beating' \in [Workers -> BOOLEAN]
      /\ due' \in [Workers -> 0..BeatTicks]
  BY <1>1 DEF Claim
<1>4. BusyHasTask'
  BY <1>1 DEF Claim, BusyHasTask, Envelope
<1>. QED
  BY <1>2, <1>3, <1>4 DEF Claim

LEMMA RenewTypes ==
  ASSUME TypeInv, NEW w \in Workers, Renew(w)
  PROVE  TypeInv'
  BY ConstantsAssumption, BeatAssumption DEF TypeInv, TypeOK, BusyHasTask, Renew

LEMMA LoadTypes ==
  ASSUME TypeInv, NEW w \in Workers, NEW outcome \in Outcomes, LoadForFinalize(w, outcome)
  PROVE  TypeInv'
<1>. DEFINE t == job[w].task
<1>. USE DEF TypeInv, TypeOK
<1>1. t \in Tasks
  BY DEF LoadForFinalize, BusyHasTask
<1>2. [status |-> status[t], owner |-> locked_by[t], retry |-> retry_count[t],
       outcome |-> outcome] \in Loaded
  BY <1>1 DEF Loaded
<1>3. seen' \in [Workers -> Loaded]
  BY <1>2 DEF LoadForFinalize
<1>4. pc' \in [Workers -> {"idle", "busy", "finalizing"}]
  BY DEF LoadForFinalize
<1>5. BusyHasTask'
  BY <1>1 DEF LoadForFinalize, BusyHasTask
<1>. QED
  BY <1>3, <1>4, <1>5 DEF LoadForFinalize, rows

LEMMA CommitTypes ==
  ASSUME TypeInv, NEW w \in Workers, NEW d \in Delays, CommitFinalize(w, d)
  PROVE  TypeInv'
<1>. DEFINE t == job[w].task
<1>. USE DEF TypeInv, TypeOK
<1>1. t \in Tasks /\ job[w].retry \in Nat /\ seen[w] \in Loaded
  BY DEF CommitFinalize, BusyHasTask, Envelope
<1>2. Verdict(w) \in Statuses
  BY DEF Verdict, Statuses, Active, Terminal
<1>3. Flush(seen[w].status, Verdict(w), status[t]) \in Statuses
  BY <1>1, <1>2 DEF Flush
<1>4. status' \in [Tasks -> Statuses]
  BY <1>3 DEF CommitFinalize
<1>5. locked_by' \in [Tasks -> Owners]
  BY <1>1 DEF CommitFinalize, Flush, Owners
<1>6. lease' \in [Tasks -> 0..LeaseTicks]
  BY <1>1, ConstantsAssumption DEF CommitFinalize
<1>7. retry_count' \in [Tasks -> Nat]
  BY <1>1 DEF CommitFinalize, Larger, Loaded
<1>8. available' \in [Tasks -> Nat]
  BY <1>1, ConstantsAssumption DEF CommitFinalize
<1>9. /\ pc' \in [Workers -> {"idle", "busy", "finalizing"}]
      /\ job' \in [Workers -> Envelope]
      /\ beating' \in [Workers -> BOOLEAN]
      /\ due' \in [Workers -> 0..BeatTicks]
      /\ seen' \in [Workers -> Loaded]
  BY ConstantsAssumption DEF CommitFinalize, Release, NotLoaded, Loaded, Statuses, Outcomes,
     Owners, NoJob, Envelope
<1>10. BusyHasTask'
  BY DEF CommitFinalize, Release, BusyHasTask
<1>. QED
  BY <1>4, <1>5, <1>6, <1>7, <1>8, <1>9, <1>10 DEF CommitFinalize

LEMMA WatchdogTypes ==
  ASSUME TypeInv, Watchdog
  PROVE  TypeInv'
<1>. USE DEF TypeInv, TypeOK
<1>1. CASE WatchdogLoad
  <2>1. watch' \in SUBSET [task: Tasks, retry: Nat, owner: Owners]
    BY <1>1 DEF WatchdogLoad, Stale
  <2>. QED
    BY <1>1, <2>1, DisturbTypes DEF WatchdogLoad, rows, procs, BusyHasTask
<1>2. CASE WatchdogCommit
  <2>1. ASSUME NEW t \in Watched PROVE LoadedEntry(t) \in watch
    <3>1. \E e \in watch : e.task = t
      BY <2>1 DEF Watched
    <3>. QED
      BY <3>1 DEF LoadedEntry
  <2>2. retry_count' \in [Tasks -> Nat]
    BY <1>2, <2>1 DEF WatchdogCommit
  <2>3. /\ status' \in [Tasks -> Statuses]
        /\ locked_by' \in [Tasks -> Owners]
        /\ lease' \in [Tasks -> 0..LeaseTicks]
        /\ available' \in [Tasks -> Nat]
    BY <1>2, ConstantsAssumption DEF WatchdogCommit, Statuses, Active, Owners, Flush
  <2>. QED
    BY <1>2, <2>2, <2>3 DEF WatchdogCommit, procs, BusyHasTask
<1>3. CASE WatchdogRollback
  BY <1>3 DEF WatchdogRollback, rows, procs, BusyHasTask
<1>. QED
  BY <1>1, <1>2, <1>3 DEF Watchdog

LEMMA ManualTypes ==
  ASSUME TypeInv, NEW t \in Tasks, Manual(t)
  PROVE  TypeInv'
<1>. USE ConstantsAssumption, DisturbTypes
     DEF TypeInv, TypeOK, Statuses, Active, Terminal, Owners, procs, BusyHasTask
<1>1. CASE \E d \in Delays : RetryTask(t, d)
  BY <1>1 DEF RetryTask
<1>2. CASE \E s \in Terminal : CompleteTask(t, s)
  BY <1>2 DEF CompleteTask
<1>3. CASE Cleanup(t)
  BY <1>3 DEF Cleanup
<1>. QED
  BY <1>1, <1>2, <1>3 DEF Manual

LEMMA TickTypes ==
  ASSUME TypeInv, Tick
  PROVE  TypeInv'
<1>. USE ConstantsAssumption, BeatAssumption DEF TypeInv, TypeOK
<1>1. lease' \in [Tasks -> 0..LeaseTicks]
  <2>1. ASSUME NEW n \in 0..LeaseTicks PROVE Less(n) \in 0..LeaseTicks
    BY DEF Less
  <2>. QED
    BY <2>1 DEF Tick
<1>2. available' \in [Tasks -> Nat]
  <2>1. ASSUME NEW n \in Nat PROVE Less(n) \in Nat
    BY DEF Less
  <2>. QED
    BY <2>1 DEF Tick
<1>3. age' \in [Tasks -> 0..StaleTicks]
  BY DEF Tick
<1>4. due' \in [Workers -> 0..BeatTicks]
  <2>1. ASSUME NEW n \in 0..BeatTicks PROVE Less(n) \in 0..BeatTicks
    BY DEF Less
  <2>. QED
    BY <2>1 DEF Tick
<1>. QED
  BY <1>1, <1>2, <1>3, <1>4 DEF Tick, BusyHasTask

\* Every step of the queue, its workers, the watchdog and the clock keeps the types.
LEMMA TypeStep == TypeInv /\ [Next]_vars => TypeInv'
<1>. SUFFICES ASSUME TypeInv, [Next]_vars PROVE TypeInv'
  OBVIOUS
<1>1. ASSUME NEW t \in Tasks, NEW k \in Keys \cup {NoKey}, Enqueue(t, k) PROVE TypeInv'
  BY <1>1 DEF TypeInv, TypeOK, BusyHasTask, Enqueue, procs, Statuses, Active
<1>2. ASSUME NEW w \in Workers, WorkerStep(w) PROVE TypeInv'
  <2>1. ASSUME FinalizeMissing(w) \/ FinalizeRejected(w) PROVE TypeInv'
    BY <2>1, ReleaseTypes DEF FinalizeMissing, FinalizeRejected, rows, TypeInv, TypeOK
  <2>. QED
    BY <1>2, <2>1, ClaimTypes, RenewTypes, LoadTypes, CommitTypes DEF WorkerStep, Finish
<1>3. ASSUME NEW w \in Workers, Fault(w) PROVE TypeInv'
  <2>1. CASE HeartbeatDies(w)
    BY <2>1, DisturbTypes, ConstantsAssumption
    DEF TypeInv, TypeOK, BusyHasTask, HeartbeatDies, rows
  <2>2. CASE FinalizeDbError(w) \/ Crash(w)
    <3>1. Release(w) /\ UNCHANGED <<rows, watch>>
      BY <2>2 DEF FinalizeDbError, Crash
    <3>2. faults' \in Nat
      BY <2>2, DisturbTypes DEF FinalizeDbError, Crash
    <3>. QED
      BY <3>1, <3>2, ReleaseTypes
  <2>. QED
    BY <1>3, <2>1, <2>2 DEF Fault
<1>4. CASE UNCHANGED vars
  BY <1>4 DEF TypeInv, TypeOK, BusyHasTask, vars, rows, procs
<1>. QED
  BY <1>1, <1>2, <1>3, <1>4, WatchdogTypes, ManualTypes, TickTypes DEF Next

\* The types of every column and process variable, in every environment (queue.py,
\* sequential_task_processor.py, watchdog_queue_recovery.py).
THEOREM TypeCorrect == Spec => []TypeOK
<1>1. TypeInv => TypeOK
  BY DEF TypeInv
<1>. QED
  BY <1>1, TypeInit, TypeStep, PTL DEF Spec

-----------------------------------------------------------------------------
(* Unique dedupe keys, in every environment.                                 *)

\* What the watchdog loaded: rows that were inserted once, no two with one key.
WatchedDistinct ==
  /\ \A t \in Watched : status[t] # "absent"
  /\ \A t, u \in Watched :
       dedupe_key[t] = dedupe_key[u] /\ dedupe_key[t] # NoKey => t = u

KeyInv == ActiveKeyUnique /\ WatchedDistinct

\* A step that makes no row active, keeps the keys and loads nothing keeps KeyInv.
LEMMA KeyFrame ==
  ASSUME KeyInv, UNCHANGED dedupe_key, watch' = watch \/ watch' = {},
         \A t \in Tasks : status'[t] \in Active => status[t] \in Active,
         \A t \in Tasks : status[t] # "absent" => status'[t] # "absent",
         Watched \subseteq Tasks
  PROVE  KeyInv'
  BY DEF KeyInv, ActiveKeyUnique, WatchedDistinct, Watched

\* So does one that makes a single row active whose key no other active row holds.
LEMMA KeyActivate ==
  ASSUME KeyInv, UNCHANGED <<dedupe_key, watch>>, NEW x \in Tasks,
         ~ KeyTaken(dedupe_key[x], x),
         NEW s \in Statuses \ {"absent"}, status' = [status EXCEPT ![x] = s],
         TypeInv
  PROVE  KeyInv'
  BY DEF KeyInv, ActiveKeyUnique, WatchedDistinct, Watched, KeyTaken, TypeInv, TypeOK

\* A row only becomes active when no other active row has its key, and a key never
\* changes after the insert.
LEMMA KeyStep == TypeInv /\ KeyInv /\ [Next]_vars => KeyInv'
<1>. SUFFICES ASSUME TypeInv, KeyInv, [Next]_vars PROVE KeyInv'
  OBVIOUS
<1>0. Watched \subseteq Tasks
  BY DEF Watched, TypeInv, TypeOK
<1>1. ASSUME NEW t \in Tasks, NEW k \in Keys \cup {NoKey}, Enqueue(t, k) PROVE KeyInv'
  <2>. USE DEF KeyInv, ActiveKeyUnique, WatchedDistinct, Watched, TypeInv, TypeOK
  <2>1. t \notin Watched
    BY <1>1 DEF Enqueue
  <2>. QED
    BY <1>1, <2>1 DEF Enqueue, KeyTaken, Active
<1>2. ASSUME NEW w \in Workers, NEW t \in Tasks, Claim(w, t) PROVE KeyInv'
  <2>1. \A u \in Tasks : (status'[u] \in Active => status[u] \in Active)
                       /\ (status[u] # "absent" => status'[u] # "absent")
    BY <1>2 DEF Claim, Claimable, Active, TypeInv, TypeOK
  <2>. QED
    BY <1>0, <1>2, <2>1, KeyFrame DEF Claim
<1>3. ASSUME NEW w \in Workers, NEW d \in Delays, CommitFinalize(w, d) PROVE KeyInv'
  <2>. DEFINE t == job[w].task
              s == Flush(seen[w].status, Verdict(w), status[t])
  <2>1. /\ t \in Tasks /\ status' = [status EXCEPT ![t] = s]
        /\ UNCHANGED <<dedupe_key, watch>>
        /\ s \in Active => ~ KeyTaken(dedupe_key[t], t)
    BY <1>3 DEF CommitFinalize, TypeInv, TypeOK, BusyHasTask
  <2>2. s = status[t] \/ s \in {"completed", "failed", "pending"}
    BY DEF Flush, Verdict
  <2>3. CASE s \in {"completed", "failed"} \/ s = status[t]
    <3>1. \A u \in Tasks : (status'[u] \in Active => status[u] \in Active)
                         /\ (status[u] # "absent" => status'[u] # "absent")
      BY <2>1, <2>3 DEF Active, TypeInv, TypeOK
    <3>. QED
      BY <1>0, <2>1, <3>1, KeyFrame
  <2>4. CASE s = "pending"
    BY <2>1, <2>4, KeyActivate DEF Active, Statuses
  <2>. QED
    BY <2>2, <2>3, <2>4
<1>4. ASSUME NEW w \in Workers, Finish(w) \/ Renew(w) \/ Fault(w),
             ~ \E d \in Delays : CommitFinalize(w, d)
      PROVE  KeyInv'
  <2>1. UNCHANGED <<status, dedupe_key, watch>>
    BY <1>4 DEF Finish, LoadForFinalize, FinalizeMissing, FinalizeRejected, Renew, Fault,
       HeartbeatDies, FinalizeDbError, Crash, rows
  <2>. QED
    BY <1>0, <2>1, KeyFrame
<1>5. ASSUME WatchdogLoad PROVE KeyInv'
  BY <1>5 DEF WatchdogLoad, KeyInv, ActiveKeyUnique, WatchedDistinct, Watched, Stale, Active,
     rows
<1>6. ASSUME WatchdogCommit PROVE KeyInv'
  <2>1. watch' = {} /\ UNCHANGED dedupe_key
    BY <1>6 DEF WatchdogCommit
  <2>2. WatchedDistinct'
    BY <2>1 DEF WatchedDistinct, Watched
  <2>3. \A u \in Tasks : status'[u] \in Active => u \in Watched \/ status[u] \in Active
    BY <1>6 DEF WatchdogCommit
  <2>4. ActiveKeyUnique'
    BY <1>0, <1>6, <2>1, <2>3 DEF WatchdogCommit, KeyInv, ActiveKeyUnique, WatchedDistinct,
       KeyTaken
  <2>. QED
    BY <2>2, <2>4 DEF KeyInv
<1>7. ASSUME WatchdogRollback PROVE KeyInv'
  BY <1>7, <1>0, KeyFrame DEF WatchdogRollback, rows
<1>8. ASSUME NEW t \in Tasks, Manual(t) PROVE KeyInv'
  <2>1. CASE \E d \in Delays : RetryTask(t, d)
    BY <2>1, KeyActivate DEF RetryTask, Statuses, Active
  <2>2. CASE (\E s \in Terminal : CompleteTask(t, s)) \/ Cleanup(t)
    <3>1. UNCHANGED <<dedupe_key, watch>>
      BY <2>2 DEF CompleteTask, Cleanup
    <3>2. \A u \in Tasks : (status'[u] \in Active => status[u] \in Active)
                         /\ (status[u] # "absent" => status'[u] # "absent")
      BY <2>2 DEF CompleteTask, Cleanup, Active, Terminal, TypeInv, TypeOK
    <3>. QED
      BY <1>0, <3>1, <3>2, KeyFrame
  <2>. QED
    BY <1>8, <2>1, <2>2 DEF Manual
<1>9. CASE Tick \/ UNCHANGED vars
  BY <1>0, <1>9, KeyFrame DEF Tick, vars, rows
<1>10. ASSUME NEW w \in Workers, WorkerStep(w) \/ Fault(w) PROVE KeyInv'
  BY <1>2, <1>3, <1>4, <1>10 DEF WorkerStep
<1>. QED
  BY <1>1, <1>5, <1>6, <1>7, <1>8, <1>9, <1>10 DEF Next, Watchdog

\* No step of any component, in any environment, leaves two active rows with one dedupe
\* key: enqueue, finalization's retry, retry_task and the watchdog (queue.py).
THEOREM ActiveKeysUnique == Spec => []ActiveKeyUnique
<1>1. Init => KeyInv
  BY DEF Init, KeyInv, ActiveKeyUnique, WatchedDistinct, Watched, Active
<1>2. KeyInv => ActiveKeyUnique
  BY DEF KeyInv
<1>. QED
  BY <1>1, <1>2, TypeInit, TypeStep, KeyStep, PTL DEF Spec

-----------------------------------------------------------------------------
(* A Quiet environment *)

\* A worker that is not idle holds its row: it is processing, locked by the worker, and
\* the lease outlasts the next renewal, so nobody else can claim it in between.
HoldsRow(w) ==
  /\ status[job[w].task] = "processing"
  /\ locked_by[job[w].task] = w
  /\ beating[w]
  /\ lease[job[w].task] = due[w] + (LeaseTicks - BeatTicks)
  /\ retry_count[job[w].task] = job[w].retry

\* What finalize_task loaded is still what the row says.
SnapshotCurrent(w) ==
  /\ seen[w].status = "processing"
  /\ seen[w].owner = w
  /\ seen[w].retry = job[w].retry

QuietInv ==
  /\ \A w \in Workers : pc[w] # "idle" => HoldsRow(w)
  /\ \A w \in Workers : pc[w] = "finalizing" => SnapshotCurrent(w)
  /\ \A t \in Tasks : status[t] # "deleted" /\ retry_count[t] <= MaxRetries
  /\ watch = {}

\* Two workers that hold rows hold different ones.
LEMMA HoldersDiffer ==
  ASSUME QuietInv, NEW v \in Workers, NEW w \in Workers, v # w, pc[v] # "idle", pc[w] # "idle"
  PROVE  job[v].task # job[w].task
  BY DEF QuietInv, HoldsRow

\* Other workers are not disturbed by a step that changes one worker and, at most, the
\* row that this worker holds or a row that nobody holds.
LEMMA QuietFrame ==
  ASSUME TypeInv, QuietInv, NEW w \in Workers, NEW t \in Tasks,
         \A v \in Workers \ {w} : /\ pc'[v] = pc[v] /\ job'[v] = job[v]
                                  /\ beating'[v] = beating[v] /\ due'[v] = due[v]
                                  /\ seen'[v] = seen[v]
                                  /\ pc[v] # "idle" => job[v].task # t,
         \A u \in Tasks \ {t} : /\ status'[u] = status[u] /\ locked_by'[u] = locked_by[u]
                                /\ lease'[u] = lease[u] /\ retry_count'[u] = retry_count[u],
         watch' = {}, status'[t] # "deleted", retry_count'[t] <= MaxRetries,
         pc'[w] # "idle" => HoldsRow(w)',
         pc'[w] = "finalizing" => SnapshotCurrent(w)'
  PROVE  QuietInv'
<1>1. ASSUME NEW v \in Workers, pc'[v] # "idle" PROVE HoldsRow(v)'
  <2>1. CASE v = w
    BY <1>1, <2>1
  <2>2. CASE v # w
    <3>1. /\ pc'[v] = pc[v] /\ job'[v] = job[v] /\ beating'[v] = beating[v]
          /\ due'[v] = due[v] /\ (pc[v] # "idle" => job[v].task # t)
      BY <2>2, v \in Workers \ {w}
    <3>2. HoldsRow(v) /\ job[v].task \in Tasks \ {t}
      BY <1>1, <3>1 DEF QuietInv, TypeInv, BusyHasTask
    <3>. QED
      BY <3>1, <3>2 DEF HoldsRow
  <2>. QED
    BY <2>1, <2>2
<1>2. ASSUME NEW v \in Workers, pc'[v] = "finalizing" PROVE SnapshotCurrent(v)'
  <2>1. CASE v = w
    BY <1>2, <2>1
  <2>2. CASE v # w
    <3>1. pc'[v] = pc[v] /\ job'[v] = job[v] /\ seen'[v] = seen[v]
      BY <2>2, v \in Workers \ {w}
    <3>. QED
      BY <1>2, <3>1 DEF QuietInv, SnapshotCurrent
  <2>. QED
    BY <2>1, <2>2
<1>3. \A u \in Tasks : status'[u] # "deleted" /\ retry_count'[u] <= MaxRetries
  BY DEF QuietInv
<1>. QED
  BY <1>1, <1>2, <1>3 DEF QuietInv

LEMMA QuietClaim ==
  ASSUME TypeInv, QuietInv, NEW w \in Workers, NEW t \in Tasks, Claim(w, t)
  PROVE  QuietInv' /\ \A v \in Workers : ~ Running(v, t)
<1>. USE ConstantsAssumption, BeatAssumption
<1>1. \A v \in Workers : pc[v] # "idle" => job[v].task # t
  BY DEF Claim, Claimable, QuietInv, HoldsRow, TypeInv, TypeOK
<1>2. HoldsRow(w)'
  BY DEF Claim, HoldsRow, TypeInv, TypeOK
<1>3. pc'[w] = "busy" /\ status'[t] = "processing" /\ watch' = {} /\ retry_count' = retry_count
  BY DEF Claim, QuietInv, TypeInv, TypeOK
<1>4. \A v \in Workers \ {w} : /\ pc'[v] = pc[v] /\ job'[v] = job[v]
                               /\ beating'[v] = beating[v] /\ due'[v] = due[v]
                               /\ seen'[v] = seen[v]
  BY DEF Claim, TypeInv, TypeOK
<1>5. \A u \in Tasks \ {t} : /\ status'[u] = status[u] /\ locked_by'[u] = locked_by[u]
                             /\ lease'[u] = lease[u] /\ retry_count'[u] = retry_count[u]
  BY DEF Claim, TypeInv, TypeOK
<1>6. retry_count'[t] <= MaxRetries
  BY <1>3 DEF QuietInv
<1>7. QuietInv'
  BY <1>1, <1>2, <1>3, <1>4, <1>5, <1>6, QuietFrame
<1>. QED
  BY <1>1, <1>7 DEF Running

\* The worker's own renewal, and a finalization's first half.
LEMMA QuietRenew ==
  ASSUME TypeInv, QuietInv, NEW w \in Workers, Renew(w)
  PROVE  QuietInv'
<1>. USE ConstantsAssumption, BeatAssumption
<1>. DEFINE t == job[w].task
<1>1. t \in Tasks /\ HoldsRow(w)
  BY DEF Renew, QuietInv, TypeInv, BusyHasTask
<1>2. HoldsRow(w)'
  BY <1>1 DEF Renew, HoldsRow, TypeInv, TypeOK
<1>3. /\ \A v \in Workers \ {w} : pc[v] # "idle" => job[v].task # t
      /\ \A v \in Workers \ {w} : /\ pc'[v] = pc[v] /\ job'[v] = job[v]
                                    /\ beating'[v] = beating[v] /\ due'[v] = due[v]
                                    /\ seen'[v] = seen[v]
  BY HoldersDiffer DEF Renew, TypeInv, TypeOK
<1>4. /\ \A u \in Tasks \ {t} : /\ status'[u] = status[u] /\ locked_by'[u] = locked_by[u]
                                  /\ lease'[u] = lease[u] /\ retry_count'[u] = retry_count[u]
      /\ status' = status /\ retry_count' = retry_count
  BY <1>1 DEF Renew, TypeInv, TypeOK
<1>5. watch' = {} /\ status'[t] # "deleted" /\ retry_count'[t] <= MaxRetries
  BY <1>1, <1>4 DEF Renew, QuietInv
<1>6. pc'[w] = "finalizing" => SnapshotCurrent(w)'
  BY DEF Renew, QuietInv, SnapshotCurrent
<1>. QED
  BY <1>1, <1>2, <1>3, <1>4, <1>5, <1>6, QuietFrame

LEMMA QuietLoad ==
  ASSUME TypeInv, QuietInv, NEW w \in Workers, NEW outcome \in Outcomes,
         LoadForFinalize(w, outcome)
  PROVE  QuietInv'
<1>. DEFINE t == job[w].task
<1>1. t \in Tasks /\ HoldsRow(w)
  BY DEF LoadForFinalize, QuietInv, TypeInv, BusyHasTask
<1>2. HoldsRow(w)' /\ SnapshotCurrent(w)'
  BY <1>1 DEF LoadForFinalize, HoldsRow, SnapshotCurrent, TypeInv, TypeOK, rows
<1>3. /\ \A v \in Workers \ {w} : pc[v] # "idle" => job[v].task # t
      /\ \A v \in Workers \ {w} : /\ pc'[v] = pc[v] /\ job'[v] = job[v]
                                    /\ beating'[v] = beating[v] /\ due'[v] = due[v]
                                    /\ seen'[v] = seen[v]
  BY HoldersDiffer DEF LoadForFinalize, TypeInv, TypeOK
<1>4. UNCHANGED <<status, locked_by, lease, retry_count>>
  BY DEF LoadForFinalize, rows
<1>5. watch' = {} /\ status'[t] # "deleted" /\ retry_count'[t] <= MaxRetries
  BY <1>1, <1>4 DEF LoadForFinalize, QuietInv
<1>. QED
  BY <1>1, <1>2, <1>3, <1>4, <1>5, QuietFrame

\* A worker that goes back to polling disturbs no other worker, if it leaves alone every
\* row but its own.
LEMMA QuietRelease ==
  ASSUME TypeInv, QuietInv, NEW w \in Workers, pc[w] # "idle", Release(w), watch' = {},
         \A u \in Tasks \ {job[w].task} :
            /\ status'[u] = status[u] /\ locked_by'[u] = locked_by[u]
            /\ lease'[u] = lease[u] /\ retry_count'[u] = retry_count[u],
         status'[job[w].task] # "deleted", retry_count'[job[w].task] <= MaxRetries
  PROVE  QuietInv'
<1>1. job[w].task \in Tasks
  BY DEF TypeInv, BusyHasTask
<1>2. \A v \in Workers \ {w} : /\ pc'[v] = pc[v] /\ job'[v] = job[v]
                               /\ beating'[v] = beating[v] /\ due'[v] = due[v]
                               /\ seen'[v] = seen[v]
                               /\ pc[v] # "idle" => job[v].task # job[w].task
  BY HoldersDiffer DEF Release, TypeInv, TypeOK
<1>3. pc'[w] = "idle"
  BY DEF Release, TypeInv, TypeOK
<1>. QED
  BY <1>1, <1>2, <1>3, QuietFrame

\* The verdict of a worker that owns its row is written as it was decided.
LEMMA QuietCommitWrites ==
  ASSUME TypeInv, QuietInv, NEW w \in Workers, NEW d \in Delays, CommitFinalize(w, d)
  PROVE  /\ job[w].task \in Tasks /\ status[job[w].task] = "processing"
         /\ status' = [status EXCEPT ![job[w].task] = Verdict(w)]
         /\ Verdict(w) \in {"completed", "failed", "pending"}
         /\ Verdict(w) = "pending" => retry_count[job[w].task] < MaxRetries
         /\ retry_count' = [retry_count EXCEPT ![job[w].task] =
                              IF Verdict(w) = "pending" THEN @ + 1 ELSE @]
<1>1. job[w].task \in Tasks /\ HoldsRow(w) /\ SnapshotCurrent(w)
  BY DEF CommitFinalize, QuietInv, TypeInv, BusyHasTask
<1>2. /\ Verdict(w) \in {"completed", "failed", "pending"}
      /\ Verdict(w) = "pending" => job[w].retry < MaxRetries
  BY DEF Verdict
<1>3. status' = [status EXCEPT ![job[w].task] = Verdict(w)]
  BY <1>1, <1>2 DEF CommitFinalize, Flush, HoldsRow, SnapshotCurrent
<1>4. Larger(seen[w].retry, job[w].retry) = retry_count[job[w].task]
  BY <1>1 DEF Larger, SnapshotCurrent, HoldsRow, TypeInv, TypeOK
<1>5. retry_count' = [retry_count EXCEPT ![job[w].task] =
                       IF Verdict(w) = "pending" THEN @ + 1 ELSE @]
  BY <1>1, <1>4 DEF CommitFinalize
<1>. QED
  BY <1>1, <1>2, <1>3, <1>5 DEF HoldsRow

LEMMA QuietCommit ==
  ASSUME TypeInv, QuietInv, NEW w \in Workers, NEW d \in Delays, CommitFinalize(w, d)
  PROVE  QuietInv'
<1>. USE ConstantsAssumption
<1>. DEFINE t == job[w].task
<1>1. /\ t \in Tasks
      /\ status' = [status EXCEPT ![t] = Verdict(w)]
      /\ Verdict(w) \in {"completed", "failed", "pending"}
      /\ Verdict(w) = "pending" => retry_count[t] < MaxRetries
      /\ retry_count' = [retry_count EXCEPT ![t] = IF Verdict(w) = "pending" THEN @ + 1 ELSE @]
  BY QuietCommitWrites
<1>2. \A u \in Tasks \ {t} : /\ status'[u] = status[u] /\ locked_by'[u] = locked_by[u]
                             /\ lease'[u] = lease[u] /\ retry_count'[u] = retry_count[u]
  BY <1>1 DEF CommitFinalize, TypeInv, TypeOK
<1>3. status'[t] # "deleted" /\ retry_count'[t] <= MaxRetries
  BY <1>1 DEF QuietInv, TypeInv, TypeOK
<1>4. pc[w] # "idle" /\ Release(w) /\ watch' = {}
  BY DEF CommitFinalize, QuietInv
<1>. QED
  BY <1>2, <1>3, <1>4, QuietRelease

\* With no worker late and no other disturbance, the clock moves a lease and the renewal
\* that protects it together.
LEMMA QuietTick ==
  ASSUME Quiet, TypeInv, QuietInv, Tick
  PROVE  QuietInv'
<1>. USE ConstantsAssumption, BeatAssumption
<1>1. ASSUME NEW w \in Workers, pc'[w] # "idle" PROVE HoldsRow(w)'
  <2>1. job[w].task \in Tasks /\ HoldsRow(w)
    BY <1>1 DEF Tick, QuietInv, TypeInv, BusyHasTask
  <2>2. due[w] # 0
    BY <2>1 DEF Tick, Quiet, HoldsRow
  <2>3. due[w] \in Nat /\ lease[job[w].task] = due[w] + (LeaseTicks - BeatTicks)
    BY <2>1 DEF HoldsRow, TypeInv, TypeOK
  <2>4. due'[w] = due[w] - 1 /\ lease'[job[w].task] = lease[job[w].task] - 1
    BY <2>1, <2>2, <2>3 DEF Tick, Less
  <2>. QED
    BY <2>1, <2>3, <2>4 DEF Tick, HoldsRow
<1>2. \A w \in Workers : pc'[w] = "finalizing" => SnapshotCurrent(w)'
  BY DEF Tick, QuietInv, SnapshotCurrent
<1>. QED
  BY <1>1, <1>2 DEF Tick, QuietInv

\* The insert of a new row is invisible to every worker.
LEMMA QuietEnqueue ==
  ASSUME TypeInv, QuietInv, NEW t \in Tasks, NEW k \in Keys \cup {NoKey}, Enqueue(t, k)
  PROVE  QuietInv'
<1>1. ASSUME NEW w \in Workers, pc'[w] # "idle" PROVE HoldsRow(w)'
  <2>1. job[w].task \in Tasks /\ HoldsRow(w) /\ job[w].task # t
    BY <1>1 DEF Enqueue, procs, QuietInv, HoldsRow, TypeInv, BusyHasTask
  <2>. QED
    BY <2>1 DEF Enqueue, procs, HoldsRow, TypeInv, TypeOK
<1>2. \A w \in Workers : pc'[w] = "finalizing" => SnapshotCurrent(w)'
  BY DEF Enqueue, procs, QuietInv, SnapshotCurrent
<1>. QED
  BY <1>1, <1>2 DEF Enqueue, QuietInv, TypeInv, TypeOK

\* Attempts that end without writing the row: a crash, a lost or rejected finalization.
QuietEnd(w) == FinalizeMissing(w) \/ FinalizeRejected(w) \/ FinalizeDbError(w) \/ Crash(w)

LEMMA QuietEnds ==
  ASSUME TypeInv, QuietInv, NEW w \in Workers, QuietEnd(w)
  PROVE  /\ QuietInv'
         /\ pc[w] # "idle" /\ Release(w)
         /\ UNCHANGED <<status, retry_count>>
<1>1. pc[w] # "idle" /\ Release(w) /\ UNCHANGED rows /\ watch' = {}
  BY DEF QuietEnd, FinalizeMissing, FinalizeRejected, FinalizeDbError, Crash, QuietInv
<1>2. job[w].task \in Tasks
  BY <1>1 DEF TypeInv, BusyHasTask
<1>. QED
  BY <1>1, <1>2, QuietRelease DEF rows, QuietInv

\* A Quiet environment never lets the heartbeat die, the watchdog load anything or the
\* manual operations run; what is left are these steps.
LEMMA QuietNext ==
  ASSUME Quiet, QuietInv, Next
  PROVE  \/ \E t \in Tasks, k \in Keys \cup {NoKey} : Enqueue(t, k)
         \/ \E w \in Workers :
              \/ \E t \in Tasks : Claim(w, t)
              \/ Renew(w)
              \/ \E outcome \in Outcomes : LoadForFinalize(w, outcome)
              \/ \E d \in Delays : CommitFinalize(w, d)
              \/ QuietEnd(w)
         \/ Tick
<1>1. ~ Watchdog
  BY DEF Watchdog, WatchdogLoad, WatchdogCommit, WatchdogRollback, Disturb, Quiet, QuietInv
<1>2. ASSUME NEW t \in Tasks PROVE ~ Manual(t)
  BY DEF Manual, RetryTask, CompleteTask, Cleanup, Disturb, Quiet
<1>3. ASSUME NEW w \in Workers PROVE ~ HeartbeatDies(w)
  BY DEF HeartbeatDies, Disturb, Quiet
<1>. QED
  BY <1>1, <1>2, <1>3 DEF Next, WorkerStep, Finish, Fault, QuietEnd

LEMMA QuietStep == Quiet /\ TypeInv /\ QuietInv /\ [Next]_vars => QuietInv'
<1>. SUFFICES ASSUME Quiet, TypeInv, QuietInv, [Next]_vars PROVE QuietInv'
  OBVIOUS
<1>1. CASE UNCHANGED vars
  BY <1>1 DEF vars, rows, procs, QuietInv, HoldsRow, SnapshotCurrent
<1>2. CASE Next
  BY <1>2, QuietNext, QuietEnqueue, QuietClaim, QuietRenew, QuietLoad, QuietCommit, QuietEnds,
     QuietTick
<1>. QED
  BY <1>1, <1>2

LEMMA QuietInit == Init => QuietInv
  BY ConstantsAssumption DEF Init, QuietInv

-----------------------------------------------------------------------------
\* A task's handler runs in at most one worker, for any number of workers and any lease
\* longer than the renewal interval (dequeue, renew_lease, _lease_heartbeat).
THEOREM ExclusiveWhenQuiet == ASSUME Quiet PROVE Spec => []ExclusiveExecution
<1>1. QuietInv => ExclusiveExecution
  BY DEF QuietInv, HoldsRow, ExclusiveExecution, Running
<1>2. TypeInv /\ QuietInv /\ [Next]_vars => QuietInv'
  BY QuietStep
<1>. QED
  BY <1>1, <1>2, QuietInit, TypeInit, TypeStep, PTL DEF Spec

\* No crash, reclaim or lost finalization makes a task exceed max_retries (finalize_task).
THEOREM RetryBudgetWhenQuiet == ASSUME Quiet PROVE Spec => []RetryBudget
<1>1. QuietInv => RetryBudget
  BY DEF QuietInv, RetryBudget
<1>2. TypeInv /\ QuietInv /\ [Next]_vars => QuietInv'
  BY QuietStep
<1>. QED
  BY <1>1, <1>2, QuietInit, TypeInit, TypeStep, PTL DEF Spec

\* A task that completed or failed stays so: every worker that could still write it has
\* left it (finalize_task has no ownership check, the lease provides it).
THEOREM TerminalWhenQuiet == ASSUME Quiet PROVE Spec => TerminalIsFinal
<1>1. ASSUME TypeInv, QuietInv, Next, NEW t \in Tasks, status[t] \in Terminal
      PROVE  status'[t] = status[t]
  <2>1. ASSUME NEW u \in Tasks, NEW k \in Keys \cup {NoKey}, Enqueue(u, k)
        PROVE  status'[t] = status[t]
    BY <1>1, <2>1 DEF Enqueue, Terminal, TypeInv, TypeOK
  <2>2. ASSUME NEW w \in Workers, NEW u \in Tasks, Claim(w, u) PROVE status'[t] = status[t]
    BY <1>1, <2>2 DEF Claim, Claimable, Terminal, TypeInv, TypeOK
  <2>3. ASSUME NEW w \in Workers, NEW d \in Delays, CommitFinalize(w, d)
        PROVE  status'[t] = status[t]
    BY <1>1, <2>3, QuietCommitWrites DEF Terminal, TypeInv, TypeOK
  <2>4. ASSUME NEW w \in Workers, QuietEnd(w) PROVE status'[t] = status[t]
    BY <1>1, <2>4, QuietEnds
  <2>5. ASSUME NEW w \in Workers,
               Renew(w) \/ (\E outcome \in Outcomes : LoadForFinalize(w, outcome))
        PROVE  status'[t] = status[t]
    BY <2>5 DEF Renew, LoadForFinalize, rows
  <2>6. CASE Tick
    BY <2>6 DEF Tick
  <2>. QED
    BY <1>1, <2>1, <2>2, <2>3, <2>4, <2>5, <2>6, QuietNext
<1>2. TypeInv /\ QuietInv /\ [Next]_vars =>
        [\A t \in Tasks : status[t] \in Terminal => status'[t] = status[t]]_vars
  BY <1>1
<1>3. TypeInv /\ QuietInv /\ [Next]_vars => QuietInv'
  BY QuietStep
<1>. QED
  BY <1>2, <1>3, QuietInit, TypeInit, TypeStep, PTL DEF Spec, TerminalIsFinal

\* A processing row can always be claimed again: it never loses its owner without
\* leaving that status, for the only worker that clears the owner is the owner.
THEOREM ReclaimableWhenQuiet == ASSUME Quiet PROVE Spec => []Reclaimable
<1>1. ASSUME TypeInv, QuietInv, Reclaimable, Next, NEW t \in Tasks, status'[t] = "processing"
      PROVE  locked_by'[t] # NoWorker
  <2>1. ASSUME NEW u \in Tasks, NEW k \in Keys \cup {NoKey}, Enqueue(u, k)
        PROVE  locked_by'[t] # NoWorker
    BY <1>1, <2>1 DEF Enqueue, Reclaimable, TypeInv, TypeOK
  <2>2. ASSUME NEW w \in Workers, NEW u \in Tasks, Claim(w, u) PROVE locked_by'[t] # NoWorker
    BY <1>1, <2>2, ConstantsAssumption DEF Claim, Reclaimable, TypeInv, TypeOK
  <2>3. ASSUME NEW w \in Workers, NEW d \in Delays, CommitFinalize(w, d)
        PROVE  locked_by'[t] # NoWorker
    <3>1. t # job[w].task /\ status[t] = "processing"
      BY <1>1, <2>3, QuietCommitWrites DEF TypeInv, TypeOK
    <3> QED BY <1>1, <2>3, <3>1 DEF CommitFinalize, Reclaimable, TypeInv, TypeOK
  <2>4. ASSUME NEW w \in Workers,
               QuietEnd(w) \/ Renew(w) \/ (\E outcome \in Outcomes : LoadForFinalize(w, outcome))
        PROVE  locked_by'[t] # NoWorker
    <3>1. UNCHANGED <<status, locked_by>>
      BY <2>4 DEF QuietEnd, FinalizeMissing, FinalizeRejected, FinalizeDbError, Crash, Renew,
         LoadForFinalize, rows
    <3> QED BY <1>1, <3>1 DEF Reclaimable
  <2>5. CASE Tick
    BY <1>1, <2>5 DEF Tick, Reclaimable
  <2>. QED
    BY <1>1, <2>1, <2>2, <2>3, <2>4, <2>5, QuietNext
<1>2. TypeInv /\ QuietInv /\ Reclaimable /\ [Next]_vars => Reclaimable'
  BY <1>1 DEF Reclaimable, vars, rows
<1>3. TypeInv /\ QuietInv /\ [Next]_vars => QuietInv'
  BY QuietStep
<1>4. Init => Reclaimable
  BY DEF Init, Reclaimable
<1>. QED
  BY <1>2, <1>3, <1>4, QuietInit, TypeInit, TypeStep, PTL DEF Spec

-----------------------------------------------------------------------------
(* The queue implements its contract.                                        *)

\* A worker that gives its task up leaves no runner, and no other task is affected.
LEMMA ReleasedRunners ==
  ASSUME TypeInv, QuietInv, NEW w \in Workers, pc[w] # "idle", Release(w)
  PROVE  /\ Runners[job[w].task] = {w}
         /\ Runners' = [Runners EXCEPT ![job[w].task] = {}]
<1>1. PICK t \in Tasks : t = job[w].task
  BY DEF TypeInv, BusyHasTask
<1>2. \A v \in Workers \ {w} : pc[v] # "idle" => job[v].task # t
  BY <1>1, HoldersDiffer
<1>3. \A v \in Workers : ~ Running(v, t)'
  <2>1. pc'[w] = "idle"
    BY DEF Release, TypeInv, TypeOK
  <2>2. ASSUME NEW v \in Workers \ {w} PROVE ~ Running(v, t)'
    BY <1>2 DEF Release, Running, TypeInv, TypeOK
  <2>. QED
    BY <2>1, <2>2 DEF Running
<1>4. \A u \in Tasks \ {t}, v \in Workers : Running(v, u)' <=> Running(v, u)
  BY <1>1, ConstantsAssumption DEF Release, Running, NoJob, TypeInv, TypeOK
<1>5. Runners'[t] = {} /\ \A u \in Tasks \ {t} : Runners'[u] = Runners[u]
  BY <1>1, <1>3, <1>4 DEF Runners
<1>6. Runners[t] = {w}
  BY <1>1, <1>2 DEF Runners, Running
<1>. QED
  BY <1>1, <1>5, <1>6 DEF Runners

\* Each step of the queue is one of the contract's, or changes nothing the contract sees.
LEMMA ContractStep ==
  Quiet /\ TypeInv /\ QuietInv /\ [Next]_vars => [Contract!Next]_(Contract!contractVars)
<1>. SUFFICES ASSUME Quiet, TypeInv, QuietInv, [Next]_vars
              PROVE  Contract!Next \/ UNCHANGED <<status, Runners, retry_count>>
  BY DEF Contract!contractVars
<1>1. CASE UNCHANGED vars
  BY <1>1 DEF vars, rows, procs, Runners, Running
<1>2. ASSUME NEW t \in Tasks, NEW k \in Keys \cup {NoKey}, Enqueue(t, k)
      PROVE  Contract!Next
  <2>1. UNCHANGED <<Runners, retry_count>>
    BY <1>2 DEF Enqueue, procs, Runners, Running
  <2>2. Contract!Submit(t)
    BY <1>2, <2>1 DEF Enqueue, Contract!Submit
  <2>. QED
    BY <2>2 DEF Contract!Next
<1>3. ASSUME NEW w \in Workers, NEW t \in Tasks, Claim(w, t) PROVE Contract!Next
  <2>1. \A v \in Workers : ~ Running(v, t)
    BY <1>3, QuietClaim
  <2>2. \A v \in Workers : Running(v, t)' <=> v = w
    BY <1>3, <2>1 DEF Claim, Running, TypeInv, TypeOK
  <2>3. \A u \in Tasks \ {t}, v \in Workers : Running(v, u)' <=> Running(v, u)
    BY <1>3 DEF Claim, Running, TypeInv, TypeOK
  <2>4. Runners' = [Runners EXCEPT ![t] = {w}] /\ Runners[t] = {}
    BY <2>1, <2>2, <2>3 DEF Runners
  <2>5. Contract!Start(w, t)
    BY <1>3, <2>4 DEF Claim, Claimable, Contract!Start
  <2>. QED
    BY <2>5 DEF Contract!Next
<1>4. ASSUME NEW w \in Workers, NEW d \in Delays, CommitFinalize(w, d) PROVE Contract!Next
  <2>. DEFINE t == job[w].task
  <2>1. /\ t \in Tasks /\ status' = [status EXCEPT ![t] = Verdict(w)]
        /\ Verdict(w) \in {"completed", "failed", "pending"}
        /\ Verdict(w) = "pending" => retry_count[t] < MaxRetries
        /\ retry_count' = [retry_count EXCEPT ![t] =
                             IF Verdict(w) = "pending" THEN @ + 1 ELSE @]
    BY <1>4, QuietCommitWrites
  <2>2. Runners[t] = {w} /\ Runners' = [Runners EXCEPT ![t] = {}]
    BY <1>4, ReleasedRunners DEF CommitFinalize
  <2>3. CASE Verdict(w) = "pending"
    <3>1. Contract!Repeat(w, t)
      BY <2>1, <2>2, <2>3 DEF Contract!Repeat
    <3>. QED
      BY <2>1, <3>1 DEF Contract!Next
  <2>4. CASE Verdict(w) \in {"completed", "failed"}
    <3>1. retry_count' = retry_count
      BY <2>1, <2>4 DEF TypeInv, TypeOK
    <3>2. Contract!Settle(w, t, Verdict(w))
      BY <2>1, <2>2, <3>1 DEF Contract!Settle
    <3>. QED
      BY <2>1, <2>4, <3>2 DEF Contract!Next
  <2>. QED
    BY <2>1, <2>3, <2>4
<1>5. ASSUME NEW w \in Workers, QuietEnd(w) PROVE Contract!Next
  <2>1. pc[w] # "idle" /\ Release(w) /\ UNCHANGED <<status, retry_count>>
    BY <1>5, QuietEnds
  <2>2. job[w].task \in Tasks
    BY <2>1 DEF TypeInv, BusyHasTask
  <2>3. Contract!Interrupt(w, job[w].task)
    BY <2>1, ReleasedRunners DEF Contract!Interrupt
  <2>. QED
    BY <2>2, <2>3 DEF Contract!Next
<1>6. ASSUME NEW w \in Workers,
             Renew(w) \/ (\E outcome \in Outcomes : LoadForFinalize(w, outcome))
      PROVE  UNCHANGED <<status, Runners, retry_count>>
  <2>1. CASE Renew(w)
    BY <2>1 DEF Renew, Runners, Running
  <2>2. CASE \E outcome \in Outcomes : LoadForFinalize(w, outcome)
    <3>1. \A v \in Workers : job'[v] = job[v] /\ (pc'[v] = "idle" <=> pc[v] = "idle")
      BY <2>2 DEF LoadForFinalize, TypeInv, TypeOK
    <3>. QED
      BY <2>2, <3>1 DEF LoadForFinalize, rows, Runners, Running
  <2>. QED
    BY <1>6, <2>1, <2>2
<1>7. CASE Tick
  BY <1>7 DEF Tick, Runners, Running
<1>. QED
  BY <1>1, <1>2, <1>3, <1>4, <1>5, <1>6, <1>7, QuietNext

\* What the code that enqueues work may rely on: with leases, heartbeats, crashes and lost
\* finalizations, the queue behaves as TaskContract says (queue.py).
THEOREM ContractImplemented == ASSUME Quiet PROVE Spec => ImplementsContract
<1>1. Init => Contract!Init
  BY DEF Init, Contract!Init, Runners, Running
<1>2. TypeInv /\ QuietInv /\ [Next]_vars => [Contract!Next]_(Contract!contractVars)
  BY ContractStep
<1>3. TypeInv /\ QuietInv /\ [Next]_vars => QuietInv'
  BY QuietStep
<1>. QED
  BY <1>1, <1>2, <1>3, QuietInit, TypeInit, TypeStep, PTL DEF Spec, ImplementsContract, Contract!Spec
==============================================================================

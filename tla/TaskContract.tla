---------------------------- MODULE TaskContract -----------------------------
(***************************************************************************)
(* What the task queue promises to the code that enqueues work, without    *)
(* leases, heartbeats, clocks or transactions: a task runs in at most one   *)
(* worker at a time, an interrupted run is taken up again, a failed run is  *)
(* repeated at most MaxRetries times, and a settled task stays settled.     *)
(***************************************************************************)
EXTENDS Naturals

CONSTANTS
  Tasks,        \* tasks that may be submitted
  Workers,      \* processes that may run them
  MaxRetries    \* how often a failed run is repeated

VARIABLES
  state,        \* "absent", "pending", "processing", "completed" or "failed"
  runners,      \* the workers that run the task now
  failures      \* how many failed runs were repeated

contractVars == <<state, runners, failures>>

Init ==
  /\ state = [t \in Tasks |-> "absent"]
  /\ runners = [t \in Tasks |-> {}]
  /\ failures = [t \in Tasks |-> 0]

Submit(t) ==
  /\ state[t] = "absent"
  /\ state' = [state EXCEPT ![t] = "pending"]
  /\ UNCHANGED <<runners, failures>>

\* A worker starts a waiting task, or one whose last run was interrupted.
Start(w, t) ==
  /\ state[t] \in {"pending", "processing"}
  /\ runners[t] = {}
  /\ state' = [state EXCEPT ![t] = "processing"]
  /\ runners' = [runners EXCEPT ![t] = {w}]
  /\ UNCHANGED failures

\* The run's outcome is recorded.
Settle(w, t, s) ==
  /\ runners[t] = {w}
  /\ state' = [state EXCEPT ![t] = s]
  /\ runners' = [runners EXCEPT ![t] = {}]
  /\ UNCHANGED failures

Repeat(w, t) ==
  /\ runners[t] = {w}
  /\ failures[t] < MaxRetries
  /\ state' = [state EXCEPT ![t] = "pending"]
  /\ runners' = [runners EXCEPT ![t] = {}]
  /\ failures' = [failures EXCEPT ![t] = @ + 1]

\* The run ends without a recorded outcome; the task remains to be done.
Interrupt(w, t) ==
  /\ runners[t] = {w}
  /\ runners' = [runners EXCEPT ![t] = {}]
  /\ UNCHANGED <<state, failures>>

Next ==
  \E t \in Tasks :
    \/ Submit(t)
    \/ \E w \in Workers :
         \/ Start(w, t)
         \/ \E s \in {"completed", "failed"} : Settle(w, t, s)
         \/ Repeat(w, t)
         \/ Interrupt(w, t)

Spec == Init /\ [][Next]_contractVars
=============================================================================

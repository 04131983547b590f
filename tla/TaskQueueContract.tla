-------------------------- MODULE TaskQueueContract --------------------------
(* The refinement mapping from the database queue to its contract.           *)
EXTENDS TaskQueue

\* The workers whose handler runs each task now.
Runners == [t \in Tasks |-> {w \in Workers : Running(w, t)}]

Contract == INSTANCE TaskContract WITH
              state    <- status,
              runners  <- Runners,
              failures <- retry_count

\* In a Quiet environment the queue, its leases, heartbeats and two-step finalization
\* implement the contract (queue.py with sequential_task_processor.py).
ImplementsContract == Contract!Spec
=============================================================================

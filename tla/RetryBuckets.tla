---------------------------- MODULE RetryBuckets -----------------------------
(***************************************************************************)
(* The order in which QueueService.dequeue looks at retry buckets           *)
(* (app/services/queue.py).  A bucket is the set of claimable rows with one *)
(* retry_count.  Each QueueService object keeps one cursor per (queue, task *)
(* type); the rows, and so the list of non-empty buckets, change freely     *)
(* between two calls, as tasks arrive, become due and are claimed by other  *)
(* workers.                                                                 *)
(***************************************************************************)
EXTENDS Naturals, FiniteSets

CONSTANTS MaxRetries    \* buckets are 0..MaxRetries

ASSUME MaxRetriesAssumption == MaxRetries \in Nat

VARIABLES
  cursor,     \* _retry_bucket_cursor[(queue_name, task_type)]
  listed,     \* the buckets the last dequeue found non-empty
  tried,      \* the buckets the last dequeue tried to claim from
  skipped     \* per bucket: dequeues in a row, with one list, that never got to it

vars == <<cursor, listed, tried, skipped>>

Buckets == 0..MaxRetries

\* The position of a bucket in the ascending list of the available ones.
Rank(b, avail) == Cardinality({c \in avail : c < b})

\* Mutant of Rotated: always the ascending order.
NeverRotated(b, avail) == Rank(b, avail)

\* _ordered_retry_counts: avail[cursor:] + avail[:cursor].  A cursor left over from a
\* longer list points past the end, and the order is then the ascending one.
Rotated(b, avail) ==
  LET n == Cardinality(avail)
      r == Rank(b, avail)
  IN  CASE n = 1 \/ cursor >= n -> r
        [] r >= cursor          -> r - cursor
        [] OTHER                -> r + n - cursor

\* A single bucket leaves the cursor alone.
Advance(avail) ==
  IF Cardinality(avail) = 1 THEN cursor ELSE (cursor + 1) % Cardinality(avail)

Init ==
  /\ cursor = 0
  /\ listed = {}
  /\ tried = {}
  /\ skipped = [b \in Buckets |-> 0]

\* One dequeue over the non-empty buckets avail.  In some of them, lost, another worker
\* takes or locks every row between the two queries, so the claim returns no row and the
\* next bucket in the order is tried.
Dequeue(avail, lost) ==
  LET before(b) == {c \in avail : Rotated(c, avail) < Rotated(b, avail)}
      reached   == {b \in avail : before(b) \subseteq lost}
  IN  /\ cursor' = Advance(avail)
      /\ listed' = avail
      /\ tried' = reached
      /\ skipped' = [b \in Buckets |->
           IF b \notin avail \ reached THEN 0
           ELSE IF avail # listed THEN 1
           ELSE skipped[b] + 1]

Next == \E avail \in (SUBSET Buckets) \ {{}} : \E lost \in SUBSET avail : Dequeue(avail, lost)

Spec == Init /\ [][Next]_vars

-----------------------------------------------------------------------------
\* The cursor always points into the longest possible list.
TypeOK ==
  /\ cursor \in 0..MaxRetries
  /\ listed \in SUBSET Buckets
  /\ tried \in SUBSET listed
  /\ skipped \in [Buckets -> Nat]

\* While the list of buckets stays the same, every bucket gets its turn: none is left out
\* by more than n dequeues in a row (the rotation of _ordered_retry_counts; the one extra
\* turn over a perfect round robin is a cursor left over from a longer list).
SteadyRotation == \A b \in listed : skipped[b] <= Cardinality(listed)
=============================================================================

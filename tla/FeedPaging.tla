----------------------------- MODULE FeedPaging ------------------------------
(***************************************************************************)
(* A list of the app and the pages it is made of.  The server sorts what   *)
(* the user may see by (timestamp, id) and answers a page with a cursor    *)
(* that names its last row; the app appends pages as they arrive.          *)
(***************************************************************************)
EXTENDS Integers, FiniteSets, FiniteSetsExt

CONSTANTS Items,         \* contents: their ids
          Stamp,         \* the timestamp they are sorted by; ties are possible
          Limit,         \* rows of a page
          Calls,         \* page requests of the app
          Kind,          \* "inbox": the unread list; "recent": recently read
          Disturbances,  \* subset of {"again", "overlap", "failure"}
          MaxFaults

VARIABLES listed,   \* on the server: completed contents the filter lets through
          shown,    \* items
          cursor, hasMore, loading, state,
          call,     \* page requests under way
          read,     \* marked read in the app, and so dropped from the list
          marking,  \* of these, not yet known to the server
          steady,   \* listed ever since this list was begun
          faults

list == <<shown, cursor, hasMore, loading, state>>
vars == <<listed, list, call, read, marking, steady, faults>>

Start == 0
NoCall == [pc |-> "none", cursor |-> Start, replace |-> FALSE, page |-> {}, more |-> FALSE,
           next |-> Start, since |-> {}]
Disturb(d) == d \in Disturbances /\ faults < MaxFaults /\ faults' = faults + 1
InFlight == {q \in Calls : call[q].pc # "none"}

Init ==
  /\ listed \in SUBSET Items
  /\ shown = {} /\ cursor = Start /\ hasMore = TRUE /\ loading = FALSE /\ state = "idle"
  /\ call = [q \in Calls |-> NoCall]
  /\ read = {} /\ marking = {} /\ steady = {}
  /\ faults = 0

-----------------------------------------------------------------------------
(* The server *)

\* Row i comes after row c: apply_sort_timestamp_cursor.
After(c, i) == Stamp[i] < Stamp[c] \/ (Stamp[i] = Stamp[c] /\ i < c)

\* Mutant of Below: the cursor compares timestamps, not ids.
BelowTime(c) == IF c = Start THEN listed ELSE {i \in listed : Stamp[i] < Stamp[c]}

\* What the query finds below a cursor.  The cursor of the recently read list
\* keeps the read time only in the hash of its filters: it does not come back.
Below(c) == IF c = Start \/ Kind = "recent" THEN listed ELSE {i \in listed : After(c, i)}

\* The first n of S in the order of the list.
First(S, n) ==
  IF Cardinality(S) <= n THEN S
  ELSE CHOOSE P \in kSubset(n, S) : \A i \in P, j \in S \ P : After(i, j)
Last(S) == IF S = {} THEN Start ELSE CHOOSE i \in S : \A j \in S \ {i} : After(j, i)

Serve(q) ==
  /\ call[q].pc = "sent"
  /\ LET rows == First(Below(call[q].cursor), Limit + 1)
         more == Cardinality(rows) > Limit
         page == First(rows, Limit)
     IN call' = [call EXCEPT ![q].pc = "served", ![q].page = page, ![q].more = more,
                             ![q].next = IF more THEN Last(page) ELSE Start]
  /\ UNCHANGED <<listed, list, read, marking, steady, faults>>

\* A content is completed, or read on another device.
Appear(i) ==
  /\ i \in Items \ (listed \cup read)
  /\ listed' = listed \cup {i}
  /\ UNCHANGED <<list, call, read, marking, steady, faults>>

ReadElsewhere(i) ==
  /\ Kind = "inbox" /\ i \in listed \ read
  /\ listed' = listed \ {i} /\ steady' = steady \ {i} /\ read' = read \cup {i}
  /\ UNCHANGED <<list, call, marking, faults>>

\* mark_contents_as_read
MarkArrives(i) ==
  /\ i \in marking /\ marking' = marking \ {i}
  /\ listed' = listed \ {i} /\ steady' = steady \ {i}
  /\ UNCHANGED <<list, call, read, faults>>

-----------------------------------------------------------------------------
(* The app *)

Send(q, c, replace) ==
  /\ q \notin InFlight
  /\ call' = [call EXCEPT ![q] = [NoCall EXCEPT !.pc = "sent", !.cursor = c, !.replace = replace,
                                                !.since = listed]]

StartInitialLoad(q) ==
  /\ ~loading
  /\ Send(q, Start, FALSE)
  /\ IF InFlight = {} THEN UNCHANGED faults ELSE Disturb("overlap")
  /\ shown' = {} /\ cursor' = Start /\ hasMore' = TRUE
  /\ loading' = TRUE /\ state' = "initialLoading"
  /\ steady' = listed
  /\ UNCHANGED <<listed, read, marking>>

RefreshInBackground(q) ==
  /\ Kind = "inbox" /\ ~loading
  /\ Send(q, Start, TRUE)
  /\ IF InFlight = {} THEN UNCHANGED faults ELSE Disturb("overlap")
  /\ loading' = TRUE
  /\ UNCHANGED <<listed, shown, cursor, hasMore, state, read, marking, steady>>

\* The last row appears.  loadNextPage sets no isLoading: it may ask again.
LoadNextPage(q) ==
  /\ ~loading /\ hasMore /\ shown # {}
  /\ Send(q, cursor, FALSE)
  /\ IF InFlight = {} THEN UNCHANGED faults ELSE Kind = "inbox" /\ Disturb("again")
  /\ state' = "loadingMore"
  /\ UNCHANGED <<listed, shown, cursor, hasMore, loading, read, marking, steady>>

Receive(q) ==
  /\ call[q].pc = "served"
  /\ shown' = (IF call[q].replace THEN {} ELSE shown) \cup call[q].page
  /\ cursor' = call[q].next /\ hasMore' = call[q].more
  /\ loading' = FALSE /\ state' = IF call[q].more THEN "idle" ELSE "endOfFeed"
  /\ steady' = IF call[q].replace THEN call[q].since \cap listed ELSE steady
  /\ call' = [call EXCEPT ![q] = NoCall]
  /\ UNCHANGED <<listed, read, marking, faults>>

Fail(q) ==
  /\ q \in InFlight /\ Disturb("failure")
  /\ loading' = FALSE /\ state' = "error"
  /\ call' = [call EXCEPT ![q] = NoCall]
  /\ UNCHANGED <<listed, shown, cursor, hasMore, read, marking, steady>>

\* markAsRead: dropped from the list at once, whatever the server says.
MarkAsRead(i) ==
  /\ Kind = "inbox" /\ i \in shown
  /\ shown' = shown \ {i} /\ read' = read \cup {i} /\ marking' = marking \cup ({i} \cap listed)
  /\ UNCHANGED <<listed, cursor, hasMore, loading, state, call, steady, faults>>

MarkLost(i) ==
  /\ i \in marking /\ Disturb("failure") /\ marking' = marking \ {i}
  /\ UNCHANGED <<listed, list, call, read, steady>>

Next ==
  \/ \E q \in Calls : \/ StartInitialLoad(q) \/ RefreshInBackground(q) \/ LoadNextPage(q)
                      \/ Serve(q) \/ Receive(q) \/ Fail(q)
  \/ \E i \in Items : Appear(i) \/ ReadElsewhere(i) \/ MarkArrives(i) \/ MarkAsRead(i) \/ MarkLost(i)

Spec == Init /\ [][Next]_vars

-----------------------------------------------------------------------------
\* At the end of the list nothing is missing: a content that could be seen all
\* along is shown or was read, whatever arrived, was read or was asked for
\* again between two pages (BaseContentListViewModel, content_feed_query).
NothingHidden ==
  state = "endOfFeed" /\ InFlight = {} => steady \subseteq shown \cup read

\* "Pagination cursor for next page", read_status.py:116: a page that is asked
\* for with a cursor begins after the row the cursor names.
PagesAdvance ==
  \A q \in Calls : call[q].pc = "served" /\ call[q].cursor # Start =>
    \A i \in call[q].page : After(call[q].cursor, i)
=============================================================================

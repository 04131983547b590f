---------------------------- MODULE CouncilChat ----------------------------
(***************************************************************************)
(* Council mode: a chat session is forked into one hidden child session    *)
(* per persona, the personas answer in parallel, and the parent keeps one  *)
(* council row with a candidate per persona.  The reader selects a branch, *)
(* sends follow-ups to it, and regenerates candidates.  Requests overlap:  *)
(* a handler awaits model calls between what it read and what it writes.   *)
(***************************************************************************)
EXTENDS Integers, FiniteSets, FiniteSetsExt

CONSTANTS NumPersonas, \* experts in the reader's settings
          Starts,      \* requests to start the council
          Retries,     \* requests to regenerate a branch
          FollowUps,   \* messages sent in council mode
          NoStart, NoBranch,
          Disturbances \* subset of {"restart", "double", "retry", "overlap", "failure"}

VARIABLES nextId,   \* next id of chat_messages
          parent,   \* rows of the parent session: [id, of], of = the turn it shows
          session,  \* council_mode, active_child_session_id, council_message_id
          row,      \* council row saved by each start: candidates, active id, text
          branch,   \* child sessions: branch_start_message_id and their rows
          start,    \* requests in flight
          retry

vars == <<nextId, parent, session, row, branch, start, retry>>

Personas == 1..NumPersonas   \* in the reader's order
Branches == Starts \X Personas
Failure == 0       \* stands for the text "... could not respond"
Unanswered == 0    \* branch_start_message_id is NULL
NoRow == [saved |-> FALSE, cands |-> [p \in Personas |-> Failure],
          active |-> NoBranch, text |-> <<NoBranch, Failure>>]
NoChild == [from |-> Unanswered, turns |-> {}]
NoRetry == [pc |-> "none", branch |-> NoBranch, cands |-> NoRow.cands,
            active |-> NoBranch, text |-> NoRow.text, answer |-> Failure]

Init ==
  /\ nextId = 2
  /\ parent = {[id |-> 1, of |-> 1]}     \* one answered turn of the article chat
  /\ session = [mode |-> FALSE, active |-> NoBranch, council |-> NoStart]
  /\ row = [s \in Starts |-> NoRow]
  /\ branch = [b \in Branches |-> NoChild]
  /\ start = [s \in Starts |-> [pc |-> "none", result |-> NoRow.cands, open |-> {}]]
  /\ retry = [q \in Retries |-> NoRetry]

-----------------------------------------------------------------------------
(* Starting a council *)

\* The clone of the parent's settled rows gets ids of its own, later ones than
\* every row before, in the order of the personas.
Clone(p) ==
  LET size == Cardinality(parent)
      rank(m) == Cardinality({x \in parent : x.id < m.id})
  IN {[id |-> nextId + (p - 1) * size + rank(m), of |-> m.of, kind |-> "clone"]
        : m \in parent}

\* validate_council_parent_session, then the children are committed together.
StartCouncil(s) ==
  /\ start[s].pc = "none"
  /\ ~session.mode
  /\ "double" \in Disturbances \/ \A t \in Starts : start[t].pc \in {"none", "lost"}
  /\ branch' = [b \in Branches |->
       IF b[1] = s THEN [NoChild EXCEPT !.turns = Clone(b[2])] ELSE branch[b]]
  /\ nextId' = nextId + Cardinality(Personas) * Cardinality(parent)
  /\ start' = [start EXCEPT ![s].pc = "asking", ![s].open = Personas]
  /\ UNCHANGED <<parent, session, row, retry>>

\* Mutant of BranchAnswers: the results are matched with the wrong children.
BranchAnswersSwapped(s, p) ==
  /\ start[s].pc = "asking" /\ p \in start[s].open
  /\ branch' = [branch EXCEPT ![<<s, p>>] =
       [from |-> nextId,
        turns |-> @.turns \cup {[id |-> nextId, of |-> nextId, kind |-> "answer"]}]]
  /\ start' = [start EXCEPT ![s].open = @ \ {p},
                            ![s].result[NumPersonas + 1 - p] = nextId]
  /\ nextId' = nextId + 1
  /\ UNCHANGED <<parent, session, row, retry>>

\* One branch turn: its row and branch_start_message_id.  Nobody else writes to
\* a child the reader cannot see yet.
BranchAnswers(s, p) ==
  /\ start[s].pc = "asking" /\ p \in start[s].open
  /\ branch' = [branch EXCEPT ![<<s, p>>] =
       [from |-> nextId,
        turns |-> @.turns \cup {[id |-> nextId, of |-> nextId, kind |-> "answer"]}]]
  /\ start' = [start EXCEPT ![s].open = @ \ {p}, ![s].result[p] = nextId]
  /\ nextId' = nextId + 1
  /\ UNCHANGED <<parent, session, row, retry>>

\* gather(return_exceptions=True): the branch becomes a failed candidate.
BranchFails(s, p) ==
  /\ "failure" \in Disturbances
  /\ start[s].pc = "asking" /\ p \in start[s].open
  /\ start' = [start EXCEPT ![s].open = @ \ {p}]
  /\ UNCHANGED <<nextId, parent, session, row, branch, retry>>

\* The first branch that answered, or the first one if none did.
FirstAnswered(cands) ==
  LET answered == {p \in Personas : cands[p] # Failure}
  IN IF answered = {} THEN Min(Personas) ELSE Min(answered)

\* save_messages commits the council row before the session knows of it.
SaveCouncilRow(s) ==
  /\ start[s].pc = "asking" /\ start[s].open = {}
  /\ LET cands == start[s].result
         p == FirstAnswered(cands)
     IN row' = [row EXCEPT ![s] = [saved |-> TRUE, cands |-> cands,
                                   active |-> <<s, p>>, text |-> <<<<s, p>>, cands[p]>>]]
  /\ parent' = parent \cup {[id |-> nextId, of |-> nextId]}
  /\ nextId' = nextId + 1
  /\ start' = [start EXCEPT ![s].pc = "saved"]
  /\ UNCHANGED <<session, branch, retry>>

EnterCouncil(s) ==
  /\ start[s].pc = "saved"
  /\ session' = [mode |-> TRUE, council |-> s,
                 active |-> <<s, FirstAnswered(start[s].result)>>]
  /\ start' = [start EXCEPT ![s].pc = "done"]
  /\ UNCHANGED <<nextId, parent, row, branch, retry>>

-----------------------------------------------------------------------------
(* In council mode *)

\* A branch is known to the council row if it is one of its candidates.
IsCandidate(b) == b[1] = session.council

\* Mutant of SelectBranch: only the session is switched.
SelectInSessionOnly(b) ==
  /\ session.mode /\ branch[b].turns # {} /\ session.active # b
  /\ session' = [session EXCEPT !.active = b]
  /\ UNCHANGED <<nextId, parent, row, branch, start, retry>>

SelectBranch(b) ==
  /\ session.mode
  /\ branch[b].turns # {}            \* a hidden child of this parent
  /\ session.active # b
  /\ session' = [session EXCEPT !.active = b]
  /\ row' = IF IsCandidate(b)
              THEN [row EXCEPT ![b[1]].active = b, ![b[1]].text = <<b, row[b[1]].cands[b[2]]>>]
              ELSE row
  /\ UNCHANGED <<nextId, parent, branch, start, retry>>

\* A follow-up goes to the branch that is active now; ChatTurns has its run.
SendFollowUp(f) ==
  /\ session.mode
  /\ \A b \in Branches : ~\E t \in branch[b].turns : t.kind = f
  /\ branch' = [branch EXCEPT ![session.active].turns =
                  @ \cup {[id |-> nextId, of |-> nextId, kind |-> f]}]
  /\ nextId' = nextId + 1
  /\ UNCHANGED <<parent, session, row, start, retry>>

\* What the handler holds while it waits: the candidates it parsed, the active
\* branch and the text it loaded.
BeginRetry(q, b) ==
  /\ retry[q].pc = "none"
  /\ session.mode /\ IsCandidate(b)
  /\ "overlap" \in Disturbances \/ \A r \in Retries : retry[r].pc \in {"none", "done"}
  /\ retry' = [retry EXCEPT ![q] =
       [pc |-> "asking", branch |-> b, cands |-> row[b[1]].cands, active |-> session.active,
        text |-> row[b[1]].text, answer |-> Failure]]
  /\ UNCHANGED <<nextId, parent, session, row, branch, start>>

RetryAnswers(q) ==
  /\ retry[q].pc = "asking"
  /\ branch' = [branch EXCEPT ![retry[q].branch].turns =
                  @ \cup {[id |-> nextId, of |-> nextId, kind |-> "answer"]}]
  /\ retry' = [retry EXCEPT ![q].pc = "answered", ![q].answer = nextId]
  /\ nextId' = nextId + 1
  /\ UNCHANGED <<parent, session, row, start>>

\* Mutant of RetryStamps: the branch starts at its oldest row.
RetryStampsOldest(q) ==
  /\ retry[q].pc = "answered"
  /\ branch' = [branch EXCEPT ![retry[q].branch].from =
                  Min({t.id : t \in branch[retry[q].branch].turns}) - 1]
  /\ retry' = [retry EXCEPT ![q].pc = "stamped"]
  /\ UNCHANGED <<nextId, parent, session, row, start>>

\* The newest row of the child, whoever wrote it, starts the branch.
RetryStamps(q) ==
  /\ retry[q].pc = "answered"
  /\ branch' = [branch EXCEPT ![retry[q].branch].from =
                  Max({t.id : t \in branch[retry[q].branch].turns})]
  /\ retry' = [retry EXCEPT ![q].pc = "stamped"]
  /\ UNCHANGED <<nextId, parent, session, row, start>>

RetryFails(q) ==
  /\ "retry" \in Disturbances
  /\ retry[q].pc = "asking"
  /\ retry' = [retry EXCEPT ![q].pc = "failed"]
  /\ UNCHANGED <<nextId, parent, session, row, branch, start>>

\* The unit of work writes an attribute only if it differs from what was loaded.
Flush(old, new, current) == IF old = new THEN current ELSE new

\* The session is expired before the answer is recorded, so every attribute that
\* is set is written, the candidates as they were parsed at the beginning.
CommitRetry(q) ==
  LET b == retry[q].branch
      cands == [retry[q].cands EXCEPT ![b[2]] = retry[q].answer]
  IN /\ retry[q].pc = "stamped"
     /\ row' = [row EXCEPT ![b[1]] = [saved |-> TRUE, cands |-> cands, active |-> b,
                                      text |-> <<b, retry[q].answer>>]]
     /\ session' = [session EXCEPT !.active = b]
     /\ retry' = [retry EXCEPT ![q] = [NoRetry EXCEPT !.pc = "done"]]
     /\ UNCHANGED <<nextId, parent, branch, start>>

\* On failure nothing is expired: the active branch loaded at the beginning goes
\* into the row, and into the session only as a change that is none.
CommitFailedRetry(q) ==
  LET b == retry[q].branch
      old == [cands |-> retry[q].cands, active |-> retry[q].active]
      new == [old EXCEPT !.cands[b[2]] = Failure]
      now == [cands |-> row[b[1]].cands, active |-> row[b[1]].active]
      written == Flush(old, new, now)
  IN /\ retry[q].pc = "failed"
     /\ row' = [row EXCEPT ![b[1]] = [saved |-> TRUE, cands |-> written.cands,
                  active |-> written.active,
                  text |-> Flush(retry[q].text, <<b, Failure>>, @.text)]]
     /\ retry' = [retry EXCEPT ![q] = [NoRetry EXCEPT !.pc = "done"]]
     /\ UNCHANGED <<nextId, parent, session, branch, start>>

\* The server process ends with everything it was waiting for.
ServerRestart ==
  /\ "restart" \in Disturbances
  /\ start' = [s \in Starts |-> IF start[s].pc \in {"asking", "saved"}
                 THEN [start[s] EXCEPT !.pc = "lost"] ELSE start[s]]
  /\ retry' = [q \in Retries |-> IF retry[q].pc \notin {"none", "done"}
                 THEN [NoRetry EXCEPT !.pc = "done"] ELSE retry[q]]
  /\ <<start', retry'>> # <<start, retry>>
  /\ UNCHANGED <<nextId, parent, session, row, branch>>

-----------------------------------------------------------------------------
StartStep(s) ==
  \/ \E p \in Personas : BranchAnswers(s, p) \/ BranchFails(s, p)
  \/ SaveCouncilRow(s)
  \/ EnterCouncil(s)

RetryStep(q) ==
  \/ RetryAnswers(q)
  \/ RetryStamps(q)
  \/ RetryFails(q)
  \/ CommitRetry(q)
  \/ CommitFailedRetry(q)

Next ==
  \/ \E s \in Starts : StartCouncil(s) \/ StartStep(s)
  \/ \E b \in Branches : SelectBranch(b)
  \/ \E f \in FollowUps : SendFollowUp(f)
  \/ \E q \in Retries : (\E b \in Branches : BeginRetry(q, b)) \/ RetryStep(q)
  \/ ServerRestart

Spec == Init /\ [][Next]_vars

-----------------------------------------------------------------------------
(* Properties *)

Rows == [saved : BOOLEAN, cands : [Personas -> Nat], active : Branches \cup {NoBranch},
         text : (Branches \cup {NoBranch}) \X Nat]

TypeOK ==
  /\ nextId \in Nat
  /\ \A m \in parent : m.id \in 1..(nextId - 1) /\ m.of \in 1..m.id
  /\ session \in [mode : BOOLEAN, active : Branches \cup {NoBranch},
                  council : Starts \cup {NoStart}]
  /\ session.mode => session.active # NoBranch
  /\ row \in [Starts -> Rows]
  /\ \A b \in Branches : \A t \in branch[b].turns :
       /\ t.id \in 1..(nextId - 1) /\ t.of \in 1..t.id
       /\ \A u \in branch[b].turns : u.id = t.id => u = t

\* A candidate that shows an answer shows one its own branch really gave.
CandidatesAreReal ==
  \A s \in Starts : \A p \in Personas :
    row[s].saved /\ row[s].cands[p] # Failure =>
      \E t \in branch[<<s, p>>].turns : t.id = row[s].cands[p] /\ t.kind = "answer"

\* The council row highlights the branch follow-ups are sent to, and shows that
\* branch's text, as long as no retry fails.
RowMatchesSession ==
  session.mode =>
    LET r == row[session.council]
    IN r.active = session.active /\ r.text = <<session.active, r.cands[session.active[2]]>>

\* What the reader sees: the parent's rows, then the active branch from its start.
Shown ==
  parent \cup {t \in branch[session.active].turns : t.id > branch[session.active].from}

ShownOnce == \A t, u \in Shown : t.id # u.id => t.of # u.of

\* A branch that has answered once never shows the turns it was cloned from again.
AnsweredBranchShownOnce ==
  session.mode /\ branch[session.active].from # Unanswered => ShownOnce
=============================================================================

---------------------------- MODULE ContentBodies ----------------------------
(***************************************************************************)
(* The text of a content.  A handler puts it into object storage under a   *)
(* key made of its digest, points the row of its variant at the key, and   *)
(* strips what raw metadata held inline, the last two in one commit.       *)
(* Objects are never deleted.  The local provider truncates the file and   *)
(* writes it; the S3 one replaces the object at once.                      *)
(***************************************************************************)
EXTENDS Integers

CONSTANTS Handlers,      \* task handlers that persist the content
          Texts,         \* texts a handler may produce, by digest
          Local,         \* whether objects are files
          NoText,
          Disturbances,  \* subset of {"crash", "death"}: between two calls, inside a write
          MaxFaults      \* bound on disturbances in a behaviour

VARIABLES inline,   \* the text of each variant in content_metadata
          pointer,  \* the text that the content_bodies row of each variant names
          object,   \* object[v][t]: what is stored under the key of t
          job, faults

vars == <<inline, pointer, object, job, faults>>

\* In the order in which sync_content_body_storage persists them.
Variants == {"source", "rendered"}
Maybe == Texts \cup {NoText}
Nothing == [v \in Variants |-> NoText]
Idle == [pc |-> "idle", carried |-> Nothing, loaded |-> Nothing, todo |-> {}]

\* Rows written before bodies were stored apart hold their texts inline.
Init ==
  /\ inline \in [Variants -> Maybe]
  /\ pointer = Nothing
  /\ object = [v \in Variants |-> [t \in Texts |-> "none"]]
  /\ job = [h \in Handlers |-> Idle]
  /\ faults = 0

Disturb(d) == d \in Disturbances /\ faults < MaxFaults /\ faults' = faults + 1

-----------------------------------------------------------------------------
\* Mutant of Merged: only what the handler produced is persisted.
ProducedOnly(v, t) == [Nothing EXCEPT ![v] = t]

\* The latest metadata with the handler's own text, if it has one.
Merged(v, t) == [inline EXCEPT ![v] = IF t = NoText THEN @ ELSE t]

\* The variants that the merged metadata has a text of.
Extracted(texts) == {u \in Variants : texts[u] # NoText}

\* Extraction or the summary is done and the metadata is merged.
Produce(h, v, t) ==
  /\ job[h].pc = "idle"
  /\ LET texts == Merged(v, t)
     IN job' = [job EXCEPT ![h] = [Idle EXCEPT !.pc = "next", !.carried = texts,
                                    !.todo = Extracted(texts)]]
  /\ UNCHANGED <<inline, pointer, object, faults>>

Current(h) == IF "source" \in job[h].todo THEN "source" ELSE "rendered"
Stored(v, t, state) == [object EXCEPT ![v][t] = state]

\* put_text of a file opens it for writing: what was there is gone.
Truncate(h) ==
  /\ Local /\ job[h].pc = "next" /\ job[h].todo # {}
  /\ object' = Stored(Current(h), job[h].carried[Current(h)], "torn")
  /\ job' = [job EXCEPT ![h].pc = "writing"]
  /\ UNCHANGED <<inline, pointer, faults>>

\* Another handler is in the same file: it is whole when the last one is done.
Shared(h, v) ==
  \E g \in Handlers \ {h} : /\ job[g].pc = "writing" /\ Current(g) = v
                           /\ job[g].carried[v] = job[h].carried[v]

\* The object is written, then the row of the variant is looked for.
Put(h) ==
  /\ job[h].pc = IF Local THEN "writing" ELSE "next"
  /\ job[h].todo # {}
  /\ LET v == Current(h)
     IN /\ object' = Stored(v, job[h].carried[v], IF Shared(h, v) THEN "torn" ELSE "whole")
        /\ job' = [job EXCEPT ![h].pc = "next", ![h].todo = @ \ {v},
                              ![h].loaded[v] = pointer[v]]
  /\ UNCHANGED <<inline, pointer, faults>>

\* Two handlers insert the row of one variant: the later commit is rolled back.
Conflict(h) ==
  \E v \in Variants : /\ job[h].carried[v] # NoText
                      /\ job[h].loaded[v] = NoText /\ pointer[v] # NoText

Abort(h) ==
  /\ job[h].pc = "next" /\ job[h].todo = {} /\ Conflict(h)
  /\ job' = [job EXCEPT ![h] = Idle]
  /\ UNCHANGED <<inline, pointer, object, faults>>

\* A pointer that is set to what was loaded is not written.
Commit(h) ==
  /\ job[h].pc = "next" /\ job[h].todo = {} /\ ~Conflict(h)
  /\ pointer' = [v \in Variants |->
       IF job[h].carried[v] \in {NoText, job[h].loaded[v]} THEN pointer[v]
       ELSE job[h].carried[v]]
  /\ inline' = Nothing
  /\ job' = [job EXCEPT ![h] = Idle]
  /\ UNCHANGED <<object, faults>>

\* The handler dies, or an upload fails and its exception ends the handler.
Die(h) ==
  /\ \/ Disturb("crash") /\ job[h].pc = "next"
     \/ Disturb("death") /\ job[h].pc = "writing"
  /\ job' = [job EXCEPT ![h] = Idle]
  /\ UNCHANGED <<inline, pointer, object>>

Next ==
  \E h \in Handlers :
    \/ \E v \in Variants, t \in Maybe : Produce(h, v, t)
    \/ Truncate(h) \/ Put(h) \/ Abort(h) \/ Commit(h) \/ Die(h)

Spec == Init /\ [][Next]_vars

-----------------------------------------------------------------------------
TypeOK ==
  /\ inline \in [Variants -> Maybe] /\ pointer \in [Variants -> Maybe]
  /\ object \in [Variants -> [Texts -> {"none", "torn", "whole"}]]
  /\ faults \in 0..MaxFaults

\* resolve: the object if there is a row, else what is inline.
Resolvable(v) ==
  IF pointer[v] = NoText THEN inline[v] # NoText
  ELSE IF object[v][pointer[v]] = "none" THEN inline[v] # NoText
  ELSE object[v][pointer[v]] = "whole"

\* A handler is rewriting the object that the row names.
BeingRewritten(v) ==
  \E h \in Handlers : /\ job[h].pc = "writing" /\ Current(h) = v
                      /\ job[h].carried[v] = pointer[v]

\* A text that could be read can be read for ever, whichever handlers persist, clash or
\* die, but for the moment in which a local file is written again.
BodyKept ==
  \A v \in Variants :
    Resolvable(v) \/ BeingRewritten(v) => (Resolvable(v) \/ BeingRewritten(v))'
BodyStays == [][BodyKept]_vars
=============================================================================

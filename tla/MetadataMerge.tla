---------------------------- MODULE MetadataMerge ----------------------------
(***************************************************************************)
(* The JSON metadata of one content row, changed by handlers that run at   *)
(* the same time.  Each reads a snapshot, works for a while, and commits   *)
(* the whole document again: merged into the newest one, or, in the tweet  *)
(* video handlers, as it was read.  Absent stands for a missing key.       *)
(***************************************************************************)
EXTENDS Integers

CONSTANTS Handlers, Keys, Absent, Values,
          Touches,    \* Touches[h]: the keys a handler sets or removes
          Preserved,  \* DISCUSSION_PREVIEW_METADATA_KEYS
          Wholesale   \* handlers that write their snapshot back

VARIABLES metadata,  \* contents.content_metadata
          job,       \* the snapshots of each handler
          wanted,    \* per key, the value of the last handler that changed it (history)
          torn       \* keys whose change fell between another's read and its commit (history)

vars == <<metadata, job, wanted, torn>>

Documents == [Keys -> Values \cup {Absent}]
Idle == [pc |-> "idle", base |-> [k \in Keys |-> Absent], updated |-> [k \in Keys |-> Absent],
         merged |-> [k \in Keys |-> Absent], passed |-> {}]

Init ==
  /\ metadata = [k \in Keys |-> Absent]
  /\ job = [h \in Handlers |-> Idle]
  /\ wanted = metadata /\ torn = {}

-----------------------------------------------------------------------------
(* compute_metadata_patch *)

Updates(base, updated) ==
  {k \in Keys : updated[k] # Absent /\ (base[k] = Absent \/ base[k] # updated[k])}
Removed(base, updated) == {k \in Keys : base[k] # Absent /\ updated[k] = Absent}

\* Mutant of Merge: removed keys come back.
MergeWithoutRemovals(latest, base, updated, keep) ==
  [k \in Keys |-> IF k \in keep THEN latest[k]
                  ELSE IF k \in Updates(base, updated) THEN updated[k]
                  ELSE latest[k]]

\* refresh_merge_content_metadata
Merge(latest, base, updated, keep) ==
  [k \in Keys |-> IF k \in keep THEN latest[k]
                  ELSE IF k \in Updates(base, updated) THEN updated[k]
                  ELSE IF k \in Removed(base, updated) THEN Absent
                  ELSE latest[k]]

\* Handlers that do not own the preview keys ask for the latest ones.
Keep(h) == Preserved \ Touches[h]

-----------------------------------------------------------------------------
(* A handler's run *)

Begin(h) ==
  /\ job[h].pc = "idle"
  /\ job' = [job EXCEPT ![h] = [Idle EXCEPT !.pc = "working", !.base = metadata]]
  /\ UNCHANGED <<metadata, wanted, torn>>

\* Its result: new values for keys it touches, or their removal.
Finish(h, updated) ==
  /\ job[h].pc = "working"
  /\ \A k \in Keys \ Touches[h] : updated[k] = job[h].base[k]
  /\ job' = [job EXCEPT ![h].pc = "finished", ![h].updated = updated]
  /\ UNCHANGED <<metadata, wanted, torn>>

\* The newest document is read and the patch applied to it; nothing locks the row, and the
\* body is written to the object store before the commit.
ReadLatest(h) ==
  /\ job[h].pc = "finished"
  /\ \/ /\ h \in Wholesale
        /\ job' = [job EXCEPT ![h].pc = "merged", ![h].merged = job[h].updated]
     \/ /\ h \notin Wholesale
        /\ job' = [job EXCEPT ![h].pc = "merged", ![h].passed = {},
                     ![h].merged = Merge(metadata, job[h].base, job[h].updated, Keep(h))]
  /\ UNCHANGED <<metadata, wanted, torn>>

Changed(h) == {k \in Keys : job[h].base[k] # job[h].updated[k]}

\* What it changes has passed those who have read already; what has passed it is torn.
Commit(h) ==
  /\ job[h].pc = "merged"
  /\ metadata' = job[h].merged
  /\ wanted' = [k \in Keys |-> IF k \in Changed(h) THEN job[h].updated[k] ELSE wanted[k]]
  /\ torn' = (torn \cup job[h].passed) \ Changed(h)
  /\ job' = [g \in Handlers |-> IF g = h \/ job[g].pc = "idle" THEN Idle
                               ELSE [job[g] EXCEPT !.passed = @ \cup Changed(h)]]

\* The worker dies or the handler fails: nothing is written.
Abandon(h) ==
  /\ job[h].pc # "idle"
  /\ job' = [job EXCEPT ![h] = Idle]
  /\ UNCHANGED <<metadata, wanted, torn>>

-----------------------------------------------------------------------------
Next ==
  \E h \in Handlers :
    \/ Begin(h) \/ ReadLatest(h) \/ Commit(h) \/ Abandon(h)
    \/ \E updated \in Documents : Finish(h, updated)

Spec == Init /\ [][Next]_vars

-----------------------------------------------------------------------------
(* Properties *)

TypeOK ==
  /\ metadata \in Documents /\ wanted \in Documents
  /\ job \in [Handlers -> [pc : {"idle", "working", "finished", "merged"},
                           base : Documents, updated : Documents, merged : Documents,
                           passed : SUBSET Keys]]
  /\ torn \in SUBSET Keys

\* However long handlers work beside each other, the last change of a key is lost only if it
\* was committed while another one was about to commit: between the read of the newest
\* document and the commit of a merge, or between the first read and the commit of a handler
\* that writes its snapshot back.
NothingLost == \A k \in Keys : metadata[k] # wanted[k] => k \in torn
=============================================================================

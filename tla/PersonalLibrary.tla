--------------------------- MODULE PersonalLibrary ---------------------------
(***************************************************************************)
(* The markdown library of one user: files on disk for the contents that   *)
(* are saved to knowledge or have a chat that is not archived.  A request  *)
(* that saves, removes or opens a chat commits and then reconciles the     *)
(* files of that content; a chat turn reconciles all files before it gives *)
(* them to the assistant.  Archiving a chat and processing a content       *)
(* reconcile nothing.  Reconciling deletes and writes file by file, from   *)
(* what it read before, with nothing that keeps two of them apart.         *)
(***************************************************************************)
EXTENDS Integers, FiniteSets, FiniteSetsExt

CONSTANTS Items,         \* ids of contents, integers
          Calls,         \* requests and chat turns that may run at once
          Names,         \* file names that title, source and type may give a content
          Disturbances,  \* subset of {"failure", "edit"}
          MaxFaults      \* bound on disturbances in a behaviour

VARIABLES saved,   \* contents with a knowledge save
          chats,   \* contents with a chat that is not archived
          name,    \* the name that each content gives to its files now
          files,   \* records [item, variant, name, why]
          call, faults

vars == <<saved, chats, name, files, call, faults>>

Variants == {"source", "summary"}
Reasons == {"saved", "chatted"}
Why(i) == (IF i \in saved THEN {"saved"} ELSE {}) \cup (IF i \in chats THEN {"chatted"} ELSE {})
Idle == [pc |-> "idle", scope |-> {}, why |-> [i \in Items |-> {}],
         name |-> [i \in Items |-> CHOOSE n \in Names : TRUE],
         stale |-> {}, todo |-> {}, left |-> {}, alone |-> FALSE]

Init ==
  /\ saved = {} /\ chats = {} /\ files = {}
  /\ name \in [Items -> Names]
  /\ call = [c \in Calls |-> Idle]
  /\ faults = 0

Disturb(d) == d \in Disturbances /\ faults < MaxFaults /\ faults' = faults + 1

\* Something else happens: no call under way runs alone any more.
Disturbed == [c \in Calls |-> [call[c] EXCEPT !.alone = FALSE]]

\* A call starts to reconcile the contents of its scope.
Begin(c, scope) ==
  call' = [Disturbed EXCEPT ![c] = [Idle EXCEPT !.pc = "read", !.scope = scope,
             !.alone = \A d \in Calls \ {c} : call[d].pc = "idle"]]

-----------------------------------------------------------------------------
(* What changes the reasons *)

\* A content that is saved already is left alone.
SaveToKnowledge(c, i) ==
  /\ call[c].pc = "idle" /\ i \notin saved
  /\ saved' = saved \cup {i}
  /\ Begin(c, {i})
  /\ UNCHANGED <<chats, name, files, faults>>

\* A removal reconciles even if nothing was saved.
RemoveFromKnowledge(c, i) ==
  /\ call[c].pc = "idle"
  /\ saved' = saved \ {i}
  /\ Begin(c, {i})
  /\ UNCHANGED <<chats, name, files, faults>>

\* A dig-deeper request that finds a chat changes nothing; this is a new one.
OpenChat(c, i) ==
  /\ call[c].pc = "idle"
  /\ chats' = chats \cup {i}
  /\ Begin(c, {i})
  /\ UNCHANGED <<saved, name, files, faults>>

\* The last chat of a content is archived.
ArchiveChat(i) ==
  /\ i \in chats
  /\ chats' = chats \ {i}
  /\ call' = Disturbed
  /\ UNCHANGED <<saved, name, files, faults>>

\* A handler stores another title, source or type.
Edit(i, n) ==
  /\ Disturb("edit")
  /\ n # name[i]
  /\ name' = [name EXCEPT ![i] = n]
  /\ call' = Disturbed
  /\ UNCHANGED <<saved, chats, files>>

-----------------------------------------------------------------------------
(* Reconciling *)

ChatTurn(c) ==
  /\ call[c].pc = "idle"
  /\ Begin(c, Items)
  /\ UNCHANGED <<saved, chats, name, files, faults>>

ReadReasons(c) ==
  /\ call[c].pc = "read"
  /\ call' = [call EXCEPT ![c].pc = "scan",
                          ![c].why = [i \in Items |-> IF i \in call[c].scope THEN Why(i) ELSE {}]]
  /\ UNCHANGED <<saved, chats, name, files, faults>>

OnDisk == {f.item : f \in files}

\* The contents are loaded; files of contents without a reason are stale.  For one content
\* the files are deleted without looking for them first.
Scan(c) ==
  /\ call[c].pc = "scan"
  /\ LET desired == {i \in Items : call[c].why[i] # {}}
     IN call' = [call EXCEPT ![c].pc = "clean", ![c].name = name,
                   ![c].stale = (call[c].scope \cap OnDisk) \ desired, ![c].todo = desired]
  /\ UNCHANGED <<saved, chats, name, files, faults>>

\* Mutant of FilesOf: the files are looked for under the name the content has.
FilesUnderName(c, i) == {f \in files : f.item = i /\ f.name = call[c].name[i]}

FilesOf(c, i) == {f \in files : f.item = i}

DeleteStale(c) ==
  /\ call[c].pc = "clean" /\ call[c].stale # {}
  /\ LET i == Min(call[c].stale)
     IN /\ files' = files \ FilesOf(c, i)
        /\ call' = [call EXCEPT ![c].stale = @ \ {i}]
  /\ UNCHANGED <<saved, chats, name, faults>>

\* The old files go first, whatever they are called.
Rewrite(c) ==
  /\ call[c].pc = "clean" /\ call[c].stale = {} /\ call[c].todo # {}
  /\ files' = files \ FilesOf(c, Min(call[c].todo))
  /\ call' = [call EXCEPT ![c].pc = "write", ![c].left = Variants]
  /\ UNCHANGED <<saved, chats, name, faults>>

\* What is written: the reasons go into the front matter.
Rendered(c, i, v) ==
  [item |-> i, variant |-> v, name |-> call[c].name[i], why |-> call[c].why[i]]

SamePath(f, g) == f.item = g.item /\ f.variant = g.variant /\ f.name = g.name

\* A file of the same name is overwritten.
Write(c) ==
  /\ call[c].pc = "write"
  /\ LET i == Min(call[c].todo)
         v == IF "source" \in call[c].left THEN "source" ELSE "summary"
         new == Rendered(c, i, v)
         left == call[c].left \ {v}
     IN /\ files' = {f \in files : ~SamePath(f, new)} \cup {new}
        /\ call' = [call EXCEPT ![c].left = left,
                      ![c].pc = IF left = {} THEN "clean" ELSE "write",
                      ![c].todo = IF left = {} THEN @ \ {i} ELSE @]
  /\ UNCHANGED <<saved, chats, name, faults>>

Reconciled(c) == call[c].pc = "clean" /\ call[c].stale = {} /\ call[c].todo = {}

Finish(c) ==
  /\ Reconciled(c)
  /\ call' = [call EXCEPT ![c] = Idle]
  /\ UNCHANGED <<saved, chats, name, files, faults>>

\* An error of the file system or the process: callers log it and go on.
Fail(c) ==
  /\ Disturb("failure")
  /\ call[c].pc # "idle" /\ ~Reconciled(c)
  /\ call' = [call EXCEPT ![c] = Idle]
  /\ UNCHANGED <<saved, chats, name, files>>

Next ==
  \/ \E i \in Items : ArchiveChat(i) \/ \E n \in Names : Edit(i, n)
  \/ \E c \in Calls :
       \/ \E i \in Items : \/ SaveToKnowledge(c, i) \/ RemoveFromKnowledge(c, i)
                           \/ OpenChat(c, i)
       \/ ChatTurn(c) \/ ReadReasons(c) \/ Scan(c) \/ DeleteStale(c)
       \/ Rewrite(c) \/ Write(c) \/ Finish(c) \/ Fail(c)

Spec == Init /\ [][Next]_vars

-----------------------------------------------------------------------------
TypeOK ==
  /\ saved \subseteq Items /\ chats \subseteq Items
  /\ name \in [Items -> Names]
  /\ files \subseteq [item : Items, variant : Variants, name : Names, why : SUBSET Reasons]
  /\ faults \in 0..MaxFaults

Desired(i) ==
  IF Why(i) = {} THEN {}
  ELSE {[item |-> i, variant |-> v, name |-> name[i], why |-> Why(i)] : v \in Variants}

\* Whatever failed, overlapped or was renamed before, a call that ran alone leaves exactly
\* the files that belong to its contents: a chat turn repairs the whole library.
LibraryRepaired ==
  \A c \in Calls : Reconciled(c) /\ call[c].alone =>
    {f \in files : f.item \in call[c].scope} = UNION {Desired(i) : i \in call[c].scope}
=============================================================================

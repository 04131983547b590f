------------------------ MODULE PersonalLibraryProofs -------------------------
(***************************************************************************)
(* A chat turn repairs the whole library, for any number of contents,      *)
(* calls, names and disturbances: what a call that runs alone has read is   *)
(* still so, and each of its contents is either still to be done or has     *)
(* exactly the files that belong to it.                                     *)
(***************************************************************************)
EXTENDS PersonalLibrary, WellFoundedInduction, NaturalsInduction, TLAPS

Fields == {"pc", "scope", "why", "name", "stale", "todo", "left", "alone"}

CallTypes ==
  /\ DOMAIN call = Calls
  /\ \A c \in Calls :
       /\ DOMAIN call[c] = Fields
       /\ call[c].pc \in {"idle", "read", "scan", "clean", "write"}
       /\ call[c].alone \in BOOLEAN
       /\ call[c].scope \subseteq Items

NobodyElse == \A c, d \in Calls : call[c].alone /\ c # d => call[d].pc = "idle"

OnDiskOf(i) == {f \in files : f.item = i}
Wanted(i, v) == [item |-> i, variant |-> v, name |-> name[i], why |-> Why(i)]

\* The reasons and the names a call has read.
ReadsHold(c) ==
  /\ call[c].pc \in {"scan", "clean", "write"} =>
       \A i \in Items : call[c].why[i] = IF i \in call[c].scope THEN Why(i) ELSE {}
  /\ call[c].pc \in {"clean", "write"} => call[c].name = name

\* The contents it has still to do something about.
WorkLeft(c) ==
  call[c].pc \in {"clean", "write"} =>
    /\ call[c].todo \subseteq {i \in call[c].scope : Why(i) # {}}
    /\ call[c].stale \subseteq {i \in call[c].scope : Why(i) = {}}
    /\ \A i \in call[c].scope :
         /\ Why(i) = {} /\ i \notin call[c].stale => OnDiskOf(i) = {}
         /\ Why(i) # {} /\ i \notin call[c].todo =>
              OnDiskOf(i) = {Wanted(i, v) : v \in Variants}

\* The content whose files it writes now.
HalfWritten(c) ==
  call[c].pc = "write" =>
    /\ call[c].stale = {} /\ call[c].todo # {}
    /\ call[c].left \subseteq Variants /\ call[c].left # {}
    /\ OnDiskOf(Min(call[c].todo)) =
         {Wanted(Min(call[c].todo), v) : v \in Variants \ call[c].left}

IInv ==
  /\ CallTypes /\ NobodyElse
  /\ \A c \in Calls : call[c].alone => ReadsHold(c) /\ WorkLeft(c) /\ HalfWritten(c)

-----------------------------------------------------------------------------
LEMMA MinIsMember ==
  ASSUME NEW S \in SUBSET Nat, S # {}
  PROVE  Min(S) \in S
<1> DEFINE R == OpToRel(<, Nat)
<1>1. \A x, y \in S : y < x => <<y, x>> \in R
  BY Zenon DEF OpToRel
<1>2. IsWellFoundedOn(R, Nat)
  BY NatLessThanWellFounded, Zenon
<1> HIDE DEF R
<1>4. \E x \in S : \A y \in S : ~(<<y, x>> \in R)
  BY <1>2, WFMin, Zenon
<1>5. PICK x \in S : \A y \in S : ~(y < x)
  BY <1>1, <1>4
<1>6. \A y \in S : x <= y
  BY <1>5
<1> QED BY <1>6 DEF Min

LEMMA Initially == Init => IInv
<1> SUFFICES ASSUME Init PROVE IInv
  OBVIOUS
<1>1. /\ DOMAIN Idle = Fields /\ Idle.pc = "idle" /\ Idle.alone = FALSE /\ Idle.scope = {}
  BY DEF Idle, Fields
<1>2. DOMAIN call = Calls /\ \A c \in Calls : call[c] = Idle
  BY DEF Init
<1> QED BY <1>1, <1>2 DEF IInv, CallTypes, NobodyElse

\* A call that begins, or whatever else happens to the reasons and names, leaves nobody
\* alone who has read anything.
LEMMA Disturbing ==
  ASSUME IInv, NEW c \in Calls, NEW scope \in SUBSET Items,
         call' = Disturbed \/ (call[c].pc = "idle" /\ Begin(c, scope))
  PROVE  IInv'
<1>1. CASE call' = Disturbed
  <2>1. CallTypes' /\ \A d \in Calls : ~call'[d].alone
    BY <1>1 DEF Disturbed, IInv, CallTypes, Fields
  <2> QED BY <2>1 DEF IInv, NobodyElse
<1>2. CASE call[c].pc = "idle" /\ Begin(c, scope)
  <2> DEFINE alone == \A d \in Calls \ {c} : call[d].pc = "idle"
  <2>1. /\ DOMAIN call' = Calls
        /\ \A d \in Calls \ {c} : call'[d] = [call[d] EXCEPT !.alone = FALSE]
    BY <1>2 DEF Begin, Disturbed
  <2>2. call'[c] = [Idle EXCEPT !.pc = "read", !.scope = scope, !.alone = alone]
    BY <1>2 DEF Begin, Disturbed
  <2>3. alone \in BOOLEAN
    OBVIOUS
  <2> HIDE DEF alone
  <2>4. /\ DOMAIN call'[c] = Fields /\ call'[c].pc = "read" /\ call'[c].scope = scope
        /\ call'[c].alone = alone
    BY <2>2 DEF Idle, Fields
  <2>5. \A d \in Calls \ {c} :
          /\ DOMAIN call'[d] = Fields /\ call'[d].pc = call[d].pc
          /\ call'[d].scope = call[d].scope /\ call'[d].alone = FALSE
    BY <2>1 DEF IInv, CallTypes, Fields
  <2>6. CallTypes'
    BY <2>1, <2>3, <2>4, <2>5 DEF IInv, CallTypes
  <2>7. NobodyElse'
    BY <2>4, <2>5 DEF NobodyElse, alone
  <2>8. \A d \in Calls : call'[d].alone => call'[d].pc = "read"
    BY <2>4, <2>5
  <2> QED BY <2>6, <2>7, <2>8 DEF IInv, ReadsHold, WorkLeft, HalfWritten
<1> QED BY <1>1, <1>2

\* A call under way is the only one that can be alone.
LEMMA GoingOn ==
  ASSUME IInv, NEW c \in Calls, call[c].pc # "idle",
         NEW r, call' = [call EXCEPT ![c] = r],
         DOMAIN r = Fields, r.pc \in {"idle", "read", "scan", "clean", "write"},
         r.scope \subseteq Items, r.alone \in BOOLEAN, r.alone => call[c].alone,
         r.alone => ReadsHold(c)' /\ WorkLeft(c)' /\ HalfWritten(c)'
  PROVE  IInv'
<1>1. call'[c] = r /\ DOMAIN call' = Calls /\ \A d \in Calls \ {c} : call'[d] = call[d]
  BY DEF IInv, CallTypes
<1>2. CallTypes'
  BY <1>1 DEF IInv, CallTypes
<1>3. \A d \in Calls \ {c} : ~call'[d].alone
  BY <1>1 DEF IInv, NobodyElse
<1>4. NobodyElse'
  BY <1>1, <1>3 DEF IInv, NobodyElse
<1> QED BY <1>1, <1>2, <1>3, <1>4 DEF IInv

LEMMA ReasonsStep ==
  ASSUME IInv, NEW c \in Calls, ReadReasons(c)
  PROVE  IInv'
<1> DEFINE why == [i \in Items |-> IF i \in call[c].scope THEN Why(i) ELSE {}]
           r == [call[c] EXCEPT !.pc = "scan", !.why = why]
<1>1. call' = [call EXCEPT ![c] = r] /\ UNCHANGED <<saved, chats>>
  BY DEF ReadReasons, IInv, CallTypes
<1>2. DOMAIN call[c] = Fields /\ call[c].alone \in BOOLEAN /\ call[c].scope \subseteq Items
  BY DEF IInv, CallTypes
<1>3. /\ DOMAIN r = Fields /\ r.pc = "scan" /\ r.scope = call[c].scope
      /\ r.alone = call[c].alone /\ r.why = why
  BY <1>2 DEF Fields
<1>4. call'[c] = r
  BY <1>1 DEF IInv, CallTypes
<1>5. \A i \in Items : why[i] = IF i \in call[c].scope THEN Why(i)' ELSE {}
  BY <1>1 DEF Why
<1> HIDE DEF r, why
<1>6. ReadsHold(c)' /\ WorkLeft(c)' /\ HalfWritten(c)'
  BY <1>3, <1>4, <1>5 DEF ReadsHold, WorkLeft, HalfWritten
<1> QED BY <1>1, <1>2, <1>3, <1>6, GoingOn DEF ReadReasons

LEMMA ScanStep ==
  ASSUME IInv, NEW c \in Calls, Scan(c)
  PROVE  IInv'
<1> DEFINE desired == {i \in Items : call[c].why[i] # {}}
           stale == (call[c].scope \cap OnDisk) \ desired
           r == [call[c] EXCEPT !.pc = "clean", !.name = name, !.stale = stale,
                                !.todo = desired]
<1>1. call' = [call EXCEPT ![c] = r] /\ UNCHANGED <<saved, chats, name, files>>
  BY DEF Scan, IInv, CallTypes
<1>2. DOMAIN call[c] = Fields /\ call[c].alone \in BOOLEAN /\ call[c].scope \subseteq Items
  BY DEF IInv, CallTypes
<1>3. /\ DOMAIN r = Fields /\ r.pc = "clean" /\ r.scope = call[c].scope
      /\ r.alone = call[c].alone /\ r.why = call[c].why /\ r.name = name
      /\ r.stale = stale /\ r.todo = desired
  BY <1>2 DEF Fields
<1>4. call'[c] = r
  BY <1>1 DEF IInv, CallTypes
<1>5. ASSUME call[c].alone PROVE ReadsHold(c)' /\ WorkLeft(c)' /\ HalfWritten(c)'
  <2>1. \A i \in Items : call[c].why[i] = IF i \in call[c].scope THEN Why(i) ELSE {}
    BY <1>5 DEF IInv, ReadsHold, Scan
  <2>2. \A i \in Items : Why(i)' = Why(i) /\ OnDiskOf(i)' = OnDiskOf(i)
    BY <1>1 DEF Why, OnDiskOf
  <2>3. ReadsHold(c)'
    <3>1. call'[c].pc = "clean" /\ call'[c].why = call[c].why /\ call'[c].scope = call[c].scope
      BY <1>3, <1>4
    <3>2. call'[c].name = name'
      BY <1>1, <1>3, <1>4
    <3> HIDE DEF r
    <3> QED BY <2>1, <2>2, <3>1, <3>2 DEF ReadsHold
  <2>4. desired = {i \in call[c].scope : Why(i) # {}}
    BY <1>2, <2>1
  <2>5. \A i \in call[c].scope : i \notin OnDisk => OnDiskOf(i) = {}
    BY DEF OnDisk, OnDiskOf
  <2>6. /\ stale \subseteq {i \in call[c].scope : Why(i) = {}}
        /\ \A i \in call[c].scope : Why(i) = {} /\ i \notin stale => OnDiskOf(i) = {}
    BY <2>4, <2>5
  <2> HIDE DEF desired, stale
  <2>7. \A i \in Items : Why(i)' # {} /\ i \in call[c].scope => i \in desired
    BY <2>2, <2>4
  <2> HIDE DEF r
  <2>8. WorkLeft(c)'
    BY <1>2, <1>3, <1>4, <2>2, <2>4, <2>6, <2>7 DEF WorkLeft
  <2>9. HalfWritten(c)'
    BY <1>3, <1>4 DEF HalfWritten
  <2> QED BY <2>3, <2>8, <2>9
<1> HIDE DEF r, desired, stale
<1>6. call[c].pc # "idle"
  BY DEF Scan
<1> QED BY <1>1, <1>2, <1>3, <1>5, <1>6, GoingOn

\* What a call does to the files of one content leaves its reasons as they are, and what
\* it has read.
LEMMA SameReasons ==
  ASSUME UNCHANGED <<saved, chats, name>>
  PROVE  \A i : Why(i)' = Why(i) /\ \A v : Wanted(i, v)' = Wanted(i, v)
<1>1. \A i : Why(i)' = Why(i)
  BY DEF Why
<1> QED BY <1>1 DEF Wanted

LEMMA SameReads ==
  ASSUME UNCHANGED <<saved, chats, name>>, NEW c, ReadsHold(c),
         call[c].pc \in {"clean", "write"}, call'[c].pc \in {"clean", "write"},
         call'[c].why = call[c].why, call'[c].name = call[c].name, call'[c].scope = call[c].scope
  PROVE  ReadsHold(c)'
  BY SameReasons DEF ReadsHold

LEMMA StaleStep ==
  ASSUME Items \subseteq Nat, IInv, NEW c \in Calls, DeleteStale(c)
  PROVE  IInv'
<1>0. PICK i : i = Min(call[c].stale)
  OBVIOUS
<1> DEFINE r == [call[c] EXCEPT !.stale = call[c].stale \ {i}]
<1>1. /\ call' = [call EXCEPT ![c] = r] /\ UNCHANGED <<saved, chats, name>>
      /\ files' = files \ FilesOf(c, i) /\ call[c].pc = "clean" /\ call[c].stale # {}
  BY <1>0 DEF DeleteStale, IInv, CallTypes
<1>2. DOMAIN call[c] = Fields /\ call[c].alone \in BOOLEAN /\ call[c].scope \subseteq Items
  BY DEF IInv, CallTypes
<1>3. /\ DOMAIN r = Fields /\ r.pc = "clean" /\ r.scope = call[c].scope
      /\ r.alone = call[c].alone /\ r.why = call[c].why /\ r.name = call[c].name
      /\ r.stale = call[c].stale \ {i} /\ r.todo = call[c].todo
  BY <1>1, <1>2 DEF Fields
<1>4. call'[c] = r
  BY <1>1 DEF IInv, CallTypes
<1> HIDE DEF r
<1>5. ASSUME call[c].alone PROVE ReadsHold(c)' /\ WorkLeft(c)' /\ HalfWritten(c)'
  <2>1. ReadsHold(c) /\ WorkLeft(c)
    BY <1>5 DEF IInv
  <2>2. ReadsHold(c)' /\ \A k : Why(k)' = Why(k) /\ \A v : Wanted(k, v)' = Wanted(k, v)
    <3>1. call[c].pc \in {"clean", "write"} /\ call'[c].pc \in {"clean", "write"}
      BY <1>1, <1>3, <1>4
    <3>2. /\ call'[c].why = call[c].why /\ call'[c].name = call[c].name
          /\ call'[c].scope = call[c].scope
      BY <1>3, <1>4
    <3>3. ReadsHold(c)'
      BY <1>1, <2>1, <3>1, <3>2, SameReads
    <3> QED BY <1>1, <3>3, SameReasons
  <2>3. i \in call[c].stale
    BY <1>0, <1>1, <1>2, <2>1, MinIsMember DEF WorkLeft
  <2>4. OnDiskOf(i)' = {} /\ \A k : k # i => OnDiskOf(k)' = OnDiskOf(k)
    BY <1>1 DEF OnDiskOf, FilesOf
  <2>5. WorkLeft(c)'
    BY <1>1, <1>3, <1>4, <2>1, <2>2, <2>3, <2>4 DEF WorkLeft
  <2> QED BY <1>3, <1>4, <2>2, <2>5 DEF HalfWritten
<1> QED BY <1>1, <1>2, <1>3, <1>5, GoingOn

LEMMA RewriteStep ==
  ASSUME Items \subseteq Nat, IInv, NEW c \in Calls, Rewrite(c)
  PROVE  IInv'
<1>0. PICK i : i = Min(call[c].todo)
  OBVIOUS
<1> DEFINE r == [call[c] EXCEPT !.pc = "write", !.left = Variants]
<1>1. /\ call' = [call EXCEPT ![c] = r] /\ UNCHANGED <<saved, chats, name>>
      /\ files' = files \ FilesOf(c, i)
      /\ call[c].pc = "clean" /\ call[c].stale = {} /\ call[c].todo # {}
  BY <1>0 DEF Rewrite, IInv, CallTypes
<1>2. DOMAIN call[c] = Fields /\ call[c].alone \in BOOLEAN /\ call[c].scope \subseteq Items
  BY DEF IInv, CallTypes
<1>3. /\ DOMAIN r = Fields /\ r.pc = "write" /\ r.scope = call[c].scope
      /\ r.alone = call[c].alone /\ r.why = call[c].why /\ r.name = call[c].name
      /\ r.stale = {} /\ r.todo = call[c].todo /\ r.left = Variants
  BY <1>1, <1>2 DEF Fields
<1>4. call'[c] = r
  BY <1>1 DEF IInv, CallTypes
<1> HIDE DEF r
<1>5. ASSUME call[c].alone PROVE ReadsHold(c)' /\ WorkLeft(c)' /\ HalfWritten(c)'
  <2>1. ReadsHold(c) /\ WorkLeft(c)
    BY <1>5 DEF IInv
  <2>2. ReadsHold(c)' /\ \A k : Why(k)' = Why(k) /\ \A v : Wanted(k, v)' = Wanted(k, v)
    <3>1. call[c].pc \in {"clean", "write"} /\ call'[c].pc \in {"clean", "write"}
      BY <1>1, <1>3, <1>4
    <3>2. /\ call'[c].why = call[c].why /\ call'[c].name = call[c].name
          /\ call'[c].scope = call[c].scope
      BY <1>3, <1>4
    <3>3. ReadsHold(c)'
      BY <1>1, <2>1, <3>1, <3>2, SameReads
    <3> QED BY <1>1, <3>3, SameReasons
  <2>3. i \in call[c].todo
    BY <1>0, <1>1, <1>2, <2>1, MinIsMember DEF WorkLeft
  <2>4. OnDiskOf(i)' = {} /\ \A k : k # i => OnDiskOf(k)' = OnDiskOf(k)
    BY <1>1 DEF OnDiskOf, FilesOf
  <2>5. WorkLeft(c)'
    BY <1>1, <1>3, <1>4, <2>1, <2>2, <2>3, <2>4 DEF WorkLeft
  <2>6. Min(call[c].todo)' = i /\ Variants \ call'[c].left = {} /\ call'[c].left # {}
    BY <1>0, <1>3, <1>4 DEF Variants
  <2>7. HalfWritten(c)'
    BY <1>1, <1>3, <1>4, <2>4, <2>6 DEF HalfWritten
  <2> QED BY <2>2, <2>5, <2>7
<1> QED BY <1>1, <1>2, <1>3, <1>5, GoingOn

LEMMA WriteStep ==
  ASSUME Items \subseteq Nat, IInv, NEW c \in Calls, Write(c)
  PROVE  IInv'
<1>0. PICK i, v, new, left, pc, todo :
        /\ i = Min(call[c].todo)
        /\ v = IF "source" \in call[c].left THEN "source" ELSE "summary"
        /\ new = Rendered(c, i, v)
        /\ left = call[c].left \ {v}
        /\ pc = IF left = {} THEN "clean" ELSE "write"
        /\ todo = IF left = {} THEN call[c].todo \ {i} ELSE call[c].todo
  OBVIOUS
<1> DEFINE r == [call[c] EXCEPT !.left = left, !.pc = pc, !.todo = todo]
<1>1. /\ call' = [call EXCEPT ![c] = r] /\ UNCHANGED <<saved, chats, name>>
      /\ files' = {f \in files : ~SamePath(f, new)} \cup {new} /\ call[c].pc = "write"
  BY <1>0 DEF Write, IInv, CallTypes
<1>2. DOMAIN call[c] = Fields /\ call[c].alone \in BOOLEAN /\ call[c].scope \subseteq Items
  BY DEF IInv, CallTypes
<1>3. /\ DOMAIN r = Fields /\ r.pc = pc /\ r.scope = call[c].scope
      /\ r.alone = call[c].alone /\ r.why = call[c].why /\ r.name = call[c].name
      /\ r.stale = call[c].stale /\ r.todo = todo /\ r.left = left
  BY <1>1, <1>2 DEF Fields
<1>4. call'[c] = r /\ pc \in {"clean", "write"}
  BY <1>0, <1>1 DEF IInv, CallTypes
<1> HIDE DEF r
<1>5. ASSUME call[c].alone PROVE ReadsHold(c)' /\ WorkLeft(c)' /\ HalfWritten(c)'
  <2>1. ReadsHold(c) /\ WorkLeft(c) /\ HalfWritten(c)
    BY <1>5 DEF IInv
  <2>2. ReadsHold(c)' /\ \A k : Why(k)' = Why(k) /\ \A u : Wanted(k, u)' = Wanted(k, u)
    <3>1. call[c].pc \in {"clean", "write"} /\ call'[c].pc \in {"clean", "write"}
      BY <1>1, <1>3, <1>4
    <3>2. /\ call'[c].why = call[c].why /\ call'[c].name = call[c].name
          /\ call'[c].scope = call[c].scope
      BY <1>3, <1>4
    <3>3. ReadsHold(c)'
      BY <1>1, <2>1, <3>1, <3>2, SameReads
    <3> QED BY <1>1, <3>3, SameReasons
  <2>3. i \in call[c].todo /\ i \in call[c].scope /\ i \in Items /\ Why(i) # {}
    <3>1. /\ call[c].todo # {} /\ call[c].todo \subseteq call[c].scope
          /\ \A k \in call[c].todo : Why(k) # {}
      BY <1>1, <2>1 DEF WorkLeft, HalfWritten
    <3>2. call[c].todo \in SUBSET Nat /\ call[c].scope \subseteq Items
      BY <1>2, <3>1
    <3>3. i \in call[c].todo
      <4>1. Min(call[c].todo) \in call[c].todo
        BY <3>1, <3>2, MinIsMember
      <4> QED BY <1>0, <4>1
    <3> QED BY <3>1, <3>2, <3>3
  <2>4. new = Wanted(i, v) /\ new.item = i /\ new.variant = v
    BY <1>0, <1>1, <2>1, <2>3 DEF Rendered, Wanted, ReadsHold
  <2>5. v \in call[c].left /\ call[c].left \subseteq Variants
    BY <1>0, <1>1, <2>1 DEF HalfWritten, Variants
  <2>6. OnDiskOf(i) = {Wanted(i, u) : u \in Variants \ call[c].left}
    BY <1>0, <1>1, <2>1 DEF HalfWritten
  <2>7. \A f \in OnDiskOf(i) : ~SamePath(f, new)
    BY <2>4, <2>5, <2>6 DEF SamePath, Wanted
  <2>8. OnDiskOf(i)' = OnDiskOf(i) \cup {new}
    BY <1>1, <2>4, <2>7 DEF OnDiskOf
  <2>9. OnDiskOf(i)' = {Wanted(i, u) : u \in Variants \ left}
    BY <1>0, <2>4, <2>5, <2>6, <2>8
  <2>10. \A k : k # i => OnDiskOf(k)' = OnDiskOf(k)
    BY <1>1, <2>4 DEF OnDiskOf, SamePath
  <2>11. CASE left = {}
    <3>1. pc = "clean" /\ todo = call[c].todo \ {i}
      BY <1>0, <2>11
    <3>2. OnDiskOf(i)' = {Wanted(i, u) : u \in Variants}
      BY <2>9, <2>11
    <3>3. call[c].stale = {}
      BY <1>1, <2>1 DEF HalfWritten
    <3>4. WorkLeft(c)'
      BY <1>1, <1>3, <1>4, <2>1, <2>2, <2>3, <2>10, <3>1, <3>2, <3>3 DEF WorkLeft
    <3>5. HalfWritten(c)'
      BY <1>3, <1>4, <3>1 DEF HalfWritten
    <3> QED BY <2>2, <3>4, <3>5
  <2>12. CASE left # {}
    <3>1. pc = "write" /\ todo = call[c].todo
      BY <1>0, <2>12
    <3>2. WorkLeft(c)'
      BY <1>1, <1>3, <1>4, <2>1, <2>2, <2>3, <2>10, <3>1 DEF WorkLeft
    <3>3. Min(call[c].todo)' = i /\ call'[c].left = left /\ left \subseteq Variants
      BY <1>0, <1>3, <1>4, <2>5, <3>1
    <3>4. HalfWritten(c)'
      BY <1>1, <1>3, <1>4, <2>1, <2>2, <2>9, <2>12, <3>1, <3>3 DEF HalfWritten
    <3> QED BY <2>2, <3>2, <3>4
  <2> QED BY <2>11, <2>12
<1> QED BY <1>1, <1>2, <1>3, <1>4, <1>5, GoingOn

LEMMA EndStep ==
  ASSUME IInv, NEW c \in Calls, Finish(c) \/ Fail(c)
  PROVE  IInv'
<1>1. call[c].pc # "idle" /\ call' = [call EXCEPT ![c] = Idle]
  BY DEF Finish, Fail, Reconciled
<1>2. /\ DOMAIN Idle = Fields /\ Idle.pc = "idle" /\ Idle.alone = FALSE /\ Idle.scope = {}
  BY DEF Idle, Fields
<1> QED BY <1>1, <1>2, GoingOn

LEMMA InvariantStep == Items \subseteq Nat /\ IInv /\ [Next]_vars => IInv'
<1> SUFFICES ASSUME Items \subseteq Nat, IInv, [Next]_vars PROVE IInv'
  OBVIOUS
<1>1. CASE UNCHANGED vars
  BY <1>1 DEF vars, IInv, CallTypes, NobodyElse, ReadsHold, WorkLeft, HalfWritten, Why, Wanted,
              OnDiskOf
<1>2. ASSUME NEW i \in Items, ArchiveChat(i) \/ \E n \in Names : Edit(i, n) PROVE IInv'
  <2>1. call' = Disturbed
    BY <1>2 DEF ArchiveChat, Edit
  <2>2. CASE Calls = {}
    BY <2>1, <2>2 DEF Disturbed, IInv, CallTypes, NobodyElse
  <2> QED BY <2>1, <2>2, Disturbing
<1>3. ASSUME NEW c \in Calls, NEW i \in Items,
             SaveToKnowledge(c, i) \/ RemoveFromKnowledge(c, i) \/ OpenChat(c, i)
      PROVE  IInv'
  <2>1. call[c].pc = "idle" /\ Begin(c, {i}) /\ {i} \in SUBSET Items
    BY <1>3 DEF SaveToKnowledge, RemoveFromKnowledge, OpenChat
  <2> QED BY <2>1, Disturbing
<1>4. ASSUME NEW c \in Calls, ChatTurn(c) PROVE IInv'
  BY <1>4, Disturbing DEF ChatTurn
<1> QED
  BY <1>1, <1>2, <1>3, <1>4, ReasonsStep, ScanStep, StaleStep, RewriteStep, WriteStep, EndStep
  DEF Next

-----------------------------------------------------------------------------
LEMMA Repaired == IInv => LibraryRepaired
<1> SUFFICES ASSUME IInv, NEW c \in Calls, Reconciled(c), call[c].alone
             PROVE  {f \in files : f.item \in call[c].scope} =
                      UNION {Desired(i) : i \in call[c].scope}
  BY DEF LibraryRepaired
<1>1. \A i \in call[c].scope : OnDiskOf(i) = Desired(i)
  BY DEF IInv, WorkLeft, Reconciled, Desired, Wanted
<1>2. {f \in files : f.item \in call[c].scope} = UNION {OnDiskOf(i) : i \in call[c].scope}
  BY DEF OnDiskOf
<1> QED BY <1>1, <1>2

\* Whatever failed, overlapped or was renamed before, a call that ran alone leaves exactly
\* the files of its contents (sync_personal_markdown_library_for_user,
\* sync_personal_markdown_for_content).
THEOREM LibraryIsRepaired == ASSUME Items \subseteq Nat PROVE Spec => []LibraryRepaired
  BY Initially, InvariantStep, Repaired, PTL DEF Spec
=============================================================================

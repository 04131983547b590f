-------------------------------- MODULE Chat --------------------------------
(***************************************************************************)
(* What the app and the server do together: the turns of one chat session, *)
(* a council, the app's own session, a list and its pages.  They share no  *)
(* state, so each behaviour exercises one of them, chosen at the           *)
(* beginning; the council has two environments.  Which disturbances a      *)
(* scene has is fixed here, how large it is a parameter.                   *)
(***************************************************************************)
EXTENDS ChatTurns

CONSTANTS Faults,                                  \* per scene: bound on disturbances
          NumPersonas, FollowUps, NoStart, NoBranch,
          Starts, Retries,                         \* overlap
          StormStarts, StormRetries,               \* storm
          AppRequests, Launch, MaxPairs,           \* client
          Items, Stamp, Limit, PageCalls           \* list

\* council_chat.py start_council_chat: a council has experts (two at least).
ASSUME CouncilAssumption == NumPersonas \in Nat \ {0}

\* The call of the app's start is none of its later requests.
ASSUME LaunchAssumption == Launch \notin AppRequests

\* Timestamps and ids are numbers, ids are serial from 1 and a page has a row at least.
ASSUME ListAssumption ==
  /\ IsFiniteSet(Items) /\ Items \subseteq Nat \ {0}
  /\ Stamp \in [Items -> Nat]
  /\ Limit \in Nat \ {0}

VARIABLES scene,
          \* CouncilChat
          nextId, parent, session, row, branch, start, retry,
          \* ClientSession
          access, refresh, issued, lapsed, refused, auth, seen, signedOut, notice,
          call, refreshing, current, recent, sessionFaults,
          \* FeedPaging
          listed, shown, cursor, hasMore, loading, state, page, read, marking, steady, listFaults

councilVars == <<nextId, parent, session, row, branch, start, retry>>
sessionVars == <<access, refresh, issued, lapsed, refused, auth, seen, signedOut, notice,
                 call, refreshing, current, recent, sessionFaults>>
listVars == <<listed, shown, cursor, hasMore, loading, state, page, read, marking, steady,
              listFaults>>
allVars == <<scene, vars, councilVars, sessionVars, listVars>>

\* Overlapping retries that succeed, branches that fail at the start.
Overlap == INSTANCE CouncilChat
  WITH Disturbances <- {"overlap", "failure"}

\* Restarts, failed retries and a second start.
Storm == INSTANCE CouncilChat
  WITH Starts <- StormStarts, Retries <- StormRetries,
       Disturbances <- {"restart", "retry", "overlap", "failure"}

\* Requests and the launch, with lost and unreadable answers and restarts of the app.
Client == INSTANCE ClientSession
  WITH Requests <- AppRequests,
       Disturbances <- {"loss", "garbled", "restart", "expire"}, MaxFaults <- Faults["client"],
       known <- seen, task <- refreshing, faults <- sessionFaults

\* The unread list.
List == INSTANCE FeedPaging
  WITH Calls <- PageCalls, Kind <- "inbox",
       Disturbances <- {"again", "failure"}, MaxFaults <- Faults["list"],
       call <- page, faults <- listFaults

ChatInit ==
  /\ Init
  /\ \/ scene \in {"turns", "overlap", "client", "list"} /\ Overlap!Init
     \/ scene = "storm" /\ Storm!Init
  /\ Client!Init
  /\ scene # "client" => lapsed = {}
  /\ List!Init
  /\ scene # "list" => listed = {}

ChatNext ==
  /\ UNCHANGED scene
  /\ \/ scene = "turns" /\ Next
     \/ scene # "turns" /\ UNCHANGED vars
  /\ \/ scene = "overlap" /\ Overlap!Next
     \/ scene = "storm" /\ Storm!Next
     \/ scene \notin {"overlap", "storm"} /\ UNCHANGED councilVars
  /\ \/ scene = "client" /\ Client!Next
     \/ scene # "client" /\ UNCHANGED sessionVars
  /\ \/ scene = "list" /\ List!Next
     \/ scene # "list" /\ UNCHANGED listVars

ChatSpec == ChatInit /\ [][ChatNext]_allVars

-----------------------------------------------------------------------------
\* Candidates of a council row are answers of their own branches, and it shows the branch
\* that is active in the session.
CouncilRowSound ==
  /\ scene = "overlap" => Overlap!CandidatesAreReal /\ Overlap!RowMatchesSession
  /\ scene = "storm" => Storm!CandidatesAreReal

\* A branch that answered never shows the turns it was cloned from again.
AnsweredBranchShownOnce ==
  /\ scene = "overlap" => Overlap!AnsweredBranchShownOnce
  /\ scene = "storm" => Storm!AnsweredBranchShownOnce

\* The app's session ends with a logout or an expired refresh token.
SessionKept == [][Client!SessionKept]_allVars

\* At the end of the list nothing is missing.
NothingHidden == scene = "list" => List!NothingHidden
=============================================================================

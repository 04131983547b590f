---------------------------- MODULE ClientSession ----------------------------
(***************************************************************************)
(* The session of the iOS app: the tokens in the keychain, the requests    *)
(* that carry them, the refresh that requests share, and the state the     *)
(* views show.  The server keeps no session: it answers for any pair of    *)
(* tokens it has issued that has not expired.                              *)
(***************************************************************************)
EXTENDS Integers, FiniteSets

CONSTANTS Requests,      \* calls of APIClient that may be under way
          Launch,        \* the call of checkAuthStatus when the app starts
          MaxPairs,      \* bound on the pairs of tokens issued
          Disturbances,  \* of {"loss", "garbled", "restart", "expire", "overlap", "stale"}
          MaxFaults

Callers == Requests \cup {Launch}

VARIABLES access, refresh,  \* the keychain: number of the pair, 0 when absent
          issued,           \* pairs issued so far
          lapsed,           \* pairs whose access token has expired
          refused,          \* pairs whose refresh token has expired
          auth,             \* authState: "loading", "in" or "out"
          known,            \* lastKnownUser is there
          signedOut,        \* the user has logged out since the last sign-in
          notice,           \* an authenticationRequired notification is on its way
          call,             \* what each caller is doing
          task,             \* the refresh each caller has started
          current,          \* RefreshCoordinator's task: who started it
          recent,           \* its last success is within the cooldown
          faults

keychain == <<access, refresh>>
server == <<issued, lapsed, refused>>
screen == <<auth, known, signedOut>>
vars == <<keychain, server, screen, notice, call, task, current, recent, faults>>

NoCall == [pc |-> "idle", token |-> 0, again |-> FALSE, on |-> Launch]
NoTask == [pc |-> "none", token |-> 0]
Nobody == "nobody"
Disturb(d) == d \in Disturbances /\ faults < MaxFaults /\ faults' = faults + 1

\* The app is started by a user who is signed in; the launch call is next.
Init ==
  /\ issued = 1 /\ access = 1 /\ refresh = 1
  /\ lapsed \in {{}, {1}} /\ refused = {}
  /\ auth = "loading" /\ known = FALSE /\ signedOut = FALSE
  /\ notice = FALSE
  /\ call = [c \in Callers |-> NoCall]
  /\ task = [c \in Callers |-> NoTask]
  /\ current = Nobody /\ recent = FALSE
  /\ faults = 0

\* Only the steps that wait for the network last until the user has signed in.
Waiting(c) == \/ call[c].pc = "sent"
              \/ call[c].pc = "wait" /\ task[call[c].on].pc = "asking"
Quiet == \A c \in Callers : call[c].pc = "idle"
Idle(c) == call' = [call EXCEPT ![c] = NoCall]

-----------------------------------------------------------------------------
(* Logging in and out *)

ClearAll == access' = 0 /\ refresh' = 0
ShowOut == auth' = "out" /\ known' = FALSE

SignIn ==
  /\ auth = "out" /\ ~notice /\ issued < MaxPairs
  /\ IF Quiet THEN UNCHANGED faults
     ELSE Disturb("overlap") /\ \A c \in Callers : call[c].pc = "idle" \/ Waiting(c)
  /\ issued' = issued + 1 /\ access' = issued + 1 /\ refresh' = issued + 1
  /\ auth' = "in" /\ known' = TRUE /\ signedOut' = FALSE
  /\ UNCHANGED <<lapsed, refused, notice, call, task, current, recent>>

UserLogout ==
  /\ auth = "in"
  /\ ClearAll /\ ShowOut /\ signedOut' = TRUE
  /\ UNCHANGED <<server, notice, call, task, current, recent, faults>>

\* The view model hears authenticationRequired and logs out.
NoticeArrives ==
  /\ notice /\ notice' = FALSE
  /\ ClearAll /\ ShowOut /\ UNCHANGED signedOut
  /\ UNCHANGED <<server, call, task, current, recent, faults>>

-----------------------------------------------------------------------------
(* Sending and answering a request *)

\* fetchAccessTokenOrRefresh
Send(c, again) ==
  call' = [call EXCEPT ![c] =
    IF access = 0 /\ refresh # 0
    THEN [@ EXCEPT !.pc = "check", !.again = again]
    ELSE [@ EXCEPT !.pc = "sent", !.token = access, !.again = again]]

StartRequest(c) ==
  /\ c \in Requests /\ call[c].pc = "idle" /\ auth = "in"
  /\ Send(c, FALSE)
  /\ UNCHANGED <<keychain, server, screen, notice, task, current, recent, faults>>

Accepted(n) == n # 0 /\ n \notin lapsed

RequestSucceeds(c) ==
  /\ c \in Requests /\ call[c].pc = "sent" /\ Accepted(call[c].token)
  /\ Idle(c)
  /\ UNCHANGED <<keychain, server, screen, notice, task, current, recent, faults>>

\* The first 401 leads to a refresh, the second to a logout.
RequestRejected(c) ==
  /\ c \in Requests /\ call[c].pc = "sent" /\ ~Accepted(call[c].token)
  /\ IF call[c].again THEN Idle(c) /\ notice' = TRUE
     ELSE call' = [call EXCEPT ![c].pc = "check", ![c].again = TRUE] /\ UNCHANGED notice
  /\ UNCHANGED <<keychain, server, screen, task, current, recent, faults>>

RequestLost(c) ==
  /\ c \in Requests /\ call[c].pc = "sent" /\ Disturb("loss")
  /\ Idle(c)
  /\ UNCHANGED <<keychain, server, screen, notice, task, current, recent>>

-----------------------------------------------------------------------------
(* The shared refresh: looking for a task, starting one and registering it *)
(* are separate awaits, so two callers may each start a task.  A task that *)
(* finds no refresh token ends at once: it may be cleared before it is     *)
(* registered, and then stays registered ("stale").                        *)

FindTask(c) ==
  /\ call[c].pc = "check"
  /\ call' = [call EXCEPT ![c] = IF current = Nobody THEN [@ EXCEPT !.pc = "start"]
                                 ELSE [@ EXCEPT !.pc = "wait", !.on = current]]
  /\ UNCHANGED <<keychain, server, screen, notice, task, current, recent, faults>>

\* The call goes on with a token: a request is sent, the launch asks again.
Resume(c) ==
  IF c = Launch
  THEN call' = [call EXCEPT ![c] = IF access = 0 THEN [@ EXCEPT !.pc = "denied"]
                                   ELSE [@ EXCEPT !.pc = "sent", !.token = access, !.again = TRUE]]
  ELSE Send(c, call[c].again)

UseCached(c) ==
  /\ call[c].pc = "start" /\ recent /\ access # 0
  /\ Resume(c)
  /\ UNCHANGED <<keychain, server, screen, notice, task, current, recent, faults>>

StartTask(c) ==
  /\ call[c].pc = "start" /\ ~(recent /\ access # 0)
  /\ \A d \in Callers : call[d].pc = "wait" => call[d].on # c
  /\ task[c].pc # "asking"
  /\ task' = [task EXCEPT ![c] = IF refresh = 0 THEN [pc |-> "refused", token |-> 0]
                                 ELSE [pc |-> "asking", token |-> refresh]]
  /\ \/ current' = (IF refresh = 0 THEN Nobody ELSE c) /\ UNCHANGED faults
     \/ refresh = 0 /\ Disturb("stale") /\ current' = c
  /\ call' = [call EXCEPT ![c].pc = "wait", ![c].on = c]
  /\ UNCHANGED <<keychain, server, screen, notice, recent>>

\* 200: both tokens are saved, the cooldown begins, the task is cleared.
RefreshSucceeds(c) ==
  /\ task[c].pc = "asking" /\ task[c].token \notin refused /\ issued < MaxPairs
  /\ issued' = issued + 1 /\ access' = issued + 1 /\ refresh' = issued + 1
  /\ task' = [task EXCEPT ![c].pc = "ok"]
  /\ current' = Nobody /\ recent' = TRUE
  /\ UNCHANGED <<lapsed, refused, screen, notice, call, faults>>

\* 401: the tokens in the keychain are deleted.
RefreshRefused(c) ==
  /\ task[c].pc = "asking" /\ task[c].token \in refused
  /\ ClearAll
  /\ task' = [task EXCEPT ![c].pc = "refused"]
  /\ current' = Nobody
  /\ UNCHANGED <<server, screen, notice, call, recent, faults>>

\* Mutant of RefreshLost: any failure of the refresh deletes the tokens.
RefreshLostClears(c) ==
  /\ task[c].pc = "asking" /\ Disturb("loss")
  /\ ClearAll
  /\ task' = [task EXCEPT ![c].pc = "failed"]
  /\ current' = Nobody
  /\ UNCHANGED <<server, screen, notice, call, recent>>

\* A network or server error keeps the tokens.
RefreshLost(c) ==
  /\ task[c].pc = "asking" /\ Disturb("loss")
  /\ task' = [task EXCEPT ![c].pc = "failed"]
  /\ current' = Nobody
  /\ UNCHANGED <<keychain, server, screen, notice, call, recent>>

\* A 200 whose body cannot be decoded: nothing is saved, AuthError.refreshFailed.
RefreshUnread(c) ==
  /\ task[c].pc = "asking" /\ task[c].token \notin refused /\ Disturb("garbled")
  /\ task' = [task EXCEPT ![c].pc = "unread"]
  /\ current' = Nobody
  /\ UNCHANGED <<keychain, server, screen, notice, call, recent>>

RefreshHelps(c) ==
  /\ call[c].pc = "wait" /\ task[call[c].on].pc = "ok"
  /\ Resume(c)
  /\ UNCHANGED <<keychain, server, screen, notice, task, current, recent, faults>>

\* A refused refresh logs out; another failure is the request's alone.
RequestGivesUp(c) ==
  /\ c \in Requests /\ call[c].pc = "wait"
  /\ task[call[c].on].pc \in {"refused", "failed", "unread"}
  /\ Idle(c) /\ notice' = (notice \/ task[call[c].on].pc = "refused")
  /\ UNCHANGED <<keychain, server, screen, task, current, recent, faults>>

-----------------------------------------------------------------------------
(* The launch: checkAuthStatus, handleAuthFailure, refreshAndLoadUser *)

NothingToCheck == access = 0 /\ refresh = 0

LaunchFindsNoTokens ==
  /\ auth = "loading" /\ call[Launch].pc = "idle" /\ NothingToCheck
  /\ auth' = "out" /\ UNCHANGED <<known, signedOut>>
  /\ UNCHANGED <<keychain, server, notice, call, task, current, recent, faults>>

LaunchAsks ==
  /\ auth = "loading" /\ call[Launch].pc = "idle" /\ ~NothingToCheck
  /\ call' = [call EXCEPT ![Launch] =
       IF access = 0 THEN [@ EXCEPT !.pc = "check"]
       ELSE [@ EXCEPT !.pc = "sent", !.token = access]]
  /\ UNCHANGED <<keychain, server, screen, notice, task, current, recent, faults>>

LaunchSucceeds ==
  /\ call[Launch].pc = "sent" /\ Accepted(call[Launch].token)
  /\ auth' = "in" /\ known' = TRUE /\ UNCHANGED signedOut
  /\ Idle(Launch)
  /\ UNCHANGED <<keychain, server, notice, task, current, recent, faults>>

\* getCurrentUser deletes the access token on a 401.
LaunchRejected ==
  /\ call[Launch].pc = "sent" /\ ~Accepted(call[Launch].token)
  /\ access' = 0 /\ UNCHANGED refresh
  /\ call' = [call EXCEPT ![Launch].pc =
       IF call[Launch].again \/ refresh = 0 THEN "denied" ELSE "check"]
  /\ UNCHANGED <<server, screen, notice, task, current, recent, faults>>

\* What is left when there is no network: the tokens, and a known user.
ShowKnown == auth' = (IF known THEN "in" ELSE "out") /\ UNCHANGED <<known, signedOut>>

LaunchLost ==
  /\ call[Launch].pc = "sent" /\ Disturb("loss")
  /\ ShowKnown /\ Idle(Launch)
  /\ UNCHANGED <<keychain, server, notice, task, current, recent>>

LaunchGivesUp ==
  /\ call[Launch].pc = "wait" /\ task[call[Launch].on].pc = "failed"
  /\ ShowKnown /\ Idle(Launch)
  /\ UNCHANGED <<keychain, server, notice, task, current, recent, faults>>

\* The answer about the user cannot be decoded: the first one keeps the tokens.
LaunchUnread ==
  /\ call[Launch].pc = "sent" /\ ~call[Launch].again /\ Accepted(call[Launch].token)
  /\ Disturb("garbled")
  /\ auth' = "out" /\ UNCHANGED <<known, signedOut>>
  /\ Idle(Launch)
  /\ UNCHANGED <<keychain, server, notice, task, current, recent>>

\* From the refresh on, an answer that cannot be decoded logs out.
LaunchMisreads ==
  /\ \/ call[Launch].pc = "wait" /\ task[call[Launch].on].pc = "unread" /\ UNCHANGED faults
     \/ /\ call[Launch].pc = "sent" /\ call[Launch].again /\ Accepted(call[Launch].token)
        /\ Disturb("garbled")
  /\ ClearAll /\ auth' = "out" /\ UNCHANGED <<known, signedOut>>
  /\ Idle(Launch)
  /\ UNCHANGED <<server, notice, task, current, recent>>

LaunchLogsOut ==
  /\ \/ call[Launch].pc = "denied"
     \/ call[Launch].pc = "wait" /\ task[call[Launch].on].pc = "refused"
  /\ ClearAll /\ auth' = "out" /\ UNCHANGED <<known, signedOut>>
  /\ Idle(Launch)
  /\ UNCHANGED <<server, notice, task, current, recent, faults>>

-----------------------------------------------------------------------------
(* Time and disturbances *)

\* An access token lives for half an hour, a call for a minute: none lapses
\* between the refresh that fetched it and the end of the call.
AccessLapses ==
  /\ access # 0 /\ access \notin lapsed /\ ~recent
  /\ \A c \in Callers : call[c].pc \in {"idle", "sent"} /\ ~call[c].again
  /\ lapsed' = lapsed \cup {access}
  /\ UNCHANGED <<keychain, issued, refused, screen, notice, call, task, current, recent, faults>>

CooldownEnds ==
  /\ recent /\ recent' = FALSE
  /\ UNCHANGED <<keychain, server, screen, notice, call, task, current, faults>>

\* Ninety days pass without a call.
RefreshLapses ==
  /\ refresh # 0 /\ Quiet /\ ~recent /\ Disturb("expire")
  /\ refused' = refused \cup {refresh} /\ lapsed' = lapsed \cup {refresh}
  /\ UNCHANGED <<keychain, issued, screen, notice, call, task, current, recent>>

\* The app is killed and started again: the keychain is what is left.
Restart ==
  /\ Disturb("restart")
  /\ auth' = "loading" /\ known' = FALSE /\ UNCHANGED signedOut
  /\ notice' = FALSE
  /\ call' = [c \in Callers |-> NoCall] /\ task' = [c \in Callers |-> NoTask]
  /\ current' = Nobody /\ recent' = FALSE
  /\ UNCHANGED <<keychain, server>>

Next ==
  \/ SignIn \/ UserLogout \/ NoticeArrives
  \/ \E c \in Callers :
       \/ StartRequest(c) \/ RequestSucceeds(c) \/ RequestRejected(c) \/ RequestLost(c)
       \/ FindTask(c) \/ UseCached(c) \/ StartTask(c)
       \/ RefreshSucceeds(c) \/ RefreshRefused(c) \/ RefreshLost(c) \/ RefreshUnread(c)
       \/ RefreshHelps(c) \/ RequestGivesUp(c)
  \/ LaunchFindsNoTokens \/ LaunchAsks \/ LaunchSucceeds \/ LaunchRejected
  \/ LaunchLost \/ LaunchGivesUp \/ LaunchUnread \/ LaunchMisreads \/ LaunchLogsOut
  \/ AccessLapses \/ CooldownEnds \/ RefreshLapses \/ Restart

Spec == Init /\ [][Next]_vars

-----------------------------------------------------------------------------
\* A session ends only when its user logs out, its own refresh token has
\* expired, or an app that is starting cannot read the answer to its refresh
\* or to the request after it, whichever calls, refreshes and restarts
\* overlap (auth.py:264: "active users stay logged in indefinitely").
SessionKept ==
  ~signedOut /\ refresh # 0 /\ refresh' = 0 =>
    UserLogout \/ refresh \in refused \/ LaunchMisreads
=============================================================================

------------------------------- MODULE CliLink -------------------------------
(***************************************************************************)
(* One QR session that links the CLI to an account: the app approves it    *)
(* and mints an API key, the CLI polls for the key.  Minting commits, so   *)
(* an approval is two transactions; a poll is a read and a commit.         *)
(***************************************************************************)
EXTENDS Integers, FiniteSets

CONSTANTS Approvals,     \* approval requests for the session
          Disturbances,  \* subset of {"overlap", "death", "loss"}
          MaxFaults

VARIABLES status,    \* cli_link_sessions.status
          lapsed,    \* expires_at has passed
          key,       \* user_api_key_id, 0 when null
          plain,     \* issued_api_key_plaintext, 0 when null
          minted,    \* number of API keys minted; keys are 1..minted
          approval,  \* what each approval request is doing
          poll,      \* the poll under way: what it has loaded
          cli,       \* "waiting", "linked" or "stopped"
          held,      \* the key the CLI stored
          faults

session == <<status, lapsed, key, plain, minted>>
client == <<cli, held>>
vars == <<session, approval, poll, client, faults>>

NoPoll == [pc |-> "idle", plain |-> 0, answer |-> "pending"]

\* start_cli_link_session
Init ==
  /\ status = "pending" /\ lapsed = FALSE /\ key = 0 /\ plain = 0 /\ minted = 0
  /\ approval = [a \in Approvals |-> [pc |-> "new", key |-> 0]]
  /\ poll = NoPoll
  /\ cli = "waiting" /\ held = 0
  /\ faults = 0

Disturb(d) == d \in Disturbances /\ faults < MaxFaults /\ faults' = faults + 1

Lapse == ~lapsed /\ lapsed' = TRUE
         /\ UNCHANGED <<status, key, plain, minted, approval, poll, client, faults>>

-----------------------------------------------------------------------------
(* Approval *)

\* The next request is sent when the one before has been answered.
Alone == \A a \in Approvals : approval[a].pc \in {"new", "done"}
SendApproval == IF Alone THEN UNCHANGED faults ELSE Disturb("overlap")
HasKey == status = "approved" /\ key # 0

ApprovalFindsExpired(a) ==
  /\ approval[a].pc = "new" /\ lapsed
  /\ SendApproval
  /\ status' = "expired"
  /\ approval' = [approval EXCEPT ![a].pc = "done"]
  /\ UNCHANGED <<lapsed, key, plain, minted, poll, client>>

\* A session that has its key is answered with it; a claimed one is refused.
ApprovalFindsSettled(a) ==
  /\ approval[a].pc = "new" /\ ~lapsed
  /\ HasKey \/ status = "claimed"
  /\ SendApproval
  /\ approval' = [approval EXCEPT ![a].pc = "done"]
  /\ UNCHANGED <<session, poll, client>>

\* Mutant of Mint: an approved session gets one more key.
MintAgain(a) ==
  /\ approval[a].pc = "new" /\ ~lapsed
  /\ status # "claimed"
  /\ SendApproval
  /\ minted' = minted + 1
  /\ approval' = [approval EXCEPT ![a] = [pc |-> "minted", key |-> minted + 1]]
  /\ UNCHANGED <<status, lapsed, key, plain, poll, client>>

\* create_api_key commits the key before the session knows of it.
Mint(a) ==
  /\ approval[a].pc = "new" /\ ~lapsed
  /\ ~HasKey /\ status # "claimed"
  /\ SendApproval
  /\ minted' = minted + 1
  /\ approval' = [approval EXCEPT ![a] = [pc |-> "minted", key |-> minted + 1]]
  /\ UNCHANGED <<status, lapsed, key, plain, poll, client>>

\* The commit expired the session object, so every assignment is written.
Approve(a) ==
  /\ approval[a].pc = "minted"
  /\ status' = "approved" /\ key' = approval[a].key /\ plain' = approval[a].key
  /\ approval' = [approval EXCEPT ![a].pc = "done"]
  /\ UNCHANGED <<lapsed, minted, poll, client, faults>>

ApprovalDies(a) ==
  /\ Disturb("death")
  /\ approval[a].pc = "minted"
  /\ approval' = [approval EXCEPT ![a].pc = "done"]
  /\ UNCHANGED <<session, poll, client>>

-----------------------------------------------------------------------------
(* Polling *)

\* _status_for_poll
Answer ==
  CASE lapsed /\ status \in {"pending", "approved"} -> "expired"
    [] status = "claimed" -> "claimed"
    [] ~ lapsed /\ status = "approved" -> "approved"
    [] OTHER -> "pending"

\* The poll loads the session; one that is pending and has lapsed is marked.
BeginPoll ==
  /\ cli = "waiting" /\ poll.pc = "idle"
  /\ status' = IF lapsed /\ status = "pending" THEN "expired" ELSE status
  /\ poll' = [pc |-> "loaded", plain |-> IF status = "approved" THEN plain ELSE 0,
              answer |-> Answer]
  /\ UNCHANGED <<lapsed, key, plain, minted, approval, client, faults>>

Claim ==
  /\ poll.pc = "loaded" /\ poll.plain # 0
  /\ status' = "claimed" /\ plain' = 0
  /\ poll' = [poll EXCEPT !.pc = "answered"]
  /\ UNCHANGED <<lapsed, key, minted, approval, client, faults>>

Answered == poll.pc = "answered" \/ (poll.pc = "loaded" /\ poll.plain = 0)

\* WaitForCLILink goes on until it has a key or a final status.
AnswerArrives ==
  /\ Answered
  /\ cli' = CASE poll.plain # 0 -> "linked"
              [] poll.plain = 0 /\ poll.answer \in {"claimed", "expired"} -> "stopped"
              [] OTHER -> "waiting"
  /\ held' = poll.plain
  /\ poll' = NoPoll
  /\ UNCHANGED <<session, approval, faults>>

\* A request that fails ends the command.
AnswerLost ==
  /\ Disturb("loss")
  /\ Answered
  /\ poll' = NoPoll /\ cli' = "stopped"
  /\ UNCHANGED <<session, approval, held>>

GiveUp ==
  /\ cli = "waiting" /\ poll.pc = "idle"
  /\ cli' = "stopped"
  /\ UNCHANGED <<session, approval, poll, held, faults>>

-----------------------------------------------------------------------------
Next ==
  \/ Lapse \/ BeginPoll \/ Claim \/ AnswerArrives \/ AnswerLost \/ GiveUp
  \/ \E a \in Approvals : \/ ApprovalFindsExpired(a) \/ ApprovalFindsSettled(a)
                          \/ Mint(a) \/ Approve(a) \/ ApprovalDies(a)

Spec == Init /\ [][Next]_vars

-----------------------------------------------------------------------------
(* Properties *)

TypeOK ==
  /\ status \in {"pending", "approved", "claimed", "expired"}
  /\ key \in 0..minted /\ plain \in {0, key}
  /\ minted \in 0..Cardinality(Approvals)
  /\ cli \in {"waiting", "linked", "stopped"}

\* When approvals do not overlap and none dies, every key that was minted is the
\* session's key, or its approval is about to make it so.
NoStrayKey ==
  \A k \in 1..minted : k = key \/ \E a \in Approvals : approval[a] = [pc |-> "minted", key |-> k]

\* When approvals do not overlap, a CLI that was linked holds the key the session
\* names, whatever was approved or expired meanwhile.
LinkedWithKey == cli = "linked" => held # 0 /\ held = key
=============================================================================

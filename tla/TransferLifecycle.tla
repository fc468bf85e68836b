------------------------- MODULE TransferLifecycle -------------------------
(***************************************************************************)
(* What the switch promises of a transfer, with no handlers, leases or     *)
(* callbacks: the transitions that internal/rail/model.go allows, each of  *)
(* which commits the new status, its outbox events and its audit record in *)
(* one step.  docs/domain/state-machines.md draws the same machine, and    *)
(* docs/domain/invariants.md 12 states the one step.                       *)
(***************************************************************************)
EXTENDS TransferEvents

CONSTANT TransferIDs

VARIABLES status,   \* status[t], "absent" before the transfer is decided
          outbox,   \* outbox[t], the events written for t, in order
          audit     \* audit[t], the audit actions written for t, in order

vars == <<status, outbox, audit>>

Init ==
  /\ status = [t \in TransferIDs |-> "absent"]
  /\ outbox = [t \in TransferIDs |-> <<>>]
  /\ audit = [t \in TransferIDs |-> <<>>]

Commit(t, next, events, actions) ==
  /\ status' = [status EXCEPT ![t] = next]
  /\ outbox' = [outbox EXCEPT ![t] = @ \o events]
  /\ audit' = [audit EXCEPT ![t] = @ \o actions]

Decide(t, s) ==
  /\ status[t] = "absent"
  /\ Commit(t, s, CreateEvents(s), CreateAudit)

Review(t, s) ==
  /\ status[t] = "review"
  /\ Commit(t, s, ReviewEvents(s), ReviewAudit)

Approve(t) ==
  /\ status[t] = "accepted"
  /\ Commit(t, "approved", SubmissionEvents, SubmissionAudit)

Settle(t, s) ==
  /\ status[t] = "approved"
  /\ Commit(t, s, SettlementEvents(s), SettlementAudit)

Next ==
  \E t \in TransferIDs :
    \/ \E s \in {"accepted", "review", "blocked"} : Decide(t, s)
    \/ \E s \in {"accepted", "blocked"} : Review(t, s)
    \/ Approve(t)
    \/ \E s \in {"settled", "rejected"} : Settle(t, s)

Spec == Init /\ [][Next]_vars
=============================================================================

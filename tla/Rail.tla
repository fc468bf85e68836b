-------------------------------- MODULE Rail --------------------------------
(***************************************************************************)
(* The transfer aggregate of internal/rail/model.go: its statuses and its  *)
(* five state transitions.  The Go methods return (Transfer, error); here  *)
(* each one is a guard, true exactly when the method returns no error, and *)
(* the transfer it then returns.                                           *)
(*                                                                         *)
(* Data kept: what a guard of the system reads.  A request payload and its *)
(* sha256 fingerprint are one value, `hash'.  SPIClaimedUntil is the TIME  *)
(* LEFT until that instant: every guard asks only whether it is after now, *)
(* so nil and any past instant are both 0.  The end-to-end id is issued    *)
(* and stored together with the SPI message id and is not kept apart.      *)
(* Reasons, scores, codes of errors, attempts and timestamps decide        *)
(* nothing and are left out.                                               *)
(***************************************************************************)
EXTENDS Naturals

CONSTANT None    \* the empty string of an unset token, message id or key

(* model.go 14-21; "absent" is a transfer id with no row.                  *)
TransferStatus ==
  {"accepted", "approved", "blocked", "review", "settled", "rejected"}

NoTransfer ==
  [tenant |-> None, key |-> None, hash |-> None, status |-> "absent",
   spiMessageID |-> None, spiClaimToken |-> None, spiClaimedUntil |-> 0]

SettlementStatus == {"accepted", "rejected"}

Terminal(s) == s \in {"blocked", "settled", "rejected"}

(* The replay test of both stores: the submission was already recorded.    *)
Submitted(tr) == tr.status = "approved" /\ tr.spiMessageID # None

-----------------------------------------------------------------------------
(* Deliberately wrong forms of the operators below, each one a slip that   *)
(* would compile in the Go code; used to show which property notices it.   *)
ClaimDespiteLiveLease(tr, until) == until > 0 /\ tr.status = "accepted"
ClaimAnyStatus(tr, until) == until > 0 /\ tr.spiClaimedUntil = 0
RecordKeepingClaim(tr, message) ==
  [tr EXCEPT !.status = "approved", !.spiMessageID = message]
ReleaseAtOnce(tr, retryAfter) == [tr EXCEPT !.spiClaimToken = None, !.spiClaimedUntil = 0]
ReviewAgain(tr, status) ==
  tr.status \in {"review", "accepted"} /\ status \in {"accepted", "blocked"}

-----------------------------------------------------------------------------
(* ClaimSPISubmission: `until' is the time left to claimUntil.             *)
CanClaimSPISubmission(tr, until) ==
  /\ until > 0
  /\ tr.status = "accepted"
  /\ tr.spiClaimedUntil = 0

ClaimSPISubmission(tr, token, until) ==
  [tr EXCEPT !.spiClaimToken = token, !.spiClaimedUntil = until]

(* RecordSPISubmission: the lease may have run out; only the token counts. *)
CanRecordSPISubmission(tr, token) ==
  /\ tr.status = "accepted"
  /\ tr.spiClaimToken # None
  /\ tr.spiClaimToken = token

RecordSPISubmission(tr, message) ==
  [tr EXCEPT !.status = "approved", !.spiMessageID = message,
             !.spiClaimToken = None, !.spiClaimedUntil = 0]

(* ReleaseSPISubmission: status is not looked at once it is not Submitted. *)
CanReleaseSPISubmission(tr, token) ==
  /\ tr.spiClaimToken # None
  /\ tr.spiClaimToken = token

ReleaseSPISubmission(tr, retryAfter) ==
  [tr EXCEPT !.spiClaimToken = None, !.spiClaimedUntil = retryAfter]

CanRecordReviewDecision(tr, status) ==
  /\ tr.status = "review"
  /\ status \in {"accepted", "blocked"}

RecordReviewDecision(tr, status) == [tr EXCEPT !.status = status]

CanRecordSettlement(tr, callback) ==
  /\ tr.spiMessageID # None
  /\ tr.spiMessageID = callback.spiMessageID
  /\ ~Terminal(tr.status)
  /\ tr.status = "approved"
  /\ callback.status \in SettlementStatus

SettlementOutcome(status) == IF status = "accepted" THEN "settled" ELSE "rejected"

RecordSettlement(tr, callback) ==
  [tr EXCEPT !.status = SettlementOutcome(callback.status)]
=============================================================================

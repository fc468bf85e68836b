--------------------------- MODULE TransferEvents ---------------------------
(***************************************************************************)
(* What each use case of internal/switcher/service.go hands to the store   *)
(* together with the new state of the transfer: the outbox events, in the  *)
(* order they are added, and the action of the audit record.  Payloads and *)
(* envelopes are left out; an event is its event_type.                     *)
(***************************************************************************)
EXTENDS Sequences

CreateEvents(decision) ==
  <<"pix_transfer_requested", "dict_key_resolved", "fraud_score_calculated">>
  \o CASE decision = "accepted" ->
            <<"pix_transfer_accepted", "spi_submission_requested">>
       [] decision = "review" -> <<"pix_transfer_review_requested">>
       [] OTHER -> <<"pix_transfer_blocked">>

ReviewEvents(next) ==
  IF next = "accepted"
  THEN <<"pix_transfer_review_approved", "spi_submission_requested">>
  ELSE <<"pix_transfer_review_blocked", "pix_transfer_blocked">>

SubmissionEvents == <<"spi_message_created", "pix_transfer_approved">>

SettlementEvents(outcome) ==
  IF outcome = "settled" THEN <<"pix_transfer_settled">>
                         ELSE <<"pix_transfer_rejected">>

CreateAudit == <<"pix_transfer_decided">>
ReviewAudit == <<"manual_review_recorded">>
SubmissionAudit == <<"spi_submission_recorded">>
SettlementAudit == <<"spi_settlement_callback_recorded">>
=============================================================================

--------------------------- MODULE StoreContract ---------------------------
(***************************************************************************)
(* What the switch relies on in a store, whichever driver is configured:   *)
(* every mutation of switcher.Store takes effect in one step, on the state *)
(* of that step, with its events and its audit record.  The in-memory      *)
(* store does so under its mutex; PostgresStore is shown to do so with its *)
(* transactions.  Calls that are refused or replayed change nothing.       *)
(***************************************************************************)
EXTENDS TransferStore, TransferEvents

CONSTANTS ClaimTTL,      \* spiClaimTTL, 30s
          RetryDelay     \* time to retryAt after a failed submission, 1s

ASSUME TimingAssumption == ClaimTTL \in Nat \ {0} /\ RetryDelay \in Nat \ {0}

Insert(id, req, decision) ==
  LET tr == NewTransfer(req, decision) IN
  /\ ~InsertConflict(id, tr)
  /\ InsertTransfer(id, tr, CreateEvents(decision), CreateAudit)

(* A lease or a retry delay may have run for a while, or out, when it      *)
(* becomes visible: `left' is what remains of it then.                     *)
Claim(tenant, id, token, until, left) ==
  /\ ClaimSucceeds(tenant, id, until)
  /\ StoreClaim(id, token, left)

Record(tenant, id, token) ==
  /\ RecordSucceeds(tenant, id, token)
  /\ StoreRecord(id, SubmissionEvents, SubmissionAudit)

Release(tenant, id, token, left) ==
  /\ ReleaseSucceeds(tenant, id, token)
  /\ StoreRelease(id, left)

Review(tenant, id, status) ==
  /\ ReviewSucceeds(tenant, id, status)
  /\ StoreReview(id, status, ReviewEvents(status), ReviewAudit)

Settle(cb) ==
  /\ SettlementSucceeds(cb.tenant, cb.transfer, cb)
  /\ UpdateSettlement(cb.tenant, cb.transfer, cb,
                      SettlementEvents(SettlementOutcome(cb.status)), SettlementAudit)

Age ==
  /\ transfers' = [id \in TransferIDs |->
       [transfers[id] EXCEPT !.spiClaimedUntil = Elapse(@)]]
  /\ UNCHANGED <<idempotency, callbacks, outbox, audit>>

-----------------------------------------------------------------------------
InsertStep ==
  \E id \in TransferIDs, req \in Request, decision \in Decisions : Insert(id, req, decision)

SubmissionStep ==
  \E tenant \in Tenants, id \in TransferIDs, token \in Tokens :
    \/ \E until \in 1..ClaimTTL, left \in 0..ClaimTTL :
         left <= until /\ Claim(tenant, id, token, until, left)
    \/ Record(tenant, id, token)
    \/ \E left \in 0..RetryDelay : Release(tenant, id, token, left)

ReviewStep ==
  \E tenant \in Tenants, id \in TransferIDs, status \in {"accepted", "blocked"} :
    Review(tenant, id, status)

SettleStep == \E cb \in Callback : Settle(cb)

StoreNext == InsertStep \/ SubmissionStep \/ ReviewStep \/ SettleStep \/ Age

StoreSpec == StoreInit /\ [][StoreNext]_storeVars

-----------------------------------------------------------------------------
(* What the contract keeps true of the rows, the index, the callbacks and  *)
(* the outbox, whoever calls the store.                                    *)

(* The idempotency index and the rows describe each other: each row is the *)
(* one its tenant and key lead to, and each entry leads to such a row.     *)
IndexMatchesRows ==
  /\ \A id \in TransferIDs :
       Exists(id) =>
         FindByIdempotency(transfers[id].tenant, transfers[id].key) = id
  /\ \A tenant \in Tenants, key \in Keys :
       LET id == FindByIdempotency(tenant, key) IN
       id # None => /\ GetTransfer(tenant, id)
                    /\ transfers[id].key = key

(* Outbox histories of a transfer in each status: one path through the     *)
(* state machine, each transition's events once and in order.              *)
Then(histories, events) == {h \o events : h \in histories}

NoHistory == {<<>>}
ReviewHistory == Then(NoHistory, CreateEvents("review"))
BlockedHistory ==
  Then(NoHistory, CreateEvents("blocked"))
  \cup Then(ReviewHistory, ReviewEvents("blocked"))
AcceptedHistory ==
  Then(NoHistory, CreateEvents("accepted"))
  \cup Then(ReviewHistory, ReviewEvents("accepted"))
ApprovedHistory == Then(AcceptedHistory, SubmissionEvents)

HistoryOf(status) ==
  CASE status = "absent"   -> NoHistory
    [] status = "review"   -> ReviewHistory
    [] status = "blocked"  -> BlockedHistory
    [] status = "accepted" -> AcceptedHistory
    [] status = "approved" -> ApprovedHistory
    [] OTHER               -> Then(ApprovedHistory, SettlementEvents(status))

(* The outbox of every transfer is the event history its status calls for: *)
(* no transition is committed without its events, none is emitted twice by *)
(* a late, repeated or losing handler.                                     *)
OutboxMatchesStatus ==
  \A id \in TransferIDs : outbox[id] \in HistoryOf(transfers[id].status)

(* A claim or retry delay is left only on accepted transfers, so a release *)
(* (which never looks at the status) cannot touch a finished transfer.     *)
ClaimOnlyWhileAccepted ==
  \A id \in TransferIDs :
    transfers[id].spiClaimToken # None \/ transfers[id].spiClaimedUntil > 0
      => transfers[id].status = "accepted"

(* A transfer carries an SPI message id, its own, exactly when a           *)
(* submission was recorded for it.                                         *)
MessageMatchesStatus ==
  \A id \in TransferIDs :
    transfers[id].spiMessageID =
      IF transfers[id].status \in {"approved", "settled", "rejected"} THEN MessageOf(id) ELSE None

(* A stored callback is the one that settled its transfer.                 *)
CallbackFacts ==
  \A tenant \in Tenants, message \in MessageIDs :
    LET cb == callbacks[<<tenant, message>>] IN
    cb # None =>
      /\ cb.tenant = tenant /\ cb.spiMessageID = message
      /\ GetTransfer(tenant, cb.transfer)
      /\ transfers[cb.transfer].spiMessageID = message
      /\ transfers[cb.transfer].status = SettlementOutcome(cb.status)

(* A settled or rejected transfer has one stored callback, of its own      *)
(* tenant and message, whose status it took.                               *)
SettledByCallback ==
  \A id \in TransferIDs :
    transfers[id].status \in {"settled", "rejected"} =>
      LET cb == callbacks[<<transfers[id].tenant, transfers[id].spiMessageID>>] IN
      /\ cb # None
      /\ cb.transfer = id
      /\ transfers[id].status = SettlementOutcome(cb.status)

-----------------------------------------------------------------------------
Lifecycle ==
  INSTANCE TransferLifecycle WITH status <- [id \in TransferIDs |-> transfers[id].status]

(* Whatever the interleaving of calls, leases, retries and crashes, a      *)
(* transfer only makes the transitions of the documented state machine,    *)
(* each with its own events and audit record in the same step.             *)
ImplementsLifecycle == Lifecycle!Spec
=============================================================================

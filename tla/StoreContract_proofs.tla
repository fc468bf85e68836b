------------------------ MODULE StoreContract_proofs ------------------------
(***************************************************************************)
(* What every store that meets the contract keeps true, for any sets of    *)
(* tenants, keys, transfers and tokens, and what each of its steps does.   *)
(* Switch_proofs uses it for the memory store, PostgresStore_proofs for    *)
(* the transactions.                                                       *)
(***************************************************************************)
EXTENDS StoreContract, TLAPS

USE NoneAssumption, TimingAssumption

-----------------------------------------------------------------------------
(* Facts about the transfer aggregate and the store methods.               *)

(* A row that exists is a transfer with no empty key.                      *)
LEMMA RowTyped ==
  ASSUME StoreTypeOK, NEW id \in TransferIDs, Exists(id)
  PROVE  transfers[id] \in Transfer
  BY DEF StoreTypeOK, Exists, NoTransfer

(* Every transition of the aggregate yields a transfer.                    *)
LEMMA TransitionsTyped ==
  ASSUME NEW tr \in Transfer
  PROVE  /\ \A token \in Tokens, until \in Nat :
              ClaimSPISubmission(tr, token, until) \in Transfer
         /\ \A message \in MessageIDs : RecordSPISubmission(tr, message) \in Transfer
         /\ \A until \in Nat : ReleaseSPISubmission(tr, until) \in Transfer
         /\ \A status \in TransferStatus : RecordReviewDecision(tr, status) \in Transfer
         /\ \A callback : RecordSettlement(tr, callback) \in Transfer
<1>1. ASSUME NEW token \in Tokens, NEW until \in Nat
      PROVE  ClaimSPISubmission(tr, token, until) \in Transfer
  BY Zenon DEF ClaimSPISubmission, Transfer
<1>2. ASSUME NEW message \in MessageIDs PROVE RecordSPISubmission(tr, message) \in Transfer
  BY Zenon DEF RecordSPISubmission, Transfer, TransferStatus
<1>3. ASSUME NEW until \in Nat PROVE ReleaseSPISubmission(tr, until) \in Transfer
  BY Zenon DEF ReleaseSPISubmission, Transfer
<1>4. ASSUME NEW status \in TransferStatus PROVE RecordReviewDecision(tr, status) \in Transfer
  BY DEF RecordReviewDecision, Transfer
<1>5. ASSUME NEW callback PROVE RecordSettlement(tr, callback) \in Transfer
  BY DEF RecordSettlement, SettlementOutcome, Transfer, TransferStatus
<1> QED
  BY <1>1, <1>2, <1>3, <1>4, <1>5

(* What each transition sets, and what it leaves alone.                    *)
LEMMA ClaimFields ==
  ASSUME NEW tr \in Transfer, NEW token, NEW until
  PROVE  LET next == ClaimSPISubmission(tr, token, until) IN
         /\ next.tenant = tr.tenant /\ next.key = tr.key /\ next.hash = tr.hash
         /\ next.status = tr.status /\ next.spiMessageID = tr.spiMessageID
         /\ next.spiClaimToken = token /\ next.spiClaimedUntil = until
  BY DEF Transfer, ClaimSPISubmission

(* What RecordSPISubmission changes, field by field.                       *)
LEMMA RecordFields ==
  ASSUME NEW tr \in Transfer, NEW message
  PROVE  LET next == RecordSPISubmission(tr, message) IN
         /\ next.tenant = tr.tenant /\ next.key = tr.key /\ next.hash = tr.hash
         /\ next.status = "approved" /\ next.spiMessageID = message
         /\ next.spiClaimToken = None /\ next.spiClaimedUntil = 0
  BY DEF Transfer, RecordSPISubmission

(* What ReleaseSPISubmission changes, field by field.                      *)
LEMMA ReleaseFields ==
  ASSUME NEW tr \in Transfer, NEW retryAfter
  PROVE  LET next == ReleaseSPISubmission(tr, retryAfter) IN
         /\ next.tenant = tr.tenant /\ next.key = tr.key /\ next.hash = tr.hash
         /\ next.status = tr.status /\ next.spiMessageID = tr.spiMessageID
         /\ next.spiClaimToken = None /\ next.spiClaimedUntil = retryAfter
  BY DEF Transfer, ReleaseSPISubmission

(* What RecordReviewDecision changes, field by field.                      *)
LEMMA ReviewFields ==
  ASSUME NEW tr \in Transfer, NEW status
  PROVE  LET next == RecordReviewDecision(tr, status) IN
         /\ next.tenant = tr.tenant /\ next.key = tr.key /\ next.hash = tr.hash
         /\ next.status = status /\ next.spiMessageID = tr.spiMessageID
         /\ next.spiClaimToken = tr.spiClaimToken
         /\ next.spiClaimedUntil = tr.spiClaimedUntil
  BY DEF Transfer, RecordReviewDecision

(* What RecordSettlement changes, field by field.                          *)
LEMMA SettlementFields ==
  ASSUME NEW tr \in Transfer, NEW callback
  PROVE  LET next == RecordSettlement(tr, callback) IN
         /\ next.tenant = tr.tenant /\ next.key = tr.key /\ next.hash = tr.hash
         /\ next.status = SettlementOutcome(callback.status)
         /\ next.spiMessageID = tr.spiMessageID
         /\ next.spiClaimToken = tr.spiClaimToken
         /\ next.spiClaimedUntil = tr.spiClaimedUntil
  BY DEF Transfer, RecordSettlement

(* A write replaces one row and appends to that row's records only.        *)
LEMMA WriteEffect ==
  ASSUME StoreTypeOK, NEW id \in TransferIDs, NEW tr \in Transfer,
         NEW events, NEW actions, Write(id, tr, events, actions)
  PROVE  /\ transfers' \in [TransferIDs -> Transfer \cup {NoTransfer}]
         /\ DOMAIN outbox' = TransferIDs
         /\ DOMAIN audit' = TransferIDs
         /\ transfers'[id] = tr
         /\ outbox'[id] = outbox[id] \o events
         /\ audit'[id] = audit[id] \o actions
         /\ \A o \in TransferIDs \ {id} :
              /\ transfers'[o] = transfers[o]
              /\ outbox'[o] = outbox[o]
              /\ audit'[o] = audit[o]
  BY DEF StoreTypeOK, Write

(* Claim and release rewrite one row and nothing else.                     *)
LEMMA WriteClaimEffect ==
  ASSUME StoreTypeOK, NEW id \in TransferIDs, NEW tr \in Transfer, WriteClaim(id, tr)
  PROVE  /\ StoreTypeOK'
         /\ transfers'[id] = tr
         /\ \A o \in TransferIDs \ {id} : transfers'[o] = transfers[o]
  BY DEF StoreTypeOK, WriteClaim

(* Updating a map whose keys are pairs.                                    *)
LEMMA PairUpdate ==
  ASSUME NEW A, NEW B, NEW R, NEW f \in [A \X B -> R], NEW a \in A, NEW b \in B, NEW v
  PROVE  \A x \in A, y \in B :
           [f EXCEPT ![<<a, b>>] = v][<<x, y>>] = IF x = a /\ y = b THEN v ELSE f[<<x, y>>]
  OBVIOUS

(* Distinct transfers have distinct SPI message ids.                       *)
LEMMA MessageInjective ==
  ASSUME NEW id1 \in TransferIDs, NEW id2 \in TransferIDs,
         MessageOf(id1) = MessageOf(id2)
  PROVE  id1 = id2
  BY DEF MessageOf

(* A derived message id is a message id and is not empty.                  *)
LEMMA MessageTyped ==
  ASSUME NEW id \in TransferIDs
  PROVE  MessageOf(id) \in MessageIDs /\ MessageOf(id) # None
  BY NoneAssumption DEF MessageIDs

(* The row CreateTransfer builds: the request, the decision, and no        *)
(* message and no claim.                                                   *)
LEMMA NewTransferTyped ==
  ASSUME NEW req \in Request, NEW decision \in Decisions
  PROVE  LET tr == NewTransfer(req, decision) IN
         /\ tr \in Transfer
         /\ tr.tenant = req.tenant /\ tr.tenant \in Tenants
         /\ tr.key = req.key /\ tr.key \in Keys
         /\ tr.hash = req.hash /\ tr.status = decision
         /\ tr.spiMessageID = None /\ tr.spiClaimToken = None
         /\ tr.spiClaimedUntil = 0
  BY Zenon DEF NewTransfer, NoTransfer, Transfer, Request, Decisions, TransferStatus

(* Time left never goes below zero.                                        *)
LEMMA ElapseTyped ==
  /\ Elapse(0) = 0
  /\ \A left \in Nat : Elapse(left) \in Nat
  /\ \A left \in 0..ClaimTTL : Elapse(left) \in 0..ClaimTTL
  BY DEF Elapse

-----------------------------------------------------------------------------
(* The three steps of a submission, with what is left of their leases.     *)
Submits(tenant, id, token) ==
  \/ \E until, left \in Nat : Claim(tenant, id, token, until, left)
  \/ Record(tenant, id, token)
  \/ \E left \in Nat : Release(tenant, id, token, left)

(* A submission step claims, records or releases, with times left.         *)
LEMMA Submissions ==
  ASSUME SubmissionStep
  PROVE  \E tenant \in Tenants, id \in TransferIDs, token \in Tokens : Submits(tenant, id, token)
<1>1. PICK tenant \in Tenants, id \in TransferIDs, token \in Tokens :
        \/ \E until \in 1..ClaimTTL, left \in 0..ClaimTTL :
             left <= until /\ Claim(tenant, id, token, until, left)
        \/ Record(tenant, id, token)
        \/ \E left \in 0..RetryDelay : Release(tenant, id, token, left)
  BY Zenon DEF SubmissionStep
<1>2. 1..ClaimTTL \subseteq Nat /\ 0..ClaimTTL \subseteq Nat /\ 0..RetryDelay \subseteq Nat
  OBVIOUS
<1>3. Submits(tenant, id, token)
  BY <1>1, <1>2, Zenon DEF Submits
<1> QED
  BY <1>3, Zenon

-----------------------------------------------------------------------------
(* What each store step does, field by field.                              *)
SameIdentity(id) ==
  /\ transfers'[id].tenant = transfers[id].tenant
  /\ transfers'[id].key = transfers[id].key
  /\ transfers'[id].hash = transfers[id].hash

OthersSame(id) ==
  \A o \in TransferIDs \ {id} :
    /\ transfers'[o] = transfers[o]
    /\ outbox'[o] = outbox[o]
    /\ audit'[o] = audit[o]

(* An insert that is not refused: the id and the key were free, and the    *)
(* row and its index entry appear with their events and audit record.      *)
LEMMA InsertEffect ==
  ASSUME StoreTypeOK, NEW id \in TransferIDs, NEW req \in Request, NEW d \in Decisions,
         Insert(id, req, d)
  PROVE  /\ transfers[id].status = "absent"
         /\ FindByIdempotency(req.tenant, req.key) \in {None, id}
         /\ transfers'[id].tenant = req.tenant /\ transfers'[id].key = req.key
         /\ transfers'[id].hash = req.hash /\ transfers'[id].status = d
         /\ transfers'[id].spiMessageID = None
         /\ transfers'[id].spiClaimToken = None /\ transfers'[id].spiClaimedUntil = 0
         /\ outbox'[id] = outbox[id] \o CreateEvents(d)
         /\ audit'[id] = audit[id] \o CreateAudit
         /\ idempotency' = [idempotency EXCEPT ![<<req.tenant, req.key>>] = id]
         /\ OthersSame(id) /\ UNCHANGED callbacks
<1> DEFINE tr == NewTransfer(req, d)
<1>1. /\ tr \in Transfer
      /\ tr.tenant = req.tenant /\ tr.key = req.key /\ tr.hash = req.hash
      /\ tr.status = d /\ tr.spiMessageID = None
      /\ tr.spiClaimToken = None /\ tr.spiClaimedUntil = 0
  BY NewTransferTyped
<1> HIDE DEF tr
<1>2. /\ ~InsertConflict(id, tr)
      /\ Write(id, tr, CreateEvents(d), CreateAudit)
      /\ idempotency' = [idempotency EXCEPT ![<<tr.tenant, tr.key>>] = id]
      /\ UNCHANGED callbacks
  BY DEF Insert, InsertTransfer, tr
<1>3. /\ transfers'[id] = tr
      /\ outbox'[id] = outbox[id] \o CreateEvents(d)
      /\ audit'[id] = audit[id] \o CreateAudit
      /\ OthersSame(id)
  BY <1>1, <1>2, WriteEffect DEF OthersSame
<1> QED
  BY <1>1, <1>2, <1>3 DEF InsertConflict, Exists

(* A claim that succeeds: the row was accepted with no lease, and it now   *)
(* carries the token and the expiry.                                       *)
LEMMA ClaimEffect ==
  ASSUME StoreTypeOK, NEW id \in TransferIDs, NEW tenant, NEW token \in Tokens,
         NEW until \in Nat, NEW left \in Nat, Claim(tenant, id, token, until, left)
  PROVE  /\ GetTransfer(tenant, id) /\ until > 0
         /\ transfers[id].status = "accepted" /\ transfers[id].spiClaimedUntil = 0
         /\ SameIdentity(id) /\ OthersSame(id)
         /\ transfers'[id].status = "accepted"
         /\ transfers'[id].spiMessageID = transfers[id].spiMessageID
         /\ transfers'[id].spiClaimToken = token /\ transfers'[id].spiClaimedUntil = left
         /\ UNCHANGED <<idempotency, callbacks, outbox, audit>>
<1>1. GetTransfer(tenant, id) /\ CanClaimSPISubmission(transfers[id], until)
  BY DEF Claim, ClaimSucceeds
<1>2. transfers[id] \in Transfer
  BY <1>1, RowTyped DEF GetTransfer
<1>3. WriteClaim(id, ClaimSPISubmission(transfers[id], token, left))
  BY DEF Claim, StoreClaim
<1>4. /\ transfers'[id] = ClaimSPISubmission(transfers[id], token, left)
      /\ \A o \in TransferIDs \ {id} : transfers'[o] = transfers[o]
  BY <1>2, <1>3, TransitionsTyped, WriteClaimEffect
<1>5. UNCHANGED <<idempotency, callbacks, outbox, audit>>
  BY <1>3 DEF WriteClaim
<1> QED
  BY <1>1, <1>2, <1>4, <1>5, ClaimFields
     DEF CanClaimSPISubmission, SameIdentity, OthersSame

(* A recorded submission: the row was accepted under this token, and it    *)
(* becomes approved with its message and without a claim.                  *)
LEMMA RecordEffect ==
  ASSUME StoreTypeOK, NEW id \in TransferIDs, NEW tenant, NEW token, Record(tenant, id, token)
  PROVE  /\ GetTransfer(tenant, id)
         /\ transfers[id].status = "accepted" /\ transfers[id].spiClaimToken = token
         /\ SameIdentity(id) /\ OthersSame(id)
         /\ transfers'[id].status = "approved"
         /\ transfers'[id].spiMessageID = MessageOf(id)
         /\ transfers'[id].spiClaimToken = None /\ transfers'[id].spiClaimedUntil = 0
         /\ outbox'[id] = outbox[id] \o SubmissionEvents
         /\ audit'[id] = audit[id] \o SubmissionAudit
         /\ UNCHANGED <<idempotency, callbacks>>
<1>1. GetTransfer(tenant, id) /\ CanRecordSPISubmission(transfers[id], token)
  BY DEF Record, RecordSucceeds
<1>2. transfers[id] \in Transfer /\ MessageOf(id) \in MessageIDs
  BY <1>1, RowTyped, MessageTyped DEF GetTransfer
<1>3. /\ Write(id, RecordSPISubmission(transfers[id], MessageOf(id)),
               SubmissionEvents, SubmissionAudit)
      /\ UNCHANGED <<idempotency, callbacks>>
  BY DEF Record, StoreRecord
<1>4. /\ transfers'[id] = RecordSPISubmission(transfers[id], MessageOf(id))
      /\ outbox'[id] = outbox[id] \o SubmissionEvents
      /\ audit'[id] = audit[id] \o SubmissionAudit
      /\ OthersSame(id)
  <2>1. RecordSPISubmission(transfers[id], MessageOf(id)) \in Transfer
    BY <1>2, TransitionsTyped, Zenon
  <2> QED
    BY <1>3, <2>1, WriteEffect, ZenonT(60) DEF OthersSame
<1> QED
  BY <1>1, <1>2, <1>3, <1>4, RecordFields DEF CanRecordSPISubmission, SameIdentity

(* A released claim: the row carried this token, and it keeps its status   *)
(* with only the retry delay left.                                         *)
LEMMA ReleaseEffect ==
  ASSUME StoreTypeOK, NEW id \in TransferIDs, NEW tenant, NEW token, NEW left \in Nat,
         Release(tenant, id, token, left)
  PROVE  /\ GetTransfer(tenant, id)
         /\ transfers[id].spiClaimToken # None /\ transfers[id].spiClaimToken = token
         /\ SameIdentity(id) /\ OthersSame(id)
         /\ transfers'[id].status = transfers[id].status
         /\ transfers'[id].spiMessageID = transfers[id].spiMessageID
         /\ transfers'[id].spiClaimToken = None
         /\ transfers'[id].spiClaimedUntil = left
         /\ UNCHANGED <<idempotency, callbacks, outbox, audit>>
<1>1. GetTransfer(tenant, id) /\ CanReleaseSPISubmission(transfers[id], token)
  BY DEF Release, ReleaseSucceeds
<1>2. transfers[id] \in Transfer
  BY <1>1, RowTyped DEF GetTransfer
<1>3. WriteClaim(id, ReleaseSPISubmission(transfers[id], left))
  BY DEF Release, StoreRelease
<1>4. /\ transfers'[id] = ReleaseSPISubmission(transfers[id], left)
      /\ \A o \in TransferIDs \ {id} : transfers'[o] = transfers[o]
  BY <1>2, <1>3, TransitionsTyped, WriteClaimEffect
<1>5. UNCHANGED <<idempotency, callbacks, outbox, audit>>
  BY <1>3 DEF WriteClaim
<1> QED
  BY <1>1, <1>2, <1>4, <1>5, ReleaseFields
     DEF CanReleaseSPISubmission, SameIdentity, OthersSame

(* Claiming, recording and releasing change a row that exists and keep its *)
(* identity, the index and the callbacks.                                  *)
LEMMA SubmitEffect ==
  ASSUME StoreTypeOK, NEW id \in TransferIDs, NEW tenant \in Tenants, NEW token \in Tokens,
         Submits(tenant, id, token)
  PROVE  /\ transfers[id].status # "absent" /\ transfers'[id].status # "absent"
         /\ SameIdentity(id) /\ OthersSame(id)
         /\ UNCHANGED <<idempotency, callbacks>>
<1>1. ASSUME NEW until \in Nat, NEW left \in Nat, Claim(tenant, id, token, until, left)
      PROVE  /\ transfers[id].status # "absent" /\ transfers'[id].status # "absent"
             /\ SameIdentity(id) /\ OthersSame(id)
             /\ UNCHANGED <<idempotency, callbacks>>
  BY <1>1, ClaimEffect
<1>2. ASSUME Record(tenant, id, token)
      PROVE  /\ transfers[id].status # "absent" /\ transfers'[id].status # "absent"
             /\ SameIdentity(id) /\ OthersSame(id)
             /\ UNCHANGED <<idempotency, callbacks>>
  BY <1>2, RecordEffect
<1>3. ASSUME NEW left \in Nat, Release(tenant, id, token, left)
      PROVE  /\ transfers[id].status # "absent" /\ transfers'[id].status # "absent"
             /\ SameIdentity(id) /\ OthersSame(id)
             /\ UNCHANGED <<idempotency, callbacks>>
  BY <1>3, ReleaseEffect DEF GetTransfer, Exists
<1> QED
  BY <1>1, <1>2, <1>3 DEF Submits

(* A recorded review: the row was under review and takes the reviewed      *)
(* status, with its events and audit record.                               *)
LEMMA ReviewEffect ==
  ASSUME StoreTypeOK, NEW id \in TransferIDs, NEW tenant,
         NEW next \in {"accepted", "blocked"}, Review(tenant, id, next)
  PROVE  /\ transfers[id].status = "review"
         /\ SameIdentity(id) /\ OthersSame(id)
         /\ transfers'[id].status = next
         /\ transfers'[id].spiMessageID = transfers[id].spiMessageID
         /\ transfers'[id].spiClaimToken = transfers[id].spiClaimToken
         /\ transfers'[id].spiClaimedUntil = transfers[id].spiClaimedUntil
         /\ outbox'[id] = outbox[id] \o ReviewEvents(next)
         /\ audit'[id] = audit[id] \o ReviewAudit
         /\ UNCHANGED <<idempotency, callbacks>>
<1>1. GetTransfer(tenant, id) /\ CanRecordReviewDecision(transfers[id], next)
  BY DEF Review, ReviewSucceeds
<1>2. transfers[id] \in Transfer /\ next \in TransferStatus
  BY <1>1, RowTyped DEF GetTransfer, TransferStatus
<1>3. /\ Write(id, RecordReviewDecision(transfers[id], next), ReviewEvents(next), ReviewAudit)
      /\ UNCHANGED <<idempotency, callbacks>>
  BY DEF Review, StoreReview
<1>4. /\ transfers'[id] = RecordReviewDecision(transfers[id], next)
      /\ outbox'[id] = outbox[id] \o ReviewEvents(next)
      /\ audit'[id] = audit[id] \o ReviewAudit
      /\ OthersSame(id)
  BY <1>2, <1>3, TransitionsTyped, WriteEffect, SMTT(30) DEF OthersSame
<1> QED
  BY <1>1, <1>2, <1>3, <1>4, ReviewFields DEF CanRecordReviewDecision, SameIdentity

(* A settlement that takes effect: the row was approved with this message  *)
(* and no callback was stored; now the outcome and the callback are.       *)
LEMMA SettleEffect ==
  ASSUME StoreTypeOK, NEW cb \in Callback, Settle(cb)
  PROVE  LET id == cb.transfer
             outcome == SettlementOutcome(cb.status) IN
         /\ id \in TransferIDs /\ GetTransfer(cb.tenant, id)
         /\ transfers[id].status = "approved" /\ transfers[id].spiMessageID = cb.spiMessageID
         /\ outcome \in {"settled", "rejected"}
         /\ callbacks[<<cb.tenant, cb.spiMessageID>>] = None
         /\ SameIdentity(id) /\ OthersSame(id)
         /\ transfers'[id].status = outcome
         /\ transfers'[id].spiMessageID = transfers[id].spiMessageID
         /\ transfers'[id].spiClaimToken = transfers[id].spiClaimToken
         /\ transfers'[id].spiClaimedUntil = transfers[id].spiClaimedUntil
         /\ outbox'[id] = outbox[id] \o SettlementEvents(outcome)
         /\ audit'[id] = audit[id] \o SettlementAudit
         /\ callbacks' = [callbacks EXCEPT ![<<cb.tenant, cb.spiMessageID>>] = cb]
         /\ UNCHANGED idempotency
<1> DEFINE id == cb.transfer
           outcome == SettlementOutcome(cb.status)
<1>1. /\ GetTransfer(cb.tenant, id) /\ CanRecordSettlement(transfers[id], cb)
      /\ callbacks[<<cb.tenant, cb.spiMessageID>>] = None
  BY DEF Settle, SettlementSucceeds
<1>2. id \in TransferIDs /\ transfers[id] \in Transfer
  BY <1>1, RowTyped DEF GetTransfer, Callback
<1>3. /\ Write(id, RecordSettlement(transfers[id], cb), SettlementEvents(outcome), SettlementAudit)
      /\ callbacks' = [callbacks EXCEPT ![<<cb.tenant, cb.spiMessageID>>] = cb]
      /\ UNCHANGED idempotency
  BY DEF Settle, UpdateSettlement
<1>4. outcome \in {"settled", "rejected"} /\ RecordSettlement(transfers[id], cb) \in Transfer
  BY <1>2, TransitionsTyped DEF SettlementOutcome
<1> HIDE DEF id, outcome
<1>5. /\ transfers'[id] = RecordSettlement(transfers[id], cb)
      /\ outbox'[id] = outbox[id] \o SettlementEvents(outcome)
      /\ audit'[id] = audit[id] \o SettlementAudit
      /\ OthersSame(id)
  BY <1>2, <1>3, <1>4, WriteEffect DEF OthersSame
<1>6. /\ SameIdentity(id)
      /\ transfers'[id].status = outcome
      /\ transfers'[id].spiMessageID = transfers[id].spiMessageID
      /\ transfers'[id].spiClaimToken = transfers[id].spiClaimToken
      /\ transfers'[id].spiClaimedUntil = transfers[id].spiClaimedUntil
  BY <1>2, <1>5, SettlementFields DEF SameIdentity, outcome
<1> QED
  BY <1>1, <1>2, <1>3, <1>4, <1>5, <1>6 DEF CanRecordSettlement, id, outcome

(* Time only shortens the leases.                                          *)
LEMMA AgeEffect ==
  ASSUME StoreTypeOK, Age, NEW id \in TransferIDs
  PROVE  /\ SameIdentity(id)
         /\ transfers'[id].status = transfers[id].status
         /\ transfers'[id].spiMessageID = transfers[id].spiMessageID
         /\ transfers'[id].spiClaimToken = transfers[id].spiClaimToken
         /\ transfers'[id].spiClaimedUntil = Elapse(transfers[id].spiClaimedUntil)
         /\ UNCHANGED <<idempotency, callbacks, outbox, audit>>
  BY DEF Age, StoreTypeOK, Transfer, NoTransfer, SameIdentity

-----------------------------------------------------------------------------
(* No step leaves the types.                                               *)
LEMMA StoreTypeKept ==
  ASSUME StoreTypeOK, [StoreNext]_storeVars
  PROVE  StoreTypeOK'
<1>1. ASSUME NEW id \in TransferIDs, NEW req \in Request, NEW d \in Decisions, Insert(id, req, d)
      PROVE  StoreTypeOK'
  <2> DEFINE tr == NewTransfer(req, d)
  <2>1. tr \in Transfer /\ tr.tenant \in Tenants /\ tr.key \in Keys
    BY NewTransferTyped
  <2>2. InsertTransfer(id, tr, CreateEvents(d), CreateAudit)
    BY <1>1 DEF Insert
  <2> HIDE DEF tr
  <2> QED
    BY <2>1, <2>2, WriteEffect DEF StoreTypeOK, InsertTransfer
<1>2. ASSUME NEW id \in TransferIDs, NEW tenant \in Tenants, NEW token \in Tokens,
             Submits(tenant, id, token)
      PROVE  StoreTypeOK'
  <2>1. Exists(id) /\ transfers[id] \in Transfer
    BY <1>2, RowTyped, Zenon DEF Submits, Claim, ClaimSucceeds, Record, RecordSucceeds,
       Release, ReleaseSucceeds, GetTransfer
  <2>2. ASSUME NEW until \in Nat, NEW left \in Nat, Claim(tenant, id, token, until, left)
        PROVE  StoreTypeOK'
    BY <2>1, <2>2, TransitionsTyped, WriteClaimEffect, Zenon DEF Claim, StoreClaim
  <2>3. ASSUME Record(tenant, id, token) PROVE StoreTypeOK'
    <3>1. RecordSPISubmission(transfers[id], MessageOf(id)) \in Transfer
      BY <2>1, MessageTyped, TransitionsTyped
    <3> QED
      BY <2>3, <3>1, WriteEffect DEF Record, StoreRecord, StoreTypeOK
  <2>4. ASSUME NEW left \in Nat, Release(tenant, id, token, left) PROVE StoreTypeOK'
    BY <2>1, <2>4, TransitionsTyped, WriteClaimEffect, Zenon DEF Release, StoreRelease
  <2> QED
    BY <1>2, <2>2, <2>3, <2>4, Zenon DEF Submits
<1>3. ASSUME NEW tenant \in Tenants, NEW id \in TransferIDs,
             NEW status \in {"accepted", "blocked"}, Review(tenant, id, status)
      PROVE  StoreTypeOK'
  <2>1. RecordReviewDecision(transfers[id], status) \in Transfer
    BY <1>3, RowTyped, TransitionsTyped DEF Review, ReviewSucceeds, GetTransfer, TransferStatus
  <2> QED
    BY <1>3, <2>1, WriteEffect DEF Review, StoreReview, StoreTypeOK
<1>4. ASSUME NEW cb \in Callback, Settle(cb) PROVE StoreTypeOK'
  <2>1. cb.transfer \in TransferIDs
    BY DEF Callback
  <2>2. RecordSettlement(transfers[cb.transfer], cb) \in Transfer
    BY <1>4, <2>1, RowTyped, TransitionsTyped DEF Settle, SettlementSucceeds, GetTransfer
  <2>3. UpdateSettlement(cb.tenant, cb.transfer, cb,
          SettlementEvents(SettlementOutcome(cb.status)), SettlementAudit)
    BY <1>4 DEF Settle
  <2> QED
    BY <2>1, <2>2, <2>3, WriteEffect, Zenon DEF UpdateSettlement, StoreTypeOK
<1>5. CASE Age
  <2>1. \A id \in TransferIDs :
          [transfers[id] EXCEPT !.spiClaimedUntil = Elapse(@)] \in Transfer \cup {NoTransfer}
    BY ElapseTyped DEF StoreTypeOK, Transfer, NoTransfer
  <2> QED
    BY <1>5, <2>1 DEF Age, StoreTypeOK
<1>6. CASE UNCHANGED storeVars
  BY <1>6 DEF storeVars, StoreTypeOK
<1> QED
  BY <1>1, <1>2, <1>3, <1>4, <1>5, <1>6, Submissions
     DEF StoreNext, InsertStep, ReviewStep, SettleStep

(* Every state a store meeting the contract reaches is well typed: no row, *)
(* index entry or callback is ever half written.                           *)
THEOREM StoreTyped == StoreSpec => []StoreTypeOK
<1>1. StoreInit => StoreTypeOK
  BY SMTT(30) DEF StoreInit, StoreTypeOK, Transfer, NoTransfer
<1>2. StoreTypeOK /\ [StoreNext]_storeVars => StoreTypeOK'
  BY StoreTypeKept, Zenon
<1> QED
  BY <1>1, <1>2, PTL DEF StoreSpec

-----------------------------------------------------------------------------
(* The idempotency index and the rows describe each other, however many    *)
(* first requests race between FindByIdempotency and InsertTransfer.       *)
THEOREM IndexPromised == StoreSpec => []IndexMatchesRows
<1>1. StoreInit => IndexMatchesRows
  BY SMTT(30) DEF StoreInit, IndexMatchesRows, Exists, FindByIdempotency, NoTransfer
<1>2. StoreTypeOK /\ IndexMatchesRows /\ [StoreNext]_storeVars => IndexMatchesRows'
  <2> SUFFICES ASSUME StoreTypeOK, IndexMatchesRows, [StoreNext]_storeVars
               PROVE  IndexMatchesRows'
    BY SMTT(30)
  <2> USE DEF IndexMatchesRows, FindByIdempotency, GetTransfer, Exists
  <2>1. ASSUME NEW id \in TransferIDs, NEW req \in Request, NEW d \in Decisions,
               Insert(id, req, d)
        PROVE  IndexMatchesRows'
    <3>1. /\ d # "absent"
          /\ req.tenant \in Tenants /\ req.key \in Keys
          /\ transfers[id].status = "absent"
          /\ idempotency[<<req.tenant, req.key>>] \in {None, id}
          /\ transfers'[id].tenant = req.tenant /\ transfers'[id].key = req.key
          /\ transfers'[id].status = d
          /\ \A o \in TransferIDs \ {id} : transfers'[o] = transfers[o]
      BY <2>1, InsertEffect, SMTT(60) DEF Decisions, Request, OthersSame
    <3>2. idempotency[<<req.tenant, req.key>>] = None
      BY <3>1
    <3>3. \A x \in Tenants, y \in Keys :
            idempotency'[<<x, y>>] =
              IF x = req.tenant /\ y = req.key THEN id ELSE idempotency[<<x, y>>]
      <4>1. idempotency' = [idempotency EXCEPT ![<<req.tenant, req.key>>] = id]
        BY <2>1, InsertEffect
      <4>2. idempotency \in [Tenants \X Keys -> TransferIDs \cup {None}]
        BY DEF StoreTypeOK
      <4> QED
        BY <3>1, <4>1, <4>2, PairUpdate
    <3>4. ASSUME NEW t \in TransferIDs, transfers'[t].status # "absent"
          PROVE  idempotency'[<<transfers'[t].tenant, transfers'[t].key>>] = t
      <4>1. CASE t = id
        BY <3>1, <3>3, <4>1
      <4>2. CASE t # id
        <5>1. transfers[t].tenant \in Tenants /\ transfers[t].key \in Keys
          BY <3>1, <3>4, <4>2, RowTyped DEF Transfer
        <5> QED
          BY <3>1, <3>2, <3>3, <3>4, <4>2, <5>1
      <4> QED
        BY <4>1, <4>2
    <3>5. ASSUME NEW tenant \in Tenants, NEW key \in Keys, idempotency'[<<tenant, key>>] # None
          PROVE  LET t == idempotency'[<<tenant, key>>] IN
                 transfers'[t].status # "absent" /\ transfers'[t].tenant = tenant
                 /\ transfers'[t].key = key
      <4>1. CASE tenant = req.tenant /\ key = req.key
        BY <3>1, <3>3, <4>1
      <4>2. CASE ~(tenant = req.tenant /\ key = req.key)
        <5>1. /\ idempotency'[<<tenant, key>>] = idempotency[<<tenant, key>>]
              /\ idempotency[<<tenant, key>>] \in TransferIDs
          BY <3>3, <3>5, <4>2 DEF StoreTypeOK
        <5> QED
          BY <3>1, <3>5, <5>1
      <4> QED
        BY <4>1, <4>2
    <3> QED
      BY <3>4, <3>5, SMTT(30)
  <2>2. ASSUME NEW id \in TransferIDs, SameIdentity(id), OthersSame(id),
               transfers[id].status # "absent", transfers'[id].status # "absent",
               UNCHANGED idempotency
        PROVE  IndexMatchesRows'
    <3>1. \A t \in TransferIDs : /\ transfers'[t].tenant = transfers[t].tenant
                                 /\ transfers'[t].key = transfers[t].key
                                 /\ transfers'[t].status # "absent" <=> transfers[t].status # "absent"
      BY <2>2 DEF SameIdentity, OthersSame
    <3>2. \A tenant \in Tenants, key \in Keys :
            idempotency[<<tenant, key>>] \in TransferIDs \cup {None}
      BY ZenonT(60) DEF StoreTypeOK
    <3> QED
      BY <2>2, <3>1, <3>2
  <2>3. ASSUME Age PROVE IndexMatchesRows'
    <3>1. \A t \in TransferIDs : /\ transfers'[t].tenant = transfers[t].tenant
                                 /\ transfers'[t].key = transfers[t].key
                                 /\ transfers'[t].status = transfers[t].status
      BY <2>3, AgeEffect DEF SameIdentity
    <3>2. \A tenant \in Tenants, key \in Keys :
            idempotency[<<tenant, key>>] \in TransferIDs \cup {None}
      BY ZenonT(60) DEF StoreTypeOK
    <3>3. UNCHANGED idempotency
      BY <2>3 DEF Age
    <3> QED
      BY <3>1, <3>2, <3>3
  <2>4. ASSUME NEW id \in TransferIDs, NEW tenant \in Tenants, NEW token \in Tokens,
               Submits(tenant, id, token)
        PROVE  IndexMatchesRows'
    BY <2>2, <2>4, SubmitEffect, SMTT(30)
  <2>5. ASSUME NEW id \in TransferIDs, NEW tenant \in Tenants,
               NEW next \in {"accepted", "blocked"}, Review(tenant, id, next)
        PROVE  IndexMatchesRows'
    BY <2>2, <2>5, ReviewEffect
  <2>6. ASSUME NEW cb \in Callback, Settle(cb) PROVE IndexMatchesRows'
    BY <2>2, <2>6, SettleEffect, Zenon
  <2>7. CASE UNCHANGED storeVars
    BY <2>7 DEF storeVars
  <2> QED
    BY <2>1, <2>3, <2>4, <2>5, <2>6, <2>7, Submissions, SMTT(60)
       DEF StoreNext, InsertStep, ReviewStep, SettleStep
<1> QED
  BY <1>1, <1>2, StoreTyped, PTL DEF StoreSpec

-----------------------------------------------------------------------------
(* One committed transition, as history: what the transfer had before and  *)
(* what the use case appends give a history of its new status.             *)
LEMMA HistoryGrows ==
  ASSUME NEW h
  PROVE  /\ \A d \in Decisions :
              h \in HistoryOf("absent") => h \o CreateEvents(d) \in HistoryOf(d)
         /\ \A next \in {"accepted", "blocked"} :
              h \in HistoryOf("review") => h \o ReviewEvents(next) \in HistoryOf(next)
         /\ h \in HistoryOf("accepted") => h \o SubmissionEvents \in HistoryOf("approved")
         /\ \A outcome \in {"settled", "rejected"} :
              h \in HistoryOf("approved") => h \o SettlementEvents(outcome) \in HistoryOf(outcome)
<1> USE DEF HistoryOf, Then
<1>1. ASSUME NEW d \in Decisions, h \in HistoryOf("absent")
      PROVE  h \o CreateEvents(d) \in HistoryOf(d)
  BY <1>1, Zenon DEF Decisions, ReviewHistory, BlockedHistory, AcceptedHistory
<1>2. ASSUME NEW next \in {"accepted", "blocked"}, h \in HistoryOf("review")
      PROVE  h \o ReviewEvents(next) \in HistoryOf(next)
  BY <1>2, Zenon DEF BlockedHistory, AcceptedHistory
<1>3. ASSUME h \in HistoryOf("accepted")
      PROVE  h \o SubmissionEvents \in HistoryOf("approved")
  BY <1>3 DEF ApprovedHistory
<1>4. ASSUME NEW outcome \in {"settled", "rejected"}, h \in HistoryOf("approved")
      PROVE  h \o SettlementEvents(outcome) \in HistoryOf(outcome)
  BY <1>4
<1> QED
  BY <1>1, <1>2, <1>3, <1>4, Zenon

(* The outbox of every transfer is always a history of its status: no      *)
(* commit without its events, no event twice, whatever the interleaving.   *)
THEOREM OutboxPromised == StoreSpec => []OutboxMatchesStatus
<1>1. StoreInit => OutboxMatchesStatus
  BY DEF StoreInit, OutboxMatchesStatus, NoTransfer, HistoryOf, NoHistory
<1>2. StoreTypeOK /\ OutboxMatchesStatus /\ [StoreNext]_storeVars => OutboxMatchesStatus'
  <2> SUFFICES ASSUME StoreTypeOK, OutboxMatchesStatus, [StoreNext]_storeVars
               PROVE  OutboxMatchesStatus'
    OBVIOUS
  <2>1. ASSUME NEW id \in TransferIDs, OthersSame(id),
               outbox'[id] \in HistoryOf(transfers'[id].status)
        PROVE  OutboxMatchesStatus'
    BY <2>1 DEF OutboxMatchesStatus, OthersSame
  <2>2. \A id \in TransferIDs : outbox[id] \in HistoryOf(transfers[id].status)
    BY DEF OutboxMatchesStatus
  <2>3. ASSUME NEW id \in TransferIDs, NEW req \in Request, NEW d \in Decisions,
               Insert(id, req, d)
        PROVE  OutboxMatchesStatus'
    <3>1. /\ OthersSame(id) /\ transfers[id].status = "absent"
          /\ transfers'[id].status = d
          /\ outbox'[id] = outbox[id] \o CreateEvents(d)
      BY <2>3, InsertEffect, Zenon
    <3>2. outbox[id] \o CreateEvents(d) \in HistoryOf(d)
      BY <2>2, <3>1, HistoryGrows
    <3> QED
      BY <2>1, <3>1, <3>2, Zenon
  <2>4. ASSUME NEW id \in TransferIDs, NEW tenant \in Tenants, NEW token \in Tokens,
               Record(tenant, id, token)
        PROVE  OutboxMatchesStatus'
    <3>1. /\ OthersSame(id) /\ transfers[id].status = "accepted"
          /\ transfers'[id].status = "approved"
          /\ outbox'[id] = outbox[id] \o SubmissionEvents
      BY <2>4, RecordEffect
    <3>2. outbox[id] \o SubmissionEvents \in HistoryOf("approved")
      BY <2>2, <3>1, HistoryGrows
    <3> QED
      BY <2>1, <3>1, <3>2, ZenonT(60)
  <2>5. ASSUME NEW id \in TransferIDs, NEW tenant \in Tenants, NEW token \in Tokens,
               \/ \E until, left \in Nat : Claim(tenant, id, token, until, left)
               \/ \E left \in Nat : Release(tenant, id, token, left)
        PROVE  OutboxMatchesStatus'
    <3>1. /\ OthersSame(id) /\ UNCHANGED outbox
          /\ transfers'[id].status = transfers[id].status
      BY <2>5, ClaimEffect, ReleaseEffect
    <3> QED
      BY <2>1, <2>2, <3>1, SMTT(30)
  <2>6. ASSUME NEW id \in TransferIDs, NEW tenant \in Tenants,
               NEW next \in {"accepted", "blocked"}, Review(tenant, id, next)
        PROVE  OutboxMatchesStatus'
    <3>1. /\ OthersSame(id) /\ transfers[id].status = "review"
          /\ transfers'[id].status = next
          /\ outbox'[id] = outbox[id] \o ReviewEvents(next)
      BY <2>6, ReviewEffect, SMTT(30)
    <3>2. outbox[id] \o ReviewEvents(next) \in HistoryOf(next)
      BY <2>2, <3>1, HistoryGrows
    <3> QED
      BY <2>1, <3>1, <3>2, Zenon
  <2>7. ASSUME NEW cb \in Callback, Settle(cb) PROVE OutboxMatchesStatus'
    <3> DEFINE id == cb.transfer
               outcome == SettlementOutcome(cb.status)
    <3>1. /\ id \in TransferIDs /\ OthersSame(id)
          /\ transfers[id].status = "approved"
          /\ outcome \in {"settled", "rejected"}
          /\ transfers'[id].status = outcome
          /\ outbox'[id] = outbox[id] \o SettlementEvents(outcome)
      BY <2>7, SettleEffect, Zenon
    <3> HIDE DEF id, outcome
    <3> QED
      BY <2>1, <2>2, <3>1, HistoryGrows, Zenon
  <2>8. CASE Age
    BY <2>2, <2>8, AgeEffect DEF OutboxMatchesStatus
  <2>9. CASE UNCHANGED storeVars
    BY <2>9 DEF storeVars, OutboxMatchesStatus
  <2> QED
    BY <2>3, <2>4, <2>5, <2>6, <2>7, <2>8, <2>9, Submissions
       DEF StoreNext, InsertStep, ReviewStep, SettleStep, Submits
<1> QED
  BY <1>1, <1>2, StoreTyped, PTL DEF StoreSpec

(* Claims and retry delays are left only on accepted transfers, although   *)
(* ReleaseSPISubmission never looks at the status.                         *)
THEOREM ClaimsPromised == StoreSpec => []ClaimOnlyWhileAccepted
<1>1. StoreInit => ClaimOnlyWhileAccepted
  BY DEF StoreInit, ClaimOnlyWhileAccepted, NoTransfer
<1>2. StoreTypeOK /\ ClaimOnlyWhileAccepted /\ [StoreNext]_storeVars => ClaimOnlyWhileAccepted'
  <2> SUFFICES ASSUME StoreTypeOK, ClaimOnlyWhileAccepted, [StoreNext]_storeVars
               PROVE  ClaimOnlyWhileAccepted'
    OBVIOUS
  <2>1. ASSUME NEW id \in TransferIDs, OthersSame(id),
               \/ transfers'[id].status = "accepted"
               \/ transfers'[id].spiClaimToken = None /\ transfers'[id].spiClaimedUntil = 0
        PROVE  ClaimOnlyWhileAccepted'
    BY <2>1 DEF ClaimOnlyWhileAccepted, OthersSame
  <2>2. \A id \in TransferIDs :
          transfers[id].status # "accepted" =>
            transfers[id].spiClaimToken = None /\ transfers[id].spiClaimedUntil = 0
    BY DEF ClaimOnlyWhileAccepted, StoreTypeOK, Transfer, NoTransfer
  <2>3. ASSUME NEW id \in TransferIDs, NEW req \in Request, NEW d \in Decisions,
               Insert(id, req, d)
        PROVE  ClaimOnlyWhileAccepted'
    BY <2>1, <2>3, InsertEffect, Zenon
  <2>4. ASSUME NEW id \in TransferIDs, NEW tenant \in Tenants, NEW token \in Tokens,
               \/ \E until, left \in Nat : Claim(tenant, id, token, until, left)
               \/ Record(tenant, id, token)
        PROVE  ClaimOnlyWhileAccepted'
    BY <2>1, <2>4, ClaimEffect, RecordEffect, Zenon
  <2>5. ASSUME NEW id \in TransferIDs, NEW tenant \in Tenants, NEW token \in Tokens,
               NEW left \in Nat, Release(tenant, id, token, left)
        PROVE  ClaimOnlyWhileAccepted'
    BY <2>1, <2>2, <2>5, ReleaseEffect
  <2>6. ASSUME NEW id \in TransferIDs, NEW tenant \in Tenants,
               NEW next \in {"accepted", "blocked"}, Review(tenant, id, next)
        PROVE  ClaimOnlyWhileAccepted'
    BY <2>1, <2>2, <2>6, ReviewEffect
  <2>7. ASSUME NEW cb \in Callback, Settle(cb) PROVE ClaimOnlyWhileAccepted'
    <3> DEFINE id == cb.transfer
    <3>1. /\ id \in TransferIDs /\ OthersSame(id) /\ transfers[id].status = "approved"
          /\ transfers'[id].spiClaimToken = transfers[id].spiClaimToken
          /\ transfers'[id].spiClaimedUntil = transfers[id].spiClaimedUntil
      BY <2>7, SettleEffect, Zenon
    <3> HIDE DEF id
    <3> QED
      BY <2>1, <2>2, <3>1
  <2>8. CASE Age
    BY <2>2, <2>8, AgeEffect DEF ClaimOnlyWhileAccepted, Elapse
  <2>9. CASE UNCHANGED storeVars
    BY <2>9 DEF storeVars, ClaimOnlyWhileAccepted
  <2> QED
    BY <2>3, <2>4, <2>5, <2>6, <2>7, <2>8, <2>9, Submissions
       DEF StoreNext, InsertStep, ReviewStep, SettleStep, Submits
<1> QED
  BY <1>1, <1>2, StoreTyped, PTL DEF StoreSpec

-----------------------------------------------------------------------------
(* No step creates a row except InsertTransfer: every other store method   *)
(* leaves the index alone and changes existing rows only.                  *)
UpdateStep == SubmissionStep \/ ReviewStep \/ SettleStep \/ Age \/ UNCHANGED storeVars

(* Claims, records, releases, reviews, settlements and time keep the index *)
(* and every row's tenant, key and fingerprint, and bring no row into      *)
(* being.                                                                  *)
LEMMA UpdatesKeepRows ==
  ASSUME StoreTypeOK, UpdateStep
  PROVE  /\ UNCHANGED idempotency
         /\ \A id \in TransferIDs :
              /\ SameIdentity(id)
              /\ transfers[id].status = "absent" => transfers'[id].status = "absent"
<1> DEFINE Kept(id) == /\ SameIdentity(id)
                       /\ transfers[id].status = "absent" => transfers'[id].status = "absent"
<1>1. ASSUME NEW id \in TransferIDs, SameIdentity(id), OthersSame(id),
             transfers[id].status # "absent"
      PROVE  \A o \in TransferIDs : Kept(o)
  BY <1>1 DEF SameIdentity, OthersSame
<1> HIDE DEF Kept
<1>2. ASSUME NEW id \in TransferIDs, NEW tenant \in Tenants, NEW token \in Tokens,
             Submits(tenant, id, token)
      PROVE  UNCHANGED idempotency /\ \A o \in TransferIDs : Kept(o)
  BY <1>1, <1>2, SubmitEffect
<1>3. ASSUME NEW id \in TransferIDs, NEW tenant \in Tenants,
             NEW next \in {"accepted", "blocked"}, Review(tenant, id, next)
      PROVE  UNCHANGED idempotency /\ \A o \in TransferIDs : Kept(o)
  <2>1. /\ SameIdentity(id) /\ OthersSame(id) /\ transfers[id].status = "review"
        /\ UNCHANGED idempotency
    BY <1>3, ReviewEffect
  <2> QED
    BY <1>1, <2>1
<1>4. ASSUME NEW cb \in Callback, Settle(cb)
      PROVE  UNCHANGED idempotency /\ \A o \in TransferIDs : Kept(o)
  <2>1. /\ cb.transfer \in TransferIDs /\ SameIdentity(cb.transfer)
        /\ OthersSame(cb.transfer) /\ transfers[cb.transfer].status = "approved"
        /\ UNCHANGED idempotency
    BY <1>4, SettleEffect, Zenon
  <2> QED
    BY <1>1, <2>1
<1>5. ASSUME Age PROVE UNCHANGED idempotency /\ \A o \in TransferIDs : Kept(o)
  <2>1. UNCHANGED idempotency
    BY <1>5 DEF Age
  <2>2. ASSUME NEW o \in TransferIDs
        PROVE  SameIdentity(o) /\ transfers'[o].status = transfers[o].status
    BY <1>5, AgeEffect
  <2> QED
    BY <2>1, <2>2 DEF Kept
<1>6. ASSUME UNCHANGED storeVars PROVE UNCHANGED idempotency /\ \A o \in TransferIDs : Kept(o)
  BY <1>6 DEF storeVars, Kept, SameIdentity
<1>7. UNCHANGED idempotency /\ \A o \in TransferIDs : Kept(o)
  BY <1>2, <1>3, <1>4, <1>5, <1>6, Submissions DEF UpdateStep, ReviewStep, SettleStep
<1> QED
  BY <1>7 DEF Kept

(* A row keeps its tenant, key and fingerprint, and an index entry keeps   *)
(* its transfer, whatever the store does.                                  *)
LEMMA RowsAndIndexKept ==
  ASSUME StoreTypeOK, InsertStep \/ UpdateStep
  PROVE  /\ \A id \in TransferIDs : transfers[id].status # "absent" => SameIdentity(id)
         /\ \A tenant \in Tenants, key \in Keys :
              idempotency[<<tenant, key>>] # None =>
                idempotency'[<<tenant, key>>] = idempotency[<<tenant, key>>]
<1>1. CASE UpdateStep
  BY <1>1, UpdatesKeepRows, SMTT(30)
<1>2. CASE InsertStep
  <2>1. PICK id \in TransferIDs, req \in Request, d \in Decisions : Insert(id, req, d)
    BY <1>2 DEF InsertStep
  <2>2. /\ transfers[id].status = "absent" /\ OthersSame(id)
        /\ FindByIdempotency(req.tenant, req.key) \in {None, id}
        /\ idempotency' = [idempotency EXCEPT ![<<req.tenant, req.key>>] = id]
    BY <2>1, InsertEffect
  <2>3. /\ idempotency \in [Tenants \X Keys -> TransferIDs \cup {None}]
        /\ req.tenant \in Tenants /\ req.key \in Keys
    BY DEF StoreTypeOK, Request
  <2>4. \A x \in Tenants, y \in Keys :
          idempotency'[<<x, y>>] =
            IF x = req.tenant /\ y = req.key THEN id ELSE idempotency[<<x, y>>]
    BY <2>2, <2>3, PairUpdate
  <2>5. \A x \in Tenants, y \in Keys :
          idempotency[<<x, y>>] # None => idempotency'[<<x, y>>] = idempotency[<<x, y>>]
    BY <2>2, <2>4 DEF FindByIdempotency
  <2> QED
    BY <2>2, <2>5 DEF OthersSame, SameIdentity
<1> QED
  BY <1>1, <1>2

-----------------------------------------------------------------------------
Finished == {"settled", "rejected"}

SameOutcome(id) ==
  /\ SameIdentity(id)
  /\ transfers'[id].status = transfers[id].status
  /\ transfers'[id].spiMessageID = transfers[id].spiMessageID

(* A step that is no settlement touches no finished transfer, finishes     *)
(* none, and leaves the stored callbacks alone.                            *)
LEMMA OnlySettlementsFinish ==
  ASSUME StoreTypeOK, InsertStep \/ SubmissionStep \/ ReviewStep \/ Age \/ UNCHANGED storeVars
  PROVE  /\ UNCHANGED callbacks
         /\ \A id \in TransferIDs :
              /\ transfers[id].status \in Finished => SameOutcome(id)
              /\ transfers'[id].status \in Finished => transfers[id].status \in Finished
<1> DEFINE Kept(id) ==
      /\ transfers[id].status \in Finished => SameOutcome(id)
      /\ transfers'[id].status \in Finished => transfers[id].status \in Finished
<1>1. ASSUME NEW id \in TransferIDs, OthersSame(id), Kept(id)
      PROVE  \A o \in TransferIDs : Kept(o)
  BY <1>1 DEF OthersSame, SameOutcome, SameIdentity
<1>2. ASSUME NEW id \in TransferIDs, transfers[id].status \notin Finished,
             transfers'[id].status \notin Finished
      PROVE  Kept(id)
  BY <1>2
<1>3. ASSUME NEW id \in TransferIDs, SameOutcome(id) PROVE Kept(id)
  BY <1>3 DEF SameOutcome
<1> HIDE DEF Kept
<1>4. ASSUME NEW id \in TransferIDs, NEW req \in Request, NEW d \in Decisions, Insert(id, req, d)
      PROVE  UNCHANGED callbacks /\ \A o \in TransferIDs : Kept(o)
  <2>1. /\ transfers[id].status = "absent" /\ transfers'[id].status = d
        /\ OthersSame(id) /\ UNCHANGED callbacks
    BY <1>4, InsertEffect, ZenonT(60)
  <2>2. transfers[id].status \notin Finished /\ transfers'[id].status \notin Finished
    BY <2>1 DEF Decisions, Finished
  <2> QED
    BY <1>1, <1>2, <2>1, <2>2
<1>5. ASSUME NEW id \in TransferIDs, NEW tenant \in Tenants, NEW token \in Tokens,
             NEW until \in Nat, NEW left \in Nat, Claim(tenant, id, token, until, left)
      PROVE  UNCHANGED callbacks /\ \A o \in TransferIDs : Kept(o)
  <2>1. /\ transfers[id].status = "accepted" /\ transfers'[id].status = "accepted"
        /\ OthersSame(id) /\ UNCHANGED callbacks
    BY <1>5, ClaimEffect
  <2>2. transfers[id].status \notin Finished /\ transfers'[id].status \notin Finished
    BY <2>1 DEF Finished
  <2> QED
    BY <1>1, <1>2, <2>1, <2>2
<1>6. ASSUME NEW id \in TransferIDs, NEW tenant \in Tenants, NEW token \in Tokens,
             Record(tenant, id, token)
      PROVE  UNCHANGED callbacks /\ \A o \in TransferIDs : Kept(o)
  <2>1. /\ transfers[id].status = "accepted" /\ transfers'[id].status = "approved"
        /\ OthersSame(id) /\ UNCHANGED callbacks
    BY <1>6, RecordEffect
  <2>2. transfers[id].status \notin Finished /\ transfers'[id].status \notin Finished
    BY <2>1 DEF Finished
  <2> QED
    BY <1>1, <1>2, <2>1, <2>2
<1>7. ASSUME NEW id \in TransferIDs, NEW tenant \in Tenants, NEW token \in Tokens,
             NEW left \in Nat, Release(tenant, id, token, left)
      PROVE  UNCHANGED callbacks /\ \A o \in TransferIDs : Kept(o)
  <2>1. /\ SameIdentity(id) /\ transfers'[id].status = transfers[id].status
        /\ transfers'[id].spiMessageID = transfers[id].spiMessageID
        /\ OthersSame(id) /\ UNCHANGED callbacks
    BY <1>7, ReleaseEffect
  <2> QED
    BY <1>1, <1>3, <2>1 DEF SameOutcome
<1>8. ASSUME NEW id \in TransferIDs, NEW tenant \in Tenants,
             NEW next \in {"accepted", "blocked"}, Review(tenant, id, next)
      PROVE  UNCHANGED callbacks /\ \A o \in TransferIDs : Kept(o)
  <2>1. /\ transfers[id].status = "review" /\ transfers'[id].status = next
        /\ OthersSame(id) /\ UNCHANGED callbacks
    BY <1>8, ReviewEffect
  <2>2. transfers[id].status \notin Finished /\ transfers'[id].status \notin Finished
    BY <2>1 DEF Finished
  <2> QED
    BY <1>1, <1>2, <2>1, <2>2, SMTT(30)
<1>9. ASSUME Age PROVE UNCHANGED callbacks /\ \A o \in TransferIDs : Kept(o)
  <2>1. UNCHANGED callbacks
    BY <1>9 DEF Age
  <2>2. ASSUME NEW o \in TransferIDs PROVE SameOutcome(o)
    BY <1>9, AgeEffect DEF SameOutcome
  <2> QED
    BY <1>3, <2>1, <2>2
<1>10. ASSUME UNCHANGED storeVars PROVE UNCHANGED callbacks /\ \A o \in TransferIDs : Kept(o)
  <2>1. \A o \in TransferIDs : SameOutcome(o)
    BY <1>10 DEF storeVars, SameOutcome, SameIdentity
  <2> QED
    BY <1>3, <1>10, <2>1 DEF storeVars
<1>11. UNCHANGED callbacks /\ \A o \in TransferIDs : Kept(o)
  BY <1>4, <1>5, <1>6, <1>7, <1>8, <1>9, <1>10, Submissions
     DEF InsertStep, ReviewStep, Submits
<1> QED
  BY <1>11 DEF Kept

(* A settlement finishes an approved transfer, stores its callback where   *)
(* there was none, and changes nothing else.                               *)
LEMMA SettlementFinishes ==
  ASSUME StoreTypeOK, NEW cb \in Callback, Settle(cb)
  PROVE  /\ cb.transfer \in TransferIDs /\ cb.tenant \in Tenants /\ cb.spiMessageID \in MessageIDs
         /\ transfers[cb.transfer].status = "approved"
         /\ transfers'[cb.transfer].tenant = cb.tenant
         /\ transfers'[cb.transfer].spiMessageID = cb.spiMessageID
         /\ transfers'[cb.transfer].status = SettlementOutcome(cb.status)
         /\ \A id \in TransferIDs \ {cb.transfer} : transfers'[id] = transfers[id]
         /\ callbacks[<<cb.tenant, cb.spiMessageID>>] = None
         /\ \A t \in Tenants, m \in MessageIDs :
              callbacks'[<<t, m>>] =
                IF t = cb.tenant /\ m = cb.spiMessageID THEN cb ELSE callbacks[<<t, m>>]
<1>1. /\ cb.transfer \in TransferIDs /\ GetTransfer(cb.tenant, cb.transfer)
      /\ transfers[cb.transfer].status = "approved"
      /\ transfers[cb.transfer].spiMessageID = cb.spiMessageID
      /\ SameIdentity(cb.transfer) /\ OthersSame(cb.transfer)
      /\ transfers'[cb.transfer].status = SettlementOutcome(cb.status)
      /\ transfers'[cb.transfer].spiMessageID = transfers[cb.transfer].spiMessageID
      /\ callbacks[<<cb.tenant, cb.spiMessageID>>] = None
      /\ callbacks' = [callbacks EXCEPT ![<<cb.tenant, cb.spiMessageID>>] = cb]
  BY SettleEffect, Zenon
<1>2. /\ cb.tenant \in Tenants /\ cb.spiMessageID \in MessageIDs
      /\ callbacks \in [Tenants \X MessageIDs -> Callback \cup {None}]
  BY DEF Callback, StoreTypeOK
<1>3. \A t \in Tenants, m \in MessageIDs :
        callbacks'[<<t, m>>] =
          IF t = cb.tenant /\ m = cb.spiMessageID THEN cb ELSE callbacks[<<t, m>>]
  BY <1>1, <1>2, PairUpdate
<1> QED
  BY <1>1, <1>2, <1>3 DEF GetTransfer, SameIdentity, OthersSame

(* Every stored callback is the one that settled its transfer.             *)
THEOREM CallbacksPromised == StoreSpec => []CallbackFacts
<1>1. StoreInit => CallbackFacts
  BY SMTT(30) DEF StoreInit, CallbackFacts
<1>2. StoreTypeOK /\ CallbackFacts /\ [StoreNext]_storeVars => CallbackFacts'
  <2> SUFFICES ASSUME StoreTypeOK, CallbackFacts, [StoreNext]_storeVars,
                      NEW t \in Tenants, NEW m \in MessageIDs, callbacks'[<<t, m>>] # None
               PROVE  LET cb == callbacks'[<<t, m>>] IN
                      /\ cb.tenant = t /\ cb.spiMessageID = m
                      /\ transfers'[cb.transfer].status # "absent"
                      /\ transfers'[cb.transfer].tenant = t
                      /\ transfers'[cb.transfer].spiMessageID = m
                      /\ transfers'[cb.transfer].status = SettlementOutcome(cb.status)
    BY SMTT(30) DEF CallbackFacts, GetTransfer, Exists
  <2> DEFINE old == callbacks[<<t, m>>]
  <2>1. old # None =>
          /\ old \in Callback /\ old.transfer \in TransferIDs
          /\ old.tenant = t /\ old.spiMessageID = m
          /\ transfers[old.transfer].tenant = t
          /\ transfers[old.transfer].spiMessageID = m
          /\ transfers[old.transfer].status = SettlementOutcome(old.status)
          /\ transfers[old.transfer].status \in Finished
    <3>1. old \in Callback \cup {None}
      BY DEF StoreTypeOK
    <3>2. old \in Callback => old.transfer \in TransferIDs
      BY SMTT(30) DEF Callback
    <3> QED
      BY <3>1, <3>2 DEF CallbackFacts, GetTransfer, Finished, SettlementOutcome
  <2>2. CASE InsertStep \/ SubmissionStep \/ ReviewStep \/ Age \/ UNCHANGED storeVars
    <3>1. callbacks' = callbacks
      BY <2>2, OnlySettlementsFinish
    <3>2. SameOutcome(old.transfer)
      <4>1. old # None
        BY <3>1
      <4>2. old.transfer \in TransferIDs /\ transfers[old.transfer].status \in Finished
        BY <2>1, <4>1
      <4> HIDE DEF old
      <4> QED
        BY <2>2, <4>2, OnlySettlementsFinish
    <3> QED
      BY <2>1, <3>1, <3>2 DEF SameOutcome, SameIdentity, Finished
  <2>3. ASSUME NEW cb \in Callback, Settle(cb)
        PROVE  LET new == callbacks'[<<t, m>>] IN
               /\ new.tenant = t /\ new.spiMessageID = m
               /\ transfers'[new.transfer].status # "absent"
               /\ transfers'[new.transfer].tenant = t
               /\ transfers'[new.transfer].spiMessageID = m
               /\ transfers'[new.transfer].status = SettlementOutcome(new.status)
    <3>1. /\ cb.transfer \in TransferIDs
          /\ transfers[cb.transfer].status = "approved"
          /\ transfers'[cb.transfer].tenant = cb.tenant
          /\ transfers'[cb.transfer].spiMessageID = cb.spiMessageID
          /\ transfers'[cb.transfer].status = SettlementOutcome(cb.status)
          /\ \A id \in TransferIDs \ {cb.transfer} : transfers'[id] = transfers[id]
          /\ callbacks'[<<t, m>>] = IF t = cb.tenant /\ m = cb.spiMessageID THEN cb ELSE old
      BY <2>3, SettlementFinishes, ZenonT(60)
    <3>2. CASE t = cb.tenant /\ m = cb.spiMessageID
      BY <3>1, <3>2, SMTT(30) DEF SettlementOutcome
    <3>3. CASE ~(t = cb.tenant /\ m = cb.spiMessageID)
      <4>1. callbacks'[<<t, m>>] = old /\ old # None
        BY <3>1, <3>3
      <4>2. old.transfer # cb.transfer
        BY <2>1, <3>1, <4>1, SMTT(30) DEF Finished
      <4>3. transfers'[old.transfer] = transfers[old.transfer]
        BY <2>1, <3>1, <4>1, <4>2
      <4> QED
        BY <2>1, <4>1, <4>3 DEF Finished
    <3> QED
      BY <3>2, <3>3
  <2> QED
    BY <2>2, <2>3, SMTT(30) DEF StoreNext, SettleStep
<1> QED
  BY <1>1, <1>2, StoreTyped, PTL DEF StoreSpec

-----------------------------------------------------------------------------
(* A transfer carries its own SPI message id exactly from its recorded     *)
(* submission on.                                                          *)
THEOREM MessagesPromised == StoreSpec => []MessageMatchesStatus
<1> DEFINE Sent == {"approved", "settled", "rejected"}
           Fits(id, tr) == tr.spiMessageID = IF tr.status \in Sent THEN MessageOf(id) ELSE None
<1>1. StoreInit => MessageMatchesStatus
  BY DEF StoreInit, MessageMatchesStatus, NoTransfer
<1>2. StoreTypeOK /\ MessageMatchesStatus /\ [StoreNext]_storeVars => MessageMatchesStatus'
  <2> SUFFICES ASSUME StoreTypeOK, MessageMatchesStatus, [StoreNext]_storeVars
               PROVE  MessageMatchesStatus'
    OBVIOUS
  <2>1. \A id \in TransferIDs : Fits(id, transfers[id])
    BY DEF MessageMatchesStatus
  <2>2. ASSUME NEW id \in TransferIDs, OthersSame(id), Fits(id, transfers'[id])
        PROVE  MessageMatchesStatus'
    BY <2>1, <2>2 DEF MessageMatchesStatus, OthersSame
  <2>3. ASSUME NEW id \in TransferIDs, NEW req \in Request, NEW d \in Decisions, Insert(id, req, d)
        PROVE  MessageMatchesStatus'
    <3>1. OthersSame(id) /\ transfers'[id].status = d /\ transfers'[id].spiMessageID = None
      BY <2>3, InsertEffect, ZenonT(60)
    <3> QED
      BY <2>2, <3>1 DEF Decisions
  <2>4. ASSUME NEW id \in TransferIDs, NEW tenant \in Tenants, NEW token \in Tokens,
               Submits(tenant, id, token)
        PROVE  MessageMatchesStatus'
    <3>1. \/ /\ OthersSame(id) /\ transfers'[id].status = transfers[id].status
             /\ transfers'[id].spiMessageID = transfers[id].spiMessageID
          \/ /\ OthersSame(id) /\ transfers'[id].status = "approved"
             /\ transfers'[id].spiMessageID = MessageOf(id)
      <4>1. ASSUME NEW until \in Nat, NEW left \in Nat, Claim(tenant, id, token, until, left)
            PROVE  /\ OthersSame(id) /\ transfers'[id].status = transfers[id].status
                   /\ transfers'[id].spiMessageID = transfers[id].spiMessageID
        BY <4>1, ClaimEffect
      <4>2. ASSUME NEW left \in Nat, Release(tenant, id, token, left)
            PROVE  /\ OthersSame(id) /\ transfers'[id].status = transfers[id].status
                   /\ transfers'[id].spiMessageID = transfers[id].spiMessageID
        BY <4>2, ReleaseEffect
      <4> QED
        BY <2>4, <4>1, <4>2, RecordEffect, Zenon DEF Submits
    <3> QED
      BY <2>1, <2>2, <3>1
  <2>5. ASSUME NEW id \in TransferIDs, NEW tenant \in Tenants,
               NEW next \in {"accepted", "blocked"}, Review(tenant, id, next)
        PROVE  MessageMatchesStatus'
    <3>1. /\ OthersSame(id) /\ transfers[id].status = "review" /\ transfers'[id].status = next
          /\ transfers'[id].spiMessageID = transfers[id].spiMessageID
      BY <2>5, ReviewEffect, Zenon
    <3> QED
      BY <2>1, <2>2, <3>1
  <2>6. ASSUME NEW cb \in Callback, Settle(cb) PROVE MessageMatchesStatus'
    <3> DEFINE id == cb.transfer
    <3>1. /\ id \in TransferIDs /\ OthersSame(id) /\ transfers[id].status = "approved"
          /\ transfers'[id].status \in {"settled", "rejected"}
          /\ transfers'[id].spiMessageID = transfers[id].spiMessageID
      BY <2>6, SettleEffect, Zenon
    <3> HIDE DEF id
    <3> QED
      BY <2>1, <2>2, <3>1
  <2>7. CASE Age
    BY <2>1, <2>7, AgeEffect DEF MessageMatchesStatus
  <2>8. CASE UNCHANGED storeVars
    BY <2>8 DEF storeVars, MessageMatchesStatus
  <2> QED
    BY <2>3, <2>4, <2>5, <2>6, <2>7, <2>8, Submissions
       DEF StoreNext, InsertStep, ReviewStep, SettleStep
<1> QED
  BY <1>1, <1>2, StoreTyped, PTL DEF StoreSpec

(* A settlement takes effect with its callback, and neither is ever        *)
(* changed: a finished transfer keeps the callback that finished it.       *)
THEOREM SettlementsPromised == StoreSpec => []SettledByCallback
<1> DEFINE
      Row(id, tr, cbs) ==
        tr[id].status \in Finished =>
          LET cb == cbs[<<tr[id].tenant, tr[id].spiMessageID>>] IN
          /\ cb # None /\ cb.transfer = id
          /\ tr[id].status = SettlementOutcome(cb.status)
<1>1. SettledByCallback <=> \A id \in TransferIDs : Row(id, transfers, callbacks)
  BY DEF SettledByCallback, Finished
<1>2. SettledByCallback' <=> \A id \in TransferIDs : Row(id, transfers', callbacks')
  BY DEF SettledByCallback, Finished
<1>3. StoreInit => SettledByCallback
  BY DEF StoreInit, NoTransfer, SettledByCallback
<1>4. StoreTypeOK /\ MessageMatchesStatus /\ SettledByCallback /\ [StoreNext]_storeVars
        => SettledByCallback'
  <2> SUFFICES ASSUME StoreTypeOK, MessageMatchesStatus, SettledByCallback, [StoreNext]_storeVars
               PROVE  SettledByCallback'
    OBVIOUS
  <2>1. \A id \in TransferIDs : Row(id, transfers, callbacks)
    BY <1>1
  <2>2. \A id \in TransferIDs : transfers[id].status \in Finished =>
          transfers[id].tenant \in Tenants /\ transfers[id].spiMessageID \in MessageIDs
    <3>1. \A id \in TransferIDs : transfers[id].status \in Finished => transfers[id] \in Transfer
      BY RowTyped DEF Finished, Exists
    <3>2. \A id \in TransferIDs : transfers[id].status \in Finished =>
            transfers[id].spiMessageID = MessageOf(id)
      BY DEF Finished, MessageMatchesStatus
    <3> QED
      BY <3>1, <3>2, MessageTyped DEF Transfer
  <2>3. CASE InsertStep \/ SubmissionStep \/ ReviewStep \/ Age \/ UNCHANGED storeVars
    <3>1. /\ UNCHANGED callbacks
          /\ \A id \in TransferIDs :
               transfers'[id].status \in Finished =>
                 transfers[id].status \in Finished /\ SameOutcome(id)
      BY <2>3, OnlySettlementsFinish
    <3> QED
      BY <1>2, <2>1, <3>1 DEF SameOutcome, SameIdentity
  <2>4. ASSUME NEW cb \in Callback, Settle(cb), NEW id \in TransferIDs
        PROVE  Row(id, transfers', callbacks')
    <3>1. /\ cb.tenant \in Tenants /\ cb.spiMessageID \in MessageIDs
          /\ transfers'[cb.transfer].tenant = cb.tenant
          /\ transfers'[cb.transfer].spiMessageID = cb.spiMessageID
          /\ transfers'[cb.transfer].status = SettlementOutcome(cb.status)
          /\ \A o \in TransferIDs \ {cb.transfer} : transfers'[o] = transfers[o]
          /\ callbacks[<<cb.tenant, cb.spiMessageID>>] = None
          /\ \A t \in Tenants, m \in MessageIDs :
               callbacks'[<<t, m>>] =
                 IF t = cb.tenant /\ m = cb.spiMessageID THEN cb ELSE callbacks[<<t, m>>]
      BY <2>4, SettlementFinishes
    <3>2. CASE id = cb.transfer
      <4>1. callbacks'[<<cb.tenant, cb.spiMessageID>>] = cb /\ cb # None
        BY <3>1
      <4> QED
        BY <3>1, <3>2, <4>1
    <3>3. CASE id # cb.transfer /\ transfers[id].status \in Finished
      <4> DEFINE t == transfers[id].tenant
                 m == transfers[id].spiMessageID
      <4>1. t \in Tenants /\ m \in MessageIDs /\ callbacks[<<t, m>>] # None
        BY <2>1, <2>2, <3>3, SMTT(30)
      <4>2. transfers'[id] = transfers[id]
        BY <3>1, <3>3, SMTT(30)
      <4>3. callbacks'[<<t, m>>] = callbacks[<<t, m>>]
        <5> HIDE DEF t, m
        <5> QED
          BY <3>1, <4>1
      <4> QED
        BY <2>1, <4>2, <4>3
    <3>4. CASE id # cb.transfer /\ transfers[id].status \notin Finished
      BY <3>1, <3>4
    <3> QED
      BY <3>2, <3>3, <3>4
  <2> HIDE DEF Row
  <2> QED
    BY <1>2, <2>3, <2>4 DEF StoreNext, SettleStep
<1> QED
  BY <1>3, <1>4, StoreTyped, MessagesPromised, PTL DEF StoreSpec

-----------------------------------------------------------------------------
(* The abstract specification writes the same events and audit records.    *)
LEMMA LifecycleEvents ==
  /\ \A d : Lifecycle!CreateEvents(d) = CreateEvents(d)
  /\ \A next : Lifecycle!ReviewEvents(next) = ReviewEvents(next)
  /\ Lifecycle!SubmissionEvents = SubmissionEvents
  /\ \A outcome : Lifecycle!SettlementEvents(outcome) = SettlementEvents(outcome)
  /\ Lifecycle!CreateAudit = CreateAudit
  /\ Lifecycle!ReviewAudit = ReviewAudit
  /\ Lifecycle!SubmissionAudit = SubmissionAudit
  /\ Lifecycle!SettlementAudit = SettlementAudit
  BY DEF Lifecycle!CreateEvents, CreateEvents, Lifecycle!ReviewEvents, ReviewEvents,
     Lifecycle!SubmissionEvents, SubmissionEvents, Lifecycle!SettlementEvents,
     SettlementEvents, Lifecycle!CreateAudit, CreateAudit, Lifecycle!ReviewAudit, ReviewAudit,
     Lifecycle!SubmissionAudit, SubmissionAudit, Lifecycle!SettlementAudit, SettlementAudit

(* A store that keeps the contract implements the documented state         *)
(* machine: every step maps to one transition that commits status, events  *)
(* and audit record together, or changes none of them.                     *)
THEOREM LifecyclePromised == StoreSpec => ImplementsLifecycle
<1> DEFINE status == [id \in TransferIDs |-> transfers[id].status]
<1>1. StoreInit => Lifecycle!Init
  BY DEF StoreInit, NoTransfer, Lifecycle!Init
<1>2. StoreTypeOK /\ [StoreNext]_storeVars => [Lifecycle!Next]_(Lifecycle!vars)
  <2> SUFFICES ASSUME StoreTypeOK, [StoreNext]_storeVars
               PROVE  Lifecycle!Next \/ UNCHANGED Lifecycle!vars
    OBVIOUS
  <2>1. ASSUME NEW id \in TransferIDs, NEW next, NEW events, NEW actions,
               NEW tr \in Transfer, tr.status = next, Write(id, tr, events, actions)
        PROVE  Lifecycle!Commit(id, next, events, actions)
    <3>1. /\ transfers'[id].status = next
          /\ \A o \in TransferIDs \ {id} : transfers'[o].status = transfers[o].status
      BY <2>1, WriteEffect
    <3>2. status' = [status EXCEPT ![id] = next]
      BY <3>1, Zenon
    <3> QED
      BY <2>1, <3>2, SMTT(30) DEF Lifecycle!Commit, Write
  <2> USE LifecycleEvents
  <2>2. ASSUME NEW id \in TransferIDs, NEW req \in Request, NEW d \in Decisions,
               Insert(id, req, d)
        PROVE  Lifecycle!Next
    <3>1. transfers[id].status = "absent"
      BY <2>2, InsertEffect, ZenonT(60)
    <3>2. Lifecycle!Commit(id, d, CreateEvents(d), CreateAudit)
      BY <2>1, <2>2, NewTransferTyped, SMTT(30) DEF Insert, InsertTransfer
    <3>3. Lifecycle!Decide(id, d)
      BY <3>1, <3>2 DEF Lifecycle!Decide
    <3> QED
      BY <3>3 DEF Lifecycle!Next, Decisions
  <2>3. ASSUME NEW id \in TransferIDs, NEW tenant \in Tenants, NEW token \in Tokens,
               Record(tenant, id, token)
        PROVE  Lifecycle!Next
    <3>1. transfers[id].status = "accepted" /\ transfers[id] \in Transfer
      BY <2>3, RecordEffect, RowTyped DEF GetTransfer
    <3>2. RecordSPISubmission(transfers[id], MessageOf(id)) \in Transfer
      BY <3>1, MessageTyped, TransitionsTyped, SMTT(30)
    <3>3. Lifecycle!Commit(id, "approved", SubmissionEvents, SubmissionAudit)
      <4>1. RecordSPISubmission(transfers[id], MessageOf(id)).status = "approved"
        BY <3>1, RecordFields, ZenonT(60)
      <4>2. Write(id, RecordSPISubmission(transfers[id], MessageOf(id)),
                  SubmissionEvents, SubmissionAudit)
        BY <2>3, Zenon DEF Record, StoreRecord
      <4> QED
        BY <2>1, <3>2, <4>1, <4>2, Zenon
    <3>4. Lifecycle!Approve(id)
      BY <3>1, <3>3 DEF Lifecycle!Approve
    <3> QED
      BY <3>4, SMTT(30) DEF Lifecycle!Next
  <2>4. ASSUME NEW id \in TransferIDs, NEW tenant \in Tenants,
               NEW next \in {"accepted", "blocked"}, Review(tenant, id, next)
        PROVE  Lifecycle!Next
    <3>1. transfers[id].status = "review"
      BY <2>4, ReviewEffect
    <3>2. transfers[id] \in Transfer /\ next \in TransferStatus
      BY <3>1, RowTyped DEF Exists, TransferStatus
    <3>3. RecordReviewDecision(transfers[id], next) \in Transfer
      BY <3>2, TransitionsTyped, SMTT(30)
    <3>4. Lifecycle!Commit(id, next, ReviewEvents(next), ReviewAudit)
      <4>1. RecordReviewDecision(transfers[id], next).status = next
        BY <3>2, ReviewFields, ZenonT(60)
      <4>2. Write(id, RecordReviewDecision(transfers[id], next), ReviewEvents(next), ReviewAudit)
        BY <2>4, Zenon DEF Review, StoreReview
      <4> QED
        BY <2>1, <3>3, <4>1, <4>2, Zenon
    <3>5. Lifecycle!Review(id, next)
      BY <3>1, <3>4 DEF Lifecycle!Review
    <3> QED
      BY <3>5, SMTT(30) DEF Lifecycle!Next
  <2>5. ASSUME NEW cb \in Callback, Settle(cb) PROVE Lifecycle!Next
    <3> DEFINE id == cb.transfer
               outcome == SettlementOutcome(cb.status)
    <3>1. /\ id \in TransferIDs /\ transfers[id].status = "approved"
          /\ outcome \in {"settled", "rejected"}
      BY <2>5, SettleEffect, ZenonT(60)
    <3>2. transfers[id] \in Transfer
      BY <3>1, RowTyped, SMTT(30) DEF Exists
    <3>3. /\ RecordSettlement(transfers[id], cb) \in Transfer
          /\ RecordSettlement(transfers[id], cb).status = outcome
      BY <3>2, TransitionsTyped, SettlementFields, SMTT(30)
    <3>4. Write(id, RecordSettlement(transfers[id], cb), SettlementEvents(outcome), SettlementAudit)
      BY <2>5, SMTT(30) DEF Settle, UpdateSettlement
    <3> HIDE DEF id, outcome
    <3>5. Lifecycle!Commit(id, outcome, SettlementEvents(outcome), SettlementAudit)
      BY <2>1, <3>1, <3>3, <3>4, SMTT(30)
    <3>6. Lifecycle!Settle(id, outcome)
      BY <3>1, <3>5, SMTT(30) DEF Lifecycle!Settle
    <3> QED
      BY <3>1, <3>6 DEF Lifecycle!Next
  <2>6. ASSUME NEW id \in TransferIDs, NEW tenant \in Tenants, NEW token \in Tokens,
               \/ \E until, left \in Nat : Claim(tenant, id, token, until, left)
               \/ \E left \in Nat : Release(tenant, id, token, left)
        PROVE  UNCHANGED Lifecycle!vars
    <3>1. /\ OthersSame(id) /\ UNCHANGED <<outbox, audit>>
          /\ transfers'[id].status = transfers[id].status
      BY <2>6, ClaimEffect, ReleaseEffect
    <3> QED
      BY <3>1, SMTT(30) DEF OthersSame, Lifecycle!vars
  <2>7. CASE Age
    <3>1. \A id \in TransferIDs : transfers'[id].status = transfers[id].status
      BY <2>7, AgeEffect
    <3> QED
      BY <2>7, <3>1 DEF Age, Lifecycle!vars
  <2>8. CASE UNCHANGED storeVars
    BY <2>8, SMTT(30) DEF storeVars, Lifecycle!vars
  <2> QED
    BY <2>2, <2>3, <2>4, <2>5, <2>6, <2>7, <2>8, Submissions
       DEF StoreNext, InsertStep, ReviewStep, SettleStep, Submits
<1> QED
  BY <1>1, <1>2, StoreTyped, PTL DEF StoreSpec, ImplementsLifecycle, Lifecycle!Spec
=============================================================================

--------------------------- MODULE TransferStore ---------------------------
(***************************************************************************)
(* The transfer side of internal/store/memory.go: its maps as variables    *)
(* and one operator per method.  Every method holds the store's mutex from *)
(* its first read to its last write, so each is one atomic step.  Its      *)
(* Health(ctx) check can make any of them fail without effect; the callers *)
(* in Switch account for that with their abort steps.                      *)
(*                                                                         *)
(* outbox and audit are kept per transfer: no property here compares the   *)
(* positions of two transfers' records (the relay module keeps the global  *)
(* sequence).  A callback is stored as the callback itself, which is what  *)
(* its sha256 fingerprint stands for.                                      *)
(*                                                                         *)
(* The Go maps are keyed by tenant + ":" + key.  Tenant ids come from the  *)
(* configured API keys, whose entries are split at the first ":", so they  *)
(* hold none and the joined string stands for the pair.                    *)
(***************************************************************************)
EXTENDS Rail, Sequences

CONSTANTS Tenants, Keys, TransferIDs,
          Hashes,        \* request fingerprints
          Tokens,        \* claim tokens
          Codes          \* settlement codes a provider may send

VARIABLES transfers,     \* transfers[id], NoTransfer when there is no row
          idempotency,   \* idempotency[<<tenant, key>>], an id or None
          callbacks,     \* callbacks[<<tenant, message>>], a callback or None
          outbox,        \* outbox[id], event types in sequence order
          audit          \* audit[id], audit actions in order

storeVars == <<transfers, idempotency, callbacks, outbox, audit>>

(* spi/simulator.go derives the message id from the transfer alone, so a   *)
(* retry obtains the same id and distinct transfers obtain distinct ids.   *)
MessageOf(id) == <<"spi", id>>
MessageIDs == {MessageOf(id) : id \in TransferIDs}

Transfer ==
  [tenant : Tenants, key : Keys, hash : Hashes, status : TransferStatus,
   spiMessageID : MessageIDs \cup {None}, spiClaimToken : Tokens \cup {None},
   spiClaimedUntil : Nat]

Callback ==
  [tenant : Tenants, transfer : TransferIDs, spiMessageID : MessageIDs,
   status : SettlementStatus, code : Codes]

(* A create request as the store sees it, and the row CreateTransfer       *)
(* builds from it and the fraud decision.                                  *)
Request == [tenant : Tenants, key : Keys, hash : Hashes]
Decisions == {"accepted", "review", "blocked"}
NewTransfer(req, decision) ==
  [NoTransfer EXCEPT !.tenant = req.tenant, !.key = req.key,
                     !.hash = req.hash, !.status = decision]

(* The time left to an instant, one unit later.                            *)
Elapse(left) == IF left > 0 THEN left - 1 ELSE 0

(* The empty string is no tenant, key, id, token, message or callback.     *)
ASSUME NoneAssumption ==
  /\ None \notin Tenants /\ None \notin Keys /\ None \notin Hashes
  /\ None \notin TransferIDs /\ None \notin Tokens
  /\ None \notin MessageIDs /\ None \notin Callback

StoreTypeOK ==
  /\ transfers \in [TransferIDs -> Transfer \cup {NoTransfer}]
  /\ idempotency \in [Tenants \X Keys -> TransferIDs \cup {None}]
  /\ callbacks \in [Tenants \X MessageIDs -> Callback \cup {None}]
  /\ DOMAIN outbox = TransferIDs
  /\ DOMAIN audit = TransferIDs

StoreInit ==
  /\ transfers = [id \in TransferIDs |-> NoTransfer]
  /\ idempotency = [k \in Tenants \X Keys |-> None]
  /\ callbacks = [m \in Tenants \X MessageIDs |-> None]
  /\ outbox = [id \in TransferIDs |-> <<>>]
  /\ audit = [id \in TransferIDs |-> <<>>]

-----------------------------------------------------------------------------
Exists(id) == transfers[id].status # "absent"

(* GetTransfer and the lookup that opens every mutation: rows of another   *)
(* tenant are not found.                                                   *)
GetTransfer(tenant, id) == Exists(id) /\ transfers[id].tenant = tenant

FindByIdempotency(tenant, key) == idempotency[<<tenant, key>>]

(* The writes every mutation makes together under the mutex.               *)
Write(id, tr, events, actions) ==
  /\ transfers' = [transfers EXCEPT ![id] = tr]
  /\ outbox' = [outbox EXCEPT ![id] = @ \o events]
  /\ audit' = [audit EXCEPT ![id] = @ \o actions]

WriteClaim(id, tr) ==
  /\ transfers' = [transfers EXCEPT ![id] = tr]
  /\ UNCHANGED <<idempotency, callbacks, outbox, audit>>

-----------------------------------------------------------------------------
(* Deliberately wrong forms of the operators below.                        *)
InsertUnchecked(id, tr) == FALSE
InsertOnlyOverOwnEntry(id, tr) ==
  FindByIdempotency(tr.tenant, tr.key) # id \/ Exists(id)
StoreCallbackOnly(tenant, id, cb, events, actions) ==
  /\ callbacks' = [callbacks EXCEPT ![<<tenant, cb.spiMessageID>>] = cb]
  /\ Write(id, transfers[id], events, actions)
  /\ UNCHANGED idempotency
ReplayAnyHash(tenant, id, cb) ==
  GetTransfer(tenant, id) /\ callbacks[<<tenant, cb.spiMessageID>>] # None
SettleLatest(tenant, id, cb) ==
  GetTransfer(tenant, id) /\ callbacks[<<tenant, cb.spiMessageID>>] # cb

-----------------------------------------------------------------------------
InsertConflict(id, tr) ==
  \/ FindByIdempotency(tr.tenant, tr.key) \notin {None, id}
  \/ Exists(id)

InsertTransfer(id, tr, events, actions) ==
  /\ Write(id, tr, events, actions)
  /\ idempotency' = [idempotency EXCEPT ![<<tr.tenant, tr.key>>] = id]
  /\ UNCHANGED callbacks

(* ClaimSPISubmission *)
ClaimSucceeds(tenant, id, until) ==
  /\ GetTransfer(tenant, id)
  /\ ~Submitted(transfers[id])
  /\ CanClaimSPISubmission(transfers[id], until)
StoreClaim(id, token, until) ==
  WriteClaim(id, ClaimSPISubmission(transfers[id], token, until))

(* RecordSPISubmission *)
RecordReplays(tenant, id) ==
  /\ GetTransfer(tenant, id)
  /\ transfers[id].status = "approved"
  /\ transfers[id].spiMessageID = MessageOf(id)
RecordSucceeds(tenant, id, token) ==
  /\ GetTransfer(tenant, id)
  /\ ~RecordReplays(tenant, id)
  /\ CanRecordSPISubmission(transfers[id], token)
StoreRecord(id, events, actions) ==
  /\ Write(id, RecordSPISubmission(transfers[id], MessageOf(id)), events, actions)
  /\ UNCHANGED <<idempotency, callbacks>>

(* ReleaseSPISubmission: a no-op on a submitted transfer, an error that    *)
(* the service ignores when the token is not the stored one.               *)
ReleaseSucceeds(tenant, id, token) ==
  /\ GetTransfer(tenant, id)
  /\ ~Submitted(transfers[id])
  /\ CanReleaseSPISubmission(transfers[id], token)
StoreRelease(id, retryAfter) ==
  WriteClaim(id, ReleaseSPISubmission(transfers[id], retryAfter))

(* RecordReviewDecision *)
ReviewSucceeds(tenant, id, status) ==
  GetTransfer(tenant, id) /\ CanRecordReviewDecision(transfers[id], status)
StoreReview(id, status, events, actions) ==
  /\ Write(id, RecordReviewDecision(transfers[id], status), events, actions)
  /\ UNCHANGED <<idempotency, callbacks>>

(* UpdateSettlement: the stored callback is looked at before the transfer. *)
SettlementReplays(tenant, id, cb) ==
  /\ GetTransfer(tenant, id)
  /\ callbacks[<<tenant, cb.spiMessageID>>] = cb
SettlementSucceeds(tenant, id, cb) ==
  /\ GetTransfer(tenant, id)
  /\ callbacks[<<tenant, cb.spiMessageID>>] = None
  /\ CanRecordSettlement(transfers[id], cb)
UpdateSettlement(tenant, id, cb, events, actions) ==
  /\ Write(id, RecordSettlement(transfers[id], cb), events, actions)
  /\ callbacks' = [callbacks EXCEPT ![<<tenant, cb.spiMessageID>>] = cb]
  /\ UNCHANGED idempotency
=============================================================================

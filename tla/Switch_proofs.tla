--------------------------- MODULE Switch_proofs ---------------------------
(***************************************************************************)
(* Proofs about Switch for any sets of tenants, keys, transfers and        *)
(* handlers: its store keeps the contract, workers respect each other's    *)
(* leases, and what callers were told stays true.                          *)
(***************************************************************************)
EXTENDS Switch, StoreContract_proofs

-----------------------------------------------------------------------------
USE NoneAssumption, TimingAssumption

(* CreateTransfer's answer is well formed.                                 *)
LEMMA AnswerTyped ==
  ASSUME NEW req \in Request, NEW id \in TransferIDs \cup {None}
  PROVE  Answer(req, id) \in [req : Request, result : TransferIDs \cup {None}]
  BY SMTT(30) DEF Answer

(* What a handler holds, from its state's type: a create its request, and  *)
(* from its decision on an id and that decision ...                        *)
LEMMA ClientLocals ==
  ASSUME TypeOK, NEW c \in Clients
  PROVE  /\ client[c].pc # "idle" => client[c].req \in Request
         /\ client[c].pc \in {"insert", "refind"} =>
              client[c].id \in TransferIDs /\ client[c].decision \in Decisions
<1>1. client[c] \in ClientState
  BY Zenon DEF TypeOK
<1> QED
  BY <1>1, SMTT(30) DEF ClientState, IdleClient

(* ... a worker a transfer, a token and the rest of its lease ...          *)
LEMMA WorkerLocals ==
  ASSUME TypeOK, NEW w \in Workers, worker[w].pc # "idle"
  PROVE  /\ worker[w].tenant \in Tenants /\ worker[w].id \in TransferIDs
         /\ worker[w].token \in Tokens
         /\ worker[w].until \in 0..ClaimTTL /\ worker[w].until \in Nat
<1>1. worker[w] \in WorkerState
  BY Zenon DEF TypeOK
<1> QED
  BY <1>1, SMTT(30) DEF WorkerState, IdleWorker

(* ... a reviewer a transfer and a decision ...                            *)
LEMMA ReviewerLocals ==
  ASSUME TypeOK, NEW r \in Reviewers, reviewer[r].pc # "idle"
  PROVE  /\ reviewer[r].tenant \in Tenants /\ reviewer[r].id \in TransferIDs
         /\ reviewer[r].decision \in ReviewDecision
<1>1. reviewer[r] \in ReviewerState
  BY Zenon DEF TypeOK
<1> QED
  BY <1>1, SMTT(30) DEF ReviewerState, IdleReviewer

(* ... and a provider's handler a callback.                                *)
LEMMA ProviderLocals ==
  ASSUME TypeOK, NEW p \in Providers, provider[p].pc # "idle"
  PROVE  provider[p].callback \in Callback /\ provider[p].callback.transfer \in TransferIDs
<1>1. provider[p] \in ProviderState
  BY Zenon DEF TypeOK
<1>2. provider[p].callback \in Callback
  BY <1>1, SMTT(30) DEF ProviderState, IdleProvider
<1> QED
  BY <1>2 DEF Callback

(* No step of any handler, and no passing of time, leaves the types: in    *)
(* particular no handler ever calls the store with an empty tenant, id,    *)
(* token or callback.                                                      *)
LEMMA TypeKept ==
  ASSUME TypeOK, [Next]_vars
  PROVE  TypeOK'
<1> USE DEF TypeOK, StoreTypeOK, storeVars
<1>1. ASSUME NEW c \in Clients, NEW req \in Request, CreateFind(c, req)
      PROVE  TypeOK'
  <2>1. FindByIdempotency(req.tenant, req.key) \in TransferIDs \cup {None}
    BY DEF FindByIdempotency, Request
  <2>2. replies' \subseteq [req : Request, result : TransferIDs \cup {None}]
    BY <1>1, <2>1, AnswerTyped DEF CreateFind
  <2>3. client' \in [Clients -> ClientState]
    BY <1>1 DEF CreateFind, ClientState, IdleClient
  <2> QED
    BY <1>1, <2>2, <2>3 DEF CreateFind
<1>2. ASSUME NEW c \in Clients, CreateDecide(c) PROVE TypeOK'
  BY <1>2 DEF CreateDecide, ClientState, IdleClient
<1>3. ASSUME NEW c \in Clients, CreateInsert(c) PROVE TypeOK'
  <2> DEFINE tr == NewTransfer(client[c].req, client[c].decision)
  <2>1. /\ client[c].req \in Request
        /\ client[c].id \in TransferIDs
        /\ client[c].decision \in Decisions
    BY <1>3, ClientLocals, ZenonT(60) DEF CreateInsert
  <2>2. tr \in Transfer /\ tr.tenant \in Tenants /\ tr.key \in Keys
    BY <2>1, NewTransferTyped
  <2>3. client' \in [Clients -> ClientState]
    BY <1>3, SMTT(30) DEF CreateInsert, ClientState, IdleClient
  <2>4. CASE InsertConflict(client[c].id, tr)
    BY <1>3, <2>3, <2>4 DEF CreateInsert
  <2>5. CASE ~InsertConflict(client[c].id, tr)
    <3>1. InsertTransfer(client[c].id, tr, CreateEvents(tr.status), CreateAudit)
      BY <1>3, <2>5, SMTT(30) DEF CreateInsert
    <3>2. StoreTypeOK'
      BY <2>1, <2>2, <3>1, WriteEffect DEF InsertTransfer
    <3>3. replies' \subseteq [req : Request, result : TransferIDs \cup {None}]
      BY <1>3, <2>1, <2>5, SMTT(30) DEF CreateInsert
    <3> QED
      BY <1>3, <2>3, <3>2, <3>3 DEF CreateInsert
  <2> QED
    BY <2>4, <2>5
<1>4. ASSUME NEW c \in Clients, CreateRefind(c) PROVE TypeOK'
  <2>1. client[c].req \in Request
    BY <1>4, ClientLocals, ZenonT(60) DEF CreateRefind
  <2>2. FindByIdempotency(client[c].req.tenant, client[c].req.key)
          \in TransferIDs \cup {None}
    BY <2>1 DEF FindByIdempotency, Request
  <2>3. replies' \subseteq [req : Request, result : TransferIDs \cup {None}]
    BY <1>4, <2>1, <2>2, AnswerTyped DEF CreateRefind
  <2> QED
    BY <1>4, <2>3 DEF CreateRefind, ClientState
<1>5. ASSUME NEW c \in Clients, CreateAbort(c) PROVE TypeOK'
  BY <1>5 DEF CreateAbort, ClientState
<1>6. ASSUME NEW w \in Workers, NEW tenant \in Tenants, NEW id \in TransferIDs,
             SubmitStart(w, tenant, id)
      PROVE  TypeOK'
  BY <1>6 DEF SubmitStart, WorkerState
<1>7. ASSUME NEW w \in Workers, SubmitClaim(w) PROVE TypeOK'
  <2>1. worker[w] \in [pc : {"claim"}, tenant : Tenants, id : TransferIDs,
                       token : Tokens, until : 0..ClaimTTL]
    BY <1>7 DEF SubmitClaim, WorkerState, IdleWorker
  <2>2. worker[w].until \in Nat
    BY <2>1
  <2>3. StoreTypeOK'
    BY <1>7, <2>1, <2>2, RowTyped, TransitionsTyped, WriteClaimEffect, Zenon
       DEF SubmitClaim, StoreClaim, ClaimSucceeds, GetTransfer
  <2>4. worker' \in [Workers -> WorkerState]
    BY <1>7, <2>1, SMTT(30) DEF SubmitClaim, WorkerState
  <2> QED
    BY <1>7, <2>3, <2>4 DEF SubmitClaim
<1>8. ASSUME NEW w \in Workers, SubmitAccepted(w) PROVE TypeOK'
  <2>1. worker[w] \in WorkerState /\ worker[w].id \in TransferIDs
    BY <1>8, WorkerLocals, Zenon DEF SubmitAccepted
  <2>2. [worker[w] EXCEPT !.pc = "record"] \in WorkerState
    BY <1>8, <2>1, SMTT(30) DEF SubmitAccepted, WorkerState, IdleWorker
  <2>3. worker' \in [Workers -> WorkerState]
    BY <1>8, <2>2 DEF SubmitAccepted
  <2> QED
    BY <1>8, <2>1, <2>3, SMTT(30) DEF SubmitAccepted
<1>9. ASSUME NEW w \in Workers, SubmitFailed(w) PROVE TypeOK'
  <2>1. worker[w] \in WorkerState /\ worker[w].id \in TransferIDs
    BY <1>9, WorkerLocals, Zenon DEF SubmitFailed
  <2>2. [worker[w] EXCEPT !.pc = "release"] \in WorkerState
    BY <1>9, <2>1, SMTT(30) DEF SubmitFailed, WorkerState, IdleWorker
  <2>3. worker' \in [Workers -> WorkerState]
    BY <1>9, <2>2 DEF SubmitFailed
  <2> QED
    BY <1>9, <2>1, <2>3, SMTT(30) DEF SubmitFailed
<1>10. ASSUME NEW w \in Workers, SubmitRecord(w) PROVE TypeOK'
  <2>1. worker[w].id \in TransferIDs /\ worker[w].token \in Tokens
    BY <1>10, WorkerLocals, ZenonT(60) DEF SubmitRecord
  <2>2. Exists(worker[w].id) =>
          RecordSPISubmission(transfers[worker[w].id], MessageOf(worker[w].id)) \in Transfer
    BY <2>1, RowTyped, MessageTyped, TransitionsTyped, SMTT(30)
  <2>3. StoreTypeOK'
    BY <1>10, <2>1, <2>2, WriteEffect, SMTT(30)
       DEF SubmitRecord, StoreRecord, RecordSucceeds, GetTransfer
  <2> QED
    BY <1>10, <2>3 DEF SubmitRecord, WorkerState
<1>11. ASSUME NEW w \in Workers, SubmitRelease(w) PROVE TypeOK'
  <2>1. worker[w].id \in TransferIDs /\ worker[w].token \in Tokens
    BY <1>11, WorkerLocals, ZenonT(60) DEF SubmitRelease
  <2>2. Exists(worker[w].id) =>
          ReleaseSPISubmission(transfers[worker[w].id], RetryDelay) \in Transfer
    BY <2>1, RowTyped, TransitionsTyped, SMTT(30)
  <2>3. StoreTypeOK'
    BY <1>11, <2>1, <2>2, WriteClaimEffect
       DEF SubmitRelease, StoreRelease, ReleaseSucceeds, GetTransfer
  <2> QED
    BY <1>11, <2>3 DEF SubmitRelease, WorkerState
<1>12. ASSUME NEW w \in Workers, SubmitAbort(w) PROVE TypeOK'
  BY <1>12 DEF SubmitAbort, WorkerState
<1>13. ASSUME NEW r \in Reviewers, NEW tenant \in Tenants, NEW id \in TransferIDs,
              NEW d \in ReviewDecision, ReviewRead(r, tenant, id, d)
       PROVE  TypeOK'
  BY <1>13, SMTT(30) DEF ReviewRead, ReviewerState
<1>14. ASSUME NEW r \in Reviewers, ReviewCommit(r) PROVE TypeOK'
  <2> DEFINE next == NextStatus(reviewer[r].decision)
  <2>1. reviewer[r].id \in TransferIDs
    BY <1>14, ReviewerLocals, ZenonT(60) DEF ReviewCommit
  <2>2. Exists(reviewer[r].id) =>
          RecordReviewDecision(transfers[reviewer[r].id], next) \in Transfer
    BY <2>1, RowTyped, TransitionsTyped, SMTT(30) DEF NextStatus, TransferStatus
  <2>3. StoreTypeOK'
    BY <1>14, <2>1, <2>2, WriteEffect, SMTT(30)
       DEF ReviewCommit, StoreReview, ReviewSucceeds, GetTransfer
  <2> QED
    BY <1>14, <2>3 DEF ReviewCommit, ReviewerState
<1>15. ASSUME NEW r \in Reviewers, ReviewAbort(r) PROVE TypeOK'
  BY <1>15 DEF ReviewAbort, ReviewerState
<1>16. ASSUME NEW p \in Providers, NEW cb \in Callback, SettleRead(p, cb)
       PROVE  TypeOK'
  BY <1>16, SMTT(30) DEF SettleRead, ProviderState
<1>17. ASSUME NEW p \in Providers, SettleCommit(p) PROVE TypeOK'
  <2> DEFINE cb == provider[p].callback
  <2>1. cb \in Callback /\ cb.transfer \in TransferIDs
    BY <1>17, ProviderLocals, ZenonT(60) DEF SettleCommit
  <2>2. Exists(cb.transfer) => RecordSettlement(transfers[cb.transfer], cb) \in Transfer
    BY <2>1, RowTyped, TransitionsTyped
  <2>3. ASSUME Exists(cb.transfer),
               UpdateSettlement(cb.tenant, cb.transfer, cb,
                 SettlementEvents(SettlementOutcome(cb.status)), SettlementAudit)
        PROVE  StoreTypeOK'
    BY <2>1, <2>2, <2>3, WriteEffect, ZenonT(60) DEF UpdateSettlement
  <2>4. StoreTypeOK' /\ acks' \subseteq Callback
    BY <1>17, <2>1, <2>3, SMTT(30) DEF SettleCommit, SettlementSucceeds, GetTransfer
  <2> QED
    BY <1>17, <2>4 DEF SettleCommit, ProviderState
<1>18. ASSUME NEW p \in Providers, SettleAbort(p) PROVE TypeOK'
  BY <1>18 DEF SettleAbort, ProviderState
<1>19. CASE Tick
  <2>1. \A id \in TransferIDs :
          [transfers[id] EXCEPT !.spiClaimedUntil = Elapse(@)] \in Transfer \cup {NoTransfer}
    BY ElapseTyped, SMTT(30) DEF Transfer, NoTransfer
  <2>2. \A w \in Workers : [worker[w] EXCEPT !.until = Elapse(@)] \in WorkerState
    BY ElapseTyped DEF WorkerState, IdleWorker
  <2> QED
    BY <1>19, <2>1, <2>2 DEF Tick
<1>20. CASE UNCHANGED vars
  BY <1>20, SMTT(30) DEF vars, handlerVars
<1> QED
  BY <1>1, <1>2, <1>3, <1>4, <1>5, <1>6, <1>7, <1>8, <1>9, <1>10, <1>11, <1>12,
     <1>13, <1>14, <1>15, <1>16, <1>17, <1>18, <1>19, <1>20
     DEF Next, ClientStep, WorkerStep, ReviewerStep, ProviderStep

(* The switch starts well typed.                                           *)
LEMMA InitTyped == Init => TypeOK
  BY SMTT(30) DEF Init, StoreInit, TypeOK, StoreTypeOK, Transfer, NoTransfer,
     ClientState, WorkerState, ReviewerState, ProviderState

(* Every state the switch reaches is well typed.                           *)
THEOREM TypeCorrect == Spec => []TypeOK
<1>1. TypeOK /\ [Next]_vars => TypeOK'
  BY TypeKept, Zenon
<1> QED
  BY <1>1, InitTyped, PTL DEF Spec

-----------------------------------------------------------------------------
(* Each kind of handler makes its own kind of store step, or none, and     *)
(* leaves the other handlers' locals alone.                                *)
LEMMA ClientStore ==
  ASSUME TypeOK, NEW c \in Clients, ClientStep(c)
  PROVE  /\ InsertStep \/ UNCHANGED storeVars
         /\ UNCHANGED <<worker, reviewer, provider, spiReceived, acks>>
<1>1. ASSUME CreateInsert(c) PROVE InsertStep \/ UNCHANGED storeVars
  <2>1. /\ client[c].req \in Request
        /\ client[c].id \in TransferIDs
        /\ client[c].decision \in Decisions
    BY <1>1, ClientLocals, ZenonT(60) DEF CreateInsert
  <2>2. NewTransfer(client[c].req, client[c].decision).status = client[c].decision
    BY <2>1, NewTransferTyped
  <2>3. Insert(client[c].id, client[c].req, client[c].decision) \/ UNCHANGED storeVars
    BY <1>1, <2>2 DEF CreateInsert, Insert
  <2> QED
    BY <2>1, <2>3 DEF InsertStep
<1> QED
  BY <1>1, Zenon DEF ClientStep, CreateFind, CreateDecide, CreateInsert, CreateRefind, CreateAbort

(* The worker's token is the one it uses.                                  *)
LEMMA WorkerStore ==
  ASSUME TypeOK, NEW w \in Workers, WorkerStep(w)
  PROVE  /\ \/ /\ worker[w].tenant \in Tenants /\ worker[w].id \in TransferIDs
               /\ worker[w].token \in Tokens /\ worker[w].until \in 0..ClaimTTL
               /\ \/ Claim(worker[w].tenant, worker[w].id, worker[w].token,
                           worker[w].until, worker[w].until)
                  \/ Record(worker[w].tenant, worker[w].id, worker[w].token)
                  \/ Release(worker[w].tenant, worker[w].id, worker[w].token, RetryDelay)
            \/ UNCHANGED storeVars
         /\ \A o \in Workers \ {w} : worker'[o] = worker[o]
         /\ spiReceived \subseteq spiReceived'
         /\ UNCHANGED <<client, reviewer, provider, replies, acks>>
<1>1. CASE SubmitClaim(w) \/ SubmitRecord(w) \/ SubmitRelease(w)
  <2>1. /\ worker[w].tenant \in Tenants /\ worker[w].id \in TransferIDs
        /\ worker[w].token \in Tokens /\ worker[w].until \in 0..ClaimTTL
    BY <1>1, WorkerLocals, ZenonT(60) DEF SubmitClaim, SubmitRecord, SubmitRelease
  <2>2. \/ Claim(worker[w].tenant, worker[w].id, worker[w].token, worker[w].until, worker[w].until)
        \/ Record(worker[w].tenant, worker[w].id, worker[w].token)
        \/ Release(worker[w].tenant, worker[w].id, worker[w].token, RetryDelay)
        \/ UNCHANGED storeVars
    BY <1>1 DEF SubmitClaim, SubmitRecord, SubmitRelease, Claim, Record, Release
  <2>3. /\ \A o \in Workers \ {w} : worker'[o] = worker[o]
        /\ UNCHANGED <<client, reviewer, provider, spiReceived, replies, acks>>
    BY <1>1 DEF TypeOK, SubmitClaim, SubmitRecord, SubmitRelease
  <2> QED
    BY <2>1, <2>2, <2>3
<1> QED
  BY <1>1, SMTT(30) DEF TypeOK, WorkerStep, SubmitStart, SubmitAccepted, SubmitFailed, SubmitAbort

(* A worker's store step is one of the contract's.                         *)
LEMMA WorkerSubmits ==
  ASSUME TypeOK, NEW w \in Workers, WorkerStep(w)
  PROVE  SubmissionStep \/ UNCHANGED storeVars
<1> DEFINE id == worker[w].id  tenant == worker[w].tenant  token == worker[w].token
           until == worker[w].until
<1> SUFFICES ASSUME ~UNCHANGED storeVars PROVE SubmissionStep
  OBVIOUS
<1>1. /\ tenant \in Tenants /\ id \in TransferIDs /\ token \in Tokens /\ until \in 0..ClaimTTL
      /\ \/ Claim(tenant, id, token, until, until)
         \/ Record(tenant, id, token)
         \/ Release(tenant, id, token, RetryDelay)
  BY WorkerStore, Zenon
<1> HIDE DEF id, tenant, token, until
<1>2. ASSUME Claim(tenant, id, token, until, until)
      PROVE  until \in 1..ClaimTTL /\ until <= until
  BY <1>1, <1>2 DEF Claim, ClaimSucceeds, CanClaimSPISubmission
<1>3. RetryDelay \in 0..RetryDelay
  BY SMTT(30)
<1> QED
  BY <1>1, <1>2, <1>3, Zenon DEF SubmissionStep

(* A reviewer changes the store only through RecordReviewDecision.         *)
LEMMA ReviewerStore ==
  ASSUME TypeOK, NEW r \in Reviewers, ReviewerStep(r)
  PROVE  /\ ReviewStep \/ UNCHANGED storeVars
         /\ UNCHANGED <<client, worker, provider, spiReceived, replies, acks>>
<1>1. ASSUME ReviewCommit(r) PROVE ReviewStep \/ UNCHANGED storeVars
  <2>1. reviewer[r].tenant \in Tenants /\ reviewer[r].id \in TransferIDs
    BY <1>1, ReviewerLocals, ZenonT(60) DEF ReviewCommit
  <2>2. NextStatus(reviewer[r].decision) \in {"accepted", "blocked"}
    BY DEF NextStatus
  <2>3. \/ Review(reviewer[r].tenant, reviewer[r].id, NextStatus(reviewer[r].decision))
        \/ UNCHANGED storeVars
    BY <1>1, SMTT(30) DEF ReviewCommit, Review
  <2> QED
    BY <2>1, <2>2, <2>3, SMTT(30) DEF ReviewStep
<1> QED
  BY <1>1 DEF ReviewerStep, ReviewRead, ReviewCommit, ReviewAbort

(* A provider changes the store only through UpdateSettlement.             *)
LEMMA ProviderStore ==
  ASSUME TypeOK, NEW p \in Providers, ProviderStep(p)
  PROVE  /\ SettleStep \/ UNCHANGED storeVars
         /\ UNCHANGED <<client, worker, reviewer, spiReceived, replies>>
<1>1. ASSUME SettleCommit(p) PROVE SettleStep \/ UNCHANGED storeVars
  <2>1. provider[p].callback \in Callback
    BY <1>1, ProviderLocals, ZenonT(60) DEF SettleCommit
  <2>2. Settle(provider[p].callback) \/ UNCHANGED storeVars
    BY <1>1 DEF SettleCommit, Settle
  <2> QED
    BY <2>1, <2>2 DEF SettleStep
<1> QED
  BY <1>1 DEF ProviderStep, SettleRead, SettleCommit, SettleAbort

(* Every step of the switch is a step of the store or leaves it alone.     *)
LEMMA StoreStep ==
  ASSUME TypeOK, [Next]_vars
  PROVE  StoreNext \/ UNCHANGED storeVars
<1>1. ASSUME NEW w \in Workers, WorkerStep(w) PROVE SubmissionStep \/ UNCHANGED storeVars
  BY <1>1, WorkerSubmits
<1>2. Tick => Age
  BY DEF Tick, Age
<1>3. UNCHANGED vars => UNCHANGED storeVars
  BY DEF vars
<1> QED
  BY <1>1, <1>2, <1>3, ClientStore, ReviewerStore, ProviderStore DEF Next, StoreNext

(* Whatever handlers interleave, the memory store under its mutex makes a  *)
(* step of the contract or none: the switch sees of either store driver    *)
(* what StoreContract states, and nothing it does asks for more.           *)
THEOREM MemoryStoreImplements == Spec => StoreSpec
<1>1. TypeOK /\ [Next]_vars => [StoreNext]_storeVars
  BY StoreStep, Zenon
<1>2. Init => StoreInit
  BY DEF Init
<1> QED
  BY <1>1, <1>2, TypeCorrect, PTL DEF Spec, StoreSpec

(* The idempotency index and the rows describe each other, however many    *)
(* first requests race between FindByIdempotency and InsertTransfer.       *)
THEOREM IndexCorrect == Spec => []IndexMatchesRows
  BY MemoryStoreImplements, IndexPromised, PTL

(* The outbox of every transfer is always a history of its status: no      *)
(* commit without its events, no event twice, whatever the interleaving.   *)
THEOREM OutboxCorrect == Spec => []OutboxMatchesStatus
  BY MemoryStoreImplements, OutboxPromised, PTL

(* Claims and retry delays are left only on accepted transfers, although   *)
(* ReleaseSPISubmission never looks at the status.                         *)
THEOREM ClaimsCorrect == Spec => []ClaimOnlyWhileAccepted
  BY MemoryStoreImplements, ClaimsPromised, PTL

(* Every stored callback is the one that settled its transfer.             *)
THEOREM CallbacksCorrect == Spec => []CallbackFacts
  BY MemoryStoreImplements, CallbacksPromised, PTL

-----------------------------------------------------------------------------
(* The concurrent switch implements the documented state machine, since    *)
(* its store keeps the contract.                                           *)
THEOREM LifecycleImplemented == Spec => ImplementsLifecycle
  BY MemoryStoreImplements, LifecyclePromised, PTL

-----------------------------------------------------------------------------
(* The store steps of the API's request handlers, and those that do not    *)
(* use `token'.                                                            *)
RequestStep == InsertStep \/ ReviewStep \/ SettleStep \/ UNCHANGED storeVars

StoreNextBut(token) ==
  \/ RequestStep
  \/ \E id \in TransferIDs, tenant \in Tenants, t \in Tokens, until \in Nat :
       Claim(tenant, id, t, until, until)
  \/ \E id \in TransferIDs, tenant \in Tenants, t \in Tokens \ {token} :
       Record(tenant, id, t) \/ Release(tenant, id, t, RetryDelay)

(* The lease at the store: while a claim runs, only its token can change   *)
(* the row.                                                                *)
LEMMA LeaseKept ==
  ASSUME StoreTypeOK, NEW id \in TransferIDs, NEW token, StoreNextBut(token),
         transfers[id].status = "accepted", transfers[id].spiClaimedUntil > 0,
         transfers[id].spiClaimToken = token
  PROVE  transfers'[id] = transfers[id]
<1>1. ASSUME NEW o \in TransferIDs, OthersSame(o), o # id PROVE transfers'[id] = transfers[id]
  BY <1>1 DEF OthersSame
<1>2. ASSUME NEW o \in TransferIDs, NEW req \in Request, NEW d \in Decisions, Insert(o, req, d)
      PROVE  transfers'[id] = transfers[id]
  BY <1>1, <1>2, InsertEffect, ZenonT(60)
<1>3. ASSUME NEW o \in TransferIDs, NEW tenant \in Tenants, NEW t \in Tokens, NEW until \in Nat,
             Claim(tenant, o, t, until, until)
      PROVE  transfers'[id] = transfers[id]
  <2>1. OthersSame(o) /\ transfers[o].spiClaimedUntil = 0
    BY <1>3, ClaimEffect, ZenonT(60)
  <2> QED
    BY <1>1, <2>1
<1>4. ASSUME NEW o \in TransferIDs, NEW tenant \in Tenants, NEW t \in Tokens \ {token},
             Record(tenant, o, t) \/ Release(tenant, o, t, RetryDelay)
      PROVE  transfers'[id] = transfers[id]
  BY <1>1, <1>4, RecordEffect, ReleaseEffect
<1>5. ASSUME NEW o \in TransferIDs, NEW tenant \in Tenants, NEW next \in {"accepted", "blocked"},
             Review(tenant, o, next)
      PROVE  transfers'[id] = transfers[id]
  BY <1>1, <1>5, ReviewEffect, ZenonT(60)
<1>6. ASSUME NEW cb \in Callback, Settle(cb) PROVE transfers'[id] = transfers[id]
  BY <1>1, <1>6, SettleEffect, ZenonT(60)
<1> QED
  BY <1>2, <1>3, <1>4, <1>5, <1>6 DEF StoreNextBut, RequestStep,
     InsertStep, ReviewStep, SettleStep, storeVars

(* No store step takes a transfer back before acceptance.                  *)
LEMMA AcceptanceKept ==
  ASSUME StoreTypeOK, StoreNext \/ UNCHANGED storeVars, NEW id \in TransferIDs,
         transfers[id].status \in PastAcceptance
  PROVE  transfers'[id].status \in PastAcceptance
<1> USE DEF PastAcceptance
<1>1. ASSUME NEW o \in TransferIDs, OthersSame(o),
             o # id \/ transfers'[o].status \in PastAcceptance
      PROVE  transfers'[id].status \in PastAcceptance
  BY <1>1 DEF OthersSame
<1>2. ASSUME NEW o \in TransferIDs, NEW req \in Request, NEW d \in Decisions, Insert(o, req, d)
      PROVE  transfers'[id].status \in PastAcceptance
  BY <1>1, <1>2, InsertEffect, Zenon
<1>3. ASSUME NEW o \in TransferIDs, NEW tenant \in Tenants, NEW t \in Tokens,
             Submits(tenant, o, t)
      PROVE  transfers'[id].status \in PastAcceptance
  <2>1. ASSUME NEW until \in Nat, NEW left \in Nat, Claim(tenant, o, t, until, left)
        PROVE  transfers'[id].status \in PastAcceptance
    BY <1>1, <2>1, ClaimEffect, ZenonT(60)
  <2>2. CASE Record(tenant, o, t)
    BY <1>1, <2>2, RecordEffect, ZenonT(60)
  <2>3. ASSUME NEW left \in Nat, Release(tenant, o, t, left)
        PROVE  transfers'[id].status \in PastAcceptance
    BY <1>1, <2>3, ReleaseEffect, ZenonT(60)
  <2> QED
    BY <1>3, <2>1, <2>2, <2>3, Zenon DEF Submits
<1>4. ASSUME NEW o \in TransferIDs, NEW tenant \in Tenants, NEW next \in {"accepted", "blocked"},
             Review(tenant, o, next)
      PROVE  transfers'[id].status \in PastAcceptance
  BY <1>1, <1>4, ReviewEffect
<1>5. ASSUME NEW cb \in Callback, Settle(cb) PROVE transfers'[id].status \in PastAcceptance
  BY <1>1, <1>5, SettleEffect, Zenon
<1>6. CASE Age
  BY <1>6, AgeEffect
<1> QED
  BY <1>2, <1>3, <1>4, <1>5, <1>6, Submissions, Zenon DEF StoreNext, InsertStep, ReviewStep,
     SettleStep, storeVars

(* Which store steps, and with which token, a handler makes.               *)
LEMMA OtherHandlers ==
  ASSUME TypeOK,
         \/ \E c \in Clients : ClientStep(c)
         \/ \E r \in Reviewers : ReviewerStep(r)
         \/ \E p \in Providers : ProviderStep(p)
  PROVE  RequestStep /\ UNCHANGED <<worker, spiReceived>>
  BY ClientStore, ReviewerStore, ProviderStore DEF RequestStep

(* A worker's step is, to any token that is not its own, a step that       *)
(* neither records nor releases under that token.                          *)
LEMMA OtherWorkers ==
  ASSUME TypeOK, NEW w \in Workers, WorkerStep(w), NEW token, token # worker[w].token
  PROVE  StoreNextBut(token)
  BY WorkerStore DEF StoreNextBut, RequestStep

-----------------------------------------------------------------------------
(* The facts of one worker, without the token comparison.                  *)
FactsOf(w) ==
  /\ Working(w) => transfers[worker[w].id].status \in PastAcceptance
  /\ worker[w].pc = "record" => worker[w].id \in spiReceived
  /\ Working(w) /\ worker[w].until > 0 =>
       /\ transfers[worker[w].id].status = "accepted"
       /\ transfers[worker[w].id].spiClaimToken = worker[w].token
       /\ transfers[worker[w].id].spiClaimedUntil = worker[w].until

TokensDistinct ==
  \A w \in Workers : \A o \in Workers \ {w} :
    worker[w].token # None => worker[o].token # worker[w].token

(* An idle worker (no SubmitToSPI call in progress) holds no claim token.  *)
LEMMA IdleFields == IdleWorker.pc = "idle" /\ IdleWorker.token = None
  BY DEF IdleWorker

(* A SubmitToSPI call in progress names a tenant, a transfer, its token    *)
(* and the expiry of its claim.                                            *)
LEMMA BusyFields ==
  ASSUME TypeOK, NEW w \in Workers, worker[w].pc # "idle"
  PROVE  /\ worker[w].tenant \in Tenants /\ worker[w].id \in TransferIDs
         /\ worker[w].token \in Tokens /\ worker[w].until \in 0..ClaimTTL
<1>1. worker[w] \in WorkerState
  BY DEF TypeOK
<1>2. worker[w] # IdleWorker
  BY IdleFields, SMTT(30)
<1> QED
  BY <1>1, <1>2 DEF WorkerState

(* A worker keeps its facts through any step that leaves it alone and does *)
(* not use its token.                                                      *)
LEMMA Bystander ==
  ASSUME TypeOK, NEW w \in Workers, FactsOf(w), worker'[w] = worker[w],
         StoreNextBut(worker[w].token), StoreNext \/ UNCHANGED storeVars,
         spiReceived \subseteq spiReceived'
  PROVE  FactsOf(w)'
<1>1. StoreTypeOK
  BY DEF TypeOK
<1>2. Working(w) => worker[w].id \in TransferIDs
  BY WorkerLocals, SMTT(30) DEF Working
<1>3. Working(w) => transfers'[worker[w].id].status \in PastAcceptance
  BY <1>1, <1>2, AcceptanceKept, SMTT(30) DEF FactsOf
<1>4. Working(w) /\ worker[w].until > 0 => transfers'[worker[w].id] = transfers[worker[w].id]
  BY <1>1, <1>2, LeaseKept DEF FactsOf
<1> QED
  BY <1>3, <1>4 DEF FactsOf, Working

(* What a worker relies on between two store calls holds: only accepted    *)
(* transfers are submitted, and a running lease is its holder's alone.     *)
THEOREM WorkersCorrect == Spec => []WorkerFacts
<1>1. Init => WorkerFacts
  <2> SUFFICES ASSUME Init PROVE WorkerFacts
    OBVIOUS
  <2>1. \A w \in Workers : worker[w].pc = "idle" /\ worker[w].token = None
    BY IdleFields DEF Init
  <2> QED
    BY <2>1 DEF WorkerFacts, Working
<1>2. TypeOK /\ WorkerFacts /\ [Next]_vars => WorkerFacts'
  <2> SUFFICES ASSUME TypeOK, WorkerFacts, [Next]_vars PROVE WorkerFacts'
    OBVIOUS
  <2>1. /\ \A w \in Workers : FactsOf(w)
        /\ TokensDistinct
    BY SMTT(30) DEF WorkerFacts, FactsOf, TokensDistinct
  <2>2. SUFFICES (\A w \in Workers : FactsOf(w)') /\ TokensDistinct'
    BY <2>2 DEF WorkerFacts, FactsOf, TokensDistinct, Working
  <2>3. StoreNext \/ UNCHANGED storeVars
    BY StoreStep
  <2>4. CASE \/ \E c \in Clients : ClientStep(c)
             \/ \E r \in Reviewers : ReviewerStep(r)
             \/ \E p \in Providers : ProviderStep(p)
    <3>1. UNCHANGED <<worker, spiReceived>> /\ \A token : StoreNextBut(token)
      BY <2>4, OtherHandlers DEF StoreNextBut
    <3>2. \A w \in Workers : FactsOf(w)'
      BY <2>1, <2>3, <3>1, Bystander
    <3> QED
      BY <2>1, <3>1, <3>2 DEF TokensDistinct
  <2>5. ASSUME NEW w \in Workers, WorkerStep(w)
        PROVE  (\A o \in Workers : FactsOf(o)') /\ TokensDistinct'
    <3>1. ASSUME NEW o \in Workers, o # w PROVE FactsOf(o)'
      <4>1. worker'[o] = worker[o] /\ spiReceived \subseteq spiReceived'
        BY <2>5, <3>1, WorkerStore, Zenon
      <4>2. CASE worker[o].token # None
        <5>1. worker[o].token # worker[w].token
          BY <2>1, <3>1, <4>2 DEF TokensDistinct
        <5>2. StoreNextBut(worker[o].token)
          BY <2>5, <5>1, OtherWorkers, SMTT(30)
        <5> QED
          BY <2>1, <2>3, <4>1, <5>2, Bystander
      <4>3. CASE worker[o].token = None
        BY <4>1, <4>3 DEF TypeOK, WorkerState, IdleWorker, FactsOf, Working
      <4> QED
        BY <4>2, <4>3
    <3>2. FactsOf(w)' /\ TokensDistinct'
      <4> USE DEF TypeOK
      <4>1. ASSUME NEW tenant \in Tenants, NEW id \in TransferIDs, SubmitStart(w, tenant, id)
            PROVE  FactsOf(w)' /\ TokensDistinct'
        <5>1. PICK token \in Tokens :
                /\ \A o \in Workers : worker[o].token # token
                /\ worker' = [worker EXCEPT ![w] =
                     [pc |-> "claim", tenant |-> tenant, id |-> id, token |-> token,
                      until |-> ClaimTTL]]
          BY <4>1, Zenon DEF SubmitStart, FreshToken
        <5>2. /\ worker'[w].pc = "claim" /\ worker'[w].token = token
              /\ \A o \in Workers \ {w} : worker'[o] = worker[o]
          BY <5>1, SMTT(30)
        <5>3. FactsOf(w)'
          BY <5>2 DEF FactsOf, Working
        <5>4. TokensDistinct'
          BY <2>1, <5>1, <5>2 DEF TokensDistinct
        <5> QED
          BY <5>3, <5>4
      <4>2. ASSUME SubmitClaim(w) PROVE FactsOf(w)' /\ TokensDistinct'
        <5> DEFINE me == worker[w]
        <5>1. /\ me.tenant \in Tenants /\ me.id \in TransferIDs
              /\ me.token \in Tokens /\ me.until \in Nat
          BY <4>2, WorkerLocals, ZenonT(60) DEF SubmitClaim
        <5>2. CASE ClaimSucceeds(me.tenant, me.id, me.until)
          <6>1. Claim(me.tenant, me.id, me.token, me.until, me.until)
            BY <4>2, <5>2 DEF SubmitClaim, Claim
          <6>2. worker' = [worker EXCEPT ![w].pc = "submit"]
            BY <4>2, <5>2 DEF SubmitClaim
          <6>3. /\ transfers'[me.id].status = "accepted"
                /\ transfers'[me.id].spiClaimToken = me.token
                /\ transfers'[me.id].spiClaimedUntil = me.until
            <7>1. ASSUME NEW id \in TransferIDs, NEW token \in Tokens, NEW tenant, NEW until \in Nat,
                         Claim(tenant, id, token, until, until)
                  PROVE  /\ transfers'[id].status = "accepted"
                         /\ transfers'[id].spiClaimToken = token
                         /\ transfers'[id].spiClaimedUntil = until
              BY <7>1, ClaimEffect
            <7> HIDE DEF me, TypeOK
            <7> QED
              BY <5>1, <6>1, <7>1, SMTT(30)
          <6>4. FactsOf(w)'
            <7>1. /\ worker'[w].pc = "submit" /\ worker'[w].id = me.id
                  /\ worker'[w].token = me.token /\ worker'[w].until = me.until
              BY <6>2 DEF WorkerState, IdleWorker
            <7> QED
              BY <6>3, <7>1, Zenon DEF FactsOf, PastAcceptance
          <6>5. \A o \in Workers : worker'[o].token = worker[o].token
            BY <6>2 DEF WorkerState, IdleWorker
          <6> QED
            BY <2>1, <6>4, <6>5 DEF TokensDistinct
        <5>3. CASE ~ClaimSucceeds(me.tenant, me.id, me.until)
          BY <2>1, <4>2, <5>3, SMTT(30) DEF SubmitClaim, IdleWorker, FactsOf, Working, TokensDistinct
        <5> QED
          BY <5>2, <5>3
      <4>3. ASSUME SubmitAccepted(w) \/ SubmitFailed(w) PROVE FactsOf(w)' /\ TokensDistinct'
        <5>1. \A o \in Workers : worker'[o].token = worker[o].token
          BY <4>3 DEF SubmitAccepted, SubmitFailed, WorkerState, IdleWorker
        <5>2. /\ worker'[w].id = worker[w].id /\ worker'[w].until = worker[w].until
              /\ worker'[w].pc = "record" => worker[w].id \in spiReceived'
          BY <4>3 DEF SubmitAccepted, SubmitFailed, WorkerState, IdleWorker
        <5>3. worker[w].pc = "submit" /\ UNCHANGED transfers
          BY <4>3, SMTT(30) DEF SubmitAccepted, SubmitFailed, storeVars
        <5>4. FactsOf(w)'
          BY <2>1, <5>1, <5>2, <5>3, Zenon DEF FactsOf, Working
        <5> QED
          BY <2>1, <5>1, <5>4 DEF TokensDistinct
      <4>4. ASSUME SubmitRecord(w) \/ SubmitRelease(w) \/ SubmitAbort(w)
            PROVE  FactsOf(w)' /\ TokensDistinct'
        <5>1. worker' = [worker EXCEPT ![w] = IdleWorker]
          BY <4>4 DEF SubmitRecord, SubmitRelease, SubmitAbort
        <5>2. /\ worker'[w].pc = "idle" /\ worker'[w].token = None
              /\ \A o \in Workers \ {w} : worker'[o] = worker[o]
          BY <5>1, IdleFields
        <5>3. FactsOf(w)'
          BY <5>2, ZenonT(60) DEF FactsOf, Working
        <5>4. TokensDistinct'
          BY <2>1, <5>2, ZenonT(60) DEF TokensDistinct
        <5> QED
          BY <5>3, <5>4
      <4> QED
        BY <2>5, <4>1, <4>2, <4>3, <4>4 DEF WorkerStep
    <3> QED
      BY <3>1, <3>2
  <2>6. CASE Tick
    <3>1. Age
      BY <2>6 DEF Tick, Age
    <3>2. \A w \in Workers : /\ worker'[w].pc = worker[w].pc /\ worker'[w].id = worker[w].id
                             /\ worker'[w].token = worker[w].token
                             /\ worker'[w].until = Elapse(worker[w].until)
                             /\ worker[w].until \in Nat
      BY <2>6, SMTT(30) DEF Tick, TypeOK, WorkerState, IdleWorker
    <3>3. ASSUME NEW w \in Workers PROVE FactsOf(w)'
      <4>1. Working(w) => worker[w].id \in TransferIDs
        BY WorkerLocals DEF Working
      <4>2. StoreTypeOK
        BY SMTT(30) DEF TypeOK
      <4>3. Working(w) =>
              /\ transfers'[worker[w].id].status = transfers[worker[w].id].status
              /\ transfers'[worker[w].id].spiClaimToken = transfers[worker[w].id].spiClaimToken
              /\ transfers'[worker[w].id].spiClaimedUntil
                   = Elapse(transfers[worker[w].id].spiClaimedUntil)
        BY <3>1, <4>1, <4>2, AgeEffect
      <4>4. worker'[w].until > 0 => worker[w].until > 0
        BY <3>2 DEF Elapse
      <4>5. spiReceived' = spiReceived
        BY <2>6, SMTT(30) DEF Tick
      <4> QED
        BY <2>1, <3>2, <4>3, <4>4, <4>5 DEF FactsOf, Working
    <3> QED
      BY <2>1, <3>2, <3>3 DEF TokensDistinct
  <2>7. CASE UNCHANGED vars
    BY <2>1, <2>7 DEF vars, handlerVars, storeVars, FactsOf, Working, TokensDistinct
  <2> QED
    BY <2>4, <2>5, <2>6, <2>7 DEF Next
<1> QED
  BY <1>1, <1>2, TypeCorrect, PTL DEF Spec

(* While a lease runs, its holder is the only worker between claim and     *)
(* record for the transfer, and the transfer cannot change under it.       *)
THEOREM LeasesExclusive == Spec => []LeaseExclusive
<1>1. TypeOK /\ WorkerFacts => LeaseExclusive
  <2> SUFFICES ASSUME TypeOK, WorkerFacts, NEW w \in Workers, Working(w), worker[w].until > 0
               PROVE  /\ transfers[worker[w].id].status = "accepted"
                      /\ transfers[worker[w].id].spiClaimToken = worker[w].token
                      /\ \A o \in Workers \ {w} :
                           Working(o) /\ worker[o].id = worker[w].id => worker[o].until = 0
    BY DEF LeaseExclusive
  <2>1. \A o \in Workers : Working(o) => worker[o].token # None /\ worker[o].until \in Nat
    BY DEF TypeOK, WorkerState, IdleWorker, Working
  <2> QED
    BY <2>1, SMTT(30) DEF WorkerFacts
<1> QED
  BY <1>1, TypeCorrect, WorkersCorrect, PTL

-----------------------------------------------------------------------------
(* A transfer the SPI has received was accepted and is never blocked or    *)
(* under review; a transfer carries its SPI message id exactly from the    *)
(* recorded submission on, and the SPI has received it by then.            *)
THEOREM SubmissionsSafe == Spec => []SubmissionSafety
<1> DEFINE
      SafeRow(id) ==
        /\ id \in spiReceived => transfers[id].status \in PastAcceptance
        /\ transfers[id].status \in {"approved", "settled", "rejected"} =>
             id \in spiReceived /\ transfers[id].spiMessageID = MessageOf(id)
        /\ transfers[id].spiMessageID # None =>
             transfers[id].status \in {"approved", "settled", "rejected"}
<1>1. SubmissionSafety <=> \A id \in TransferIDs : SafeRow(id)
  BY DEF SubmissionSafety, PastAcceptance
<1>2. Init => \A id \in TransferIDs : SafeRow(id)
  BY DEF Init, StoreInit, NoTransfer
<1>3. TypeOK /\ WorkerFacts /\ (\A id \in TransferIDs : SafeRow(id)) /\ [Next]_vars
        => \A id \in TransferIDs : SafeRow(id)'
  <2> SUFFICES ASSUME TypeOK, StoreTypeOK, WorkerFacts, \A id \in TransferIDs : SafeRow(id),
                      [Next]_vars
               PROVE  \A id \in TransferIDs : SafeRow(id)'
    BY Zenon DEF TypeOK
  <2>1. ASSUME NEW id \in TransferIDs, OthersSame(id), SafeRow(id)', UNCHANGED spiReceived
        PROVE  \A o \in TransferIDs : SafeRow(o)'
    BY <2>1 DEF OthersSame
  <2>2. ASSUME RequestStep, UNCHANGED spiReceived PROVE \A id \in TransferIDs : SafeRow(id)'
    <3>1. ASSUME NEW id \in TransferIDs, NEW req \in Request, NEW d \in Decisions,
                 Insert(id, req, d)
          PROVE  \A o \in TransferIDs : SafeRow(o)'
      <4> HIDE DEF SafeRow
      <4>1. /\ OthersSame(id) /\ transfers[id].status = "absent"
            /\ transfers'[id].status = d /\ transfers'[id].spiMessageID = None
        BY <3>1, InsertEffect, ZenonT(60)
      <4>2. SafeRow(id)'
        BY <2>2, <4>1, SMTT(30) DEF Decisions, PastAcceptance, SafeRow
      <4> QED
        BY <2>1, <2>2, <4>1, <4>2, ZenonT(60)
    <3>2. ASSUME NEW id \in TransferIDs, NEW tenant \in Tenants,
                 NEW next \in {"accepted", "blocked"}, Review(tenant, id, next)
          PROVE  \A o \in TransferIDs : SafeRow(o)'
      <4>1. /\ OthersSame(id) /\ transfers[id].status = "review"
            /\ transfers'[id].status = next
            /\ transfers'[id].spiMessageID = transfers[id].spiMessageID
        BY <3>2, ReviewEffect, SMTT(30)
      <4>2. SafeRow(id)'
        BY <2>2, <4>1, SMTT(30) DEF PastAcceptance
      <4> QED
        BY <2>1, <2>2, <4>1, <4>2, SMTT(30)
    <3>3. ASSUME NEW cb \in Callback, Settle(cb) PROVE \A o \in TransferIDs : SafeRow(o)'
      <4> DEFINE id == cb.transfer
      <4>1. /\ id \in TransferIDs /\ OthersSame(id) /\ transfers[id].status = "approved"
            /\ transfers'[id].status \in {"settled", "rejected"}
            /\ transfers'[id].spiMessageID = transfers[id].spiMessageID
        BY <3>3, SettleEffect, ZenonT(60)
      <4> HIDE DEF id
      <4>2. SafeRow(id)'
        BY <2>2, <4>1 DEF PastAcceptance
      <4> QED
        BY <2>1, <2>2, <4>1, <4>2
    <3> QED
      BY <2>2, <3>1, <3>2, <3>3, ZenonT(60)
         DEF RequestStep, InsertStep, ReviewStep, SettleStep, storeVars
  <2>3. CASE \/ \E c \in Clients : ClientStep(c)
             \/ \E r \in Reviewers : ReviewerStep(r)
             \/ \E p \in Providers : ProviderStep(p)
    BY <2>2, <2>3, OtherHandlers, ZenonT(60)
  <2>4. ASSUME NEW w \in Workers, WorkerStep(w) PROVE \A id \in TransferIDs : SafeRow(id)'
    <3> DEFINE me == worker[w]
    <3>1. me.pc # "idle" => /\ me.tenant \in Tenants /\ me.id \in TransferIDs
                            /\ me.token \in Tokens /\ me.until \in Nat
      BY BusyFields, SMTT(30)
    <3>2. /\ me.pc = "submit" => transfers[me.id].status \in PastAcceptance
          /\ me.pc = "record" => me.id \in spiReceived
      BY DEF WorkerFacts, Working
    <3>3. CASE \/ \E tenant \in Tenants, id \in TransferIDs : SubmitStart(w, tenant, id)
               \/ SubmitAbort(w)
      BY <3>3, ZenonT(60) DEF SubmitStart, SubmitAbort, storeVars
    <3>4. CASE SubmitAccepted(w) \/ SubmitFailed(w)
      <4>1. /\ me.pc = "submit" /\ UNCHANGED transfers
            /\ spiReceived' \in {spiReceived, spiReceived \cup {me.id}}
        BY <3>4 DEF SubmitAccepted, SubmitFailed, storeVars
      <4> QED
        BY <3>1, <3>2, <4>1
    <3>5. CASE SubmitClaim(w) \/ SubmitRelease(w)
      <4>1. /\ me.pc # "idle" /\ UNCHANGED spiReceived
            /\ \/ Claim(me.tenant, me.id, me.token, me.until, me.until)
               \/ Release(me.tenant, me.id, me.token, RetryDelay)
               \/ UNCHANGED storeVars
        BY <3>5, SMTT(30) DEF SubmitClaim, SubmitRelease, Claim, Release
      <4> HIDE DEF me
      <4>2. CASE UNCHANGED storeVars
        BY <4>1, <4>2, Zenon DEF storeVars
      <4>3. CASE \/ Claim(me.tenant, me.id, me.token, me.until, me.until)
                 \/ Release(me.tenant, me.id, me.token, RetryDelay)
        <5>1. /\ OthersSame(me.id) /\ transfers'[me.id].status = transfers[me.id].status
              /\ transfers'[me.id].spiMessageID = transfers[me.id].spiMessageID
          <6>1. CASE Claim(me.tenant, me.id, me.token, me.until, me.until)
            BY <3>1, <4>1, <6>1, ClaimEffect, ZenonT(60)
          <6>2. CASE Release(me.tenant, me.id, me.token, RetryDelay)
            BY <3>1, <4>1, <6>2, ReleaseEffect, ZenonT(60)
          <6> QED
            BY <4>3, <6>1, <6>2, Zenon
        <5> QED
          BY <2>1, <3>1, <4>1, <5>1, ZenonT(60)
      <4> QED
        BY <4>1, <4>2, <4>3, Zenon
    <3>6. CASE SubmitRecord(w)
      <4>1. /\ me.pc = "record" /\ UNCHANGED spiReceived
            /\ Record(me.tenant, me.id, me.token) \/ UNCHANGED storeVars
        BY <3>6, SMTT(30) DEF SubmitRecord, Record
      <4> HIDE DEF me
      <4>2. CASE UNCHANGED storeVars
        BY <4>1, <4>2 DEF storeVars
      <4>3. CASE Record(me.tenant, me.id, me.token)
        <5>1. /\ OthersSame(me.id) /\ transfers'[me.id].status = "approved"
              /\ transfers'[me.id].spiMessageID = MessageOf(me.id)
          BY <3>1, <4>1, <4>3, RecordEffect, Zenon
        <5> QED
          BY <2>1, <3>1, <3>2, <4>1, <5>1, ZenonT(60) DEF PastAcceptance
      <4> QED
        BY <4>1, <4>2, <4>3, SMTT(30)
    <3> QED
      BY <2>4, <3>3, <3>4, <3>5, <3>6, ZenonT(60) DEF WorkerStep
  <2>5. CASE Tick
    <3>1. Age /\ UNCHANGED spiReceived
      BY <2>5 DEF Tick, Age
    <3> QED
      BY <3>1, AgeEffect, Zenon
  <2>6. CASE UNCHANGED vars
    BY <2>6, Zenon DEF vars, storeVars
  <2> QED
    BY <2>3, <2>4, <2>5, <2>6, ZenonT(60) DEF Next
<1>4. Init => SubmissionSafety
  BY <1>1, <1>2, SMTT(30)
<1>5. TypeOK /\ WorkerFacts /\ SubmissionSafety /\ [Next]_vars => SubmissionSafety'
  BY <1>3 DEF SubmissionSafety, PastAcceptance
<1> QED
  BY <1>4, <1>5, TypeCorrect, WorkersCorrect, PTL DEF Spec

-----------------------------------------------------------------------------
(* Only clients' steps are not updates.                                    *)
LEMMA OthersUpdate ==
  ASSUME TypeOK,
         \/ \E w \in Workers : WorkerStep(w)
         \/ \E r \in Reviewers : ReviewerStep(r)
         \/ \E p \in Providers : ProviderStep(p)
         \/ Tick
         \/ UNCHANGED vars
  PROVE  UpdateStep /\ UNCHANGED <<client, replies>>
<1>1. ASSUME NEW w \in Workers, WorkerStep(w)
      PROVE  UpdateStep /\ UNCHANGED <<client, replies>>
  BY <1>1, WorkerStore, WorkerSubmits DEF UpdateStep
<1>2. ASSUME NEW r \in Reviewers, ReviewerStep(r)
      PROVE  UpdateStep /\ UNCHANGED <<client, replies>>
  BY <1>2, ReviewerStore DEF UpdateStep
<1>3. ASSUME NEW p \in Providers, ProviderStep(p)
      PROVE  UpdateStep /\ UNCHANGED <<client, replies>>
  BY <1>3, ProviderStore DEF UpdateStep
<1>4. Tick => UpdateStep /\ UNCHANGED <<client, replies>>
  BY DEF Tick, Age, UpdateStep
<1>5. UNCHANGED vars => UpdateStep /\ UNCHANGED <<client, replies>>
  BY SMTT(30) DEF vars, handlerVars, UpdateStep
<1> QED
  BY <1>1, <1>2, <1>3, <1>4, <1>5, SMTT(30)

-----------------------------------------------------------------------------
(* Between its lookup and its insert a create still holds an unused id, so *)
(* InsertTransfer refuses it only when its key is taken, and the repeated  *)
(* lookup then finds the winner.                                           *)
THEOREM ClientsCorrect == Spec => []ClientFacts
<1>1. Init => ClientFacts
  BY DEF Init, ClientFacts, IdleClient
<1>2. TypeOK /\ ClientFacts /\ [Next]_vars => ClientFacts'
  <2> SUFFICES ASSUME TypeOK, StoreTypeOK, ClientFacts, [Next]_vars PROVE ClientFacts'
    BY SMTT(30) DEF TypeOK
  <2> USE DEF FindByIdempotency, Exists
  <2>1. \A c \in Clients :
          /\ client[c].pc \in {"insert", "refind"} =>
               /\ client[c].req.tenant \in Tenants /\ client[c].req.key \in Keys
               /\ client[c].req \in Request
               /\ client[c].id \in TransferIDs /\ client[c].decision \in Decisions
          /\ client[c].pc \in {"idle", "decide"} => client[c].id = None
    BY SMTT(30) DEF TypeOK, ClientState, IdleClient, Request
  <2>2. ASSUME UNCHANGED client,
               \A id \in TransferIDs :
                 transfers[id].status = "absent" => transfers'[id].status = "absent",
               UNCHANGED idempotency
        PROVE  ClientFacts'
    BY <2>1, <2>2, SMTT(30) DEF ClientFacts
  <2>3. ASSUME NEW c \in Clients, UNCHANGED storeVars,
               \A o \in Clients \ {c} : client'[o] = client[o],
               client'[c].pc \notin {"insert", "refind"}
        PROVE  ClientFacts'
    BY <2>1, <2>3, SMTT(30) DEF ClientFacts, storeVars
  <2>4. ASSUME NEW c \in Clients, NEW req \in Request, CreateFind(c, req) PROVE ClientFacts'
    <3>1. CASE UNCHANGED client
      BY <2>2, <2>4, <3>1, SMTT(30) DEF CreateFind, storeVars
    <3>2. CASE client' = [client EXCEPT ![c] =
                 [pc |-> "decide", req |-> req, id |-> None, decision |-> None]]
      BY <2>3, <2>4, <3>2, SMTT(30) DEF CreateFind, TypeOK
    <3> QED
      BY <2>4, <3>1, <3>2 DEF CreateFind
  <2>5. ASSUME NEW c \in Clients, CreateDecide(c) PROVE ClientFacts'
    <3>1. PICK decision \in Decisions, id \in TransferIDs :
            /\ transfers[id].status = "absent"
            /\ \A o \in Clients : client[o].id # id
            /\ client' = [client EXCEPT ![c].pc = "insert", ![c].id = id, ![c].decision = decision]
      BY <2>5, Zenon DEF CreateDecide
    <3>2. /\ client'[c].pc = "insert" /\ client'[c].id = id
          /\ \A o \in Clients \ {c} : client'[o] = client[o]
      BY <3>1 DEF TypeOK, ClientState, IdleClient
    <3>3. UNCHANGED <<transfers, idempotency>>
      BY <2>5 DEF CreateDecide, storeVars
    <3> QED
      <4>1. \A o \in Clients : client'[o].pc = "insert" =>
              transfers'[client'[o].id].status = "absent"
        BY <3>1, <3>2, <3>3, ZenonT(60) DEF ClientFacts
      <4>2. \A o1, o2 \in Clients :
              o1 # o2 /\ client'[o1].pc = "insert" /\ client'[o2].pc = "insert" =>
                client'[o1].id # client'[o2].id
        <5>1. \A o \in Clients : client[o].id # id
          BY <3>1
        <5>2. \A o1, o2 \in Clients :
                o1 # o2 /\ client[o1].pc = "insert" /\ client[o2].pc = "insert" =>
                  client[o1].id # client[o2].id
          BY Zenon DEF ClientFacts
        <5> QED
          BY <3>2, <5>1, <5>2
      <4>3. \A o \in Clients : client'[o].pc = "refind" =>
              idempotency'[<<client'[o].req.tenant, client'[o].req.key>>] # None
        BY <3>2, <3>3 DEF ClientFacts
      <4> QED
        BY <4>1, <4>2, <4>3 DEF ClientFacts
  <2>6. ASSUME NEW c \in Clients, CreateInsert(c) PROVE ClientFacts'
    <3> DEFINE me == client[c]
               tr == NewTransfer(me.req, me.decision)
    <3>1. /\ me.pc = "insert" /\ me.req \in Request /\ me.id \in TransferIDs
          /\ me.decision \in Decisions
          /\ tr.tenant = me.req.tenant /\ tr.key = me.req.key /\ tr.status = me.decision
      BY <2>1, <2>6, NewTransferTyped DEF CreateInsert
    <3>2. CASE InsertConflict(me.id, tr)
      <4>1. idempotency[<<me.req.tenant, me.req.key>>] # None
        BY <2>6, <3>1, <3>2 DEF InsertConflict, ClientFacts
      <4>2. /\ client' = [client EXCEPT ![c].pc = "refind"]
            /\ UNCHANGED <<transfers, idempotency>>
        BY <2>6, <3>2 DEF CreateInsert, storeVars
      <4>3. /\ client'[c].pc = "refind" /\ client'[c].req = me.req
            /\ \A o \in Clients \ {c} : client'[o] = client[o]
        BY <4>2, SMTT(30) DEF TypeOK, ClientState, IdleClient
      <4> QED
        BY <2>1, <4>1, <4>2, <4>3, SMTT(30) DEF ClientFacts
    <3>3. CASE ~InsertConflict(me.id, tr)
      <4>1. /\ Insert(me.id, me.req, me.decision)
            /\ client' = [client EXCEPT ![c] = IdleClient]
        BY <2>6, <3>1, <3>3, SMTT(30) DEF CreateInsert, Insert
      <4>2. /\ client'[c].pc = "idle"
            /\ \A o \in Clients \ {c} : client'[o] = client[o]
        BY <4>1, SMTT(30) DEF TypeOK, IdleClient
      <4>3. /\ OthersSame(me.id)
            /\ idempotency' = [idempotency EXCEPT ![<<me.req.tenant, me.req.key>>] = me.id]
        <5> HIDE DEF me
        <5> QED
          BY <3>1, <4>1, InsertEffect
      <4>4. \A x \in Tenants, y \in Keys :
              idempotency[<<x, y>>] # None => idempotency'[<<x, y>>] # None
        <5>1. InsertStep
          BY <3>1, <4>1 DEF InsertStep
        <5>2. \A x \in Tenants, y \in Keys :
                idempotency[<<x, y>>] # None => idempotency'[<<x, y>>] = idempotency[<<x, y>>]
          BY <5>1, RowsAndIndexKept
        <5> QED
          BY <5>2, SMTT(30)
      <4>5. \A o \in Clients \ {c} : client[o].pc = "insert" => client[o].id # me.id
        BY <3>1, ZenonT(60) DEF ClientFacts
      <4> QED
        BY <2>1, <4>2, <4>3, <4>4, <4>5 DEF ClientFacts, OthersSame
    <3> QED
      BY <3>2, <3>3
  <2>7. ASSUME NEW c \in Clients, CreateRefind(c) \/ CreateAbort(c) PROVE ClientFacts'
    BY <2>3, <2>7 DEF CreateRefind, CreateAbort, TypeOK, IdleClient
  <2>8. CASE \/ \E w \in Workers : WorkerStep(w)
             \/ \E r \in Reviewers : ReviewerStep(r)
             \/ \E p \in Providers : ProviderStep(p)
             \/ Tick
             \/ UNCHANGED vars
    <3>1. UpdateStep /\ UNCHANGED client
      BY <2>8, OthersUpdate
    <3>2. /\ UNCHANGED idempotency
          /\ \A id \in TransferIDs :
               transfers[id].status = "absent" => transfers'[id].status = "absent"
      BY <3>1, UpdatesKeepRows
    <3> QED
      BY <2>2, <3>1, <3>2
  <2> QED
    BY <2>4, <2>5, <2>6, <2>7, <2>8 DEF Next, ClientStep
<1> QED
  BY <1>1, <1>2, TypeCorrect, PTL DEF Spec

-----------------------------------------------------------------------------
(* Every answer CreateTransfer ever gave stays true: same key, same        *)
(* transfer, and a conflict only for another fingerprint.                  *)
THEOREM RepliesCorrect == Spec => []RepliesAgree
<1> DEFINE
      True(r) ==
        LET id == idempotency[<<r.req.tenant, r.req.key>>] IN
        id # None /\ r.result = IF transfers[id].hash = r.req.hash THEN id ELSE None
      TrueNext(r) ==
        LET id == idempotency'[<<r.req.tenant, r.req.key>>] IN
        id # None /\ r.result = IF transfers'[id].hash = r.req.hash THEN id ELSE None
<1>1. RepliesAgree <=> \A r \in replies : True(r)
  BY DEF RepliesAgree, FindByIdempotency
<1>2. Init => RepliesAgree
  BY DEF Init, RepliesAgree
<1>3. TypeOK /\ IndexMatchesRows /\ ClientFacts /\ RepliesAgree /\ [Next]_vars => RepliesAgree'
  <2> SUFFICES ASSUME TypeOK, StoreTypeOK, IndexMatchesRows, ClientFacts, RepliesAgree,
                      [Next]_vars
               PROVE  \A r \in replies' : TrueNext(r)
    BY <1>1, ZenonT(60) DEF TypeOK, RepliesAgree, FindByIdempotency
  <2> HIDE DEF True, TrueNext
  <2>1. ASSUME InsertStep \/ UpdateStep, NEW r \in [req : Request, result : TransferIDs \cup {None}],
               True(r)
        PROVE  TrueNext(r)
    <3>1. r.req.tenant \in Tenants /\ r.req.key \in Keys
      BY SMTT(30) DEF Request
    <3> DEFINE id == idempotency[<<r.req.tenant, r.req.key>>]
    <3>2. id # None /\ id \in TransferIDs
      BY <2>1, <3>1, SMTT(30) DEF True, StoreTypeOK
    <3>3. transfers[id].status # "absent"
      BY <3>1, <3>2, SMTT(30) DEF IndexMatchesRows, FindByIdempotency, GetTransfer, Exists
    <3> HIDE DEF id
    <3>4. SameIdentity(id)
      BY <2>1, <3>2, <3>3, RowsAndIndexKept, SMTT(30)
    <3>5. idempotency'[<<r.req.tenant, r.req.key>>] = id
      <4>1. idempotency[<<r.req.tenant, r.req.key>>] # None
        BY <3>2, SMTT(30) DEF id
      <4> QED
        BY <2>1, <3>1, <4>1, RowsAndIndexKept, SMTT(30) DEF id
    <3> QED
      BY <2>1, <3>2, <3>4, <3>5 DEF True, TrueNext, SameIdentity, id
  <2>2. \A r \in replies : True(r) /\ r \in [req : Request, result : TransferIDs \cup {None}]
    BY DEF TypeOK, RepliesAgree, True, FindByIdempotency
  <2>3. ASSUME InsertStep \/ UpdateStep, NEW new, TrueNext(new), replies' \subseteq replies \cup {new}
        PROVE  \A r \in replies' : TrueNext(r)
    BY <2>1, <2>2, <2>3
  <2>4. ASSUME InsertStep \/ UpdateStep, UNCHANGED replies
        PROVE  \A r \in replies' : TrueNext(r)
    BY <2>1, <2>2, <2>4, SMTT(30)
  <2>5. ASSUME UNCHANGED storeVars, NEW req \in Request,
               idempotency[<<req.tenant, req.key>>] # None,
               replies' = replies \cup {Answer(req, FindByIdempotency(req.tenant, req.key))}
        PROVE  \A r \in replies' : TrueNext(r)
    <3> DEFINE new == Answer(req, FindByIdempotency(req.tenant, req.key))
    <3>1. TrueNext(new)
      BY <2>5 DEF True, TrueNext, Answer, FindByIdempotency, storeVars
    <3> QED
      BY <2>3, <2>5, <3>1, SMTT(30) DEF UpdateStep
  <2>6. ASSUME NEW c \in Clients, ClientStep(c) PROVE \A r \in replies' : TrueNext(r)
    <3>1. ASSUME NEW req \in Request, CreateFind(c, req) PROVE \A r \in replies' : TrueNext(r)
      BY <2>4, <2>5, <3>1, SMTT(30) DEF CreateFind, FindByIdempotency, UpdateStep
    <3>2. CASE CreateDecide(c) \/ CreateAbort(c)
      BY <2>4, <3>2, Zenon DEF CreateDecide, CreateAbort, UpdateStep
    <3>3. CASE CreateRefind(c)
      <4>1. client[c].req \in Request
        BY <3>3, ClientLocals, ZenonT(60) DEF CreateRefind
      <4>2. idempotency[<<client[c].req.tenant, client[c].req.key>>] # None
        BY <3>3, ZenonT(60) DEF ClientFacts, CreateRefind, FindByIdempotency
      <4> QED
        BY <2>5, <3>3, <4>1, <4>2, SMTT(30) DEF CreateRefind
    <3>4. CASE CreateInsert(c)
      <4> DEFINE me == client[c]
                 new == [req |-> me.req, result |-> me.id]
      <4>1. InsertStep \/ UpdateStep
        BY <2>6, ClientStore DEF UpdateStep
      <4>2. CASE InsertConflict(me.id, NewTransfer(me.req, me.decision))
        BY <2>4, <3>4, <4>1, <4>2, SMTT(30) DEF CreateInsert
      <4>3. CASE ~InsertConflict(me.id, NewTransfer(me.req, me.decision))
        <5>1. /\ me.req \in Request /\ me.id \in TransferIDs /\ me.decision \in Decisions
          BY <3>4, ClientLocals, ZenonT(60) DEF CreateInsert
        <5>2. NewTransfer(me.req, me.decision).status = me.decision
          BY <5>1, NewTransferTyped
        <5>3. Insert(me.id, me.req, me.decision) /\ replies' = replies \cup {new}
          BY <3>4, <4>3, <5>2, SMTT(30) DEF CreateInsert, Insert
        <5>4. /\ transfers'[me.id].hash = me.req.hash
              /\ idempotency' = [idempotency EXCEPT ![<<me.req.tenant, me.req.key>>] = me.id]
          <6> HIDE DEF me
          <6> QED
            BY <5>1, <5>3, InsertEffect, SMTT(30)
        <5>5. /\ me.req.tenant \in Tenants /\ me.req.key \in Keys
              /\ idempotency \in [Tenants \X Keys -> TransferIDs \cup {None}]
              /\ me.id # None
          <6> HIDE DEF me
          <6>1. me.req.tenant \in Tenants /\ me.req.key \in Keys
            BY <5>1 DEF Request
          <6>2. me.id # None
            BY <5>1, NoneAssumption
          <6>3. idempotency \in [Tenants \X Keys -> TransferIDs \cup {None}]
            BY SMTT(30) DEF StoreTypeOK
          <6> QED
            BY <6>1, <6>2, <6>3
        <5>6. idempotency'[<<me.req.tenant, me.req.key>>] = me.id
          BY <5>4, <5>5, SMTT(30)
        <5>7. TrueNext(new)
          BY <5>4, <5>5, <5>6 DEF TrueNext
        <5> QED
          BY <2>3, <4>1, <5>3, <5>7
      <4> QED
        BY <4>2, <4>3
    <3> QED
      BY <2>6, <3>1, <3>2, <3>3, <3>4, SMTT(30) DEF ClientStep
  <2>7. CASE \/ \E w \in Workers : WorkerStep(w)
             \/ \E r \in Reviewers : ReviewerStep(r)
             \/ \E p \in Providers : ProviderStep(p)
             \/ Tick
             \/ UNCHANGED vars
    <3>1. UpdateStep /\ UNCHANGED replies
      BY <2>7, OthersUpdate
    <3> QED
      BY <2>4, <3>1
  <2> QED
    BY <2>6, <2>7, SMTT(30) DEF Next
<1> QED
  BY <1>2, <1>3, TypeCorrect, IndexCorrect, ClientsCorrect, PTL DEF Spec

-----------------------------------------------------------------------------
(* A step of the switch is one settlement, or not a settlement at all.     *)
LEMMA SettlementOrNot ==
  ASSUME TypeOK, [Next]_vars
  PROVE  \/ \E cb \in Callback : Settle(cb)
         \/ InsertStep \/ SubmissionStep \/ ReviewStep \/ Age \/ UNCHANGED storeVars
  BY StoreStep, SMTT(30) DEF StoreNext, SettleStep

(* What RecordSettlement answers with success: the callback it stored, or  *)
(* one it finds stored.                                                    *)
LEMMA AcksStep ==
  ASSUME TypeOK, [Next]_vars
  PROVE  \/ UNCHANGED acks
         \/ \E cb \in Callback :
              /\ acks' = acks \cup {cb}
              /\ \/ Settle(cb)
                 \/ UNCHANGED storeVars /\ SettlementReplays(cb.tenant, cb.transfer, cb)
<1>1. ASSUME NEW p \in Providers, SettleCommit(p)
      PROVE  \/ UNCHANGED acks
             \/ \E cb \in Callback :
                  /\ acks' = acks \cup {cb}
                  /\ \/ Settle(cb)
                     \/ UNCHANGED storeVars /\ SettlementReplays(cb.tenant, cb.transfer, cb)
  <2>1. provider[p].callback \in Callback
    BY <1>1, ProviderLocals, ZenonT(60) DEF SettleCommit
  <2> QED
    BY <1>1, <2>1 DEF SettleCommit, Settle
<1>2. ASSUME NEW p \in Providers, SettleAbort(p) \/ \E cb \in Callback : SettleRead(p, cb)
      PROVE  UNCHANGED acks
  BY <1>2 DEF SettleAbort, SettleRead
<1>3. Tick => UNCHANGED acks
  BY DEF Tick
<1>4. UNCHANGED vars => UNCHANGED acks
  BY DEF vars
<1> QED
  BY <1>1, <1>2, <1>3, <1>4, ClientStore, WorkerStore, ReviewerStore, ZenonT(60) DEF Next, ProviderStep

(* One settlement per transfer takes effect, and every callback answered   *)
(* with success is that one, for ever.                                     *)
THEOREM SettlementsCorrect == Spec => []SettlementAgrees
<1> DEFINE
      Ack(cb, tr, cbs) ==
        /\ tr[cb.transfer].tenant = cb.tenant
        /\ cbs[<<cb.tenant, cb.spiMessageID>>] = cb
        /\ tr[cb.transfer].status = SettlementOutcome(cb.status)
      Acked == \A cb \in acks : Ack(cb, transfers, callbacks)
<1>1. \A s \in SettlementStatus : SettlementOutcome(s) \in Finished
  BY DEF SettlementOutcome, Finished
<1>2. SettlementAgrees <=> SettledByCallback /\ Acked
  BY DEF SettlementAgrees, GetTransfer, Exists, SettlementOutcome
<1>3. Init => Acked
  BY DEF Init
<1>4. TypeOK /\ CallbackFacts /\ Acked /\ [Next]_vars => Acked'
  <2> SUFFICES ASSUME TypeOK, StoreTypeOK, CallbackFacts, Acked, [Next]_vars
               PROVE  \A cb \in acks' : Ack(cb, transfers', callbacks')
    BY DEF TypeOK
  <2>1. \A cb \in Callback : /\ cb.tenant \in Tenants /\ cb.spiMessageID \in MessageIDs
                             /\ cb.transfer \in TransferIDs /\ cb.status \in SettlementStatus
    BY SMTT(30) DEF Callback
  <2>2. acks \subseteq Callback
    BY SMTT(30) DEF TypeOK
  <2>3. ASSUME NEW cb \in Callback, Ack(cb, transfers, callbacks)
        PROVE  Ack(cb, transfers', callbacks')
    <3>1. transfers[cb.transfer].status \in Finished /\ cb # None
      BY <1>1, <2>1, <2>3, NoneAssumption, SMTT(30)
    <3>2. CASE InsertStep \/ SubmissionStep \/ ReviewStep \/ Age \/ UNCHANGED storeVars
      <4>1. UNCHANGED callbacks /\ SameOutcome(cb.transfer)
        BY <2>1, <3>1, <3>2, OnlySettlementsFinish, SMTT(30)
      <4> QED
        BY <2>3, <4>1, SMTT(30) DEF SameOutcome, SameIdentity
    <3>3. ASSUME NEW new \in Callback, Settle(new) PROVE Ack(cb, transfers', callbacks')
      <4>1. /\ transfers[new.transfer].status = "approved"
            /\ \A o \in TransferIDs \ {new.transfer} : transfers'[o] = transfers[o]
            /\ callbacks[<<new.tenant, new.spiMessageID>>] = None
            /\ \A t \in Tenants, m \in MessageIDs :
                 callbacks'[<<t, m>>] =
                   IF t = new.tenant /\ m = new.spiMessageID THEN new ELSE callbacks[<<t, m>>]
        BY <3>3, SettlementFinishes, SMTT(30)
      <4>2. transfers'[cb.transfer] = transfers[cb.transfer]
        BY <2>1, <3>1, <4>1, SMTT(30) DEF Finished
      <4>3. callbacks'[<<cb.tenant, cb.spiMessageID>>] = callbacks[<<cb.tenant, cb.spiMessageID>>]
        BY <2>1, <2>3, <3>1, <4>1, SMTT(30)
      <4> QED
        BY <2>3, <4>2, <4>3, SMTT(30)
    <3> QED
      BY <3>2, <3>3, SettlementOrNot, SMTT(30)
  <2>4. ASSUME NEW cb \in Callback, Settle(cb) PROVE Ack(cb, transfers', callbacks')
    <3>1. /\ transfers'[cb.transfer].tenant = cb.tenant
          /\ transfers'[cb.transfer].status = SettlementOutcome(cb.status)
          /\ \A t \in Tenants, m \in MessageIDs :
               callbacks'[<<t, m>>] =
                 IF t = cb.tenant /\ m = cb.spiMessageID THEN cb ELSE callbacks[<<t, m>>]
      BY <2>4, SettlementFinishes, Zenon
    <3> QED
      BY <2>1, <3>1
  <2>5. ASSUME NEW cb \in Callback, SettlementReplays(cb.tenant, cb.transfer, cb)
        PROVE  Ack(cb, transfers, callbacks)
    <3>1. callbacks[<<cb.tenant, cb.spiMessageID>>] = cb /\ transfers[cb.transfer].tenant = cb.tenant
      BY <2>5 DEF SettlementReplays, GetTransfer
    <3>2. cb # None
      BY NoneAssumption, SMTT(30)
    <3>3. transfers[cb.transfer].status = SettlementOutcome(cb.status)
      BY <2>1, <3>1, <3>2 DEF CallbackFacts
    <3> QED
      BY <3>1, <3>3, SMTT(30)
  <2> HIDE DEF Ack
  <2> QED
    BY <2>2, <2>3, <2>4, <2>5, AcksStep, SMTT(30)
<1> QED
  BY <1>2, <1>3, <1>4, TypeCorrect, CallbacksCorrect, MemoryStoreImplements, SettlementsPromised, PTL
     DEF Spec
=============================================================================

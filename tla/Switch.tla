------------------------------- MODULE Switch -------------------------------
(***************************************************************************)
(* The payment switch: the use cases of internal/switcher/service.go as    *)
(* concurrent handlers over the shared store.  A handler runs one use case *)
(* at a time; each store call it makes is one step, and so is the call to  *)
(* the SPI, so that handlers interleave between any two of them.           *)
(*                                                                         *)
(*   Clients    CreateTransfer      (POST /v1/pix/transfers)               *)
(*   Workers    SubmitToSPI         (SPI worker, POST .../spi-submissions) *)
(*   Reviewers  RecordReview        (POST .../reviews)                     *)
(*   Providers  RecordSettlement    (POST .../spi-callbacks)               *)
(*                                                                         *)
(* Any handler can end early at any step: the process crashes, its context *)
(* is cancelled, or a store call fails.  The service never undoes or       *)
(* repeats earlier steps in those cases, so they all are one abort step.   *)
(***************************************************************************)
EXTENDS StoreContract

CONSTANTS Clients, Workers, Reviewers, Providers

VARIABLES client, worker, reviewer, provider,   \* handler-local state
          spiReceived,   \* transfers the SPI has taken in at least once
          replies,       \* every answer CreateTransfer gave, with its request
          acks           \* every callback RecordSettlement answered with success

handlerVars == <<client, worker, reviewer, provider>>
vars == <<storeVars, handlerVars, spiReceived, replies, acks>>

IdleClient == [pc |-> "idle", req |-> None, id |-> None, decision |-> None]
IdleWorker == [pc |-> "idle", tenant |-> None, id |-> None, token |-> None, until |-> 0]
IdleReviewer == [pc |-> "idle", tenant |-> None, id |-> None, decision |-> None]
IdleProvider == [pc |-> "idle", callback |-> None]

Init ==
  /\ StoreInit
  /\ client = [c \in Clients |-> IdleClient]
  /\ worker = [w \in Workers |-> IdleWorker]
  /\ reviewer = [r \in Reviewers |-> IdleReviewer]
  /\ provider = [p \in Providers |-> IdleProvider]
  /\ spiReceived = {}
  /\ replies = {}
  /\ acks = {}

-----------------------------------------------------------------------------
(* A deliberately wrong form of Answer.                                    *)
AnswerAnyPayload(req, id) == [req |-> req, result |-> id]

(* CreateTransfer.  The answer to a request whose key met `id' in the      *)
(* store: the original transfer, or a conflict (no transfer) when nothing  *)
(* is found or the fingerprints differ.                                    *)
Answer(req, id) ==
  [req |-> req,
   result |-> IF id # None /\ transfers[id].hash = req.hash THEN id ELSE None]

CreateFind(c, req) ==
  LET found == FindByIdempotency(req.tenant, req.key) IN
  /\ client[c].pc = "idle"
  /\ IF found # None
     THEN /\ replies' = replies \cup {Answer(req, found)}
          /\ UNCHANGED client
     ELSE /\ client' = [client EXCEPT ![c] =
            [pc |-> "decide", req |-> req, id |-> None, decision |-> None]]
          /\ UNCHANGED replies
  /\ UNCHANGED <<storeVars, worker, reviewer, provider, spiReceived, acks>>

(* Both rate limits, the DICT lookup and the fraud score let the request   *)
(* through; the transfer gets a random, hence unused, id.                  *)
CreateDecide(c) ==
  /\ client[c].pc = "decide"
  /\ \E decision \in Decisions, id \in TransferIDs :
       /\ ~Exists(id)
       /\ \A o \in Clients : client[o].id # id
       /\ client' = [client EXCEPT ![c].pc = "insert", ![c].id = id,
                                   ![c].decision = decision]
  /\ UNCHANGED <<storeVars, worker, reviewer, provider, spiReceived, replies, acks>>

CreateInsert(c) ==
  LET id == client[c].id
      tr == NewTransfer(client[c].req, client[c].decision) IN
  /\ client[c].pc = "insert"
  /\ IF InsertConflict(id, tr)
     THEN /\ client' = [client EXCEPT ![c].pc = "refind"]
          /\ UNCHANGED <<storeVars, replies>>
     ELSE /\ InsertTransfer(id, tr, CreateEvents(tr.status), CreateAudit)
          /\ replies' = replies \cup {[req |-> client[c].req, result |-> id]}
          /\ client' = [client EXCEPT ![c] = IdleClient]
  /\ UNCHANGED <<worker, reviewer, provider, spiReceived, acks>>

CreateRefind(c) ==
  LET req == client[c].req IN
  /\ client[c].pc = "refind"
  /\ replies' = replies \cup {Answer(req, FindByIdempotency(req.tenant, req.key))}
  /\ client' = [client EXCEPT ![c] = IdleClient]
  /\ UNCHANGED <<storeVars, worker, reviewer, provider, spiReceived, acks>>

(* Rate limited, DICT or fraud failure, store error, or crash.             *)
CreateAbort(c) ==
  /\ client[c].pc # "idle"
  /\ client' = [client EXCEPT ![c] = IdleClient]
  /\ UNCHANGED <<storeVars, worker, reviewer, provider, spiReceived, replies, acks>>

-----------------------------------------------------------------------------
(* SubmitToSPI.  The expiry is computed before the claim reaches the store *)
(* and time may pass in between.                                           *)
FreshToken(token) ==
  /\ \A w \in Workers : worker[w].token # token
  /\ \A id \in TransferIDs : transfers[id].spiClaimToken # token

SubmitStart(w, tenant, id) ==
  /\ worker[w].pc = "idle"
  /\ \E token \in Tokens :
       /\ FreshToken(token)
       /\ worker' = [worker EXCEPT ![w] =
            [pc |-> "claim", tenant |-> tenant, id |-> id, token |-> token,
             until |-> ClaimTTL]]
  /\ UNCHANGED <<storeVars, client, reviewer, provider, spiReceived, replies, acks>>

(* Replay, not found, conflict and an expiry already past all end the use  *)
(* case without a write.                                                   *)
SubmitClaim(w) ==
  LET me == worker[w] IN
  /\ me.pc = "claim"
  /\ IF ClaimSucceeds(me.tenant, me.id, me.until)
     THEN /\ StoreClaim(me.id, me.token, me.until)
          /\ worker' = [worker EXCEPT ![w].pc = "submit"]
     ELSE /\ worker' = [worker EXCEPT ![w] = IdleWorker]
          /\ UNCHANGED storeVars
  /\ UNCHANGED <<client, reviewer, provider, spiReceived, replies, acks>>

SubmitAccepted(w) ==
  /\ worker[w].pc = "submit"
  /\ spiReceived' = spiReceived \cup {worker[w].id}
  /\ worker' = [worker EXCEPT ![w].pc = "record"]
  /\ UNCHANGED <<storeVars, client, reviewer, provider, replies, acks>>

(* The SPI client fails or its 10s timeout fires; the SPI may nevertheless *)
(* have taken the message in.                                              *)
SubmitFailed(w) ==
  /\ worker[w].pc = "submit"
  /\ spiReceived' \in {spiReceived, spiReceived \cup {worker[w].id}}
  /\ worker' = [worker EXCEPT ![w].pc = "release"]
  /\ UNCHANGED <<storeVars, client, reviewer, provider, replies, acks>>

SubmitRecord(w) ==
  LET me == worker[w] IN
  /\ me.pc = "record"
  /\ IF RecordSucceeds(me.tenant, me.id, me.token)
     THEN StoreRecord(me.id, SubmissionEvents, SubmissionAudit)
     ELSE UNCHANGED storeVars
  /\ worker' = [worker EXCEPT ![w] = IdleWorker]
  /\ UNCHANGED <<client, reviewer, provider, spiReceived, replies, acks>>

SubmitRelease(w) ==
  LET me == worker[w] IN
  /\ me.pc = "release"
  /\ IF ReleaseSucceeds(me.tenant, me.id, me.token)
     THEN StoreRelease(me.id, RetryDelay)
     ELSE UNCHANGED storeVars
  /\ worker' = [worker EXCEPT ![w] = IdleWorker]
  /\ UNCHANGED <<client, reviewer, provider, spiReceived, replies, acks>>

SubmitAbort(w) ==
  /\ worker[w].pc # "idle"
  /\ worker' = [worker EXCEPT ![w] = IdleWorker]
  /\ UNCHANGED <<storeVars, client, reviewer, provider, spiReceived, replies, acks>>

-----------------------------------------------------------------------------
(* RecordReview: the status is read first, and checked again by the store. *)
ReviewDecision == {"approve", "block"}
NextStatus(decision) == IF decision = "block" THEN "blocked" ELSE "accepted"

ReviewRead(r, tenant, id, decision) ==
  /\ reviewer[r].pc = "idle"
  /\ GetTransfer(tenant, id)
  /\ transfers[id].status = "review"
  /\ reviewer' = [reviewer EXCEPT ![r] =
       [pc |-> "commit", tenant |-> tenant, id |-> id, decision |-> decision]]
  /\ UNCHANGED <<storeVars, client, worker, provider, spiReceived, replies, acks>>

ReviewCommit(r) ==
  LET me == reviewer[r]
      next == NextStatus(me.decision) IN
  /\ me.pc = "commit"
  /\ IF ReviewSucceeds(me.tenant, me.id, next)
     THEN StoreReview(me.id, next, ReviewEvents(next), ReviewAudit)
     ELSE UNCHANGED storeVars
  /\ reviewer' = [reviewer EXCEPT ![r] = IdleReviewer]
  /\ UNCHANGED <<client, worker, provider, spiReceived, replies, acks>>

ReviewAbort(r) ==
  /\ reviewer[r].pc # "idle"
  /\ reviewer' = [reviewer EXCEPT ![r] = IdleReviewer]
  /\ UNCHANGED <<storeVars, client, worker, provider, spiReceived, replies, acks>>

-----------------------------------------------------------------------------
(* RecordSettlement.  The provider may send any callback, early, twice, or *)
(* contradicting an earlier one.                                           *)
SettleRead(p, cb) ==
  /\ provider[p].pc = "idle"
  /\ GetTransfer(cb.tenant, cb.transfer)
  /\ transfers[cb.transfer].spiMessageID = cb.spiMessageID
  /\ provider' = [provider EXCEPT ![p] = [pc |-> "commit", callback |-> cb]]
  /\ UNCHANGED <<storeVars, client, worker, reviewer, spiReceived, replies, acks>>

SettleCommit(p) ==
  LET cb == provider[p].callback
      outcome == SettlementOutcome(cb.status) IN
  /\ provider[p].pc = "commit"
  /\ \/ /\ SettlementSucceeds(cb.tenant, cb.transfer, cb)
        /\ UpdateSettlement(cb.tenant, cb.transfer, cb,
                            SettlementEvents(outcome), SettlementAudit)
        /\ acks' = acks \cup {cb}
     \/ /\ SettlementReplays(cb.tenant, cb.transfer, cb)
        /\ acks' = acks \cup {cb}
        /\ UNCHANGED storeVars
     \/ /\ ~SettlementSucceeds(cb.tenant, cb.transfer, cb)
        /\ ~SettlementReplays(cb.tenant, cb.transfer, cb)
        /\ UNCHANGED <<storeVars, acks>>
  /\ provider' = [provider EXCEPT ![p] = IdleProvider]
  /\ UNCHANGED <<client, worker, reviewer, spiReceived, replies>>

SettleAbort(p) ==
  /\ provider[p].pc # "idle"
  /\ provider' = [provider EXCEPT ![p] = IdleProvider]
  /\ UNCHANGED <<storeVars, client, worker, reviewer, spiReceived, replies, acks>>

-----------------------------------------------------------------------------
(* One unit of time passes.                                                *)
Tick ==
  /\ transfers' = [id \in TransferIDs |->
       [transfers[id] EXCEPT !.spiClaimedUntil = Elapse(@)]]
  /\ worker' = [w \in Workers |-> [worker[w] EXCEPT !.until = Elapse(@)]]
  /\ UNCHANGED <<idempotency, callbacks, outbox, audit, client, reviewer,
                 provider, spiReceived, replies, acks>>

ClientStep(c) ==
  \/ \E req \in Request : CreateFind(c, req)
  \/ CreateDecide(c)
  \/ CreateInsert(c)
  \/ CreateRefind(c)
  \/ CreateAbort(c)

WorkerStep(w) ==
  \/ \E tenant \in Tenants, id \in TransferIDs : SubmitStart(w, tenant, id)
  \/ SubmitClaim(w)
  \/ SubmitAccepted(w)
  \/ SubmitFailed(w)
  \/ SubmitRecord(w)
  \/ SubmitRelease(w)
  \/ SubmitAbort(w)

ReviewerStep(r) ==
  \/ \E tenant \in Tenants, id \in TransferIDs, d \in ReviewDecision :
       ReviewRead(r, tenant, id, d)
  \/ ReviewCommit(r)
  \/ ReviewAbort(r)

ProviderStep(p) ==
  \/ \E cb \in Callback : SettleRead(p, cb)
  \/ SettleCommit(p)
  \/ SettleAbort(p)

Next ==
  \/ \E c \in Clients : ClientStep(c)
  \/ \E w \in Workers : WorkerStep(w)
  \/ \E r \in Reviewers : ReviewerStep(r)
  \/ \E p \in Providers : ProviderStep(p)
  \/ Tick

Spec == Init /\ [][Next]_vars

-----------------------------------------------------------------------------
(* What a handler holds at each point of its use case.                     *)
ClientState ==
  {IdleClient}
  \cup [pc : {"decide"}, req : Request, id : {None}, decision : {None}]
  \cup [pc : {"insert", "refind"}, req : Request, id : TransferIDs,
         decision : Decisions]
WorkerState ==
  {IdleWorker}
  \cup [pc : {"claim", "submit", "record", "release"}, tenant : Tenants,
         id : TransferIDs, token : Tokens, until : 0..ClaimTTL]
ReviewerState ==
  {IdleReviewer}
  \cup [pc : {"commit"}, tenant : Tenants, id : TransferIDs,
         decision : ReviewDecision]
ProviderState == {IdleProvider} \cup [pc : {"commit"}, callback : Callback]

(* The store's maps and every handler's locals have the shape the Go types *)
(* give them, and a handler past its first step holds no empty field.      *)
TypeOK ==
  /\ StoreTypeOK
  /\ client \in [Clients -> ClientState]
  /\ worker \in [Workers -> WorkerState]
  /\ reviewer \in [Reviewers -> ReviewerState]
  /\ provider \in [Providers -> ProviderState]
  /\ spiReceived \subseteq TransferIDs
  /\ replies \subseteq [req : Request, result : TransferIDs \cup {None}]
  /\ acks \subseteq Callback

(* Every answer CreateTransfer ever gave still tells the truth: its key    *)
(* belongs to one transfer for good, an answer that returned a transfer    *)
(* returned that one and its fingerprint is the request's, and a conflict  *)
(* was answered only to a request with another fingerprint, even when two  *)
(* first requests raced from FindByIdempotency to InsertTransfer.          *)
RepliesAgree ==
  \A r \in replies :
    LET id == FindByIdempotency(r.req.tenant, r.req.key) IN
    /\ id # None
    /\ r.result = IF transfers[id].hash = r.req.hash THEN id ELSE None

(* A transfer the SPI has received was decided accepted and can never be   *)
(* blocked or under review; and it carries an SPI message id exactly when  *)
(* a submission was recorded, which the SPI then has indeed received.      *)
SubmissionSafety ==
  \A id \in TransferIDs :
    /\ id \in spiReceived =>
         transfers[id].status \in {"accepted", "approved", "settled", "rejected"}
    /\ transfers[id].status \in {"approved", "settled", "rejected"} =>
         id \in spiReceived /\ transfers[id].spiMessageID = MessageOf(id)
    /\ transfers[id].spiMessageID # None =>
         transfers[id].status \in {"approved", "settled", "rejected"}

Working(w) == worker[w].pc \in {"submit", "record", "release"}

(* While its lease runs, a worker is the only one between claim and record *)
(* for its transfer, the row still names its token, and the transfer is    *)
(* still accepted, so no one else can record, release or settle it.        *)
LeaseExclusive ==
  \A w \in Workers :
    Working(w) /\ worker[w].until > 0 =>
      LET tr == transfers[worker[w].id] IN
      /\ tr.status = "accepted"
      /\ tr.spiClaimToken = worker[w].token
      /\ \A o \in Workers \ {w} :
           Working(o) /\ worker[o].id = worker[w].id => worker[o].until = 0

(* At most one settlement per transfer takes effect: a settled or rejected *)
(* transfer has one stored callback, of its own tenant and message, whose  *)
(* status it took, and every callback answered with success is that one.   *)
SettlementAgrees ==
  /\ SettledByCallback
  /\ \A cb \in acks :
       /\ GetTransfer(cb.tenant, cb.transfer)
       /\ callbacks[<<cb.tenant, cb.spiMessageID>>] = cb
       /\ transfers[cb.transfer].status = SettlementOutcome(cb.status)

-----------------------------------------------------------------------------
(* Inductive strengthenings: what a handler may still rely on between two  *)
(* of its store calls.                                                     *)

(* A create about to insert holds an id no row and no other insert uses,   *)
(* so InsertTransfer can only refuse it for its key; and the repeated      *)
(* lookup after a refusal always finds the winner.                         *)
ClientFacts ==
  \A c \in Clients :
    /\ client[c].pc = "insert" =>
         /\ ~Exists(client[c].id)
         /\ \A o \in Clients \ {c} :
              client[o].pc = "insert" => client[o].id # client[c].id
    /\ client[c].pc = "refind" =>
         FindByIdempotency(client[c].req.tenant, client[c].req.key) # None

PastAcceptance == {"accepted", "approved", "settled", "rejected"}

(* A worker past its claim works on a transfer that was accepted and can   *)
(* no longer be blocked; it records only what the SPI received; its token  *)
(* is its own; and until its lease runs out the row carries that token and *)
(* the same expiry.                                                        *)
WorkerFacts ==
  \A w \in Workers :
    /\ Working(w) => transfers[worker[w].id].status \in PastAcceptance
    /\ worker[w].pc = "record" => worker[w].id \in spiReceived
    /\ \A o \in Workers \ {w} :
         worker[w].token # None => worker[o].token # worker[w].token
    /\ Working(w) /\ worker[w].until > 0 =>
         /\ transfers[worker[w].id].status = "accepted"
         /\ transfers[worker[w].id].spiClaimToken = worker[w].token
         /\ transfers[worker[w].id].spiClaimedUntil = worker[w].until

-----------------------------------------------------------------------------
(* docs/events/README.md 25: "Duplicate or out-of-order SPI callbacks must *)
(* append evidence without duplicating state transitions": every callback  *)
(* that UpdateSettlement processes leaves an audit or callback record.     *)
CallbackLeavesEvidence ==
  [][\A p \in Providers :
       SettleCommit(p) => audit' # audit \/ callbacks' # callbacks]_vars
=============================================================================

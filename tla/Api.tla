-------------------------------- MODULE Api --------------------------------
(***************************************************************************)
(* The API process: cmd/pixrail-api serving internal/api/server.go over    *)
(* the use cases of Switch, with the configuration of Config and the       *)
(* decisions of Intake.  A handler of Switch is the goroutine of a request *)
(* and holds the secret of its API key; every step it takes is its step in *)
(* Switch, with what the HTTP layer adds to it:                            *)
(*                                                                         *)
(*   POST /v1/pix/transfers                 Post...    role tenant         *)
(*   POST .../{id}/spi-submissions          Submit...  role worker         *)
(*   POST .../{id}/reviews                  Review...  role risk           *)
(*   POST .../{id}/spi-callbacks            Settle...  role provider       *)
(*   GET  .../{id}, GET /v1/outbox          Get...     role tenant         *)
(*                                                                         *)
(* The process is started with an environment, stops taking requests on a  *)
(* signal and ends when the running ones are through, or at any time by a  *)
(* crash or the shutdown timeout, and may be started again.                *)
(***************************************************************************)
EXTENDS Switch, Config, Intake

CONSTANTS Environments,    \* what the process may be started with
          Payloads,        \* create bodies clients send
          Secrets,         \* API keys and other texts they present
          Signatures       \* [secret, age] of the callbacks sent

VARIABLES phase,     \* of the process: down, serving, draining
          conf,      \* Load(environment) of the last start
          caller,    \* caller[h], the secret of the request h runs, or None
          answer     \* the response of the last step: the tenant it goes to, its
                     \* status, the transfers it tells of, the events it counts

apiVars == <<vars, phase, conf, caller, answer>>

(* A callback's body may hold any status.                                  *)
Callbacks ==
  [tenant : Tenants, transfer : TransferIDs, spiMessageID : MessageIDs,
   status : SettlementStatus \cup {"other"}, code : Codes]

Handlers == Clients \cup Workers \cup Reviewers \cup Providers

(* Every payload that passes Validate has a fingerprint the store can      *)
(* keep, amounts and digests are numbers, a goroutine serves one request.  *)
ASSUME PayloadAssumption ==
  \A p \in Payloads : Valid(p) => Fingerprint(p) \in Hashes
ASSUME AmountAssumption ==
  \A h \in Hashes :
    h.amount \in Nat /\ \A t \in Tenants : Digest[<<t, h.receiver>>].first \in Nat
ASSUME HandlersAssumption ==
  /\ Clients \cap Workers = {} /\ Clients \cap Reviewers = {} /\ Clients \cap Providers = {}
  /\ Workers \cap Reviewers = {} /\ Workers \cap Providers = {} /\ Reviewers \cap Providers = {}

(* The environments are of production: in development Load accepts the     *)
(* memory store, and a restart forgets what was answered.                  *)
ASSUME EnvironmentAssumption ==
  \A e \in Environments :
    /\ e.env = "production" /\ Load(e) # None
    /\ \A i \in 1..Len(e.apiKeys) : e.apiKeys[i].tenant \in Tenants

NoAnswer == [tenant |-> None, status |-> 0, about |-> {}, events |-> 0]

ApiInit ==
  /\ Init
  /\ phase = "down"
  /\ conf = None
  /\ caller = [h \in Handlers |-> None]
  /\ answer = NoAnswer

-----------------------------------------------------------------------------
(* BuildStore: the memory store is empty, PostgreSQL holds what it held.   *)
BuildStore(driver) ==
  IF driver = "memory"
  THEN /\ transfers' = [id \in TransferIDs |-> NoTransfer]
       /\ idempotency' = [k \in Tenants \X Keys |-> None]
       /\ callbacks' = [m \in Tenants \X MessageIDs |-> None]
       /\ outbox' = [id \in TransferIDs |-> <<>>]
       /\ audit' = [id \in TransferIDs |-> <<>>]
  ELSE UNCHANGED storeVars

-----------------------------------------------------------------------------
(* main: Load, BuildStore, serve.  A signal drains; os.Exit, a crash and a *)
(* failed Shutdown take the process down.                                  *)
Start(e) ==
  /\ phase = "down" /\ \A h \in Handlers : caller[h] = None
  /\ Loads(e)
  /\ phase' = "serving" /\ conf' = Load(e) /\ answer' = NoAnswer
  /\ BuildStore(Driver(e))
  /\ UNCHANGED <<handlerVars, spiReceived, replies, acks, caller>>

Signal ==
  /\ phase = "serving"
  /\ phase' = "draining" /\ answer' = NoAnswer
  /\ UNCHANGED <<vars, conf, caller>>

Exit ==
  /\ phase # "down"
  /\ phase' = "down" /\ answer' = NoAnswer
  /\ UNCHANGED <<vars, conf, caller>>

-----------------------------------------------------------------------------
(* Deliberately wrong forms of the operators below.                        *)
AuthorisedByKey(secret, role) == secret \in DOMAIN conf.keys
VisibleToAll(tenant, id) == outbox[id] # <<>>
CountReplays(fresh, events) == Len(events)
AlwaysCreated(replay) == 201

-----------------------------------------------------------------------------
(* authRole: a known key with the role of the route.                       *)
Authorised(secret, role) ==
  secret \in DOMAIN conf.keys /\ HasRole(conf.keys[secret], role)

TenantOf(secret) == conf.keys[secret].tenant

Admitted(h, secret, role) ==
  phase = "serving" /\ caller[h] = None /\ Authorised(secret, role)

Holding(h, secret) ==
  /\ caller' = [caller EXCEPT ![h] = secret]
  /\ answer' = NoAnswer

Goes(h) == phase # "down" /\ caller[h] # None

Continues == answer' = NoAnswer /\ UNCHANGED caller

(* ObserveEvents(len(result.Events)): a replay and an error have none.     *)
Events(fresh, events) == IF fresh THEN Len(events) ELSE 0

(* writeJSON and writeError: a success or a conflict tells of a transfer;  *)
(* not found and refusals tell nothing.                                    *)
Response(tenant, status, about, events) ==
  [tenant |-> tenant, status |-> status, about |-> about, events |-> events]

AnswersCounting(h, secret, status, about, events) ==
  /\ caller' = [caller EXCEPT ![h] = None]
  /\ answer' = Response(TenantOf(secret), status, about, events)

Answers(h, secret, status, about) == AnswersCounting(h, secret, status, about, 0)

(* createTransfer's status.                                                *)
CreateStatus(replay) == IF replay THEN 200 ELSE 201

(* The database commits and the connection breaks before it says so: the   *)
(* store returns an error, internal_error is answered, nothing is counted. *)
CommitUnheard(h) ==
  /\ conf.driver = "postgres"
  /\ caller' = [caller EXCEPT ![h] = None]
  /\ answer' = NoAnswer

(* handleDomainError for an error of a store call on transfer `id'.        *)
StoreError(tenant, id) == IF GetTransfer(tenant, id) THEN 409 ELSE 404
Known(tenant, id) == IF GetTransfer(tenant, id) THEN {id} ELSE {}

-----------------------------------------------------------------------------
(* createTransfer                                                          *)
PostTransfer(c, secret, key, p) ==
  LET req == [tenant |-> TenantOf(secret), key |-> key, hash |-> Fingerprint(p)]
      found == FindByIdempotency(req.tenant, key) IN
  /\ Admitted(c, secret, "tenant") /\ Valid(p)
  /\ CreateFind(c, req)
  /\ IF found = None THEN Holding(c, secret)
     ELSE IF transfers[found].hash = req.hash THEN Answers(c, secret, CreateStatus(TRUE), {found})
     ELSE Answers(c, secret, 409, {})
  /\ UNCHANGED <<phase, conf>>

(* A deliberately wrong form of PostDecide: the score is not used.         *)
PostDecideAny(c) == Goes(c) /\ CreateDecide(c) /\ Continues /\ UNCHANGED <<phase, conf>>

PostDecide(c) ==
  LET req == client[c].req IN
  /\ Goes(c)
  /\ CreateDecide(c)
  /\ Resolves(req.hash.receiver)
  /\ client'[c].decision = Decision(req.tenant, req.hash)
  /\ Continues
  /\ UNCHANGED <<phase, conf>>

(* A limiter refuses, or the DICT lookup fails.                            *)
PostRefused(c) ==
  /\ Goes(c) /\ client[c].pc = "decide"
  /\ CreateAbort(c)
  /\ \/ Answers(c, caller[c], 429, {})
     \/ ~Resolves(client[c].req.hash.receiver) /\ Answers(c, caller[c], 502, {})
  /\ UNCHANGED <<phase, conf>>

PostInsert(c) ==
  LET inserts == client'[c].pc = "idle" IN
  /\ Goes(c)
  /\ CreateInsert(c)
  /\ IF inserts
     THEN \/ AnswersCounting(c, caller[c], CreateStatus(FALSE), {client[c].id},
                             Events(TRUE, CreateEvents(client[c].decision)))
          \/ CommitUnheard(c)
     ELSE Continues
  /\ UNCHANGED <<phase, conf>>

PostRefind(c) ==
  LET req == client[c].req
      found == FindByIdempotency(req.tenant, req.key) IN
  /\ Goes(c)
  /\ CreateRefind(c)
  /\ IF found # None /\ transfers[found].hash = req.hash
     THEN Answers(c, caller[c], CreateStatus(TRUE), {found}) ELSE Answers(c, caller[c], 409, {})
  /\ UNCHANGED <<phase, conf>>

-----------------------------------------------------------------------------
(* submitToSPI                                                             *)
SubmitCall(w, secret, id) ==
  /\ Admitted(w, secret, "worker")
  /\ SubmitStart(w, TenantOf(secret), id)
  /\ Holding(w, secret)
  /\ UNCHANGED <<phase, conf>>

SubmitClaims(w) ==
  LET me == worker[w] IN
  /\ Goes(w)
  /\ SubmitClaim(w)
  /\ IF ClaimSucceeds(me.tenant, me.id, me.until) THEN Continues
     ELSE Answers(w, caller[w],
            CASE ~GetTransfer(me.tenant, me.id) -> 404
              [] Submitted(transfers[me.id])    -> 200
              [] me.until = 0                   -> 400
              [] OTHER                          -> 409,
            Known(me.tenant, me.id))
  /\ UNCHANGED <<phase, conf>>

SubmitSends(w) ==
  /\ Goes(w)
  /\ SubmitAccepted(w) \/ SubmitFailed(w)
  /\ Continues
  /\ UNCHANGED <<phase, conf>>

SubmitRecords(w) ==
  LET me == worker[w]
      fresh == RecordSucceeds(me.tenant, me.id, me.token) IN
  /\ Goes(w)
  /\ SubmitRecord(w)
  /\ \/ AnswersCounting(w, caller[w],
             IF fresh \/ RecordReplays(me.tenant, me.id) THEN 200
             ELSE StoreError(me.tenant, me.id),
             Known(me.tenant, me.id), Events(fresh, SubmissionEvents))
     \/ fresh /\ CommitUnheard(w)
  /\ UNCHANGED <<phase, conf>>

SubmitReleases(w) ==
  /\ Goes(w)
  /\ SubmitRelease(w)
  /\ Answers(w, caller[w], 500, {})
  /\ UNCHANGED <<phase, conf>>

-----------------------------------------------------------------------------
(* recordReview.  The decision is looked at after the transfer.            *)
ReviewCall(r, secret, id, decision) ==
  LET tenant == TenantOf(secret)
      waiting == GetTransfer(tenant, id) /\ transfers[id].status = "review" IN
  /\ Admitted(r, secret, "risk")
  /\ IF waiting /\ decision \in ReviewDecision
     THEN ReviewRead(r, tenant, id, decision) /\ Holding(r, secret)
     ELSE /\ Answers(r, secret, IF waiting THEN 400 ELSE StoreError(tenant, id), Known(tenant, id))
          /\ UNCHANGED vars
  /\ UNCHANGED <<phase, conf>>

ReviewCommits(r) ==
  LET me == reviewer[r]
      fresh == ReviewSucceeds(me.tenant, me.id, NextStatus(me.decision)) IN
  /\ Goes(r)
  /\ ReviewCommit(r)
  /\ \/ AnswersCounting(r, caller[r],
             IF fresh THEN 200 ELSE StoreError(me.tenant, me.id),
             Known(me.tenant, me.id), Events(fresh, ReviewEvents(NextStatus(me.decision))))
     \/ fresh /\ CommitUnheard(r)
  /\ UNCHANGED <<phase, conf>>

-----------------------------------------------------------------------------
(* recordSettlement, after readAndVerifyProviderCallback: the callback is  *)
(* signed with the configured secret, at most the tolerance ago or ahead.  *)
Verified(sig) ==
  /\ conf.secret # None /\ sig.secret = conf.secret
  /\ sig.age <= conf.settings.tolerance /\ sig.age >= -conf.settings.tolerance

SettleCall(p, secret, cb, sig) ==
  LET matches == /\ GetTransfer(cb.tenant, cb.transfer)
                 /\ transfers[cb.transfer].spiMessageID = cb.spiMessageID IN
  /\ Admitted(p, secret, "provider")
  /\ cb.tenant = TenantOf(secret) /\ Verified(sig)
  /\ IF matches /\ cb.status \in SettlementStatus
     THEN SettleRead(p, cb) /\ Holding(p, secret)
     ELSE /\ Answers(p, secret, IF matches THEN 400 ELSE StoreError(cb.tenant, cb.transfer),
                    Known(cb.tenant, cb.transfer))
          /\ UNCHANGED vars
  /\ UNCHANGED <<phase, conf>>

SettleCommits(p) ==
  LET cb == provider[p].callback
      fresh == SettlementSucceeds(cb.tenant, cb.transfer, cb) IN
  /\ Goes(p)
  /\ SettleCommit(p)
  /\ \/ AnswersCounting(p, caller[p],
             IF fresh \/ SettlementReplays(cb.tenant, cb.transfer, cb) THEN 200
             ELSE StoreError(cb.tenant, cb.transfer),
             Known(cb.tenant, cb.transfer),
             Events(fresh, SettlementEvents(SettlementOutcome(cb.status))))
     \/ fresh /\ CommitUnheard(p)
  /\ UNCHANGED <<phase, conf>>

-----------------------------------------------------------------------------
(* getTransfer and outbox; what authRole, Validate and the verification of *)
(* a callback refuse.                                                      *)
Visible(tenant, id) == outbox[id] # <<>> /\ transfers[id].tenant = tenant

Reply(tenant, status, about) ==
  /\ phase = "serving"
  /\ answer' = Response(tenant, status, about, 0)
  /\ UNCHANGED <<vars, phase, conf, caller>>

GetCall(secret, id) ==
  /\ phase = "serving" /\ Authorised(secret, "tenant")
  /\ IF GetTransfer(TenantOf(secret), id) THEN Reply(TenantOf(secret), 200, {id})
                                          ELSE Reply(TenantOf(secret), 404, {})

GetOutbox(secret) ==
  /\ phase = "serving" /\ Authorised(secret, "tenant")
  /\ Reply(TenantOf(secret), 200, {id \in TransferIDs : Visible(TenantOf(secret), id)})

RefuseKey(secret, role) ==
  /\ phase = "serving" /\ ~Authorised(secret, role)
  /\ Reply(None, IF secret \in DOMAIN conf.keys THEN 403 ELSE 401, {})

RefuseBody(secret, p) ==
  /\ phase = "serving" /\ Authorised(secret, "tenant") /\ ~Valid(p)
  /\ Reply(TenantOf(secret), 400, {})

RefuseCallback(secret, sig) ==
  /\ phase = "serving" /\ Authorised(secret, "provider") /\ ~Verified(sig)
  /\ Reply(TenantOf(secret), 401, {})

(* A store call fails and internal_error is answered, the client goes away *)
(* and its context is cancelled, or the process is down.                   *)
Abandon(h) ==
  /\ caller[h] # None
  /\ \/ h \in Clients /\ CreateAbort(h)
     \/ h \in Workers /\ SubmitAbort(h)
     \/ h \in Reviewers /\ ReviewAbort(h)
     \/ h \in Providers /\ SettleAbort(h)
  /\ caller' = [caller EXCEPT ![h] = None]
  /\ answer' = NoAnswer
  /\ UNCHANGED <<phase, conf>>

TimePasses == Tick /\ answer' = NoAnswer /\ UNCHANGED <<phase, conf, caller>>

Process == Signal \/ Exit \/ \E e \in Environments : Start(e)

Call ==
  \E secret \in Secrets :
    \/ \E c \in Clients, key \in Keys, p \in Payloads : PostTransfer(c, secret, key, p)
    \/ \E w \in Workers, id \in TransferIDs : SubmitCall(w, secret, id)
    \/ \E r \in Reviewers, id \in TransferIDs, d \in ReviewDecision \cup {"other"} :
         ReviewCall(r, secret, id, d)
    \/ \E p \in Providers, cb \in Callbacks, sig \in Signatures : SettleCall(p, secret, cb, sig)
    \/ \E id \in TransferIDs : GetCall(secret, id)
    \/ GetOutbox(secret)
    \/ \E role \in Roles : RefuseKey(secret, role)
    \/ \E p \in Payloads : RefuseBody(secret, p)
    \/ \E sig \in Signatures : RefuseCallback(secret, sig)

Handle ==
  \/ \E c \in Clients : PostDecide(c) \/ PostRefused(c) \/ PostInsert(c) \/ PostRefind(c)
  \/ \E w \in Workers : SubmitClaims(w) \/ SubmitSends(w) \/ SubmitRecords(w) \/ SubmitReleases(w)
  \/ \E r \in Reviewers : ReviewCommits(r)
  \/ \E p \in Providers : SettleCommits(p)
  \/ \E h \in Handlers : Abandon(h)

ApiNext == Process \/ Call \/ Handle \/ TimePasses

ApiSpec == ApiInit /\ [][ApiNext]_apiVars

-----------------------------------------------------------------------------
(* The process serves with what Load let through, a request runs only with *)
(* a key of that configuration.                                            *)
ApiTypeOK ==
  /\ phase \in {"down", "serving", "draining"}
  /\ conf \in {None} \cup {Load(e) : e \in {x \in Environments : Loads(x)}}
  /\ phase # "down" => conf # None
  /\ DOMAIN caller = Handlers
  /\ \A h \in Handlers : caller[h] # None => conf # None /\ caller[h] \in DOMAIN conf.keys

HoldsKey(h, role, tenant) ==
  /\ caller[h] \in DOMAIN conf.keys
  /\ HasRole(conf.keys[caller[h]], role)
  /\ conf.keys[caller[h]].tenant = tenant

(* A handler is at work exactly while a request runs on it, and from its   *)
(* first to its last step works for the tenant of the request's key, which *)
(* has the role of the use case.                                           *)
CallerFacts ==
  /\ \A c \in Clients :
       IF caller[c] = None THEN client[c].pc = "idle"
       ELSE client[c].pc # "idle" /\ HoldsKey(c, "tenant", client[c].req.tenant)
  /\ \A w \in Workers :
       IF caller[w] = None THEN worker[w].pc = "idle"
       ELSE worker[w].pc # "idle" /\ HoldsKey(w, "worker", worker[w].tenant)
  /\ \A r \in Reviewers :
       IF caller[r] = None THEN reviewer[r].pc = "idle"
       ELSE reviewer[r].pc # "idle" /\ HoldsKey(r, "risk", reviewer[r].tenant)
  /\ \A p \in Providers :
       IF caller[p] = None THEN provider[p].pc = "idle"
       ELSE provider[p].pc # "idle" /\ HoldsKey(p, "provider", provider[p].callback.tenant)

(* docs/domain/invariants.md 1: whatever a response tells of a transfer,   *)
(* be it the row, its events or that a request conflicts with it, it tells *)
(* to a key of the transfer's own tenant; the others see `not found'.      *)
TenantScoped ==
  [][\A id \in answer'.about : transfers'[id].tenant = answer'.tenant]_apiVars

(* The role a transfer's change of status takes.                           *)
GateRole(old, new) ==
  IF old = "absent" THEN "tenant"
  ELSE IF old = "review" THEN "risk"
  ELSE IF new = "approved" THEN "worker" ELSE "provider"

(* docs/security/authorization-matrix.md: no status changes but by a       *)
(* request whose key has the role of that step and is of the transfer's    *)
(* tenant, however many handlers hold how many keys at that moment.        *)
RoleGates ==
  [][\A id \in TransferIDs :
       phase' = phase /\ transfers'[id].status # transfers[id].status =>
         \E h \in Handlers :
           /\ caller[h] # None /\ caller'[h] = None
           /\ conf.keys[caller[h]].tenant = transfers'[id].tenant
           /\ HasRole(conf.keys[caller[h]],
                      GateRole(transfers[id].status, transfers'[id].status))]_apiVars

(* 201 is answered only by the step that inserts the row: of the requests  *)
(* with one idempotency key, racing, repeated or sent again after a lost   *)
(* answer, one at most is told that it created the transfer.               *)
CreatedMeansInserted ==
  [][answer'.status = 201 =>
       \E id \in TransferIDs : answer'.about = {id} /\ ~Exists(id) /\ Exists(id)']_apiVars

(* pixrail_outbox_events_total never runs ahead of the outbox: a response  *)
(* that counts events counts exactly those its own request added to its    *)
(* transfer's outbox, so that replays, conflicts and lost leases count     *)
(* nothing.                                                                *)
EventsCounted ==
  [][answer'.events # 0 =>
       \E id \in answer'.about :
         /\ answer'.events = Len(outbox'[id]) - Len(outbox[id])
         /\ \A o \in TransferIDs \ {id} : outbox'[o] = outbox[o]]_apiVars

ReviewApproved(id) == \E i \in 1..Len(outbox[id]) : outbox[id][i] = "pix_transfer_review_approved"

Decided(tr) == Decision(tr.tenant, tr.hash)

(* A row's status goes back to the decision on its own request: review     *)
(* only to a score for review, and acceptance and what follows to a score  *)
(* for acceptance or to a review that approved.                            *)
RiskFacts ==
  /\ \A c \in Clients :
       client[c].pc = "insert" =>
         client[c].decision = Decision(client[c].req.tenant, client[c].req.hash)
  /\ \A id \in TransferIDs :
       /\ transfers[id].status = "review" => Decided(transfers[id]) = "review"
       /\ transfers[id].status \in PastAcceptance =>
            \/ Decided(transfers[id]) = "accepted"
            \/ Decided(transfers[id]) = "review" /\ ReviewApproved(id)

(* README 257, `high-risk receivers are blocked before SPI message         *)
(* creation', and docs/domain/state-machines.md 24: the SPI never receives *)
(* a transfer to a flagged key, and one of 10,000 BRL or more to a key     *)
(* with a risk signal from 10 only after a reviewer approved it, whatever  *)
(* was retried, replayed, raced or restarted on the way.                   *)
RiskPolicy ==
  \A id \in spiReceived :
    LET h == transfers[id].hash IN
    /\ h.receiver \notin RiskKeys
    /\ h.amount >= 1000000 /\ RiskSignal(transfers[id].tenant, h.receiver) >= 10
         => ReviewApproved(id)
=============================================================================

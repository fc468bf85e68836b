-------------------------- MODULE Processes_proofs --------------------------
(***************************************************************************)
(* Proofs about the two processes that use the switch.                     *)
(*                                                                         *)
(* Api, for any sets of tenants, keys, transfers, handlers, payloads,      *)
(* signatures and production environments: the HTTP layer implements the   *)
(* switch, so that everything proved of Switch holds of the API process    *)
(* across restarts, and gates it by role and tenant.                       *)
(*                                                                         *)
(* SPIWorker, for any number of workers and transfers and any batch size:  *)
(* it is one of the uses of the switch that Switch allows, so that every   *)
(* theorem on Switch holds of it, and its batches are what                 *)
(* SubmitPendingSPI takes them for.                                        *)
(***************************************************************************)
EXTENDS Api, SPIWorker, Switch_proofs

(* A configuration that loads in production is on PostgreSQL, and its keys *)
(* are not empty and belong to tenants.                                    *)
LEMMA LoadedConfig ==
  ASSUME NEW e \in Environments, Loads(e)
  PROVE  /\ Driver(e) = "postgres" /\ Load(e).driver = "postgres"
         /\ Load(e) # None
         /\ None \notin DOMAIN Load(e).keys
         /\ \A s \in DOMAIN Load(e).keys : Load(e).keys[s].tenant \in Tenants
<1>1. /\ e.env = "production" /\ e.apiKeys # <<>>
      /\ \A i \in 1..Len(e.apiKeys) : e.apiKeys[i].tenant \in Tenants
      /\ \A i \in 1..Len(e.apiKeys) : ValidEntry(e.apiKeys[i])
  BY EnvironmentAssumption DEF Loads, ValidSecrets, ValidAPIKeys
<1>2. Driver(e) = "postgres" /\ Load(e) # None /\ Load(e).driver = "postgres"
  BY <1>1, EnvironmentAssumption DEF Loads, ValidDriver, Load
<1>3. Load(e).keys = ParseAPIKeys(e.apiKeys)
  BY <1>1, SMTT(30) DEF Load
<1>4. DOMAIN Load(e).keys = {e.apiKeys[i].secret : i \in 1..Len(e.apiKeys)}
  BY <1>3 DEF ParseAPIKeys
<1>5. None \notin DOMAIN Load(e).keys
  BY <1>1, <1>4 DEF ValidEntry
<1>6. ASSUME NEW s \in DOMAIN Load(e).keys PROVE Load(e).keys[s].tenant \in Tenants
  <2> DEFINE i == CHOOSE k \in 1..Len(e.apiKeys) : e.apiKeys[k].secret = s
  <2>1. \E k \in 1..Len(e.apiKeys) : e.apiKeys[k].secret = s
    BY <1>4, <1>6
  <2>2. i \in 1..Len(e.apiKeys)
    BY <2>1
  <2>3. Load(e).keys[s] =
          [tenant |-> e.apiKeys[i].tenant,
           roles  |-> IF e.apiKeys[i].roles = None THEN {"tenant"} ELSE Elements(e.apiKeys[i].roles)]
    BY <1>3, <1>4, <1>6, Zenon DEF ParseAPIKeys
  <2> HIDE DEF i
  <2> QED
    BY <1>1, <2>2, <2>3
<1> QED
  BY <1>2, <1>5, <1>6

(* So is the configuration a process serves with.                          *)
LEMMA ServedConfig ==
  ASSUME ApiTypeOK, conf # None
  PROVE  /\ conf.driver = "postgres"
         /\ None \notin DOMAIN conf.keys
         /\ \A s \in DOMAIN conf.keys : TenantOf(s) \in Tenants
<1>1. PICK e \in Environments : Loads(e) /\ conf = Load(e)
  BY DEF ApiTypeOK
<1> QED
  BY <1>1, LoadedConfig DEF TenantOf

-----------------------------------------------------------------------------
(* What a step of a request does to the request itself: it goes on, or its *)
(* handler is given a key of the configuration, or none.                   *)
Passes(h) ==
  /\ UNCHANGED <<phase, conf>>
  /\ \/ UNCHANGED caller
     \/ \E s \in DOMAIN conf.keys \cup {None} : caller' = [caller EXCEPT ![h] = s]

(* The step a request takes, sorted by the kind of its handler.            *)
ClientActs(c) ==
  /\ Passes(c)
  /\ \/ \E secret \in Secrets, key \in Keys, p \in Payloads : PostTransfer(c, secret, key, p)
     \/ PostDecide(c) \/ PostRefused(c) \/ PostInsert(c) \/ PostRefind(c)
     \/ CreateAbort(c) /\ caller' = [caller EXCEPT ![c] = None] /\ UNCHANGED conf /\ answer' = NoAnswer
WorkerActs(w) ==
  /\ Passes(w)
  /\ \/ \E secret \in Secrets, id \in TransferIDs : SubmitCall(w, secret, id)
     \/ SubmitClaims(w) \/ SubmitSends(w) \/ SubmitRecords(w) \/ SubmitReleases(w)
     \/ SubmitAbort(w) /\ caller' = [caller EXCEPT ![w] = None] /\ UNCHANGED conf /\ answer' = NoAnswer
ReviewerActs(r) ==
  /\ Passes(r)
  /\ \/ \E secret \in Secrets, id \in TransferIDs, d \in ReviewDecision \cup {"other"} :
          ReviewCall(r, secret, id, d)
     \/ ReviewCommits(r)
     \/ ReviewAbort(r) /\ caller' = [caller EXCEPT ![r] = None] /\ UNCHANGED conf /\ answer' = NoAnswer
ProviderActs(p) ==
  /\ Passes(p)
  /\ \/ \E secret \in Secrets, cb \in Callbacks, sig \in Signatures :
          SettleCall(p, secret, cb, sig)
     \/ SettleCommits(p)
     \/ SettleAbort(p) /\ caller' = [caller EXCEPT ![p] = None] /\ UNCHANGED conf /\ answer' = NoAnswer

(* A step that only reads: what it answers, if anything, is of one tenant, *)
(* and it counts nothing.                                                  *)
Reads ==
  /\ UNCHANGED <<vars, phase, conf, caller>> /\ answer'.events = 0
  /\ \/ \E secret \in Secrets, id \in TransferIDs : GetCall(secret, id)
     \/ \E secret \in Secrets : GetOutbox(secret)
     \/ answer'.about = {} /\ answer'.status \in {400, 401, 403}

Acts ==
  \/ \E c \in Clients : ClientActs(c)
  \/ \E w \in Workers : WorkerActs(w)
  \/ \E r \in Reviewers : ReviewerActs(r)
  \/ \E p \in Providers : ProviderActs(p)
  \/ Reads

(* A request that arrives makes the first step of its use case, or none.   *)
LEMMA CallsSwitch ==
  ASSUME ApiTypeOK, Call
  PROVE  /\ [Next]_vars
         /\ conf # None
         /\ Acts
<1>0. PICK secret \in Secrets :
        \/ \E c \in Clients, key \in Keys, p \in Payloads : PostTransfer(c, secret, key, p)
        \/ \E w \in Workers, id \in TransferIDs : SubmitCall(w, secret, id)
        \/ \E r \in Reviewers, id \in TransferIDs, d \in ReviewDecision \cup {"other"} :
             ReviewCall(r, secret, id, d)
        \/ \E p \in Providers, cb \in Callbacks, sig \in Signatures : SettleCall(p, secret, cb, sig)
        \/ \E id \in TransferIDs : GetCall(secret, id)
        \/ GetOutbox(secret)
        \/ \E role \in Roles : RefuseKey(secret, role)
        \/ \E p \in Payloads : RefuseBody(secret, p)
        \/ \E sig \in Signatures : RefuseCallback(secret, sig)
  BY Zenon DEF Call
<1>1. ASSUME NEW h, NEW role, Admitted(h, secret, role)
      PROVE  secret \in DOMAIN conf.keys /\ TenantOf(secret) \in Tenants
  <2>1. conf # None
    BY <1>1 DEF Admitted, ApiTypeOK
  <2> QED
    BY <1>1, <2>1, ServedConfig DEF Admitted, Authorised
<1>2. ASSUME NEW c \in Clients, NEW key \in Keys, NEW p \in Payloads,
             PostTransfer(c, secret, key, p)
      PROVE  Next /\ ClientActs(c)
  <2> DEFINE req == [tenant |-> TenantOf(secret), key |-> key, hash |-> Fingerprint(p)]
  <2>1. Admitted(c, secret, "tenant") /\ Valid(p) /\ CreateFind(c, req)
    BY <1>2, Zenon DEF PostTransfer
  <2>2. req \in Request
    BY <1>1, <2>1, PayloadAssumption DEF Request
  <2>3. Passes(c)
    BY <1>1, <1>2, <2>1, Zenon DEF PostTransfer, Passes, Holding, Answers, AnswersCounting
  <2> HIDE DEF req
  <2> QED
    BY <1>2, <2>1, <2>2, <2>3, Zenon DEF Next, ClientStep, ClientActs
<1>3. ASSUME NEW w \in Workers, NEW id \in TransferIDs, SubmitCall(w, secret, id)
      PROVE  Next /\ WorkerActs(w)
  <2>1. Next /\ Passes(w)
    BY <1>1, <1>3, Zenon DEF SubmitCall, Next, WorkerStep, Passes, Holding
  <2> QED
    BY <1>3, <2>1, Zenon DEF WorkerActs
<1>4. ASSUME NEW r \in Reviewers, NEW id \in TransferIDs, NEW d \in ReviewDecision \cup {"other"},
             ReviewCall(r, secret, id, d)
      PROVE  [Next]_vars /\ ReviewerActs(r)
  <2>1. TenantOf(secret) \in Tenants /\ secret \in DOMAIN conf.keys
    BY <1>1, <1>4, Zenon DEF ReviewCall
  <2>2. Passes(r)
    BY <1>4, <2>1, Zenon DEF ReviewCall, Passes, Holding, Answers, AnswersCounting
  <2>3. \/ d \in ReviewDecision /\ ReviewRead(r, TenantOf(secret), id, d)
        \/ UNCHANGED vars
    BY <1>4, Zenon DEF ReviewCall
  <2> QED
    BY <1>4, <2>1, <2>2, <2>3, Zenon DEF Next, ReviewerStep, ReviewerActs
<1>5. ASSUME NEW p \in Providers, NEW cb \in Callbacks, NEW sig \in Signatures,
             SettleCall(p, secret, cb, sig)
      PROVE  [Next]_vars /\ ProviderActs(p)
  <2>1. secret \in DOMAIN conf.keys
    BY <1>1, <1>5, Zenon DEF SettleCall
  <2>2. Passes(p)
    BY <1>5, <2>1, Zenon DEF SettleCall, Passes, Holding, Answers, AnswersCounting
  <2>3. (cb.status \in SettlementStatus /\ SettleRead(p, cb)) \/ UNCHANGED vars
    BY <1>5, Zenon DEF SettleCall
  <2>4. cb.status \in SettlementStatus => cb \in Callback
    BY DEF Callbacks, Callback
  <2> QED
    BY <1>5, <2>2, <2>3, <2>4, Zenon DEF Next, ProviderStep, ProviderActs
<1>6. ASSUME NEW tenant, NEW status, NEW about, Reply(tenant, status, about)
      PROVE  /\ UNCHANGED <<vars, phase, conf, caller>>
             /\ answer'.about = about /\ answer'.status = status /\ answer'.events = 0
  BY <1>6 DEF Reply, Response
<1>7. ASSUME (\E id \in TransferIDs : GetCall(secret, id)) \/ GetOutbox(secret)
      PROVE  Reads
  <2>1. \E tenant, status, about : Reply(tenant, status, about)
    BY <1>7, ZenonT(60) DEF GetCall, GetOutbox
  <2>2. UNCHANGED <<vars, phase, conf, caller>> /\ answer'.events = 0
    BY <1>6, <2>1
  <2> QED
    BY <1>7, <2>2, ZenonT(60) DEF Reads
<1>8. ASSUME \/ \E role \in Roles : RefuseKey(secret, role)
             \/ \E p \in Payloads : RefuseBody(secret, p)
             \/ \E sig \in Signatures : RefuseCallback(secret, sig)
      PROVE  Reads
  <2>1. \E status \in {400, 401, 403} : \E tenant : Reply(tenant, status, {})
    BY <1>8 DEF RefuseKey, RefuseBody, RefuseCallback
  <2>2. /\ UNCHANGED <<vars, phase, conf, caller>> /\ answer'.events = 0
        /\ answer'.about = {} /\ answer'.status \in {400, 401, 403}
    BY <1>6, <2>1
  <2> QED
    BY <2>2, Zenon DEF Reads
<1>9. phase = "serving"
  BY <1>0, ZenonT(60) DEF PostTransfer, SubmitCall, ReviewCall, SettleCall, Admitted, GetCall,
     GetOutbox, RefuseKey, RefuseBody, RefuseCallback
<1>10. conf # None
  BY <1>9 DEF ApiTypeOK
<1> QED
  BY <1>0, <1>2, <1>3, <1>4, <1>5, <1>7, <1>8, <1>10, ZenonT(60) DEF Acts, Reads

(* A handler that goes on makes the next step of its use case.             *)
LEMMA HandlesSwitch ==
  ASSUME ApiTypeOK, Handle
  PROVE  Next /\ conf # None /\ Acts
<1>1. ASSUME NEW c \in Clients,
             PostDecide(c) \/ PostRefused(c) \/ PostInsert(c) \/ PostRefind(c)
      PROVE  ClientStep(c) /\ Passes(c)
  BY <1>1, Zenon DEF PostDecide, PostRefused, PostInsert, PostRefind, ClientStep, Passes,
     Continues, Answers, AnswersCounting, CommitUnheard
<1>2. ASSUME NEW w \in Workers,
             SubmitClaims(w) \/ SubmitSends(w) \/ SubmitRecords(w) \/ SubmitReleases(w)
      PROVE  WorkerStep(w) /\ Passes(w)
  BY <1>2, Zenon DEF SubmitClaims, SubmitSends, SubmitRecords, SubmitReleases, WorkerStep, Passes,
     Continues, Answers, AnswersCounting, CommitUnheard
<1>3. ASSUME NEW r \in Reviewers, ReviewCommits(r) PROVE ReviewerStep(r) /\ Passes(r)
  BY <1>3, Zenon DEF ReviewCommits, ReviewerStep, Passes, AnswersCounting, CommitUnheard
<1>4. ASSUME NEW p \in Providers, SettleCommits(p) PROVE ProviderStep(p) /\ Passes(p)
  BY <1>4, Zenon DEF SettleCommits, ProviderStep, Passes, AnswersCounting, CommitUnheard
<1>5. ASSUME NEW h \in Handlers, Abandon(h) PROVE Next /\ Acts
  <2>1. Passes(h) /\ caller' = [caller EXCEPT ![h] = None] /\ UNCHANGED conf /\ answer' = NoAnswer
    BY <1>5, Zenon DEF Abandon, Passes
  <2>2. Next
    BY <1>5, Zenon DEF Abandon, Next, ClientStep, WorkerStep, ReviewerStep, ProviderStep
  <2>3. \/ h \in Clients /\ ClientActs(h)
        \/ h \in Workers /\ WorkerActs(h)
        \/ h \in Reviewers /\ ReviewerActs(h)
        \/ h \in Providers /\ ProviderActs(h)
    BY <1>5, <2>1, Zenon DEF Abandon, ClientActs, WorkerActs, ReviewerActs, ProviderActs
  <2> QED
    BY <2>2, <2>3, Zenon DEF Acts
<1>6. phase # "down" \/ \E h \in Handlers : caller[h] # None
  BY Zenon DEF Handle, PostDecide, PostRefused, PostInsert, PostRefind, SubmitClaims, SubmitSends,
     SubmitRecords, SubmitReleases, ReviewCommits, SettleCommits, Goes, Abandon
<1>7. conf # None
  BY <1>6 DEF ApiTypeOK
<1> QED
  <2>1. ASSUME NEW c \in Clients,
               PostDecide(c) \/ PostRefused(c) \/ PostInsert(c) \/ PostRefind(c)
        PROVE  Next /\ Acts
    BY <1>1, <2>1, Zenon DEF Next, Acts, ClientActs
  <2>2. ASSUME NEW w \in Workers,
               SubmitClaims(w) \/ SubmitSends(w) \/ SubmitRecords(w) \/ SubmitReleases(w)
        PROVE  Next /\ Acts
    BY <1>2, <2>2, Zenon DEF Next, Acts, WorkerActs
  <2>3. ASSUME NEW r \in Reviewers, ReviewCommits(r) PROVE Next /\ Acts
    BY <1>3, <2>3, Zenon DEF Next, Acts, ReviewerActs
  <2>4. ASSUME NEW p \in Providers, SettleCommits(p) PROVE Next /\ Acts
    BY <1>4, <2>4, Zenon DEF Next, Acts, ProviderActs
  <2> QED
    BY <1>5, <1>7, <2>1, <2>2, <2>3, <2>4, Zenon DEF Handle

(* A start leaves the database as it was.                                  *)
LEMMA StartKeeps ==
  ASSUME NEW e \in Environments, Start(e)
  PROVE  /\ UNCHANGED <<vars, caller>> /\ phase' = "serving" /\ conf' = Load(e) /\ Loads(e)
         /\ \A h \in Handlers : caller[h] = None
<1>1. Driver(e) # "memory"
  BY LoadedConfig DEF Start
<1>2. UNCHANGED storeVars
  BY <1>1 DEF Start, BuildStore
<1> QED
  BY <1>2 DEF Start, vars

(* The process serves with what Load let through, whatever is started,     *)
(* stopped and called in what order, and main never serves unconfigured.   *)
THEOREM ApiTypeCorrect == ApiSpec => []ApiTypeOK
<1>1. ApiInit => ApiTypeOK
  BY DEF ApiInit, ApiTypeOK
<1>2. ASSUME ApiTypeOK, [ApiNext]_apiVars PROVE ApiTypeOK'
  <2>1. ASSUME NEW h, conf # None, Passes(h) PROVE ApiTypeOK'
    <3>1. CASE UNCHANGED caller
      BY <1>2, <2>1, <3>1 DEF Passes, ApiTypeOK
    <3>2. ASSUME NEW s \in DOMAIN conf.keys \cup {None}, caller' = [caller EXCEPT ![h] = s]
          PROVE  ApiTypeOK'
      <4>1. UNCHANGED <<phase, conf>> /\ DOMAIN caller' = Handlers
        BY <1>2, <2>1, <3>2 DEF Passes, ApiTypeOK
      <4>2. \A x \in Handlers : caller'[x] = caller[x] \/ caller'[x] = s
        BY <1>2, <3>2 DEF ApiTypeOK
      <4> QED
        BY <1>2, <2>1, <4>1, <4>2 DEF ApiTypeOK
    <3> QED
      BY <2>1, <3>1, <3>2 DEF Passes
  <2>2. ASSUME NEW e \in Environments, Start(e) PROVE ApiTypeOK'
    <3>1. conf' = Load(e) /\ Loads(e) /\ conf' # None
      BY <2>2, StartKeeps, LoadedConfig
    <3> QED
      BY <1>2, <2>2, <3>1, StartKeeps DEF ApiTypeOK
  <2>3. CASE Signal \/ Exit
    BY <1>2, <2>3 DEF Signal, Exit, ApiTypeOK
  <2>4. CASE TimePasses \/ UNCHANGED apiVars
    BY <1>2, <2>4 DEF TimePasses, apiVars, ApiTypeOK
  <2>5. ASSUME conf # None, Acts PROVE ApiTypeOK'
    <3>1. \E h : Passes(h)
      BY <2>5, Zenon DEF Acts, ClientActs, WorkerActs, ReviewerActs, ProviderActs, Reads, Passes
    <3> QED
      BY <2>1, <2>5, <3>1
  <2> QED
    BY <1>2, <2>2, <2>3, <2>4, <2>5, CallsSwitch, HandlesSwitch, Zenon DEF ApiNext, Process
<1> QED
  BY <1>1, <1>2, PTL DEF ApiSpec

(* Every step of the API process is a step of the switch or none that its  *)
(* store and handlers notice: requests, refusals, signals, crashes and     *)
(* restarts of the process need no use case Switch does not have.          *)
THEOREM ImplementsSwitch == ApiSpec => Spec
<1>1. ApiInit => Init
  BY DEF ApiInit
<1>2. ApiTypeOK /\ [ApiNext]_apiVars => [Next]_vars
  <2> SUFFICES ASSUME ApiTypeOK, [ApiNext]_apiVars PROVE [Next]_vars
    OBVIOUS
  <2>1. CASE Process
    BY <2>1, StartKeeps, Zenon DEF Process, Signal, Exit
  <2>2. CASE TimePasses
    BY <2>2 DEF TimePasses, Next
  <2>3. CASE UNCHANGED apiVars
    BY <2>3 DEF apiVars
  <2> QED
    BY <2>1, <2>2, <2>3, CallsSwitch, HandlesSwitch DEF ApiNext
<1> QED
  BY <1>1, <1>2, ApiTypeCorrect, PTL DEF ApiSpec, Spec

(* What Switch guarantees, the API process guarantees across restarts:     *)
(* answers to creates, the index and the rows, and what the SPI received.  *)
THEOREM ApiKeepsPromises ==
  ApiSpec => [](RepliesAgree /\ IndexMatchesRows /\ ClientFacts /\ SubmissionSafety)
  BY ImplementsSwitch, RepliesCorrect, IndexCorrect, ClientsCorrect, SubmissionsSafe, PTL

-----------------------------------------------------------------------------
(* CallerFacts, handler by handler.                                        *)
ClientServes(c) ==
  IF caller[c] = None THEN client[c].pc = "idle"
  ELSE client[c].pc # "idle" /\ HoldsKey(c, "tenant", client[c].req.tenant)
WorkerServes(w) ==
  IF caller[w] = None THEN worker[w].pc = "idle"
  ELSE worker[w].pc # "idle" /\ HoldsKey(w, "worker", worker[w].tenant)
ReviewerServes(r) ==
  IF caller[r] = None THEN reviewer[r].pc = "idle"
  ELSE reviewer[r].pc # "idle" /\ HoldsKey(r, "risk", reviewer[r].tenant)
ProviderServes(p) ==
  IF caller[p] = None THEN provider[p].pc = "idle"
  ELSE provider[p].pc # "idle" /\ HoldsKey(p, "provider", provider[p].callback.tenant)

(* Handlers of one kind are not handlers of another.                       *)
LEMMA KindsDisjoint ==
  /\ \A c \in Clients : c \in Handlers /\ c \notin Workers \cup Reviewers \cup Providers
  /\ \A w \in Workers : w \in Handlers /\ w \notin Clients \cup Reviewers \cup Providers
  /\ \A r \in Reviewers : r \in Handlers /\ r \notin Clients \cup Workers \cup Providers
  /\ \A p \in Providers : p \in Handlers /\ p \notin Clients \cup Workers \cup Reviewers
  BY HandlersAssumption DEF Handlers

(* A step of one handler's request leaves the other handlers' keys alone.  *)
LEMMA OtherCallers ==
  ASSUME ApiTypeOK, NEW h, Passes(h)
  PROVE  /\ UNCHANGED conf
         /\ \A x \in Handlers \ {h} : caller'[x] = caller[x]
  BY SMTT(30) DEF ApiTypeOK, Passes

(* A handler whose key and locals stay serves as before.                   *)
LEMMA ServesOn ==
  ASSUME UNCHANGED conf
  PROVE  /\ \A c : caller'[c] = caller[c] /\ client'[c] = client[c] /\ ClientServes(c)
                     => ClientServes(c)'
         /\ \A w : caller'[w] = caller[w] /\ worker'[w].pc = worker[w].pc
                     /\ worker'[w].tenant = worker[w].tenant /\ WorkerServes(w)
                     => WorkerServes(w)'
         /\ \A r : caller'[r] = caller[r] /\ reviewer'[r] = reviewer[r] /\ ReviewerServes(r)
                     => ReviewerServes(r)'
         /\ \A p : caller'[p] = caller[p] /\ provider'[p] = provider[p] /\ ProviderServes(p)
                     => ProviderServes(p)'
  BY DEF ClientServes, WorkerServes, ReviewerServes, ProviderServes, HoldsKey

(* A request that goes on keeps its key; one that is answered has none.    *)
LEMMA KeyHeld ==
  ASSUME ApiTypeOK, NEW h \in Handlers
  PROVE  /\ caller' = [caller EXCEPT ![h] = None] => caller'[h] = None
         /\ \A s : caller' = [caller EXCEPT ![h] = s] => caller'[h] = s
         /\ Continues => caller'[h] = caller[h]
         /\ \A s, st, ab, ev : AnswersCounting(h, s, st, ab, ev) => caller'[h] = None
         /\ \A s, st, ab : Answers(h, s, st, ab) => caller'[h] = None
         /\ CommitUnheard(h) => caller'[h] = None
         /\ \A s : Holding(h, s) => caller'[h] = s
<1>1. \A s : caller' = [caller EXCEPT ![h] = s] => caller'[h] = s
  BY DEF ApiTypeOK
<1> QED
  BY <1>1, Zenon DEF Continues, AnswersCounting, Answers, CommitUnheard, Holding

(* A client's handler serves its tenant through every step of a create.    *)
LEMMA ClientServed ==
  ASSUME TypeOK, ApiTypeOK, NEW c \in Clients, ClientServes(c),
         \/ \E secret \in Secrets, key \in Keys, p \in Payloads : PostTransfer(c, secret, key, p)
         \/ PostDecide(c) \/ PostRefused(c) \/ PostInsert(c) \/ PostRefind(c)
         \/ CreateAbort(c) /\ caller' = [caller EXCEPT ![c] = None] /\ UNCHANGED conf
  PROVE  /\ ClientServes(c)'
         /\ \A o \in Clients \ {c} : client'[o] = client[o]
         /\ UNCHANGED <<worker, reviewer, provider>>
<1>0. c \in Handlers
  BY KindsDisjoint, SMTT(30)
<1>1. /\ \A o \in Clients \ {c} : client'[o] = client[o]
      /\ UNCHANGED <<worker, reviewer, provider>>
  <2>1. (\E req : CreateFind(c, req)) \/ CreateDecide(c) \/ CreateInsert(c) \/ CreateRefind(c)
          \/ CreateAbort(c)
    BY ZenonT(60) DEF PostTransfer, PostDecide, PostRefused, PostInsert, PostRefind
  <2> QED
    BY <2>1, Zenon DEF TypeOK, CreateFind, CreateDecide, CreateInsert, CreateRefind, CreateAbort
<1>2. ASSUME caller'[c] = None, client'[c] = IdleClient PROVE ClientServes(c)'
  BY <1>2 DEF ClientServes, IdleClient
<1>3. ASSUME NEW secret \in Secrets, NEW key \in Keys, NEW p \in Payloads,
             PostTransfer(c, secret, key, p)
      PROVE  ClientServes(c)'
  <2> DEFINE req == [tenant |-> TenantOf(secret), key |-> key, hash |-> Fingerprint(p)]
  <2>1. /\ Authorised(secret, "tenant") /\ conf # None /\ UNCHANGED conf
        /\ CreateFind(c, req) /\ client[c].pc = "idle"
    BY <1>3, Zenon DEF PostTransfer, Admitted, ApiTypeOK, CreateFind
  <2>2. CASE FindByIdempotency(req.tenant, key) = None
    <3>1. caller'[c] = secret
      BY <1>0, <1>3, <2>2, KeyHeld, Zenon DEF PostTransfer
    <3>2. client'[c] = [pc |-> "decide", req |-> req, id |-> None, decision |-> None]
      BY <2>1, <2>2, SMTT(30) DEF TypeOK, CreateFind
    <3>3. client'[c].pc = "decide" /\ client'[c].req.tenant = TenantOf(secret)
      BY <3>2, SMTT(30)
    <3>4. secret # None /\ secret \in DOMAIN conf.keys
      BY <2>1, ServedConfig, ZenonT(60) DEF Authorised
    <3> HIDE DEF req
    <3> QED
      BY <2>1, <3>1, <3>3, <3>4 DEF ClientServes, HoldsKey, Authorised, TenantOf
  <2>3. CASE FindByIdempotency(req.tenant, key) # None
    <3>1. caller'[c] = None
      BY <1>0, <1>3, <2>3, KeyHeld, Zenon DEF PostTransfer
    <3>2. UNCHANGED client
      BY <2>1, <2>3, SMTT(30) DEF CreateFind
    <3> QED
      BY <2>1, <3>1, <3>2 DEF ClientServes
  <2> QED
    BY <2>2, <2>3
<1>4. ASSUME UNCHANGED conf, caller'[c] = caller[c], caller[c] # None,
             client'[c].pc # "idle", client'[c].req = client[c].req
      PROVE  ClientServes(c)'
  BY <1>4, SMTT(30) DEF ClientServes, HoldsKey
<1>5. ASSUME PostDecide(c) PROVE ClientServes(c)'
  <2>1. caller'[c] = caller[c] /\ caller[c] # None /\ UNCHANGED conf /\ CreateDecide(c)
    BY <1>0, <1>5, KeyHeld, Zenon DEF PostDecide, Goes
  <2>2. client'[c].pc = "insert" /\ client'[c].req = client[c].req
    BY <2>1 DEF TypeOK, CreateDecide, ClientState, IdleClient
  <2> QED
    BY <1>4, <2>1, <2>2
<1>6. ASSUME PostRefused(c) \/ PostRefind(c)
                 \/ (CreateAbort(c) /\ caller' = [caller EXCEPT ![c] = None])
      PROVE  ClientServes(c)'
  <2>1. caller'[c] = None
    BY <1>0, <1>6, KeyHeld, ZenonT(60) DEF PostRefused, PostRefind
  <2>2. CreateAbort(c) \/ CreateRefind(c)
    BY <1>6, Zenon DEF PostRefused, PostRefind
  <2>3. client'[c] = IdleClient
    BY <2>2 DEF TypeOK, CreateAbort, CreateRefind
  <2> QED
    BY <1>2, <2>1, <2>3
<1>7. ASSUME PostInsert(c) PROVE ClientServes(c)'
  <2>1. CreateInsert(c) /\ caller[c] # None /\ UNCHANGED conf
    BY <1>7, Zenon DEF PostInsert, Goes
  <2>2. \/ client'[c] = IdleClient
        \/ client'[c].pc = "refind" /\ client'[c].req = client[c].req
    BY <2>1 DEF TypeOK, CreateInsert, ClientState, IdleClient
  <2>3. CASE client'[c] = IdleClient
    <3>1. client'[c].pc = "idle"
      BY <2>3 DEF IdleClient
    <3>2. caller'[c] = None
      BY <1>0, <1>7, <3>1, KeyHeld, ZenonT(60) DEF PostInsert
    <3> QED
      BY <1>2, <2>3, <3>2, SMTT(30)
  <2>4. CASE client'[c].pc = "refind" /\ client'[c].req = client[c].req
    <3>1. client'[c].pc # "idle"
      BY <2>4
    <3>2. caller'[c] = caller[c]
      BY <1>0, <1>7, <3>1, KeyHeld, Zenon DEF PostInsert
    <3> QED
      BY <1>4, <2>1, <2>4, <3>1, <3>2, SMTT(30)
  <2> QED
    BY <2>2, <2>3, <2>4
<1> QED
  BY <1>1, <1>3, <1>5, <1>6, <1>7, Zenon

(* So does a worker's through every step of a submission.                  *)
LEMMA WorkerServed ==
  ASSUME TypeOK, ApiTypeOK, NEW w \in Workers, WorkerServes(w),
         \/ \E secret \in Secrets, id \in TransferIDs : SubmitCall(w, secret, id)
         \/ SubmitClaims(w) \/ SubmitSends(w) \/ SubmitRecords(w) \/ SubmitReleases(w)
         \/ SubmitAbort(w) /\ caller' = [caller EXCEPT ![w] = None] /\ UNCHANGED conf
  PROVE  /\ WorkerServes(w)'
         /\ \A o \in Workers \ {w} : worker'[o] = worker[o]
         /\ UNCHANGED <<client, reviewer, provider>>
<1>0. w \in Handlers
  BY KindsDisjoint, SMTT(30)
<1>1. /\ \A o \in Workers \ {w} : worker'[o] = worker[o]
      /\ UNCHANGED <<client, reviewer, provider>>
  <2>1. (\E tenant, id : SubmitStart(w, tenant, id)) \/ SubmitClaim(w) \/ SubmitAccepted(w)
          \/ SubmitFailed(w) \/ SubmitRecord(w) \/ SubmitRelease(w) \/ SubmitAbort(w)
    BY Zenon DEF SubmitCall, SubmitClaims, SubmitSends, SubmitRecords, SubmitReleases
  <2> QED
    BY <2>1 DEF TypeOK, SubmitStart, SubmitClaim, SubmitAccepted, SubmitFailed, SubmitRecord,
       SubmitRelease, SubmitAbort
<1>2. ASSUME caller'[w] = None, worker'[w] = IdleWorker PROVE WorkerServes(w)'
  BY <1>2, SMTT(30) DEF WorkerServes, IdleWorker
<1>3. ASSUME UNCHANGED conf, caller'[w] = caller[w], caller[w] # None,
             worker'[w].pc # "idle", worker'[w].tenant = worker[w].tenant
      PROVE  WorkerServes(w)'
  BY <1>3, SMTT(30) DEF WorkerServes, HoldsKey
<1>4. ASSUME NEW secret \in Secrets, NEW id \in TransferIDs, SubmitCall(w, secret, id)
      PROVE  WorkerServes(w)'
  <2>1. /\ Authorised(secret, "worker") /\ conf # None /\ UNCHANGED conf
        /\ SubmitStart(w, TenantOf(secret), id) /\ caller'[w] = secret
    BY <1>0, <1>4, KeyHeld, Zenon DEF SubmitCall, Admitted, ApiTypeOK
  <2>2. worker'[w].pc = "claim" /\ worker'[w].tenant = TenantOf(secret)
    BY <2>1, SMTT(30) DEF TypeOK, SubmitStart
  <2>3. secret # None /\ secret \in DOMAIN conf.keys
    BY <2>1, ServedConfig DEF Authorised
  <2> QED
    BY <2>1, <2>2, <2>3 DEF WorkerServes, HoldsKey, Authorised, TenantOf
<1>5. ASSUME SubmitClaims(w) PROVE WorkerServes(w)'
  <2> DEFINE claims == ClaimSucceeds(worker[w].tenant, worker[w].id, worker[w].until)
  <2>1. SubmitClaim(w) /\ caller[w] # None /\ UNCHANGED conf
    BY <1>5, Zenon DEF SubmitClaims, Goes
  <2>2. CASE claims
    <3>1. caller'[w] = caller[w]
      BY <1>0, <1>5, <2>2, KeyHeld, Zenon DEF SubmitClaims
    <3>2. worker' = [worker EXCEPT ![w].pc = "submit"]
      BY <2>1, <2>2, Zenon DEF SubmitClaim
    <3>3. worker'[w].pc = "submit" /\ worker'[w].tenant = worker[w].tenant
      BY <3>2 DEF TypeOK, WorkerState, IdleWorker
    <3> QED
      BY <1>3, <2>1, <3>1, <3>3
  <2>3. CASE ~claims
    <3>1. caller' = [caller EXCEPT ![w] = None]
      BY <1>5, <2>3 DEF SubmitClaims, Answers, AnswersCounting
    <3>2. worker'[w] = IdleWorker
      BY <2>1, <2>3 DEF TypeOK, SubmitClaim
    <3> QED
      BY <1>0, <1>2, <3>1, <3>2, KeyHeld, Zenon
  <2> QED
    BY <2>2, <2>3
<1>6. ASSUME SubmitSends(w) PROVE WorkerServes(w)'
  <2>1. /\ SubmitAccepted(w) \/ SubmitFailed(w)
        /\ caller'[w] = caller[w] /\ caller[w] # None /\ UNCHANGED conf
    BY <1>0, <1>6, KeyHeld, Zenon DEF SubmitSends, Goes
  <2>2. worker'[w].pc # "idle" /\ worker'[w].tenant = worker[w].tenant
    BY <2>1 DEF TypeOK, SubmitAccepted, SubmitFailed, WorkerState, IdleWorker
  <2> QED
    BY <1>3, <2>1, <2>2
<1>7. ASSUME SubmitRecords(w) \/ SubmitReleases(w)
                \/ (SubmitAbort(w) /\ caller' = [caller EXCEPT ![w] = None])
      PROVE  WorkerServes(w)'
  <2>1. caller'[w] = None
    BY <1>0, <1>7, KeyHeld, ZenonT(60) DEF SubmitRecords, SubmitReleases
  <2>2. SubmitRecord(w) \/ SubmitRelease(w) \/ SubmitAbort(w)
    BY <1>7, Zenon DEF SubmitRecords, SubmitReleases
  <2>3. worker'[w] = IdleWorker
    BY <2>2 DEF TypeOK, SubmitRecord, SubmitRelease, SubmitAbort
  <2> QED
    BY <1>2, <2>1, <2>3
<1> QED
  BY <1>1, <1>4, <1>5, <1>6, <1>7, Zenon

(* And a reviewer's through the two steps of a review.                     *)
LEMMA ReviewerServed ==
  ASSUME TypeOK, ApiTypeOK, NEW r \in Reviewers, ReviewerServes(r),
         \/ \E secret \in Secrets, id \in TransferIDs, d \in ReviewDecision \cup {"other"} :
              ReviewCall(r, secret, id, d)
         \/ ReviewCommits(r)
         \/ ReviewAbort(r) /\ caller' = [caller EXCEPT ![r] = None] /\ UNCHANGED conf
  PROVE  /\ ReviewerServes(r)'
         /\ \A o \in Reviewers \ {r} : reviewer'[o] = reviewer[o]
         /\ UNCHANGED <<client, worker, provider>>
<1>0. r \in Handlers
  BY KindsDisjoint, ZenonT(60)
<1>1. /\ \A o \in Reviewers \ {r} : reviewer'[o] = reviewer[o]
      /\ UNCHANGED <<client, worker, provider>>
  <2>1. (\E tenant, id, d : ReviewRead(r, tenant, id, d)) \/ ReviewCommit(r) \/ ReviewAbort(r)
          \/ UNCHANGED vars
    BY Zenon DEF ReviewCall, ReviewCommits
  <2> QED
    BY <2>1 DEF TypeOK, ReviewRead, ReviewCommit, ReviewAbort, vars, handlerVars
<1>2. ASSUME NEW secret \in Secrets, NEW id \in TransferIDs, NEW d \in ReviewDecision \cup {"other"},
             ReviewCall(r, secret, id, d)
      PROVE  ReviewerServes(r)'
  <2>1. /\ Authorised(secret, "risk") /\ conf # None /\ UNCHANGED conf /\ caller[r] = None
        /\ \/ ReviewRead(r, TenantOf(secret), id, d) /\ caller'[r] = secret
           \/ UNCHANGED vars /\ caller'[r] = None
    BY <1>0, <1>2, KeyHeld, Zenon DEF ReviewCall, Admitted, ApiTypeOK
  <2>2. CASE UNCHANGED vars /\ caller'[r] = None
    BY <2>1, <2>2, ZenonT(60) DEF ReviewerServes, vars, handlerVars
  <2>3. CASE ReviewRead(r, TenantOf(secret), id, d) /\ caller'[r] = secret
    <3>1. reviewer'[r].pc = "commit" /\ reviewer'[r].tenant = TenantOf(secret)
      BY <2>3, Zenon DEF TypeOK, ReviewRead
    <3>2. secret # None /\ secret \in DOMAIN conf.keys
      BY <2>1, ServedConfig, SMTT(30) DEF Authorised
    <3> QED
      BY <2>1, <2>3, <3>1, <3>2, SMTT(30) DEF ReviewerServes, HoldsKey, Authorised, TenantOf
  <2> QED
    BY <2>1, <2>2, <2>3
<1>3. ASSUME ReviewCommits(r) \/ (ReviewAbort(r) /\ caller' = [caller EXCEPT ![r] = None])
      PROVE  ReviewerServes(r)'
  <2>1. caller'[r] = None /\ (ReviewCommit(r) \/ ReviewAbort(r))
    BY <1>0, <1>3, KeyHeld, ZenonT(60) DEF ReviewCommits
  <2>2. reviewer'[r] = IdleReviewer
    BY <2>1 DEF TypeOK, ReviewCommit, ReviewAbort
  <2> QED
    BY <2>1, <2>2 DEF ReviewerServes, IdleReviewer
<1> QED
  BY <1>1, <1>2, <1>3, Zenon

(* And a provider's through the two steps of a settlement.                 *)
LEMMA ProviderServed ==
  ASSUME TypeOK, ApiTypeOK, NEW p \in Providers, ProviderServes(p),
         \/ \E secret \in Secrets, cb \in Callbacks, sig \in Signatures :
              SettleCall(p, secret, cb, sig)
         \/ SettleCommits(p)
         \/ SettleAbort(p) /\ caller' = [caller EXCEPT ![p] = None] /\ UNCHANGED conf
  PROVE  /\ ProviderServes(p)'
         /\ \A o \in Providers \ {p} : provider'[o] = provider[o]
         /\ UNCHANGED <<client, worker, reviewer>>
<1>0. p \in Handlers
  BY KindsDisjoint
<1>1. /\ \A o \in Providers \ {p} : provider'[o] = provider[o]
      /\ UNCHANGED <<client, worker, reviewer>>
  <2>1. (\E cb : SettleRead(p, cb)) \/ SettleCommit(p) \/ SettleAbort(p) \/ UNCHANGED vars
    BY Zenon DEF SettleCall, SettleCommits
  <2> QED
    BY <2>1, Zenon DEF TypeOK, SettleRead, SettleCommit, SettleAbort, vars, handlerVars
<1>2. ASSUME NEW secret \in Secrets, NEW cb \in Callbacks, NEW sig \in Signatures,
             SettleCall(p, secret, cb, sig)
      PROVE  ProviderServes(p)'
  <2>1. /\ Authorised(secret, "provider") /\ conf # None /\ UNCHANGED conf /\ caller[p] = None
        /\ cb.tenant = TenantOf(secret)
        /\ \/ SettleRead(p, cb) /\ caller'[p] = secret
           \/ UNCHANGED vars /\ caller'[p] = None
    BY <1>0, <1>2, KeyHeld, ZenonT(60) DEF SettleCall, Admitted, ApiTypeOK
  <2>2. CASE UNCHANGED vars /\ caller'[p] = None
    BY <2>1, <2>2, SMTT(30) DEF ProviderServes, vars, handlerVars
  <2>3. CASE SettleRead(p, cb) /\ caller'[p] = secret
    <3>1. provider'[p].pc = "commit" /\ provider'[p].callback.tenant = TenantOf(secret)
      BY <2>1, <2>3, ZenonT(60) DEF TypeOK, SettleRead
    <3>2. secret # None /\ secret \in DOMAIN conf.keys
      BY <2>1, ServedConfig, SMTT(30) DEF Authorised
    <3> QED
      BY <2>1, <2>3, <3>1, <3>2, ZenonT(60) DEF ProviderServes, HoldsKey, Authorised, TenantOf
  <2> QED
    BY <2>1, <2>2, <2>3
<1>3. ASSUME SettleCommits(p) \/ (SettleAbort(p) /\ caller' = [caller EXCEPT ![p] = None])
      PROVE  ProviderServes(p)'
  <2>1. caller'[p] = None /\ (SettleCommit(p) \/ SettleAbort(p))
    BY <1>0, <1>3, KeyHeld, Zenon DEF SettleCommits
  <2>2. provider'[p] = IdleProvider
    BY <2>1 DEF TypeOK, SettleCommit, SettleAbort
  <2> QED
    BY <2>1, <2>2 DEF ProviderServes, IdleProvider
<1> QED
  BY <1>1, <1>2, <1>3, Zenon

(* From its first step to its answer a request works for the tenant and    *)
(* with the role of the key it came with, in every interleaving with other *)
(* requests, the clock, and stops and starts of the process.               *)
THEOREM CallersCorrect == ApiSpec => []CallerFacts
<1>1. ApiInit => CallerFacts
  <2> SUFFICES ASSUME ApiInit PROVE CallerFacts
    OBVIOUS
  <2>1. \A h \in Handlers : caller[h] = None
    BY DEF ApiInit
  <2>2. /\ \A c \in Clients : client[c].pc = "idle"
        /\ \A w \in Workers : worker[w].pc = "idle"
        /\ \A r \in Reviewers : reviewer[r].pc = "idle"
        /\ \A p \in Providers : provider[p].pc = "idle"
    BY DEF ApiInit, Init, IdleClient, IdleWorker, IdleReviewer, IdleProvider
  <2> QED
    BY <2>1, <2>2, KindsDisjoint DEF CallerFacts
<1>2. ASSUME TypeOK, ApiTypeOK, CallerFacts, [ApiNext]_apiVars PROVE CallerFacts'
  <2>1. /\ \A c \in Clients : ClientServes(c)
        /\ \A w \in Workers : WorkerServes(w)
        /\ \A r \in Reviewers : ReviewerServes(r)
        /\ \A p \in Providers : ProviderServes(p)
    BY <1>2, SMTT(30) DEF CallerFacts, ClientServes, WorkerServes, ReviewerServes, ProviderServes
  <2>2. SUFFICES /\ \A c \in Clients : ClientServes(c)'
                 /\ \A w \in Workers : WorkerServes(w)'
                 /\ \A r \in Reviewers : ReviewerServes(r)'
                 /\ \A p \in Providers : ProviderServes(p)'
    BY SMTT(30) DEF CallerFacts, ClientServes, WorkerServes, ReviewerServes, ProviderServes
  <2>3. ASSUME NEW c \in Clients, ClientActs(c)
        PROVE  /\ \A x \in Clients : ClientServes(x)'
               /\ \A x \in Workers : WorkerServes(x)'
               /\ \A x \in Reviewers : ReviewerServes(x)'
               /\ \A x \in Providers : ProviderServes(x)'
    <3>1. /\ ClientServes(c)'
          /\ \A o \in Clients \ {c} : client'[o] = client[o]
          /\ UNCHANGED <<worker, reviewer, provider>>
      BY <1>2, <2>1, <2>3, ClientServed, Zenon DEF ClientActs
    <3>2. UNCHANGED conf /\ \A x \in Handlers \ {c} : caller'[x] = caller[x]
      BY <1>2, <2>3, OtherCallers, ZenonT(60) DEF ClientActs
    <3> QED
      BY <2>1, <3>1, <3>2, KindsDisjoint, ServesOn
  <2>4. ASSUME NEW w \in Workers, WorkerActs(w)
        PROVE  /\ \A x \in Clients : ClientServes(x)'
               /\ \A x \in Workers : WorkerServes(x)'
               /\ \A x \in Reviewers : ReviewerServes(x)'
               /\ \A x \in Providers : ProviderServes(x)'
    <3>1. /\ WorkerServes(w)'
          /\ \A o \in Workers \ {w} : worker'[o] = worker[o]
          /\ UNCHANGED <<client, reviewer, provider>>
      BY <1>2, <2>1, <2>4, WorkerServed, Zenon DEF WorkerActs
    <3>2. UNCHANGED conf /\ \A x \in Handlers \ {w} : caller'[x] = caller[x]
      BY <1>2, <2>4, OtherCallers, ZenonT(60) DEF WorkerActs
    <3> QED
      BY <2>1, <3>1, <3>2, KindsDisjoint, ServesOn
  <2>5. ASSUME NEW r \in Reviewers, ReviewerActs(r)
        PROVE  /\ \A x \in Clients : ClientServes(x)'
               /\ \A x \in Workers : WorkerServes(x)'
               /\ \A x \in Reviewers : ReviewerServes(x)'
               /\ \A x \in Providers : ProviderServes(x)'
    <3>1. /\ ReviewerServes(r)'
          /\ \A o \in Reviewers \ {r} : reviewer'[o] = reviewer[o]
          /\ UNCHANGED <<client, worker, provider>>
      BY <1>2, <2>1, <2>5, ReviewerServed, Zenon DEF ReviewerActs
    <3>2. UNCHANGED conf /\ \A x \in Handlers \ {r} : caller'[x] = caller[x]
      BY <1>2, <2>5, OtherCallers, ZenonT(60) DEF ReviewerActs
    <3> QED
      BY <2>1, <3>1, <3>2, KindsDisjoint, ServesOn
  <2>6. ASSUME NEW p \in Providers, ProviderActs(p)
        PROVE  /\ \A x \in Clients : ClientServes(x)'
               /\ \A x \in Workers : WorkerServes(x)'
               /\ \A x \in Reviewers : ReviewerServes(x)'
               /\ \A x \in Providers : ProviderServes(x)'
    <3>1. /\ ProviderServes(p)'
          /\ \A o \in Providers \ {p} : provider'[o] = provider[o]
          /\ UNCHANGED <<client, worker, reviewer>>
      BY <1>2, <2>1, <2>6, ProviderServed, Zenon DEF ProviderActs
    <3>2. UNCHANGED conf /\ \A x \in Handlers \ {p} : caller'[x] = caller[x]
      BY <1>2, <2>6, OtherCallers, SMTT(30) DEF ProviderActs
    <3> QED
      BY <2>1, <3>1, <3>2, KindsDisjoint, ServesOn
  <2>7. ASSUME UNCHANGED <<client, worker, reviewer, provider, conf, caller>>
        PROVE  /\ \A x \in Clients : ClientServes(x)'
               /\ \A x \in Workers : WorkerServes(x)'
               /\ \A x \in Reviewers : ReviewerServes(x)'
               /\ \A x \in Providers : ProviderServes(x)'
    BY <2>1, <2>7, ServesOn, SMTT(30)
  <2>8. CASE TimePasses
    <3>1. \A w \in Workers : worker'[w].pc = worker[w].pc /\ worker'[w].tenant = worker[w].tenant
      BY <1>2, <2>8 DEF TimePasses, Tick, TypeOK, WorkerState, IdleWorker
    <3>2. UNCHANGED <<client, reviewer, provider, conf, caller>>
      BY <2>8, ZenonT(60) DEF TimePasses, Tick
    <3> QED
      BY <2>1, <3>1, <3>2, ServesOn
  <2>9. ASSUME NEW e \in Environments, Start(e)
        PROVE  /\ \A x \in Clients : ClientServes(x)'
               /\ \A x \in Workers : WorkerServes(x)'
               /\ \A x \in Reviewers : ReviewerServes(x)'
               /\ \A x \in Providers : ProviderServes(x)'
    <3>1. /\ UNCHANGED <<client, worker, reviewer, provider, caller>>
          /\ \A h \in Handlers : caller[h] = None
      BY <2>9, StartKeeps, SMTT(30) DEF vars, handlerVars
    <3> QED
      BY <2>1, <3>1, KindsDisjoint DEF ClientServes, WorkerServes, ReviewerServes, ProviderServes
  <2>10. Reads \/ Signal \/ Exit \/ UNCHANGED apiVars
           => UNCHANGED <<client, worker, reviewer, provider, conf, caller>>
    BY DEF Reads, Signal, Exit, apiVars, vars, handlerVars
  <2>11. Acts \/ TimePasses \/ Process \/ UNCHANGED apiVars
    BY <1>2, CallsSwitch, HandlesSwitch, Zenon DEF ApiNext
  <2> QED
    BY <2>3, <2>4, <2>5, <2>6, <2>7, <2>8, <2>9, <2>10, <2>11, ZenonT(60) DEF Acts, Process
<1> QED
  BY <1>1, <1>2, ApiTypeCorrect, ImplementsSwitch, TypeCorrect, PTL DEF ApiSpec

-----------------------------------------------------------------------------
(* What a client writes, it writes with the insert that ends its request.  *)
LEMMA ClientWrites ==
  ASSUME TypeOK, NEW c \in Clients, ClientActs(c)
  PROVE  \/ UNCHANGED storeVars
         \/ /\ PostInsert(c) /\ client[c].pc = "insert" /\ client'[c].pc = "idle"
            /\ client[c].id \in TransferIDs /\ client[c].req \in Request
            /\ client[c].decision \in Decisions
            /\ Insert(client[c].id, client[c].req, client[c].decision)
<1>1. CASE PostInsert(c)
  <2>1. CreateInsert(c) /\ client[c].pc = "insert"
    BY <1>1, Zenon DEF PostInsert, CreateInsert
  <2>2. /\ client[c].req \in Request
        /\ client[c].id \in TransferIDs
        /\ client[c].decision \in Decisions
    BY <2>1, SMTT(30) DEF TypeOK, ClientState, IdleClient
  <2>3. NewTransfer(client[c].req, client[c].decision).status = client[c].decision
    BY <2>2, NewTransferTyped
  <2>4. \/ UNCHANGED storeVars
        \/ /\ Insert(client[c].id, client[c].req, client[c].decision)
           /\ client' = [client EXCEPT ![c] = IdleClient]
    BY <2>1, <2>3, Zenon DEF CreateInsert, Insert
  <2>5. client' = [client EXCEPT ![c] = IdleClient] => client'[c].pc = "idle"
    BY DEF TypeOK, IdleClient
  <2> QED
    BY <1>1, <2>1, <2>2, <2>4, <2>5
<1>2. CASE ~PostInsert(c)
  BY <1>2, ZenonT(60) DEF ClientActs, PostTransfer, PostDecide, PostRefused, PostRefind, CreateFind,
     CreateDecide, CreateRefind, CreateAbort
<1> QED
  BY <1>1, <1>2

(* A worker claims and releases, which leaves every status, tenant and     *)
(* event as it is, or records with the step that ends its request.         *)
LEMMA WorkerWrites ==
  ASSUME TypeOK, NEW w \in Workers, WorkerActs(w)
  PROVE  \/ /\ UNCHANGED outbox
            /\ \A id \in TransferIDs :
                 SameIdentity(id) /\ transfers'[id].status = transfers[id].status
         \/ /\ SubmitRecords(w) /\ worker[w].id \in TransferIDs
            /\ Record(worker[w].tenant, worker[w].id, worker[w].token)
<1> DEFINE Kept == /\ UNCHANGED outbox
                   /\ \A id \in TransferIDs :
                        SameIdentity(id) /\ transfers'[id].status = transfers[id].status
<1>1. ASSUME UNCHANGED storeVars PROVE Kept
  BY <1>1 DEF storeVars, SameIdentity
<1>2. ASSUME NEW id \in TransferIDs, SameIdentity(id), OthersSame(id), UNCHANGED outbox,
             transfers'[id].status = transfers[id].status
      PROVE  Kept
  BY <1>2 DEF SameIdentity, OthersSame
<1> HIDE DEF Kept
<1>3. ASSUME SubmitClaim(w) \/ SubmitRecord(w) \/ SubmitRelease(w)
      PROVE  /\ worker[w].tenant \in Tenants /\ worker[w].id \in TransferIDs
             /\ worker[w].token \in Tokens /\ worker[w].until \in Nat
  BY <1>3, WorkerLocals, ZenonT(60) DEF SubmitClaim, SubmitRecord, SubmitRelease
<1>4. ASSUME SubmitClaim(w) PROVE Kept
  <2>1. \/ UNCHANGED storeVars
        \/ Claim(worker[w].tenant, worker[w].id, worker[w].token, worker[w].until, worker[w].until)
    BY <1>4, Zenon DEF SubmitClaim, Claim
  <2>2. ASSUME Claim(worker[w].tenant, worker[w].id, worker[w].token, worker[w].until,
                     worker[w].until)
        PROVE  Kept
    <3>1. /\ SameIdentity(worker[w].id) /\ OthersSame(worker[w].id) /\ UNCHANGED outbox
          /\ transfers'[worker[w].id].status = transfers[worker[w].id].status
      BY <1>3, <1>4, <2>2, ClaimEffect, ZenonT(60) DEF TypeOK
    <3> QED
      BY <1>2, <1>3, <1>4, <3>1, ZenonT(60)
  <2> QED
    BY <1>1, <2>1, <2>2
<1>5. ASSUME SubmitRelease(w) PROVE Kept
  <2>1. UNCHANGED storeVars \/ Release(worker[w].tenant, worker[w].id, worker[w].token, RetryDelay)
    BY <1>5, Zenon DEF SubmitRelease, Release
  <2>2. ASSUME Release(worker[w].tenant, worker[w].id, worker[w].token, RetryDelay) PROVE Kept
    <3>1. RetryDelay \in Nat
      BY TimingAssumption
    <3>2. /\ SameIdentity(worker[w].id) /\ OthersSame(worker[w].id) /\ UNCHANGED outbox
          /\ transfers'[worker[w].id].status = transfers[worker[w].id].status
      BY <1>3, <1>5, <2>2, <3>1, ReleaseEffect, ZenonT(60) DEF TypeOK
    <3> QED
      BY <1>2, <1>3, <1>5, <3>2, ZenonT(60)
  <2> QED
    BY <1>1, <2>1, <2>2
<1>6. CASE SubmitRecords(w)
  <2>1. SubmitRecord(w)
    BY <1>6, Zenon DEF SubmitRecords
  <2>2. UNCHANGED storeVars \/ Record(worker[w].tenant, worker[w].id, worker[w].token)
    BY <2>1, Zenon DEF SubmitRecord, Record
  <2> QED
    BY <1>1, <1>3, <1>6, <2>1, <2>2 DEF Kept
<1>7. \/ SubmitClaim(w) \/ SubmitRelease(w) \/ SubmitRecords(w)
      \/ UNCHANGED storeVars
  BY Zenon DEF WorkerActs, SubmitCall, SubmitClaims, SubmitSends, SubmitReleases, SubmitStart,
     SubmitAccepted, SubmitFailed, SubmitAbort
<1> QED
  BY <1>1, <1>4, <1>5, <1>6, <1>7 DEF Kept

(* A reviewer writes only with the commit that ends its request.           *)
LEMMA ReviewerWrites ==
  ASSUME TypeOK, NEW r \in Reviewers, ReviewerActs(r)
  PROVE  \/ UNCHANGED storeVars
         \/ /\ ReviewCommits(r) /\ reviewer[r].id \in TransferIDs
            /\ NextStatus(reviewer[r].decision) \in {"accepted", "blocked"}
            /\ Review(reviewer[r].tenant, reviewer[r].id, NextStatus(reviewer[r].decision))
<1>1. CASE ReviewCommits(r)
  <2>1. ReviewCommit(r)
    BY <1>1, Zenon DEF ReviewCommits
  <2>2. reviewer[r].id \in TransferIDs
    BY <2>1, ReviewerLocals, ZenonT(60) DEF ReviewCommit
  <2>3. \/ UNCHANGED storeVars
        \/ Review(reviewer[r].tenant, reviewer[r].id, NextStatus(reviewer[r].decision))
    BY <2>1, Zenon DEF ReviewCommit, Review
  <2> QED
    BY <1>1, <2>2, <2>3 DEF NextStatus
<1>2. CASE ~ReviewCommits(r)
  BY <1>2, Zenon DEF ReviewerActs, ReviewCall, ReviewRead, ReviewAbort, vars
<1> QED
  BY <1>1, <1>2

(* So does a provider.                                                     *)
LEMMA ProviderWrites ==
  ASSUME TypeOK, NEW p \in Providers, ProviderActs(p)
  PROVE  \/ UNCHANGED storeVars
         \/ /\ SettleCommits(p) /\ provider[p].callback \in Callback
            /\ Settle(provider[p].callback)
<1>1. CASE SettleCommits(p)
  <2>1. SettleCommit(p)
    BY <1>1, Zenon DEF SettleCommits
  <2>2. provider[p].callback \in Callback
    BY <2>1, ProviderLocals, ZenonT(60) DEF SettleCommit
  <2>3. Settle(provider[p].callback) \/ UNCHANGED storeVars
    BY <2>1, Zenon DEF SettleCommit, Settle, storeVars
  <2> QED
    BY <1>1, <2>2, <2>3
<1>2. CASE ~SettleCommits(p)
  BY <1>2, Zenon DEF ProviderActs, SettleCall, SettleRead, SettleAbort, vars
<1> QED
  BY <1>1, <1>2

(* docs/security/authorization-matrix.md for any number of requests, keys  *)
(* and tenants: a status changes only with the answer to a request whose   *)
(* key has the role of that step and is of the transfer's tenant.          *)
THEOREM RolesGate == ApiSpec => RoleGates
<1> DEFINE Gate(id) ==
      \E h \in Handlers :
        /\ caller[h] # None /\ caller'[h] = None
        /\ conf.keys[caller[h]].tenant = transfers'[id].tenant
        /\ HasRole(conf.keys[caller[h]], GateRole(transfers[id].status, transfers'[id].status))
<1>1. ASSUME TypeOK, ApiTypeOK, CallerFacts, [ApiNext]_apiVars, phase' = phase,
             NEW id \in TransferIDs, transfers'[id].status # transfers[id].status
      PROVE  Gate(id)
  <2>1. StoreTypeOK
    BY <1>1, ZenonT(60) DEF TypeOK
  <2>2. ASSUME NEW h \in Handlers, NEW role, NEW tenant, caller[h] # None, caller'[h] = None,
               HoldsKey(h, role, tenant), transfers'[id].tenant = tenant,
               GateRole(transfers[id].status, transfers'[id].status) = role
        PROVE  Gate(id)
    BY <2>2, SMTT(30) DEF HoldsKey
  <2> HIDE DEF Gate
  <2>3. ASSUME NEW c \in Clients, ClientActs(c) PROVE Gate(id)
    <3>1. /\ PostInsert(c) /\ client'[c].pc = "idle"
          /\ client[c].id \in TransferIDs /\ client[c].req \in Request
          /\ client[c].decision \in Decisions
          /\ Insert(client[c].id, client[c].req, client[c].decision)
      BY <1>1, <2>3, ClientWrites DEF storeVars
    <3>2. /\ OthersSame(client[c].id) /\ transfers[client[c].id].status = "absent"
          /\ transfers'[client[c].id].tenant = client[c].req.tenant
      BY <2>1, <3>1, InsertEffect, Zenon
    <3>3. /\ id = client[c].id /\ transfers[id].status = "absent"
          /\ transfers'[id].tenant = client[c].req.tenant
      BY <1>1, <3>2 DEF OthersSame
    <3>4. caller[c] # None /\ caller'[c] = None /\ c \in Handlers
      BY <1>1, <3>1, KeyHeld, KindsDisjoint, Zenon DEF PostInsert, Goes
    <3>5. HoldsKey(c, "tenant", client[c].req.tenant)
      BY <1>1, <3>4 DEF CallerFacts
    <3>6. GateRole(transfers[id].status, transfers'[id].status) = "tenant"
      BY <3>3, SMTT(30) DEF GateRole
    <3> QED
      BY <2>2, <3>3, <3>4, <3>5, <3>6, SMTT(30)
  <2>4. ASSUME NEW w \in Workers, WorkerActs(w) PROVE Gate(id)
    <3>1. /\ SubmitRecords(w) /\ worker[w].id \in TransferIDs
          /\ Record(worker[w].tenant, worker[w].id, worker[w].token)
      BY <1>1, <2>4, WorkerWrites, SMTT(30)
    <3>2. /\ id = worker[w].id /\ transfers[id].status = "accepted"
          /\ transfers'[id].status = "approved" /\ transfers'[id].tenant = worker[w].tenant
      BY <1>1, <2>1, <3>1, RecordEffect DEF OthersSame, SameIdentity, GetTransfer
    <3>3. caller[w] # None /\ caller'[w] = None /\ w \in Handlers
      BY <1>1, <3>1, KeyHeld, KindsDisjoint, Zenon DEF SubmitRecords, Goes
    <3>4. HoldsKey(w, "worker", worker[w].tenant)
      BY <1>1, <3>3, ZenonT(60) DEF CallerFacts
    <3> QED
      BY <2>2, <3>2, <3>3, <3>4, SMTT(30) DEF GateRole
  <2>5. ASSUME NEW r \in Reviewers, ReviewerActs(r) PROVE Gate(id)
    <3>1. /\ ReviewCommits(r) /\ reviewer[r].id \in TransferIDs
          /\ NextStatus(reviewer[r].decision) \in {"accepted", "blocked"}
          /\ Review(reviewer[r].tenant, reviewer[r].id, NextStatus(reviewer[r].decision))
      BY <1>1, <2>5, ReviewerWrites, SMTT(30) DEF storeVars
    <3>2. id = reviewer[r].id /\ transfers[id].status = "review" /\ SameIdentity(id)
      BY <1>1, <2>1, <3>1, ReviewEffect, ZenonT(60) DEF OthersSame
    <3>3. transfers'[id].tenant = reviewer[r].tenant
      BY <3>1, <3>2 DEF SameIdentity, Review, ReviewSucceeds, GetTransfer
    <3>4. caller[r] # None /\ caller'[r] = None /\ r \in Handlers
      BY <1>1, <3>1, KeyHeld, KindsDisjoint, ZenonT(60) DEF ReviewCommits, Goes
    <3>5. HoldsKey(r, "risk", reviewer[r].tenant)
      BY <1>1, <3>4 DEF CallerFacts
    <3>6. GateRole(transfers[id].status, transfers'[id].status) = "risk"
      BY <3>2, ZenonT(60) DEF GateRole
    <3> QED
      BY <2>2, <3>2, <3>3, <3>4, <3>5, <3>6, SMTT(30)
  <2>6. ASSUME NEW p \in Providers, ProviderActs(p) PROVE Gate(id)
    <3> DEFINE cb == provider[p].callback
    <3>1. SettleCommits(p) /\ cb \in Callback /\ Settle(cb)
      BY <1>1, <2>6, ProviderWrites, SMTT(30) DEF storeVars
    <3>2. /\ id = cb.transfer /\ transfers[id].status = "approved"
          /\ transfers'[id].status \in {"settled", "rejected"}
          /\ transfers'[id].tenant = cb.tenant
      BY <1>1, <2>1, <3>1, SettleEffect, ZenonT(60) DEF OthersSame, SameIdentity, GetTransfer
    <3>3. caller[p] # None /\ caller'[p] = None /\ p \in Handlers
      BY <1>1, <3>1, KeyHeld, KindsDisjoint, Zenon DEF SettleCommits, Goes
    <3>4. HoldsKey(p, "provider", cb.tenant)
      BY <1>1, <3>3 DEF CallerFacts
    <3> QED
      BY <2>2, <3>2, <3>3, <3>4, SMTT(30) DEF GateRole
  <2>7. ASSUME TimePasses PROVE FALSE
    BY <1>1, <2>1, <2>7, AgeEffect, ZenonT(60) DEF TimePasses, Tick, Age
  <2>8. ASSUME UNCHANGED vars PROVE FALSE
    BY <1>1, <2>8 DEF vars, storeVars
  <2>9. Acts \/ TimePasses \/ UNCHANGED vars
    <3>1. Process \/ UNCHANGED apiVars => UNCHANGED vars
      BY StartKeeps, Zenon DEF Process, Signal, Exit, apiVars
    <3> QED
      BY <1>1, <3>1, CallsSwitch, HandlesSwitch, Zenon DEF ApiNext
  <2> QED
    BY <2>3, <2>4, <2>5, <2>6, <2>7, <2>8, <2>9, Zenon DEF Acts, Reads
<1>2. ASSUME TypeOK, ApiTypeOK, CallerFacts, [ApiNext]_apiVars
      PROVE  [\A id \in TransferIDs :
                phase' = phase /\ transfers'[id].status # transfers[id].status => Gate(id)]_apiVars
  BY <1>1, <1>2
<1> QED
  BY <1>2, ApiTypeCorrect, ImplementsSwitch, TypeCorrect, CallersCorrect, PTL DEF ApiSpec, RoleGates

-----------------------------------------------------------------------------
(* docs/domain/invariants.md 1 for any number of requests, keys, tenants   *)
(* and transfers: what a response tells, it tells to the transfer's own    *)
(* tenant.                                                                 *)
THEOREM TenantsApart == ApiSpec => TenantScoped
<1> DEFINE Scoped == \A id \in answer'.about : transfers'[id].tenant = answer'.tenant
<1>1. ASSUME answer' = NoAnswer PROVE Scoped
  BY <1>1 DEF NoAnswer
<1>2. ASSUME NEW h, NEW s, NEW status, NEW about, NEW events,
             AnswersCounting(h, s, status, about, events),
             \A id \in about : transfers'[id].tenant = TenantOf(s)
      PROVE  Scoped
  BY <1>2 DEF AnswersCounting, Response
<1>3. ASSUME NEW tenant, NEW id \in TransferIDs, SameIdentity(id)
      PROVE  \A x \in Known(tenant, id) : transfers'[x].tenant = tenant
  BY <1>3 DEF Known, GetTransfer, SameIdentity
<1> HIDE DEF Scoped
<1>4. ASSUME UNCHANGED storeVars PROVE \A id \in TransferIDs : SameIdentity(id)
  BY <1>4 DEF storeVars, SameIdentity
<1>5. ASSUME NEW id \in TransferIDs, SameIdentity(id), OthersSame(id)
      PROVE  \A o \in TransferIDs : SameIdentity(o)
  BY <1>5 DEF SameIdentity, OthersSame
<1>6. ASSUME TypeOK, ApiTypeOK, IndexMatchesRows, UNCHANGED storeVars,
             NEW tenant \in Tenants, NEW key \in Keys, FindByIdempotency(tenant, key) # None
      PROVE  transfers'[FindByIdempotency(tenant, key)].tenant = tenant
  BY <1>6 DEF IndexMatchesRows, GetTransfer, storeVars
<1>7. ASSUME TypeOK, ApiTypeOK, CallerFacts, IndexMatchesRows, NEW c \in Clients, ClientActs(c)
      PROVE  Scoped
  <2>1. ASSUME caller[c] # None
        PROVE  /\ TenantOf(caller[c]) = client[c].req.tenant
               /\ client[c].req \in Request
    <3>1. client[c].pc # "idle" /\ TenantOf(caller[c]) = client[c].req.tenant
      BY <1>7, <2>1, ZenonT(60) DEF CallerFacts, HoldsKey, TenantOf
    <3> QED
      BY <1>7, <3>1, ClientLocals, Zenon
  <2>2. ASSUME NEW secret \in Secrets, NEW key \in Keys, NEW p \in Payloads,
               PostTransfer(c, secret, key, p)
        PROVE  Scoped
    <3> DEFINE found == FindByIdempotency(TenantOf(secret), key)
    <3>1. conf # None /\ Authorised(secret, "tenant")
      BY <1>7, <2>2, Zenon DEF PostTransfer, Admitted, ApiTypeOK
    <3>2. TenantOf(secret) \in Tenants
      BY <1>7, <3>1, ServedConfig DEF Authorised
    <3>3. UNCHANGED storeVars
      BY <2>2, Zenon DEF PostTransfer, CreateFind
    <3>4. \/ answer' = NoAnswer
          \/ found # None /\ \E st : Answers(c, secret, st, {found})
          \/ \E st : Answers(c, secret, st, {})
      BY <2>2, Zenon DEF PostTransfer, Holding
    <3>5. found # None => transfers'[found].tenant = TenantOf(secret)
      BY <1>6, <1>7, <3>2, <3>3, SMTT(30)
    <3> HIDE DEF found
    <3> QED
      BY <1>1, <1>2, <3>4, <3>5 DEF Answers
  <2>3. CASE PostInsert(c)
    <3>1. \/ answer' = NoAnswer
          \/ /\ client'[c].pc = "idle"
             /\ \E st, ev : AnswersCounting(c, caller[c], st, {client[c].id}, ev)
      BY <2>3, Zenon DEF PostInsert, CommitUnheard, Continues
    <3>2. CASE client'[c].pc = "idle"
      <4>1. caller[c] # None /\ CreateInsert(c)
        BY <2>3, Zenon DEF PostInsert, Goes
      <4>2. /\ client[c].id \in TransferIDs /\ client[c].decision \in Decisions
            /\ client[c].req \in Request
        BY <1>7, <4>1, ClientLocals, ZenonT(60) DEF CreateInsert
      <4>3. ~InsertConflict(client[c].id, NewTransfer(client[c].req, client[c].decision))
        BY <1>7, <3>2, <4>1, SMTT(30) DEF CreateInsert, TypeOK, ClientState, IdleClient
      <4>4. NewTransfer(client[c].req, client[c].decision).status = client[c].decision
        BY <4>2, NewTransferTyped
      <4>5. Insert(client[c].id, client[c].req, client[c].decision)
        BY <4>1, <4>3, <4>4, Zenon DEF CreateInsert, Insert
      <4>6. transfers'[client[c].id].tenant = client[c].req.tenant
        BY <1>7, <4>2, <4>5, InsertEffect, Zenon DEF TypeOK
      <4> QED
        BY <1>1, <1>2, <2>1, <3>1, <4>1, <4>6, SMTT(30)
    <3> QED
      BY <1>1, <3>1, <3>2
  <2>4. CASE PostRefind(c)
    <3> DEFINE found == FindByIdempotency(client[c].req.tenant, client[c].req.key)
    <3>1. /\ caller[c] # None /\ UNCHANGED storeVars
          /\ \/ found # None /\ \E st : Answers(c, caller[c], st, {found})
             \/ \E st : Answers(c, caller[c], st, {})
      BY <2>4, ZenonT(60) DEF PostRefind, Goes, CreateRefind
    <3>2. client[c].req.tenant \in Tenants /\ client[c].req.key \in Keys
      BY <2>1, <3>1, ZenonT(60) DEF Request
    <3>3. found # None => transfers'[found].tenant = client[c].req.tenant
      BY <1>6, <1>7, <3>1, <3>2
    <3> HIDE DEF found
    <3> QED
      BY <1>2, <2>1, <3>1, <3>3, SMTT(30) DEF Answers
  <2>5. ASSUME PostDecide(c) \/ answer' = NoAnswer PROVE Scoped
    BY <1>1, <2>5, Zenon DEF PostDecide, Continues
  <2>6. ASSUME PostRefused(c) PROVE Scoped
    <3>1. \E st : AnswersCounting(c, caller[c], st, {}, 0)
      BY <2>6, Zenon DEF PostRefused, Answers
    <3> QED
      BY <1>2, <3>1
  <2> QED
    BY <1>7, <2>2, <2>3, <2>4, <2>5, <2>6, ZenonT(60) DEF ClientActs
<1>8. ASSUME TypeOK, ApiTypeOK, CallerFacts, NEW w \in Workers, WorkerActs(w)
      PROVE  Scoped
  <2>1. \A o \in TransferIDs : SameIdentity(o)
    <3>1. CASE Record(worker[w].tenant, worker[w].id, worker[w].token) /\ worker[w].id \in TransferIDs
      <4>1. SameIdentity(worker[w].id) /\ OthersSame(worker[w].id)
        BY <1>8, <3>1, RecordEffect, ZenonT(60) DEF TypeOK
      <4> QED
        BY <1>5, <3>1, <4>1
    <3> QED
      BY <1>8, <3>1, WorkerWrites, SMTT(30)
  <2>2. ASSUME caller[w] # None
        PROVE  TenantOf(caller[w]) = worker[w].tenant /\ worker[w].id \in TransferIDs
    <3>1. worker[w].pc # "idle" /\ TenantOf(caller[w]) = worker[w].tenant
      BY <1>8, <2>2, ZenonT(60) DEF CallerFacts, HoldsKey, TenantOf
    <3> QED
      BY <1>8, <3>1, WorkerLocals, Zenon
  <2>3. \/ answer' = NoAnswer
        \/ /\ caller[w] # None
           /\ \E st, ev : \/ AnswersCounting(w, caller[w], st, Known(worker[w].tenant, worker[w].id), ev)
                         \/ AnswersCounting(w, caller[w], st, {}, ev)
    <3>1. CASE SubmitClaims(w)
      <4>1. PICK st : st = CASE ~GetTransfer(worker[w].tenant, worker[w].id) -> 404
                             [] Submitted(transfers[worker[w].id])            -> 200
                             [] worker[w].until = 0                           -> 400
                             [] OTHER                                         -> 409
        OBVIOUS
      <4>2. /\ caller[w] # None
            /\ \/ answer' = NoAnswer
               \/ AnswersCounting(w, caller[w], st, Known(worker[w].tenant, worker[w].id), 0)
        BY <3>1, <4>1, ZenonT(60) DEF SubmitClaims, Goes, Continues, Answers
      <4> QED
        BY <4>2, Zenon
    <3>2. CASE SubmitRecords(w)
      BY <3>2, SMTT(30) DEF SubmitRecords, Goes, CommitUnheard
    <3>3. CASE SubmitReleases(w)
      BY <3>3, ZenonT(60) DEF SubmitReleases, Goes, Answers
    <3> QED
      BY <1>8, <3>1, <3>2, <3>3, Zenon DEF WorkerActs, SubmitCall, SubmitSends, Holding, Continues
  <2> QED
    BY <1>1, <1>2, <1>3, <2>1, <2>2, <2>3, SMTT(30)
<1>9. ASSUME TypeOK, ApiTypeOK, CallerFacts, NEW r \in Reviewers, ReviewerActs(r)
      PROVE  Scoped
  <2>1. \A o \in TransferIDs : SameIdentity(o)
    <3>1. CASE /\ reviewer[r].id \in TransferIDs
               /\ NextStatus(reviewer[r].decision) \in {"accepted", "blocked"}
               /\ Review(reviewer[r].tenant, reviewer[r].id, NextStatus(reviewer[r].decision))
      <4>1. SameIdentity(reviewer[r].id) /\ OthersSame(reviewer[r].id)
        BY <1>9, <3>1, ReviewEffect, SMTT(30) DEF TypeOK
      <4> QED
        BY <1>5, <3>1, <4>1, ZenonT(60)
    <3> QED
      BY <1>4, <1>9, <3>1, ReviewerWrites
  <2>2. ASSUME caller[r] # None
        PROVE  TenantOf(caller[r]) = reviewer[r].tenant /\ reviewer[r].id \in TransferIDs
    <3>1. reviewer[r].pc # "idle" /\ HoldsKey(r, "risk", reviewer[r].tenant)
      BY <1>9, <2>2, Zenon DEF CallerFacts
    <3>2. reviewer[r] \in ReviewerState
      BY <1>9, ZenonT(60) DEF TypeOK
    <3>3. reviewer[r].id \in TransferIDs
      BY <3>1, <3>2 DEF ReviewerState, IdleReviewer
    <3> QED
      BY <3>1, <3>3, Zenon DEF HoldsKey, TenantOf
  <2>3. \/ answer' = NoAnswer
        \/ /\ caller[r] # None
           /\ \E st, ev : AnswersCounting(r, caller[r], st, Known(reviewer[r].tenant, reviewer[r].id), ev)
        \/ \E id \in TransferIDs : \E s, st, ev :
             AnswersCounting(r, s, st, Known(TenantOf(s), id), ev)
    <3>1. CASE ReviewCommits(r)
      BY <3>1, ZenonT(60) DEF ReviewCommits, Goes, CommitUnheard
    <3>2. ASSUME NEW secret \in Secrets, NEW id \in TransferIDs,
                 NEW d \in ReviewDecision \cup {"other"}, ReviewCall(r, secret, id, d)
          PROVE  \/ answer' = NoAnswer
                 \/ \E st : AnswersCounting(r, secret, st, Known(TenantOf(secret), id), 0)
      BY <3>2, ZenonT(60) DEF ReviewCall, Holding, Answers
    <3> QED
      BY <1>9, <3>1, <3>2, Zenon DEF ReviewerActs
  <2> QED
    BY <1>1, <1>2, <1>3, <2>1, <2>2, <2>3, SMTT(30)
<1>10. ASSUME TypeOK, ApiTypeOK, CallerFacts, NEW p \in Providers, ProviderActs(p)
       PROVE  Scoped
  <2>1. \A o \in TransferIDs : SameIdentity(o)
    <3>1. CASE provider[p].callback \in Callback /\ Settle(provider[p].callback)
      <4>1. /\ provider[p].callback.transfer \in TransferIDs
            /\ SameIdentity(provider[p].callback.transfer)
            /\ OthersSame(provider[p].callback.transfer)
        BY <1>10, <3>1, SettleEffect, Zenon DEF TypeOK
      <4> QED
        BY <1>5, <4>1, SMTT(30)
    <3> QED
      BY <1>4, <1>10, <3>1, ProviderWrites, SMTT(30)
  <2>2. ASSUME caller[p] # None
        PROVE  /\ TenantOf(caller[p]) = provider[p].callback.tenant
               /\ provider[p].callback.transfer \in TransferIDs
    <3>1. provider[p].pc # "idle" /\ HoldsKey(p, "provider", provider[p].callback.tenant)
      BY <1>10, <2>2, Zenon DEF CallerFacts
    <3>2. provider[p] \in ProviderState
      BY <1>10, Zenon DEF TypeOK
    <3>3. provider[p].callback \in Callback
      BY <3>1, <3>2 DEF ProviderState, IdleProvider
    <3>4. provider[p].callback.transfer \in TransferIDs
      BY <3>3 DEF Callback
    <3> QED
      BY <3>1, <3>4, Zenon DEF HoldsKey, TenantOf
  <2>3. \/ answer' = NoAnswer
        \/ /\ caller[p] # None
           /\ \E st, ev : AnswersCounting(p, caller[p], st,
                             Known(provider[p].callback.tenant, provider[p].callback.transfer), ev)
        \/ \E id \in TransferIDs : \E s, st, ev :
             AnswersCounting(p, s, st, Known(TenantOf(s), id), ev)
    <3>1. CASE SettleCommits(p)
      BY <3>1, Zenon DEF SettleCommits, Goes, CommitUnheard
    <3>2. ASSUME NEW secret \in Secrets, NEW cb \in Callbacks, NEW sig \in Signatures,
                 SettleCall(p, secret, cb, sig)
          PROVE  \/ answer' = NoAnswer
                 \/ \E st : AnswersCounting(p, secret, st, Known(TenantOf(secret), cb.transfer), 0)
      BY <3>2, ZenonT(60) DEF SettleCall, Holding, Answers
    <3>3. \A cb \in Callbacks : cb.transfer \in TransferIDs
      BY DEF Callbacks
    <3> QED
      BY <1>10, <3>1, <3>2, <3>3, Zenon DEF ProviderActs
  <2> QED
    BY <1>1, <1>2, <1>3, <2>1, <2>2, <2>3, SMTT(30)
<1>11. ASSUME Reads PROVE Scoped
  <2>1. UNCHANGED transfers
    BY <1>11 DEF Reads, vars, storeVars
  <2>2. ASSUME NEW tenant, NEW status, NEW about, Reply(tenant, status, about),
               \A id \in about : transfers[id].tenant = tenant
        PROVE  Scoped
    BY <2>1, <2>2 DEF Reply, Response, Scoped
  <2>3. ASSUME NEW secret \in Secrets, NEW id \in TransferIDs, GetCall(secret, id) PROVE Scoped
    BY <2>2, <2>3, SMTT(30) DEF GetCall, GetTransfer
  <2>4. ASSUME NEW secret \in Secrets, GetOutbox(secret) PROVE Scoped
    BY <2>2, <2>4 DEF GetOutbox, Visible
  <2> QED
    BY <1>11, <2>3, <2>4, ZenonT(60) DEF Reads, Scoped
<1>12. ASSUME TypeOK, ApiTypeOK, CallerFacts, IndexMatchesRows, [ApiNext]_apiVars
       PROVE  [Scoped]_apiVars
  <2>1. TimePasses \/ Process => answer' = NoAnswer
    BY Zenon DEF TimePasses, Process, Signal, Exit, Start
  <2>2. Acts \/ TimePasses \/ Process \/ UNCHANGED apiVars
    BY <1>12, CallsSwitch, HandlesSwitch, Zenon DEF ApiNext
  <2> QED
    BY <1>1, <1>7, <1>8, <1>9, <1>10, <1>11, <1>12, <2>1, <2>2, Zenon DEF Acts
<1>13. [Scoped]_apiVars <=>
         [\A id \in answer'.about : transfers'[id].tenant = answer'.tenant]_apiVars
  BY DEF Scoped
<1> QED
  BY <1>12, <1>13, ApiTypeCorrect, ImplementsSwitch, TypeCorrect, CallersCorrect, IndexCorrect,
     PTL DEF ApiSpec, TenantScoped

-----------------------------------------------------------------------------
(* The scores of fraud/engine.go: a flagged key is blocked whatever the    *)
(* amount, and 10,000 BRL with a signal from 10 is never accepted at once. *)
LEMMA Scoring ==
  ASSUME NEW tenant \in Tenants, NEW h \in Hashes
  PROVE  /\ Decision(tenant, h) \in Decisions
         /\ h.receiver \in RiskKeys => Decision(tenant, h) = "blocked"
         /\ h.amount >= 1000000 /\ RiskSignal(tenant, h.receiver) >= 10
              => Decision(tenant, h) # "accepted"
<1> DEFINE risk == RiskSignal(tenant, h.receiver)
           self == h.account = AccountHash(tenant, h.receiver)
           score == Score(h.amount, risk, self)
<1>1. h.amount \in Nat /\ Digest[<<tenant, h.receiver>>].first \in Nat
  BY AmountAssumption
<1>2. risk \in Nat /\ (h.receiver \in RiskKeys => risk = 92)
  BY <1>1 DEF RiskSignal
<1>3. Decision(tenant, h) = StatusOf(score)
  BY DEF Decision
<1> HIDE DEF risk, self
<1>4. /\ score \in Nat
      /\ risk = 92 => score >= 90
      /\ h.amount >= 1000000 /\ risk >= 10 => score >= 65
  BY <1>1, <1>2 DEF Score, Points
<1> HIDE DEF score
<1> QED
  BY <1>2, <1>3, <1>4, SMTT(30) DEF StatusOf, Decisions, risk

EventTypes ==
  {"pix_transfer_requested", "dict_key_resolved", "fraud_score_calculated", "pix_transfer_accepted",
   "spi_submission_requested", "pix_transfer_review_requested", "pix_transfer_blocked",
   "pix_transfer_review_approved", "pix_transfer_review_blocked", "spi_message_created",
   "pix_transfer_approved", "pix_transfer_settled", "pix_transfer_rejected"}

(* Appending to a history loses nothing of it.                             *)
LEMMA AppendKeeps ==
  ASSUME NEW s \in Seq(EventTypes), NEW t \in Seq(EventTypes), NEW x
  PROVE  /\ (\E i \in 1..Len(s) : s[i] = x) => \E i \in 1..Len(s \o t) : (s \o t)[i] = x
         /\ (\E i \in 1..Len(t) : t[i] = x) => \E i \in 1..Len(s \o t) : (s \o t)[i] = x
<1>1. ASSUME NEW i \in 1..Len(s), s[i] = x PROVE \E j \in 1..Len(s \o t) : (s \o t)[j] = x
  BY <1>1
<1>2. ASSUME NEW i \in 1..Len(t), t[i] = x PROVE \E j \in 1..Len(s \o t) : (s \o t)[j] = x
  <2>1. Len(s) + i \in 1..Len(s \o t) /\ (s \o t)[Len(s) + i] = t[i]
    OBVIOUS
  <2> QED
    BY <1>2, <2>1
<1> QED
  BY <1>1, <1>2

(* What a use case adds to the outbox is a sequence of event types.        *)
LEMMA EventsTyped ==
  /\ \A d : CreateEvents(d) \in Seq(EventTypes)
  /\ \A d : ReviewEvents(d) \in Seq(EventTypes)
  /\ SubmissionEvents \in Seq(EventTypes)
  /\ \A d : SettlementEvents(d) \in Seq(EventTypes)
<1>1. ASSUME NEW s \in Seq(EventTypes), NEW t \in Seq(EventTypes) PROVE s \o t \in Seq(EventTypes)
  OBVIOUS
<1>2. ASSUME NEW d PROVE CreateEvents(d) \in Seq(EventTypes)
  <2>1. <<"pix_transfer_requested", "dict_key_resolved", "fraud_score_calculated">> \in Seq(EventTypes)
    BY DEF EventTypes
  <2>2. CASE d = "accepted"
    <3>1. <<"pix_transfer_accepted", "spi_submission_requested">> \in Seq(EventTypes)
      BY DEF EventTypes
    <3> QED
      BY <1>1, <2>1, <2>2, <3>1 DEF CreateEvents
  <2>3. CASE d = "review"
    <3>1. <<"pix_transfer_review_requested">> \in Seq(EventTypes)
      BY DEF EventTypes
    <3> QED
      BY <1>1, <2>1, <2>3, <3>1 DEF CreateEvents
  <2>4. CASE d \notin {"accepted", "review"}
    <3>1. <<"pix_transfer_blocked">> \in Seq(EventTypes)
      BY DEF EventTypes
    <3> QED
      BY <1>1, <2>1, <2>4, <3>1 DEF CreateEvents
  <2> QED
    BY <2>2, <2>3, <2>4
<1>3. ASSUME NEW d PROVE ReviewEvents(d) \in Seq(EventTypes) /\ SettlementEvents(d) \in Seq(EventTypes)
  <2>1. /\ <<"pix_transfer_review_approved", "spi_submission_requested">> \in Seq(EventTypes)
        /\ <<"pix_transfer_review_blocked", "pix_transfer_blocked">> \in Seq(EventTypes)
    BY DEF EventTypes
  <2>2. /\ <<"pix_transfer_settled">> \in Seq(EventTypes)
        /\ <<"pix_transfer_rejected">> \in Seq(EventTypes)
    BY DEF EventTypes
  <2> QED
    BY <2>1, <2>2, Zenon DEF ReviewEvents, SettlementEvents
<1>4. SubmissionEvents \in Seq(EventTypes)
  BY DEF SubmissionEvents, EventTypes
<1> QED
  BY <1>2, <1>3, <1>4, Zenon

(* Every history of events is a sequence of event types.                   *)
LEMMA HistoryTyped ==
  ASSUME NEW status PROVE HistoryOf(status) \subseteq Seq(EventTypes)
<1>1. ASSUME NEW H, H \subseteq Seq(EventTypes), NEW e \in Seq(EventTypes)
      PROVE  Then(H, e) \subseteq Seq(EventTypes)
  <2>1. ASSUME NEW h \in H PROVE h \o e \in Seq(EventTypes)
    BY <1>1, <2>1
  <2> QED
    BY <2>1, Zenon DEF Then
<1>2. NoHistory \subseteq Seq(EventTypes)
  BY DEF NoHistory
<1>3. ReviewHistory \subseteq Seq(EventTypes)
  BY <1>1, <1>2, EventsTyped, SMTT(30) DEF ReviewHistory
<1>4. BlockedHistory \subseteq Seq(EventTypes) /\ AcceptedHistory \subseteq Seq(EventTypes)
  BY <1>1, <1>2, <1>3, EventsTyped, SMTT(30) DEF BlockedHistory, AcceptedHistory
<1>5. ApprovedHistory \subseteq Seq(EventTypes)
  BY <1>1, <1>4, EventsTyped DEF ApprovedHistory
<1>6. Then(ApprovedHistory, SettlementEvents(status)) \subseteq Seq(EventTypes)
  BY <1>1, <1>5, EventsTyped, SMTT(30)
<1> QED
  BY <1>2, <1>3, <1>4, <1>5, <1>6 DEF HistoryOf

(* A row answers for its decision: RiskFacts, row by row.                  *)
RowDecided(id) ==
  /\ transfers[id].status = "review" => Decided(transfers[id]) = "review"
  /\ transfers[id].status \in PastAcceptance =>
       \/ Decided(transfers[id]) = "accepted"
       \/ Decided(transfers[id]) = "review" /\ ReviewApproved(id)
ClientDecided(c) ==
  client[c].pc = "insert" =>
    client[c].decision = Decision(client[c].req.tenant, client[c].req.hash)

(* A row that keeps its request keeps its decision.                        *)
LEMMA DecisionKept ==
  ASSUME NEW id \in TransferIDs, SameIdentity(id)
  PROVE  Decided(transfers'[id]) = Decided(transfers[id])
  BY DEF SameIdentity, Decided

(* Events already in a row's outbox stay there.                            *)
LEMMA ApprovalKept ==
  ASSUME OutboxMatchesStatus, NEW id \in TransferIDs, NEW events \in Seq(EventTypes),
         outbox'[id] = outbox[id] \o events
  PROVE  /\ ReviewApproved(id) => ReviewApproved(id)'
         /\ (\E i \in 1..Len(events) : events[i] = "pix_transfer_review_approved")
              => ReviewApproved(id)'
<1>1. outbox[id] \in Seq(EventTypes)
  BY HistoryTyped DEF OutboxMatchesStatus
<1> DEFINE x == "pix_transfer_review_approved"
<1>2. /\ (\E i \in 1..Len(outbox[id]) : outbox[id][i] = x)
           => \E i \in 1..Len(outbox[id] \o events) : (outbox[id] \o events)[i] = x
      /\ (\E i \in 1..Len(events) : events[i] = x)
           => \E i \in 1..Len(outbox[id] \o events) : (outbox[id] \o events)[i] = x
  BY <1>1, AppendKeeps, Zenon
<1> QED
  BY <1>2, Zenon DEF ReviewApproved

(* A client about to insert holds the decision on its own request.         *)
LEMMA ClientsDecided ==
  ASSUME TypeOK, NEW c \in Clients, ClientActs(c), ClientDecided(c)
  PROVE  ClientDecided(c)'
<1>1. CASE PostDecide(c)
  <2>1. /\ CreateDecide(c)
        /\ client'[c].decision = Decision(client[c].req.tenant, client[c].req.hash)
    BY <1>1, Zenon DEF PostDecide
  <2>2. client'[c].req = client[c].req
    BY <2>1, SMTT(30) DEF CreateDecide, TypeOK, ClientState, IdleClient
  <2> QED
    BY <2>1, <2>2 DEF ClientDecided
<1>2. CASE (\E req : CreateFind(c, req)) \/ CreateInsert(c) \/ CreateRefind(c) \/ CreateAbort(c)
  <2>1. UNCHANGED client \/ client'[c].pc # "insert"
    BY <1>2 DEF CreateFind, CreateInsert, CreateRefind, CreateAbort, TypeOK, ClientState, IdleClient
  <2> QED
    BY <2>1 DEF ClientDecided
<1> QED
  BY <1>1, <1>2, Zenon DEF ClientActs, PostTransfer, PostRefused, PostInsert, PostRefind

(* Every row's status goes back to the decision on its own request, or to  *)
(* a review of it: no interleaving of creates, replays, reviews and        *)
(* submissions moves a decision to another request's row.                  *)
THEOREM RisksCorrect == ApiSpec => []RiskFacts
<1>1. ApiInit => RiskFacts
  BY DEF ApiInit, Init, StoreInit, NoTransfer, IdleClient, RiskFacts, PastAcceptance
<1>2. ASSUME TypeOK, ApiTypeOK, CallerFacts, OutboxMatchesStatus, RiskFacts, [ApiNext]_apiVars
      PROVE  RiskFacts'
  <2>1. (\A id \in TransferIDs : RowDecided(id)) /\ (\A c \in Clients : ClientDecided(c))
    BY <1>2, SMTT(30) DEF RiskFacts, RowDecided, ClientDecided
  <2>2. SUFFICES /\ \A id \in TransferIDs : RowDecided(id)'
                 /\ \A c \in Clients : ClientDecided(c)'
    BY DEF RiskFacts, RowDecided, ClientDecided
  <2>3. StoreTypeOK
    BY <1>2, SMTT(30) DEF TypeOK
  <2>4. ASSUME NEW id \in TransferIDs, SameIdentity(id), outbox'[id] = outbox[id],
               transfers'[id].status = transfers[id].status
        PROVE  RowDecided(id)'
    <3>1. ReviewApproved(id)' = ReviewApproved(id)
      BY <2>4 DEF ReviewApproved
    <3> QED
      BY <2>1, <2>4, <3>1, DecisionKept, SMTT(30) DEF RowDecided
  <2>5. ASSUME NEW id \in TransferIDs, OthersSame(id), RowDecided(id)'
        PROVE  \A o \in TransferIDs : RowDecided(o)'
    <3>1. ASSUME NEW o \in TransferIDs, o # id PROVE RowDecided(o)'
      BY <2>4, <2>5, <3>1, SMTT(30) DEF OthersSame, SameIdentity
    <3> QED
      BY <2>5, <3>1, SMTT(30)
  <2>6. ASSUME UNCHANGED storeVars PROVE \A o \in TransferIDs : RowDecided(o)'
    BY <2>4, <2>6, SMTT(30) DEF storeVars, SameIdentity
  <2>7. ASSUME UNCHANGED client PROVE \A c \in Clients : ClientDecided(c)'
    BY <2>1, <2>7, SMTT(30) DEF ClientDecided
  <2>8. ASSUME NEW id \in TransferIDs, NEW events \in Seq(EventTypes), SameIdentity(id),
               OthersSame(id), outbox'[id] = outbox[id] \o events,
               transfers[id].status \in PastAcceptance, transfers'[id].status \in PastAcceptance
        PROVE  \A o \in TransferIDs : RowDecided(o)'
    <3>1. ReviewApproved(id) => ReviewApproved(id)'
      BY <1>2, <2>8, ApprovalKept, ZenonT(60)
    <3>2. RowDecided(id)'
      BY <2>1, <2>8, <3>1, DecisionKept, ZenonT(60) DEF RowDecided, PastAcceptance
    <3> QED
      BY <2>5, <2>8, <3>2, SMTT(30)
  <2>9. ASSUME NEW c \in Clients, ClientActs(c)
        PROVE  /\ \A o \in TransferIDs : RowDecided(o)'
               /\ \A o \in Clients : ClientDecided(o)'
    <3>1. \A o \in Clients \ {c} : client'[o] = client[o]
      <4>1. ClientServes(c)
        BY <1>2 DEF CallerFacts, ClientServes
      <4> QED
        BY <1>2, <2>9, <4>1, ClientServed, ZenonT(60) DEF ClientActs
    <3>2. \A o \in Clients : ClientDecided(o)'
      <4>1. ClientDecided(c)'
        BY <1>2, <2>1, <2>9, ClientsDecided, SMTT(30)
      <4>2. ASSUME NEW o \in Clients \ {c} PROVE ClientDecided(o)'
        BY <2>1, <3>1, <4>2, SMTT(30) DEF ClientDecided
      <4> QED
        BY <4>1, <4>2
    <3>3. ASSUME client[c].pc = "insert", client[c].id \in TransferIDs, client[c].req \in Request,
                 client[c].decision \in Decisions,
                 Insert(client[c].id, client[c].req, client[c].decision)
          PROVE  \A o \in TransferIDs : RowDecided(o)'
      <4>1. PICK id \in TransferIDs, req \in Request, d \in Decisions :
              id = client[c].id /\ req = client[c].req /\ d = client[c].decision
        BY <3>3, SMTT(30)
      <4>2. Insert(id, req, d) /\ d = Decision(req.tenant, req.hash)
        BY <2>1, <3>3, <4>1, SMTT(30) DEF ClientDecided
      <4>3. /\ OthersSame(id) /\ transfers'[id].status = d
            /\ transfers'[id].tenant = req.tenant /\ transfers'[id].hash = req.hash
        BY <2>3, <4>2, InsertEffect, ZenonT(60)
      <4>4. Decided(transfers'[id]) = d
        BY <4>2, <4>3, ZenonT(60) DEF Decided
      <4>5. RowDecided(id)'
        BY <4>3, <4>4, ZenonT(60) DEF RowDecided, Decisions, PastAcceptance
      <4> QED
        BY <2>5, <4>3, <4>5, SMTT(30)
    <3> QED
      BY <1>2, <2>6, <2>9, <3>2, <3>3, ClientWrites, SMTT(30)
  <2>10. ASSUME NEW w \in Workers, WorkerActs(w)
         PROVE  UNCHANGED client /\ \A o \in TransferIDs : RowDecided(o)'
    <3>1. UNCHANGED client
      <4>1. WorkerServes(w)
        BY <1>2, SMTT(30) DEF CallerFacts, WorkerServes
      <4> QED
        BY <1>2, <2>10, <4>1, WorkerServed, Zenon DEF WorkerActs
    <3>2. ASSUME NEW id \in TransferIDs, Record(worker[w].tenant, id, worker[w].token)
          PROVE  \A o \in TransferIDs : RowDecided(o)'
      <4>1. /\ SameIdentity(id) /\ OthersSame(id) /\ outbox'[id] = outbox[id] \o SubmissionEvents
            /\ transfers[id].status = "accepted" /\ transfers'[id].status = "approved"
        BY <2>3, <3>2, RecordEffect, ZenonT(60)
      <4> QED
        BY <2>8, <4>1, EventsTyped, ZenonT(60) DEF PastAcceptance
    <3>3. ASSUME UNCHANGED outbox,
                 \A id \in TransferIDs :
                   SameIdentity(id) /\ transfers'[id].status = transfers[id].status
          PROVE  \A o \in TransferIDs : RowDecided(o)'
      BY <2>4, <3>3, SMTT(30)
    <3> QED
      BY <1>2, <2>10, <3>1, <3>2, <3>3, WorkerWrites, SMTT(30)
  <2>11. ASSUME NEW r \in Reviewers, ReviewerActs(r)
         PROVE  UNCHANGED client /\ \A o \in TransferIDs : RowDecided(o)'
    <3>1. UNCHANGED client
      <4>1. ReviewerServes(r)
        BY <1>2, ZenonT(60) DEF CallerFacts, ReviewerServes
      <4> QED
        BY <1>2, <2>11, <4>1, ReviewerServed, Zenon DEF ReviewerActs
    <3>2. ASSUME NEW id \in TransferIDs, NEW next \in {"accepted", "blocked"},
                 Review(reviewer[r].tenant, id, next)
          PROVE  \A o \in TransferIDs : RowDecided(o)'
      <4>1. /\ SameIdentity(id) /\ OthersSame(id) /\ outbox'[id] = outbox[id] \o ReviewEvents(next)
            /\ transfers[id].status = "review" /\ transfers'[id].status = next
        BY <2>3, <3>2, ReviewEffect, ZenonT(60)
      <4>2. Decided(transfers'[id]) = "review"
        BY <2>1, <4>1, DecisionKept, ZenonT(60) DEF RowDecided
      <4>3. next = "accepted" => ReviewApproved(id)'
        <5>1. ReviewEvents("accepted") \in Seq(EventTypes)
          BY EventsTyped
        <5>2. \E i \in 1..Len(ReviewEvents("accepted")) :
                ReviewEvents("accepted")[i] = "pix_transfer_review_approved"
          BY SMTT(30) DEF ReviewEvents
        <5> QED
          BY <1>2, <4>1, <5>1, <5>2, ApprovalKept, ZenonT(60)
      <4>4. RowDecided(id)'
        BY <4>1, <4>2, <4>3, SMTT(30) DEF RowDecided, PastAcceptance
      <4> QED
        BY <2>5, <4>1, <4>4, ZenonT(60)
    <3> QED
      BY <1>2, <2>6, <2>11, <3>1, <3>2, ReviewerWrites, SMTT(30)
  <2>12. ASSUME NEW p \in Providers, ProviderActs(p)
         PROVE  UNCHANGED client /\ \A o \in TransferIDs : RowDecided(o)'
    <3>1. UNCHANGED client
      <4>1. ProviderServes(p)
        BY <1>2, SMTT(30) DEF CallerFacts, ProviderServes
      <4> QED
        BY <1>2, <2>12, <4>1, ProviderServed, Zenon DEF ProviderActs
    <3>2. ASSUME NEW cb \in Callback, Settle(cb) PROVE \A o \in TransferIDs : RowDecided(o)'
      <4>1. PICK id \in TransferIDs, outcome \in {"settled", "rejected"} :
              /\ SameIdentity(id) /\ OthersSame(id)
              /\ outbox'[id] = outbox[id] \o SettlementEvents(outcome)
              /\ transfers[id].status = "approved" /\ transfers'[id].status = outcome
        BY <2>3, <3>2, SettleEffect, Zenon
      <4> QED
        BY <2>8, <4>1, EventsTyped, Zenon DEF PastAcceptance
    <3> QED
      BY <1>2, <2>6, <2>12, <3>1, <3>2, ProviderWrites, SMTT(30)
  <2>13. ASSUME TimePasses PROVE UNCHANGED client /\ \A o \in TransferIDs : RowDecided(o)'
    <3>1. Age /\ UNCHANGED client
      BY <2>13, SMTT(30) DEF TimePasses, Tick, Age
    <3>2. ASSUME NEW id \in TransferIDs PROVE RowDecided(id)'
      BY <2>3, <2>4, <3>1, AgeEffect, SMTT(30)
    <3> QED
      BY <3>1, <3>2
  <2>14. ASSUME UNCHANGED vars PROVE UNCHANGED client /\ UNCHANGED storeVars
    BY <2>14 DEF vars, handlerVars
  <2>15. Acts \/ TimePasses \/ UNCHANGED vars
    <3>1. Process \/ UNCHANGED apiVars => UNCHANGED vars
      BY StartKeeps, Zenon DEF Process, Signal, Exit, apiVars
    <3> QED
      BY <1>2, <3>1, CallsSwitch, HandlesSwitch, Zenon DEF ApiNext
  <2>16. Reads => UNCHANGED vars
    BY DEF Reads
  <2> QED
    BY <2>6, <2>7, <2>9, <2>10, <2>11, <2>12, <2>13, <2>14, <2>15, <2>16, ZenonT(60) DEF Acts
<1> QED
  BY <1>1, <1>2, ApiTypeCorrect, CallersCorrect, ImplementsSwitch, TypeCorrect, OutboxCorrect, PTL
     DEF ApiSpec

(* README 257 and docs/domain/state-machines.md 24 for any receivers,      *)
(* amounts and digests: nothing to a flagged key reaches the SPI, and no   *)
(* large transfer with a risk signal does unless a reviewer approved it.   *)
THEOREM RiskPolicyHolds == ApiSpec => []RiskPolicy
<1>1. ASSUME TypeOK, RiskFacts, SubmissionSafety PROVE RiskPolicy
  <2>1. ASSUME NEW id \in spiReceived
        PROVE  LET h == transfers[id].hash IN
               /\ h.receiver \notin RiskKeys
               /\ h.amount >= 1000000 /\ RiskSignal(transfers[id].tenant, h.receiver) >= 10
                    => ReviewApproved(id)
    <3>1. id \in TransferIDs /\ transfers[id].status \in PastAcceptance
      BY <1>1, SMTT(30) DEF TypeOK, SubmissionSafety, PastAcceptance
    <3>2. transfers[id] \in Transfer
      BY <1>1, <3>1, RowTyped, SMTT(30) DEF TypeOK, Exists, PastAcceptance
    <3>3. transfers[id].tenant \in Tenants /\ transfers[id].hash \in Hashes
      BY <3>2, SMTT(30) DEF Transfer
    <3>4. \/ Decided(transfers[id]) = "accepted"
          \/ Decided(transfers[id]) = "review" /\ ReviewApproved(id)
      BY <1>1, <3>1 DEF RiskFacts
    <3> QED
      BY <3>3, <3>4, Scoring, SMTT(30) DEF Decided
  <2> QED
    BY <2>1, SMTT(30) DEF RiskPolicy
<1> QED
  BY <1>1, RisksCorrect, ImplementsSwitch, TypeCorrect, SubmissionsSafe, PTL

-----------------------------------------------------------------------------
(* For any number of racing, repeated and retried creates, 201 is answered *)
(* only by the step that brings the row into being.                        *)
THEOREM CreatedOnce == ApiSpec => CreatedMeansInserted
<1> DEFINE Created == \E id \in TransferIDs : answer'.about = {id} /\ ~Exists(id) /\ Exists(id)'
           Other == {0, 200, 400, 401, 403, 404, 409, 429, 500, 502}
<1>1. answer' = NoAnswer => answer'.status \in Other
  BY DEF NoAnswer
<1>2. ASSUME NEW h, NEW s, NEW status, NEW about, NEW events,
             AnswersCounting(h, s, status, about, events)
      PROVE  answer'.status = status /\ answer'.about = about
  BY <1>2 DEF AnswersCounting, Response
<1>3. ASSUME NEW tenant, NEW id PROVE StoreError(tenant, id) \in {404, 409}
  BY DEF StoreError
<1>4. /\ 200 \in Other /\ 400 \in Other /\ 401 \in Other
      /\ 403 \in Other /\ 404 \in Other /\ 409 \in Other
      /\ 429 \in Other /\ 500 \in Other /\ 502 \in Other
      /\ \A tenant, id : StoreError(tenant, id) \in Other
      /\ 201 \notin Other
  BY <1>3
<1> HIDE DEF Other
<1>5. ASSUME TypeOK, NEW c \in Clients, ClientActs(c)
      PROVE  answer'.status \in Other \/ Created
  <2>1. CASE PostInsert(c)
    <3>1. \/ answer' = NoAnswer
          \/ /\ client'[c].pc = "idle"
             /\ \E st, ev : AnswersCounting(c, caller[c], st, {client[c].id}, ev)
      BY <2>1, Zenon DEF PostInsert, CommitUnheard, Continues
    <3>2. ASSUME client'[c].pc = "idle", NEW st, NEW ev,
                 AnswersCounting(c, caller[c], st, {client[c].id}, ev)
          PROVE  Created
      <4>1. CreateInsert(c)
        BY <2>1, Zenon DEF PostInsert
      <4>2. PICK id \in TransferIDs, req \in Request, d \in Decisions :
              id = client[c].id /\ req = client[c].req /\ d = client[c].decision
        BY <1>5, <4>1, ClientLocals, ZenonT(60) DEF CreateInsert
      <4>3. ~InsertConflict(client[c].id, NewTransfer(client[c].req, client[c].decision))
        BY <1>5, <3>2, <4>1, ZenonT(60) DEF CreateInsert, TypeOK, ClientState, IdleClient
      <4>4. NewTransfer(req, d).status = d
        BY NewTransferTyped
      <4>5. Insert(id, req, d)
        BY <4>1, <4>2, <4>3, <4>4, Zenon DEF CreateInsert, Insert
      <4>6. transfers[id].status = "absent" /\ transfers'[id].status = d
        BY <1>5, <4>5, InsertEffect, ZenonT(60) DEF TypeOK
      <4>7. answer'.about = {id}
        BY <1>2, <3>2, <4>2, SMTT(30)
      <4> QED
        BY <4>6, <4>7 DEF Exists, Decisions
    <3> QED
      BY <1>1, <3>1, <3>2, SMTT(30)
  <2>2. ASSUME NEW secret \in Secrets, NEW key \in Keys, NEW p \in Payloads,
               PostTransfer(c, secret, key, p)
        PROVE  answer'.status \in Other
    <3>1. \/ answer' = NoAnswer
          \/ \E ab : Answers(c, secret, 200, ab) \/ Answers(c, secret, 409, ab)
      BY <2>2, ZenonT(60) DEF PostTransfer, Holding, CreateStatus
    <3> QED
      BY <1>1, <1>2, <1>4, <3>1 DEF Answers
  <2>3. CASE PostDecide(c) \/ PostRefused(c) \/ PostRefind(c) \/ answer' = NoAnswer
    <3>1. \/ answer' = NoAnswer
          \/ \E ab : \/ Answers(c, caller[c], 200, ab) \/ Answers(c, caller[c], 409, ab)
                    \/ Answers(c, caller[c], 429, ab) \/ Answers(c, caller[c], 502, ab)
      BY <2>3, ZenonT(60) DEF PostDecide, PostRefused, PostRefind, Continues, CreateStatus
    <3> QED
      BY <1>1, <1>2, <1>4, <3>1, SMTT(30) DEF Answers
  <2> QED
    BY <1>5, <2>1, <2>2, <2>3, ZenonT(60) DEF ClientActs
<1>6. ASSUME NEW w \in Workers, WorkerActs(w) PROVE answer'.status \in Other
  <2> DEFINE me == worker[w]
  <2>1. CASE SubmitClaims(w)
    <3>1. PICK st : st = CASE ~GetTransfer(me.tenant, me.id) -> 404
                           [] Submitted(transfers[me.id])    -> 200
                           [] me.until = 0                   -> 400
                           [] OTHER                          -> 409
      OBVIOUS
    <3>2. answer' = NoAnswer \/ \E ab : AnswersCounting(w, caller[w], st, ab, 0)
      BY <2>1, <3>1, Zenon DEF SubmitClaims, Continues, Answers
    <3>3. st \in Other
      BY <1>4, <3>1
    <3> QED
      BY <1>1, <1>2, <3>2, <3>3, Zenon
  <2>2. CASE SubmitRecords(w)
    <3>1. PICK st : st = IF RecordSucceeds(me.tenant, me.id, me.token) \/ RecordReplays(me.tenant, me.id)
                         THEN 200 ELSE StoreError(me.tenant, me.id)
      BY Zenon
    <3>2. answer' = NoAnswer \/ \E ab, ev : AnswersCounting(w, caller[w], st, ab, ev)
      BY <2>2, <3>1, Zenon DEF SubmitRecords, CommitUnheard
    <3>3. st \in Other
      BY <1>4, <3>1, SMTT(30)
    <3> QED
      BY <1>1, <1>2, <3>2, <3>3, Zenon
  <2>3. CASE SubmitReleases(w)
    BY <1>2, <1>4, <2>3 DEF SubmitReleases, Answers
  <2> QED
    BY <1>1, <1>6, <2>1, <2>2, <2>3, Zenon
       DEF WorkerActs, SubmitCall, SubmitSends, Holding, Continues
<1>7. ASSUME NEW r \in Reviewers, ReviewerActs(r) PROVE answer'.status \in Other
  <2>1. CASE ReviewCommits(r)
    <3>1. PICK st : st = IF ReviewSucceeds(reviewer[r].tenant, reviewer[r].id, NextStatus(reviewer[r].decision))
                         THEN 200 ELSE StoreError(reviewer[r].tenant, reviewer[r].id)
      BY Zenon
    <3>2. \/ answer' = NoAnswer
          \/ \E ab, ev : AnswersCounting(r, caller[r], st, ab, ev)
      BY <2>1, <3>1, Zenon DEF ReviewCommits, CommitUnheard
    <3>3. st \in Other
      BY <1>4, <3>1
    <3> QED
      BY <1>1, <1>2, <3>2, <3>3, Zenon
  <2>2. ASSUME NEW secret \in Secrets, NEW id \in TransferIDs,
               NEW d \in ReviewDecision \cup {"other"}, ReviewCall(r, secret, id, d)
        PROVE  answer'.status \in Other
    <3>1. PICK st : st = IF GetTransfer(TenantOf(secret), id) /\ transfers[id].status = "review"
                         THEN 400 ELSE StoreError(TenantOf(secret), id)
      BY Zenon
    <3>2. answer' = NoAnswer \/ \E ab : AnswersCounting(r, secret, st, ab, 0)
      BY <2>2, <3>1, Zenon DEF ReviewCall, Holding, Answers
    <3>3. st \in Other
      BY <1>4, <3>1
    <3> QED
      BY <1>1, <1>2, <3>2, <3>3, Zenon
  <2> QED
    BY <1>1, <1>7, <2>1, <2>2, Zenon DEF ReviewerActs
<1>8. ASSUME NEW p \in Providers, ProviderActs(p) PROVE answer'.status \in Other
  <2>1. CASE SettleCommits(p)
    <3>1. PICK st : st = LET cb == provider[p].callback IN
                         IF \/ SettlementSucceeds(cb.tenant, cb.transfer, cb)
                            \/ SettlementReplays(cb.tenant, cb.transfer, cb)
                         THEN 200 ELSE StoreError(cb.tenant, cb.transfer)
      BY Zenon
    <3>2. \/ answer' = NoAnswer
          \/ \E ab, ev : AnswersCounting(p, caller[p], st, ab, ev)
      BY <2>1, <3>1, Zenon DEF SettleCommits, CommitUnheard
    <3>3. st \in Other
      BY <1>4, <3>1
    <3> QED
      BY <1>1, <1>2, <3>2, <3>3, Zenon
  <2>2. ASSUME NEW secret \in Secrets, NEW cb \in Callbacks, NEW sig \in Signatures,
               SettleCall(p, secret, cb, sig)
        PROVE  answer'.status \in Other
    <3>1. PICK st : st = IF /\ GetTransfer(cb.tenant, cb.transfer)
                            /\ transfers[cb.transfer].spiMessageID = cb.spiMessageID
                         THEN 400 ELSE StoreError(cb.tenant, cb.transfer)
      BY Zenon
    <3>2. answer' = NoAnswer \/ \E ab : AnswersCounting(p, secret, st, ab, 0)
      BY <2>2, <3>1, Zenon DEF SettleCall, Holding, Answers
    <3>3. st \in Other
      BY <1>4, <3>1
    <3> QED
      BY <1>1, <1>2, <3>2, <3>3, Zenon
  <2> QED
    BY <1>1, <1>8, <2>1, <2>2, Zenon DEF ProviderActs
<1>9. ASSUME Reads PROVE answer'.status \in Other
  <2>1. ASSUME NEW tenant, NEW status, NEW about, Reply(tenant, status, about)
        PROVE  answer'.status = status
    BY <2>1 DEF Reply, Response
  <2>2. ASSUME NEW secret, NEW id, GetCall(secret, id) PROVE answer'.status \in {200, 404}
    BY <2>1, <2>2 DEF GetCall
  <2>3. ASSUME NEW secret, GetOutbox(secret) PROVE answer'.status = 200
    BY <2>1, <2>3, SMTT(30) DEF GetOutbox
  <2>4. answer'.status \in {200, 404} \/ answer'.status \in {400, 401, 403}
    BY <1>9, <2>2, <2>3 DEF Reads
  <2> QED
    BY <1>4, <2>4, SMTT(30)
<1>10. ASSUME TypeOK, ApiTypeOK, [ApiNext]_apiVars PROVE [answer'.status = 201 => Created]_apiVars
  <2>1. TimePasses \/ Process => answer' = NoAnswer
    BY Zenon DEF TimePasses, Process, Signal, Exit, Start
  <2>2. Acts \/ TimePasses \/ Process \/ UNCHANGED apiVars
    BY <1>10, CallsSwitch, HandlesSwitch, Zenon DEF ApiNext
  <2>3. answer'.status \in Other => answer'.status # 201
    BY <1>4, Zenon
  <2> HIDE DEF Created
  <2> QED
    BY <1>1, <1>5, <1>6, <1>7, <1>8, <1>9, <1>10, <2>1, <2>2, <2>3, Zenon DEF Acts
<1> QED
  BY <1>10, ApiTypeCorrect, ImplementsSwitch, TypeCorrect, PTL DEF ApiSpec, CreatedMeansInserted

-----------------------------------------------------------------------------
(* A response that counts what was appended to its transfer's outbox, in a *)
(* step that appends to no other, counts right.                            *)
LEMMA CountsAppended ==
  ASSUME OutboxMatchesStatus, NEW id \in TransferIDs, NEW events \in Seq(EventTypes),
         outbox'[id] = outbox[id] \o events, OthersSame(id),
         answer'.about = {id}, answer'.events = Len(events)
  PROVE  \E o \in answer'.about :
           /\ answer'.events = Len(outbox'[o]) - Len(outbox[o])
           /\ \A x \in TransferIDs \ {o} : outbox'[x] = outbox[x]
<1>1. outbox[id] \in Seq(EventTypes)
  BY HistoryTyped DEF OutboxMatchesStatus
<1>2. Len(events) = Len(outbox[id] \o events) - Len(outbox[id])
  BY <1>1
<1>3. answer'.events = Len(outbox'[id]) - Len(outbox[id])
  BY <1>2, Zenon
<1>4. \A x \in TransferIDs \ {id} : outbox'[x] = outbox[x]
  BY Zenon DEF OthersSame
<1>5. id \in answer'.about
  OBVIOUS
<1> QED
  BY <1>3, <1>4, <1>5, Zenon

(* For any number of racing, repeated and retried requests, what a         *)
(* response adds to pixrail_outbox_events_total is what its own request    *)
(* added to the outbox.                                                    *)
THEOREM CountsCorrect == ApiSpec => EventsCounted
<1> DEFINE Right == \E id \in answer'.about :
                      /\ answer'.events = Len(outbox'[id]) - Len(outbox[id])
                      /\ \A o \in TransferIDs \ {id} : outbox'[o] = outbox[o]
           Counted == answer'.events = 0 \/ Right
<1>1. answer' = NoAnswer => Counted
  BY DEF NoAnswer
<1>2. ASSUME NEW h, NEW s, NEW status, NEW about, NEW events,
             AnswersCounting(h, s, status, about, events)
      PROVE  answer'.about = about /\ answer'.events = events
  BY <1>2, SMTT(30) DEF AnswersCounting, Response
<1>3. ASSUME NEW h, NEW s, NEW status, NEW about, Answers(h, s, status, about) PROVE Counted
  BY <1>2, <1>3, Zenon DEF Answers
<1>4. ASSUME NEW events PROVE Events(TRUE, events) = Len(events) /\ Events(FALSE, events) = 0
  BY DEF Events
<1>5. ASSUME OutboxMatchesStatus, NEW id \in TransferIDs, NEW events \in Seq(EventTypes),
             outbox'[id] = outbox[id] \o events, OthersSame(id),
             NEW h, NEW s, NEW st, AnswersCounting(h, s, st, {id}, Len(events))
      PROVE  Counted
  <2>1. answer'.about = {id} /\ answer'.events = Len(events)
    BY <1>2, <1>5, Zenon
  <2> QED
    BY <1>5, <2>1, CountsAppended, Zenon
<1> HIDE DEF Counted
<1>6. ASSUME TypeOK, OutboxMatchesStatus, NEW c \in Clients, ClientActs(c) PROVE Counted
  <2>1. CASE PostInsert(c)
    <3>1. \/ answer' = NoAnswer
          \/ /\ client'[c].pc = "idle"
             /\ \E st : AnswersCounting(c, caller[c], st, {client[c].id},
                                        Events(TRUE, CreateEvents(client[c].decision)))
      BY <2>1, Zenon DEF PostInsert, CommitUnheard, Continues
    <3>2. ASSUME client'[c].pc = "idle", NEW st,
                 AnswersCounting(c, caller[c], st, {client[c].id},
                                 Events(TRUE, CreateEvents(client[c].decision)))
          PROVE  Counted
      <4>1. CreateInsert(c)
        BY <2>1, Zenon DEF PostInsert
      <4>2. PICK id \in TransferIDs, req \in Request, d \in Decisions :
              id = client[c].id /\ req = client[c].req /\ d = client[c].decision
        BY <1>6, <4>1, ClientLocals, ZenonT(60) DEF CreateInsert
      <4>3. ~InsertConflict(client[c].id, NewTransfer(client[c].req, client[c].decision))
        BY <1>6, <3>2, <4>1, ZenonT(60) DEF CreateInsert, TypeOK, ClientState, IdleClient
      <4>4. NewTransfer(req, d).status = d
        BY NewTransferTyped
      <4>5. Insert(id, req, d)
        BY <4>1, <4>2, <4>3, <4>4, Zenon DEF CreateInsert, Insert
      <4>6. outbox'[id] = outbox[id] \o CreateEvents(d) /\ OthersSame(id)
        BY <1>6, <4>5, InsertEffect, ZenonT(60) DEF TypeOK
      <4>7. AnswersCounting(c, caller[c], st, {id}, Len(CreateEvents(d)))
        BY <1>4, <3>2, <4>2, Zenon
      <4> QED
        BY <1>5, <1>6, <4>6, <4>7, EventsTyped, Zenon
    <3> QED
      BY <1>1, <3>1, <3>2, Zenon
  <2>2. ASSUME NEW secret \in Secrets, NEW key \in Keys, NEW p \in Payloads,
               PostTransfer(c, secret, key, p)
        PROVE  Counted
    <3>1. answer' = NoAnswer \/ \E st, ab : Answers(c, secret, st, ab)
      BY <2>2, ZenonT(60) DEF PostTransfer, Holding
    <3> QED
      BY <1>1, <1>3, <3>1, Zenon
  <2>3. CASE PostDecide(c) \/ PostRefused(c) \/ PostRefind(c) \/ answer' = NoAnswer
    <3>1. answer' = NoAnswer \/ \E st, ab : Answers(c, caller[c], st, ab)
      BY <2>3, ZenonT(60) DEF PostDecide, PostRefused, PostRefind, Continues
    <3> QED
      BY <1>1, <1>3, <3>1, Zenon
  <2> QED
    BY <1>6, <2>1, <2>2, <2>3, ZenonT(60) DEF ClientActs
<1>7. ASSUME TypeOK, OutboxMatchesStatus, NEW w \in Workers, WorkerActs(w) PROVE Counted
  <2> DEFINE me == worker[w]
             fresh == RecordSucceeds(me.tenant, me.id, me.token)
  <2>1. CASE SubmitRecords(w)
    <3>1. \/ answer' = NoAnswer
          \/ \E st : AnswersCounting(w, caller[w], st, Known(me.tenant, me.id),
                                     Events(fresh, SubmissionEvents))
      BY <2>1, Zenon DEF SubmitRecords, CommitUnheard
    <3>2. ASSUME NEW st, AnswersCounting(w, caller[w], st, Known(me.tenant, me.id),
                                         Events(fresh, SubmissionEvents))
          PROVE  Counted
      <4>1. CASE ~fresh
        BY <1>2, <3>2, <4>1, Zenon DEF Counted, Events
      <4>2. CASE fresh
        <5>1. SubmitRecord(w)
          BY <2>1, Zenon DEF SubmitRecords
        <5>7. worker[w].id \in TransferIDs
          BY <1>7, <5>1, WorkerLocals, ZenonT(60) DEF SubmitRecord
        <5>2. PICK id \in TransferIDs : id = me.id
          BY <5>7, Zenon
        <5>3. Record(me.tenant, id, me.token)
          BY <4>2, <5>1, <5>2, Zenon DEF SubmitRecord, Record
        <5>4. /\ GetTransfer(me.tenant, id) /\ OthersSame(id)
              /\ outbox'[id] = outbox[id] \o SubmissionEvents
          BY <1>7, <5>3, RecordEffect, ZenonT(60) DEF TypeOK
        <5>5. AnswersCounting(w, caller[w], st, {id}, Len(SubmissionEvents))
          BY <3>2, <4>2, <5>2, <5>4, Zenon DEF Events, Known
        <5> QED
          BY <1>5, <1>7, <5>4, <5>5, EventsTyped, Zenon
      <4> QED
        BY <4>1, <4>2, ZenonT(60)
    <3> QED
      BY <1>1, <3>1, <3>2, Zenon
  <2>2. CASE SubmitClaims(w)
    <3>1. PICK st : st = CASE ~GetTransfer(me.tenant, me.id) -> 404
                           [] Submitted(transfers[me.id])    -> 200
                           [] me.until = 0                   -> 400
                           [] OTHER                          -> 409
      OBVIOUS
    <3>2. answer' = NoAnswer \/ \E ab : Answers(w, caller[w], st, ab)
      BY <2>2, <3>1, Zenon DEF SubmitClaims, Continues
    <3> QED
      BY <1>1, <1>3, <3>2, Zenon
  <2>3. CASE SubmitReleases(w)
    BY <1>3, <2>3, Zenon DEF SubmitReleases
  <2> QED
    BY <1>1, <1>7, <2>1, <2>2, <2>3, Zenon
       DEF WorkerActs, SubmitCall, SubmitSends, Holding, Continues
<1>8. ASSUME TypeOK, OutboxMatchesStatus, NEW r \in Reviewers, ReviewerActs(r) PROVE Counted
  <2> DEFINE me == reviewer[r]
             next == NextStatus(me.decision)
             fresh == ReviewSucceeds(me.tenant, me.id, next)
  <2>1. CASE ReviewCommits(r)
    <3>1. \/ answer' = NoAnswer
          \/ \E st : AnswersCounting(r, caller[r], st, Known(me.tenant, me.id),
                                     Events(fresh, ReviewEvents(next)))
      BY <2>1, Zenon DEF ReviewCommits, CommitUnheard
    <3>2. ASSUME NEW st, AnswersCounting(r, caller[r], st, Known(me.tenant, me.id),
                                         Events(fresh, ReviewEvents(next)))
          PROVE  Counted
      <4>1. CASE ~fresh
        BY <1>2, <3>2, <4>1, Zenon DEF Counted, Events
      <4>2. CASE fresh
        <5>1. ReviewCommit(r)
          BY <2>1, Zenon DEF ReviewCommits
        <5>7. reviewer[r].id \in TransferIDs
          BY <1>8, <5>1, ReviewerLocals, ZenonT(60) DEF ReviewCommit
        <5>2. PICK id \in TransferIDs : id = me.id
          BY <5>7, Zenon
        <5>3. next \in {"accepted", "blocked"}
          BY DEF NextStatus
        <5>4. Review(me.tenant, id, next) /\ GetTransfer(me.tenant, id)
          BY <4>2, <5>1, <5>2, Zenon DEF ReviewCommit, Review, ReviewSucceeds
        <5>5. outbox'[id] = outbox[id] \o ReviewEvents(next) /\ OthersSame(id)
          BY <1>8, <5>3, <5>4, ReviewEffect, ZenonT(60) DEF TypeOK
        <5>6. AnswersCounting(r, caller[r], st, {id}, Len(ReviewEvents(next)))
          BY <3>2, <4>2, <5>2, <5>4, Zenon DEF Events, Known
        <5> QED
          BY <1>5, <1>8, <5>5, <5>6, EventsTyped, Zenon
      <4> QED
        BY <4>1, <4>2, ZenonT(60)
    <3> QED
      BY <1>1, <3>1, <3>2, Zenon
  <2>2. ASSUME NEW secret \in Secrets, NEW id \in TransferIDs,
               NEW d \in ReviewDecision \cup {"other"}, ReviewCall(r, secret, id, d)
        PROVE  Counted
    <3>1. answer' = NoAnswer \/ \E st, ab : Answers(r, secret, st, ab)
      BY <2>2, Zenon DEF ReviewCall, Holding
    <3> QED
      BY <1>1, <1>3, <3>1, Zenon
  <2> QED
    BY <1>1, <1>8, <2>1, <2>2, Zenon DEF ReviewerActs
<1>9. ASSUME TypeOK, OutboxMatchesStatus, NEW p \in Providers, ProviderActs(p) PROVE Counted
  <2> DEFINE cb == provider[p].callback
             outcome == SettlementOutcome(cb.status)
             fresh == SettlementSucceeds(cb.tenant, cb.transfer, cb)
  <2>1. CASE SettleCommits(p)
    <3>1. \/ answer' = NoAnswer
          \/ \E st : AnswersCounting(p, caller[p], st, Known(cb.tenant, cb.transfer),
                                     Events(fresh, SettlementEvents(outcome)))
      BY <2>1, Zenon DEF SettleCommits, CommitUnheard
    <3>2. ASSUME NEW st, AnswersCounting(p, caller[p], st, Known(cb.tenant, cb.transfer),
                                         Events(fresh, SettlementEvents(outcome)))
          PROVE  Counted
      <4>1. CASE ~fresh
        BY <1>2, <3>2, <4>1, Zenon DEF Counted, Events
      <4>2. CASE fresh
        <5>1. SettleCommit(p)
          BY <2>1, Zenon DEF SettleCommits
        <5>2. cb \in Callback
          BY <1>9, <5>1, ProviderLocals, ZenonT(60) DEF SettleCommit
        <5>3. ~SettlementReplays(cb.tenant, cb.transfer, cb)
          BY <4>2, <5>2, NoneAssumption, Zenon DEF SettlementSucceeds, SettlementReplays
        <5>4. Settle(cb)
          BY <4>2, <5>1, <5>3, Zenon DEF SettleCommit, Settle
        <5>5. /\ cb.transfer \in TransferIDs /\ GetTransfer(cb.tenant, cb.transfer)
              /\ outbox'[cb.transfer] = outbox[cb.transfer] \o SettlementEvents(outcome)
              /\ OthersSame(cb.transfer)
          BY <1>9, <5>2, <5>4, SettleEffect, ZenonT(60) DEF TypeOK
        <5>6. AnswersCounting(p, caller[p], st, {cb.transfer}, Len(SettlementEvents(outcome)))
          BY <3>2, <4>2, <5>5, Zenon DEF Events, Known
        <5> QED
          BY <1>5, <1>9, <5>5, <5>6, EventsTyped, Zenon
      <4> QED
        BY <4>1, <4>2, ZenonT(60)
    <3> QED
      BY <1>1, <3>1, <3>2, Zenon
  <2>2. ASSUME NEW secret \in Secrets, NEW c \in Callbacks, NEW sig \in Signatures,
               SettleCall(p, secret, c, sig)
        PROVE  Counted
    <3>1. answer' = NoAnswer \/ \E st, ab : Answers(p, secret, st, ab)
      BY <2>2, Zenon DEF SettleCall, Holding
    <3> QED
      BY <1>1, <1>3, <3>1, Zenon
  <2> QED
    BY <1>1, <1>9, <2>1, <2>2, Zenon DEF ProviderActs
<1>10. ASSUME TypeOK, OutboxMatchesStatus, ApiTypeOK, [ApiNext]_apiVars
       PROVE  [answer'.events # 0 => Right]_apiVars
  <2>1. TimePasses \/ Process => answer' = NoAnswer
    BY Zenon DEF TimePasses, Process, Signal, Exit, Start
  <2>2. Acts \/ TimePasses \/ Process \/ UNCHANGED apiVars
    BY <1>10, CallsSwitch, HandlesSwitch, Zenon DEF ApiNext
  <2>3. Reads => Counted
    BY Zenon DEF Reads, Counted
  <2>4. Counted \/ UNCHANGED apiVars
    BY <1>1, <1>6, <1>7, <1>8, <1>9, <1>10, <2>1, <2>2, <2>3, Zenon DEF Acts
  <2> QED
    BY <2>4, Zenon DEF Counted
<1> QED
  BY <1>10, ApiTypeCorrect, ImplementsSwitch, TypeCorrect, OutboxCorrect, PTL DEF ApiSpec, EventsCounted

-----------------------------------------------------------------------------
(* The worker process.                                                     *)
USE NoneAssumption

WorkerTypeOK ==
  /\ DOMAIN older = TransferIDs
  /\ batch \in [Workers -> SUBSET TransferIDs]

(* Rows are never deleted and never change hands.                          *)
LEMMA RowsLast ==
  ASSUME TypeOK, TypeOK', [Next]_vars, NEW id \in TransferIDs, Exists(id)
  PROVE  Exists(id)' /\ SameIdentity(id)
<1>1. StoreTypeOK /\ StoreTypeOK'
  BY DEF TypeOK
<1>2. InsertStep \/ UpdateStep
  BY StoreStep, Zenon DEF StoreNext, UpdateStep
<1>3. SameIdentity(id)
  BY <1>1, <1>2, RowsAndIndexKept, Zenon DEF Exists
<1>4. transfers[id].tenant \in Tenants
  BY <1>1, RowTyped, SMTT(30) DEF Transfer
<1>5. transfers'[id] \in Transfer
  BY <1>1, <1>3, <1>4, SMTT(30) DEF StoreTypeOK, SameIdentity, NoTransfer
<1>6. transfers'[id].status # "absent"
  BY <1>5 DEF Transfer, TransferStatus
<1> QED
  BY <1>3, <1>6 DEF Exists

(* Each step around the worker process is one of Switch's, or leaves the   *)
(* switch alone: a batch calls SubmitToSPI with the id and the tenant of a *)
(* row.                                                                    *)
LEMMA StepsOfSwitch ==
  ASSUME TypeOK, WorkerTypeOK, BatchFacts, [WorkerNext]_workerVars
  PROVE  [Next]_vars
<1>1. ASSUME NEW c \in Clients, Create(c) PROVE Next
  BY <1>1, Zenon DEF Create, Next
<1>2. ASSUME NEW w \in Workers, BatchNext(w) PROVE Next
  <2>1. PICK id \in batch[w] : SubmitStart(w, transfers[id].tenant, id)
    BY <1>2, Zenon DEF BatchNext
  <2>2. id \in TransferIDs /\ Exists(id)
    BY <2>1, Zenon DEF BatchFacts
  <2>3. transfers[id].tenant \in Tenants
    BY <2>2, RowTyped DEF TypeOK, Transfer
  <2> QED
    BY <2>1, <2>2, <2>3, Zenon DEF Next, WorkerStep
<1>3. ASSUME NEW w \in Workers, RunBatch(w) PROVE [Next]_vars
  BY <1>2, <1>3, Zenon DEF RunBatch, BatchStart, BatchClaim, BatchSubmit, BatchRecord, BatchRelease,
     BatchAbort, Next, WorkerStep
<1>4. UNCHANGED workerVars => UNCHANGED vars
  BY DEF workerVars
<1> QED
  BY <1>1, <1>3, <1>4, Zenon DEF WorkerNext, Next

(* The order and the batches keep their types.                             *)
LEMMA WorkerTypeKept ==
  ASSUME WorkerTypeOK, [WorkerNext]_workerVars
  PROVE  WorkerTypeOK'
<1>1. ASSUME NEW c \in Clients, Create(c) PROVE WorkerTypeOK'
  BY <1>1 DEF Create, WorkerTypeOK, Youngest
<1>2. ASSUME NEW w \in Workers, RunBatch(w) PROVE WorkerTypeOK'
  <2>1. PendingSPISubmissions \in SUBSET TransferIDs
    BY Zenon DEF PendingSPISubmissions
  <2>2. UNCHANGED older
    BY <1>2, Zenon DEF RunBatch, BatchStart, BatchNext, BatchClaim, BatchSubmit, BatchRecord,
       BatchRelease, BatchAbort
  <2>3. \/ batch' = [batch EXCEPT ![w] = PendingSPISubmissions]
        \/ UNCHANGED batch \/ Skip(w) \/ Stop(w)
    BY <1>2, Zenon DEF RunBatch, BatchStart, BatchNext, BatchClaim, BatchSubmit, BatchRecord,
       BatchRelease, BatchAbort
  <2> QED
    BY <2>1, <2>2, <2>3 DEF WorkerTypeOK, Skip, Stop
<1>3. UNCHANGED <<older, batch>> => WorkerTypeOK'
  BY DEF WorkerTypeOK
<1> QED
  BY <1>1, <1>2, <1>3, Zenon DEF WorkerNext, workerVars

(* A new transfer gets in front of none that exists.                       *)
LEMMA OlderShrinks ==
  ASSUME WorkerTypeOK, TypeOK, [WorkerNext]_workerVars, NEW id \in TransferIDs, Exists(id)
  PROVE  older'[id] \subseteq older[id]
<1>1. ASSUME NEW c \in Clients, Create(c) PROVE older'[id] \subseteq older[id]
  <2>1. CASE client[c].pc = "decide" /\ client'[c].pc = "insert"
    <3>1. CreateDecide(c)
      BY <1>1, <2>1, SMTT(30) DEF Create, ClientStep, CreateFind, CreateInsert, CreateRefind, CreateAbort,
         TypeOK, ClientState, IdleClient
    <3>2. ~Exists(client'[c].id)
      BY <3>1 DEF CreateDecide, TypeOK
    <3> QED
      BY <1>1, <2>1, <3>2, SMTT(30) DEF Create, Youngest
  <2>2. CASE ~(client[c].pc = "decide" /\ client'[c].pc = "insert")
    BY <1>1, <2>2, Zenon DEF Create
  <2> QED
    BY <2>1, <2>2, SMTT(30)
<1>2. ASSUME NEW w \in Workers, RunBatch(w) PROVE UNCHANGED older
  BY <1>2, Zenon DEF RunBatch, BatchStart, BatchNext, BatchClaim, BatchSubmit, BatchRecord,
     BatchRelease, BatchAbort
<1>3. UNCHANGED older => older'[id] \subseteq older[id]
  BY SMTT(30)
<1> QED
  BY <1>1, <1>2, <1>3, Zenon DEF WorkerNext, workerVars

-----------------------------------------------------------------------------
(* What BatchFacts says of one worker.                                     *)
WorkerBatch(w) ==
  /\ batch[w] \subseteq {id \in TransferIDs : Exists(id)}
  /\ worker[w].pc # "idle" =>
       /\ worker[w].id \in batch[w]
       /\ GetTransfer(worker[w].tenant, worker[w].id)
       /\ older[worker[w].id] \cap batch[w] = {}

(* A worker whose batch loses transfers or is read anew, and which is idle *)
(* or at the oldest of its batch afterwards, keeps its facts whatever the  *)
(* other processes do to the rows in the same step.                        *)
LEMMA WorkerBatchKept ==
  ASSUME TypeOK, TypeOK', WorkerTypeOK, [Next]_vars, [WorkerNext]_workerVars, NEW w \in Workers,
         batch'[w] \subseteq {id \in TransferIDs : Exists(id)},
         worker'[w].pc # "idle" =>
           /\ worker'[w].id \in batch'[w]
           /\ GetTransfer(worker'[w].tenant, worker'[w].id)
           /\ older[worker'[w].id] \cap batch'[w] = {}
  PROVE  WorkerBatch(w)'
<1>1. ASSUME NEW id \in TransferIDs, Exists(id)
      PROVE  Exists(id)' /\ transfers'[id].tenant = transfers[id].tenant /\ older'[id] \subseteq older[id]
  BY <1>1, RowsLast, OlderShrinks, ZenonT(60) DEF SameIdentity
<1>2. batch'[w] \subseteq {id \in TransferIDs : Exists(id)'}
  BY <1>1, Zenon
<1>3. ASSUME worker'[w].pc # "idle"
      PROVE  /\ GetTransfer(worker[w].tenant, worker[w].id)'
             /\ older'[worker'[w].id] \cap batch'[w] = {}
  <2>1. PICK id \in TransferIDs : id = worker'[w].id /\ Exists(id)
    BY <1>3, Zenon
  <2>2. transfers[id].tenant = worker'[w].tenant /\ older[id] \cap batch'[w] = {}
    BY <1>3, <2>1, Zenon DEF GetTransfer
  <2>3. Exists(id)' /\ transfers'[id].tenant = worker'[w].tenant
    BY <1>1, <2>1, <2>2, ZenonT(60)
  <2>4. older'[id] \cap batch'[w] = {}
    BY <1>1, <2>1, <2>2, Zenon
  <2> QED
    BY <2>1, <2>3, <2>4, Zenon DEF GetTransfer, Exists
<1> QED
  BY <1>2, <1>3, Zenon DEF WorkerBatch

(* Every step keeps what is known of every batch.                          *)
LEMMA BatchKept ==
  ASSUME TypeOK, TypeOK', WorkerTypeOK, [Next]_vars, [WorkerNext]_workerVars, BatchFacts
  PROVE  BatchFacts'
<1>1. \A w \in Workers : WorkerBatch(w)
  BY Zenon DEF BatchFacts, WorkerBatch
<1>2. SUFFICES ASSUME NEW w \in Workers PROVE WorkerBatch(w)'
  BY Zenon DEF BatchFacts, WorkerBatch
<1>3. /\ batch[w] \subseteq {id \in TransferIDs : Exists(id)}
      /\ worker[w].pc # "idle" =>
           /\ worker[w].id \in batch[w]
           /\ GetTransfer(worker[w].tenant, worker[w].id)
           /\ older[worker[w].id] \cap batch[w] = {}
  BY <1>1, Zenon DEF WorkerBatch
<1>4. ASSUME batch'[w] = batch[w], worker'[w].pc = worker[w].pc,
             worker'[w].id = worker[w].id, worker'[w].tenant = worker[w].tenant
      PROVE  WorkerBatch(w)'
  <2>1. worker'[w].pc # "idle" =>
           /\ worker'[w].id \in batch'[w]
           /\ GetTransfer(worker'[w].tenant, worker'[w].id)
           /\ older[worker'[w].id] \cap batch'[w] = {}
    BY <1>3, <1>4, Zenon
  <2>2. batch'[w] \subseteq {id \in TransferIDs : Exists(id)}
    BY <1>3, <1>4, Zenon
  <2> QED
    BY <2>1, <2>2, WorkerBatchKept, Zenon
<1>5. ASSUME worker'[w].pc = "idle", batch'[w] \subseteq {id \in TransferIDs : Exists(id)}
      PROVE  WorkerBatch(w)'
  BY <1>5, WorkerBatchKept, Zenon
<1>6. ASSUME UNCHANGED <<worker, batch>> PROVE WorkerBatch(w)'
  BY <1>4, <1>6, ZenonT(60)
<1>7. ASSUME NEW o \in Workers, RunBatch(o), o # w PROVE WorkerBatch(w)'
  <2>1. worker'[w] = worker[w]
    BY <1>7, SMTT(30) DEF RunBatch, BatchStart, BatchNext, BatchClaim, BatchSubmit, BatchRecord, BatchRelease,
       BatchAbort, SubmitStart, SubmitClaim, SubmitAccepted, SubmitFailed, SubmitRecord,
       SubmitRelease, SubmitAbort, vars, handlerVars, TypeOK
  <2>2. batch'[w] = batch[w]
    <3>1. \/ batch' = [batch EXCEPT ![o] = PendingSPISubmissions]
          \/ UNCHANGED batch \/ Skip(o) \/ Stop(o)
      BY <1>7, Zenon DEF RunBatch, BatchStart, BatchNext, BatchClaim, BatchSubmit, BatchRecord,
         BatchRelease, BatchAbort
    <3> QED
      BY <1>7, <3>1 DEF WorkerTypeOK, Skip, Stop
  <2> QED
    BY <1>4, <2>1, <2>2, SMTT(30)
<1>8. Skip(w) \/ Stop(w) => batch'[w] \subseteq {id \in TransferIDs : Exists(id)}
  BY <1>3 DEF WorkerTypeOK, Skip, Stop
<1>9. worker \in [Workers -> WorkerState]
  BY DEF TypeOK
<1>10. CASE BatchStart(w)
  <2>1. PendingSPISubmissions \subseteq {id \in TransferIDs : Exists(id)}
    BY SMTT(30) DEF PendingSPISubmissions, Pending, Exists
  <2>2. worker'[w].pc = "idle" /\ batch'[w] = PendingSPISubmissions
    BY <1>10, Zenon DEF BatchStart, vars, handlerVars, WorkerTypeOK
  <2> QED
    BY <1>5, <2>1, <2>2, Zenon
<1>11. CASE BatchNext(w)
  <2>1. PICK id \in batch[w] : older[id] \cap batch[w] = {} /\ SubmitStart(w, transfers[id].tenant, id)
    BY <1>11, Zenon DEF BatchNext
  <2>2. worker'[w].id = id /\ worker'[w].tenant = transfers[id].tenant
    <3>1. PICK token : worker' = [worker EXCEPT ![w] =
            [pc |-> "claim", tenant |-> transfers[id].tenant, id |-> id, token |-> token, until |-> ClaimTTL]]
      BY <2>1, Zenon DEF SubmitStart
    <3> QED
      BY <1>9, <3>1
  <2>3. GetTransfer(transfers[id].tenant, id)
    BY <1>3, <2>1, Zenon DEF GetTransfer
  <2>4. batch'[w] = batch[w]
    BY <1>11, Zenon DEF BatchNext
  <2> QED
    BY <1>3, <2>1, <2>2, <2>3, <2>4, WorkerBatchKept, Zenon
<1>12. CASE BatchClaim(w)
  <2>1. \/ worker' = [worker EXCEPT ![w].pc = "submit"]
        \/ worker' = [worker EXCEPT ![w] = IdleWorker]
    BY <1>12, Zenon DEF BatchClaim, SubmitClaim
  <2>2. CASE worker' = [worker EXCEPT ![w].pc = "submit"]
    <3>1. /\ worker'[w].pc = "submit" /\ worker'[w].id = worker[w].id
          /\ worker'[w].tenant = worker[w].tenant /\ worker[w].pc # "idle"
      BY <1>9, <1>12, <2>2 DEF BatchClaim, SubmitClaim, WorkerState, IdleWorker
    <3>2. batch'[w] = batch[w]
      <4>1. ClaimSucceeds(worker[w].tenant, worker[w].id, worker[w].until)
        BY <1>9, <1>12, <3>1, <2>2, SMTT(30) DEF BatchClaim, SubmitClaim, IdleWorker
      <4>2. worker[w].until # 0
        BY <4>1 DEF ClaimSucceeds, CanClaimSPISubmission
      <4> QED
        BY <1>12, <3>1, <4>2 DEF BatchClaim
    <3> QED
      BY <1>3, <3>1, <3>2, WorkerBatchKept, Zenon
  <2>3. CASE worker' = [worker EXCEPT ![w] = IdleWorker]
    <3>1. worker'[w].pc = "idle"
      BY <1>9, <2>3 DEF IdleWorker
    <3>2. Skip(w) \/ Stop(w)
      BY <1>12, <3>1 DEF BatchClaim
    <3> QED
      BY <1>5, <1>8, <3>1, <3>2, Zenon
  <2> QED
    BY <2>1, <2>2, <2>3
<1>13. CASE BatchSubmit(w)
  <2>1. /\ worker'[w].id = worker[w].id /\ worker'[w].tenant = worker[w].tenant
        /\ worker[w].pc # "idle"
    BY <1>9, <1>13 DEF BatchSubmit, SubmitAccepted, SubmitFailed, WorkerState, IdleWorker
  <2>2. batch'[w] = batch[w]
    BY <1>13, ZenonT(60) DEF BatchSubmit
  <2> QED
    BY <1>3, <2>1, <2>2, WorkerBatchKept, Zenon
<1>14. CASE BatchRecord(w) \/ BatchRelease(w) \/ BatchAbort(w)
  <2>1. worker'[w].pc = "idle"
    <3>1. \/ worker' = [worker EXCEPT ![w] = IdleWorker]
          \/ worker[w].pc = "idle" /\ worker' = worker
      BY <1>14, Zenon DEF BatchRecord, BatchRelease, BatchAbort, SubmitRecord, SubmitRelease,
         SubmitAbort, vars, handlerVars
    <3> QED
      BY <1>9, <3>1 DEF IdleWorker
  <2>2. Skip(w) \/ Stop(w)
    BY <1>14, Zenon DEF BatchRecord, BatchRelease, BatchAbort
  <2> QED
    BY <1>5, <1>8, <2>1, <2>2, Zenon
<1>15. ASSUME Tick, UNCHANGED batch PROVE WorkerBatch(w)'
  <2>1. /\ worker'[w].pc = worker[w].pc /\ worker'[w].id = worker[w].id
        /\ worker'[w].tenant = worker[w].tenant
    BY <1>9, <1>15 DEF Tick, WorkerState, IdleWorker
  <2> QED
    BY <1>4, <1>15, <2>1, Zenon
<1>16. ASSUME NEW c \in Clients, Create(c) PROVE WorkerBatch(w)'
  BY <1>6, <1>16, ClientStore, Zenon DEF Create
<1>17. ASSUME NEW r \in Reviewers, ReviewerStep(r), UNCHANGED batch PROVE WorkerBatch(w)'
  BY <1>6, <1>17, ReviewerStore, Zenon
<1>18. UNCHANGED workerVars => UNCHANGED <<worker, batch>>
  BY DEF workerVars, vars, handlerVars
<1> QED
  BY <1>6, <1>7, <1>10, <1>11, <1>12, <1>13, <1>14, <1>15, <1>16, <1>17, <1>18, Zenon
     DEF WorkerNext, RunBatch

-----------------------------------------------------------------------------
(* A transfer comes into use only by being built, and then last of all.    *)
LEMMA BuiltOnce ==
  ASSUME TypeOK, [Next]_vars, [WorkerNext]_workerVars
  PROVE  \/ UNCHANGED older /\ \A id \in TransferIDs : Built(id)' => Built(id)
         \/ \E new \in TransferIDs :
              /\ ~Built(new) /\ older' = Youngest(new)
              /\ \A id \in TransferIDs : Built(id)' => Built(id) \/ id = new
<1> DEFINE Kept == UNCHANGED older /\ \A id \in TransferIDs : Built(id)' => Built(id)
           New(new) == /\ ~Built(new) /\ older' = Youngest(new)
                       /\ \A id \in TransferIDs : Built(id)' => Built(id) \/ id = new
<1>1. StoreTypeOK /\ client \in [Clients -> ClientState]
  BY DEF TypeOK
<1>2. ASSUME UNCHANGED older, UNCHANGED client, UpdateStep PROVE Kept
  <2>1. \A id \in TransferIDs : Exists(id)' => Exists(id)
    BY <1>1, <1>2, UpdatesKeepRows, Zenon DEF Exists
  <2> QED
    BY <1>2, <2>1 DEF Built
<1>3. ASSUME NEW c \in Clients, Create(c) PROVE Kept \/ \E new \in TransferIDs : New(new)
  <2>1. ASSUME NEW o \in Clients, o # c PROVE client'[o] = client[o]
    BY <1>1, <1>3, <2>1, Zenon DEF Create, ClientStep, CreateFind, CreateDecide, CreateInsert,
       CreateRefind, CreateAbort
  <2>2. ASSUME client'[c].pc # "insert",
               \A id \in TransferIDs : Exists(id)' => Built(id)
        PROVE  \A id \in TransferIDs : Built(id)' => Built(id)
    BY <2>1, <2>2 DEF Built
  <2>3. CASE CreateDecide(c)
    <3>1. PICK new \in TransferIDs :
            /\ ~Exists(new) /\ \A o \in Clients : client[o].id # new
            /\ client'[c].pc = "insert" /\ client'[c].id = new
      BY <1>1, <2>3 DEF CreateDecide
    <3>2. client[c].pc = "decide" /\ UNCHANGED transfers
      BY <2>3 DEF CreateDecide, storeVars
    <3>3. older' = Youngest(new)
      BY <1>3, <3>1, <3>2, Zenon DEF Create
    <3>4. ~Built(new)
      BY <3>1, Zenon DEF Built
    <3>5. \A id \in TransferIDs : Exists(id)' => Exists(id)
      BY <3>2 DEF Exists
    <3>6. ASSUME NEW id \in TransferIDs, Built(id)', id # new PROVE Built(id)
      <4>1. CASE Exists(id)'
        BY <3>5, <4>1, Zenon DEF Built
      <4>2. ASSUME NEW o \in Clients, client'[o].pc = "insert", client'[o].id = id PROVE Built(id)
        <5>1. o # c
          BY <3>1, <3>6, <4>2, Zenon
        <5>2. client[o].pc = "insert" /\ client[o].id = id
          BY <2>1, <4>2, <5>1
        <5> QED
          BY <5>2, Zenon DEF Built
      <4> QED
        BY <3>6, <4>1, <4>2, Zenon DEF Built
    <3> QED
      BY <3>3, <3>4, <3>6
  <2>4. CASE CreateInsert(c)
    <3>1. client[c].pc = "insert" /\ client'[c].pc # "insert"
      <4>1. /\ client[c].pc = "insert"
            /\ \/ client' = [client EXCEPT ![c].pc = "refind"]
               \/ client' = [client EXCEPT ![c] = IdleClient]
        BY <2>4, Zenon DEF CreateInsert
      <4>2. client' = [client EXCEPT ![c].pc = "refind"] => client'[c].pc = "refind"
        BY <1>1, <4>1 DEF ClientState, IdleClient
      <4>3. client' = [client EXCEPT ![c] = IdleClient] => client'[c].pc = "idle"
        BY <1>1, SMTT(30) DEF IdleClient
      <4> QED
        BY <4>1, <4>2, <4>3
    <3>2. /\ client[c].req \in Request /\ client[c].id \in TransferIDs
          /\ client[c].decision \in Decisions
      BY <1>1, <3>1 DEF ClientState, IdleClient
    <3>3. Insert(client[c].id, client[c].req, client[c].decision) \/ UNCHANGED storeVars
      <4>1. NewTransfer(client[c].req, client[c].decision).status = client[c].decision
        BY <3>2, NewTransferTyped
      <4> QED
        BY <2>4, <4>1, Zenon DEF CreateInsert, Insert
    <3>4. ASSUME NEW id \in TransferIDs, Exists(id)' PROVE Built(id)
      <4>1. CASE id = client[c].id
        BY <3>1, <4>1, Zenon DEF Built
      <4>2. CASE id # client[c].id
        <5>1. transfers'[id] = transfers[id]
          <6>1. CASE UNCHANGED storeVars
            BY <6>1, SMTT(30) DEF storeVars
          <6>2. CASE Insert(client[c].id, client[c].req, client[c].decision)
            <7>1. OthersSame(client[c].id)
              BY <1>1, <3>2, <6>2, InsertEffect, Zenon
            <7> QED
              BY <4>2, <7>1 DEF OthersSame
          <6> QED
            BY <3>3, <6>1, <6>2
        <5> QED
          BY <3>4, <5>1, SMTT(30) DEF Exists, Built
      <4> QED
        BY <4>1, <4>2
    <3>5. UNCHANGED older
      BY <1>3, <3>1 DEF Create
    <3> QED
      BY <2>2, <3>1, <3>4, <3>5, Zenon
  <2>5. CASE (\E req \in Request : CreateFind(c, req)) \/ CreateRefind(c) \/ CreateAbort(c)
    <3>1. client'[c].pc # "insert" /\ UNCHANGED transfers
      BY <1>1, <2>5, SMTT(30) DEF CreateFind, CreateRefind, CreateAbort, IdleClient, storeVars
    <3>2. \A id \in TransferIDs : Exists(id)' => Built(id)
      BY <3>1, Zenon DEF Exists, Built
    <3>3. UNCHANGED older
      BY <1>3, <3>1 DEF Create
    <3> QED
      BY <2>2, <3>1, <3>2, <3>3, ZenonT(60)
  <2> QED
    BY <1>3, <2>3, <2>4, <2>5, ZenonT(60) DEF Create, ClientStep
<1>4. CASE ~\E c \in Clients : Create(c)
  <2>1. UNCHANGED older
    BY <1>4, Zenon DEF WorkerNext, workerVars, RunBatch, BatchStart, BatchNext, BatchClaim,
       BatchSubmit, BatchRecord, BatchRelease, BatchAbort
  <2>2. /\ UNCHANGED client
        /\ UpdateStep
    <3>1. ASSUME NEW w \in Workers, RunBatch(w) PROVE UNCHANGED client
      BY <3>1, Zenon DEF RunBatch, BatchStart, BatchNext, BatchClaim, BatchSubmit, BatchRecord,
         BatchRelease, BatchAbort, SubmitStart, SubmitClaim, SubmitAccepted, SubmitFailed,
         SubmitRecord, SubmitRelease, SubmitAbort, vars, handlerVars
    <3>2. ASSUME NEW w \in Workers, RunBatch(w) PROVE UpdateStep
      <4>1. CASE (\E tenant, id : SubmitStart(w, tenant, id)) \/ UNCHANGED vars
        BY <4>1, Zenon DEF SubmitStart, UpdateStep, vars
      <4>2. CASE \/ SubmitClaim(w) \/ SubmitAccepted(w) \/ SubmitFailed(w) \/ SubmitRecord(w)
                 \/ SubmitRelease(w) \/ SubmitAbort(w)
        BY <4>2, OthersUpdate, Zenon DEF WorkerStep
      <4> QED
        BY <3>2, <4>1, <4>2, Zenon DEF RunBatch, BatchStart, BatchNext, BatchClaim, BatchSubmit,
           BatchRecord, BatchRelease, BatchAbort
    <3>3. ASSUME \/ \E r \in Reviewers : ReviewerStep(r)
                 \/ Tick \/ UNCHANGED vars
          PROVE  UNCHANGED client /\ UpdateStep
      BY <3>3, OthersUpdate, Zenon
    <3> QED
      BY <1>4, <3>1, <3>2, <3>3, Zenon DEF WorkerNext, workerVars
  <2> QED
    BY <1>2, <2>1, <2>2, Zenon
<1> QED
  BY <1>3, <1>4, Zenon

(* The order of the transfers in use stays strict.                         *)
LEMMA OrderKept ==
  ASSUME TypeOK, WorkerTypeOK, OrderFacts, [Next]_vars, [WorkerNext]_workerVars
  PROVE  OrderFacts'
<1>1. ASSUME NEW x \in TransferIDs, Built(x) PROVE x \notin older[x]
  BY <1>1, Zenon DEF OrderFacts
<1>2. ASSUME NEW x \in TransferIDs, NEW y \in TransferIDs, Built(x), Built(y), x # y
      PROVE  x \in older[y] <=> y \notin older[x]
  BY <1>2, Zenon DEF OrderFacts
<1>3. ASSUME NEW x \in TransferIDs, NEW y \in TransferIDs, NEW z \in TransferIDs,
             Built(x), Built(y), Built(z), x \in older[y], y \in older[z]
      PROVE  x \in older[z]
  BY <1>3, Zenon DEF OrderFacts
<1>4. SUFFICES ASSUME NEW x \in TransferIDs, NEW y \in TransferIDs, Built(x)', Built(y)'
               PROVE  /\ x \notin older'[x]
                      /\ x # y => (x \in older'[y] <=> y \notin older'[x])
                      /\ \A z \in TransferIDs :
                           Built(z)' /\ x \in older'[y] /\ y \in older'[z] => x \in older'[z]
  BY ZenonT(60) DEF OrderFacts
<1>5. CASE UNCHANGED older /\ \A id \in TransferIDs : Built(id)' => Built(id)
  <2>1. Built(x) /\ Built(y)
    BY <1>4, <1>5, SMTT(30)
  <2>2. ASSUME NEW z \in TransferIDs, Built(z)', x \in older'[y], y \in older'[z] PROVE x \in older'[z]
    BY <1>3, <1>5, <2>1, <2>2
  <2> QED
    BY <1>1, <1>2, <1>5, <2>1, <2>2, Zenon
<1>6. ASSUME NEW new \in TransferIDs, ~Built(new), older' = Youngest(new),
             \A id \in TransferIDs : Built(id)' => Built(id) \/ id = new
      PROVE  /\ x \notin older'[x]
             /\ x # y => (x \in older'[y] <=> y \notin older'[x])
             /\ \A z \in TransferIDs :
                  Built(z)' /\ x \in older'[y] /\ y \in older'[z] => x \in older'[z]
  <2>1. \A id \in TransferIDs : older'[id] = IF id = new THEN TransferIDs \ {new} ELSE older[id] \ {new}
    BY <1>6 DEF Youngest
  <2>2. (Built(x) \/ x = new) /\ (Built(y) \/ y = new)
    BY <1>4, <1>6, SMTT(30)
  <2>3. x \notin older'[x]
    BY <1>1, <2>1, <2>2, Zenon
  <2>4. ASSUME x # y PROVE x \in older'[y] <=> y \notin older'[x]
    <3>1. CASE x = new \/ y = new
      BY <2>1, <2>4, <3>1, Zenon
    <3>2. CASE x # new /\ y # new
      <4>1. older'[x] = older[x] \ {new} /\ older'[y] = older[y] \ {new}
        BY <2>1, <3>2, Zenon
      <4>2. x \in older[y] <=> y \notin older[x]
        BY <1>2, <2>2, <2>4, <3>2
      <4> QED
        BY <3>2, <4>1, <4>2
    <3> QED
      BY <3>1, <3>2
  <2>5. ASSUME NEW z \in TransferIDs, Built(z)', x \in older'[y], y \in older'[z] PROVE x \in older'[z]
    <3>1. x # new
      BY <2>1, <2>5, Zenon
    <3>2. CASE z = new
      BY <2>1, <3>1, <3>2, Zenon
    <3>3. CASE z # new
      <4>1. y # new /\ Built(z)
        BY <1>6, <2>1, <2>5, <3>3, Zenon
      <4>2. x \in older[y] /\ y \in older[z]
        BY <2>1, <2>5, <3>3, <4>1, Zenon
      <4>3. x \in older[z]
        BY <1>3, <2>2, <3>1, <4>1, <4>2
      <4> QED
        BY <2>1, <3>1, <3>3, <4>3, Zenon
    <3> QED
      BY <3>2, <3>3
  <2> QED
    BY <2>3, <2>4, <2>5, Zenon
<1> QED
  BY <1>5, <1>6, BuiltOnce, Zenon

-----------------------------------------------------------------------------
(* The refinement and the batches together: SubmitToSPI is called with     *)
(* what a batch holds, so that neither goes without the other.             *)
LEMMA BatchesOfSwitch == WorkerSpec => Spec /\ []BatchFacts
<1>1. WorkerInit => Init /\ TypeOK /\ WorkerTypeOK /\ BatchFacts
  <2> SUFFICES ASSUME WorkerInit PROVE Init /\ TypeOK /\ WorkerTypeOK /\ BatchFacts
    OBVIOUS
  <2>1. Init
    BY DEF WorkerInit
  <2>2. TypeOK
    BY <2>1, InitTyped
  <2>3. WorkerTypeOK
    BY DEF WorkerInit, WorkerTypeOK
  <2>4. BatchFacts
    BY DEF WorkerInit, Init, BatchFacts, IdleWorker
  <2> QED
    BY <2>1, <2>2, <2>3, <2>4
<1>2. TypeOK /\ WorkerTypeOK /\ BatchFacts /\ [WorkerNext]_workerVars
        => [Next]_vars /\ TypeOK' /\ WorkerTypeOK' /\ BatchFacts'
  BY StepsOfSwitch, TypeKept, WorkerTypeKept, BatchKept, Zenon
<1> QED
  BY <1>1, <1>2, PTL DEF WorkerSpec, Spec

(* The worker process refines the switch: whatever batches the workers     *)
(* run, every step is one that Switch allows.                              *)
THEOREM WorkersImplementSwitch == WorkerSpec => Spec
BY BatchesOfSwitch, PTL

(* Batches of any size, taken by any number of workers while creates and   *)
(* reviews go on, hold rows only, are worked off oldest first and for the  *)
(* rows' own tenants.                                                      *)
THEOREM BatchesCorrect == WorkerSpec => []BatchFacts
BY BatchesOfSwitch, PTL

(* CreatedAt orders what the workers read, for any number of clients.      *)
THEOREM OrderCorrect == WorkerSpec => []OrderFacts
<1>1. WorkerInit => OrderFacts /\ WorkerTypeOK
  BY DEF WorkerInit, Init, StoreInit, NoTransfer, IdleClient, OrderFacts, Built, Exists, WorkerTypeOK
<1>2. TypeOK /\ WorkerTypeOK /\ OrderFacts /\ [Next]_vars /\ [WorkerNext]_workerVars
        => OrderFacts' /\ WorkerTypeOK'
  BY OrderKept, WorkerTypeKept, Zenon
<1> QED
  BY <1>1, <1>2, WorkersImplementSwitch, TypeCorrect, PTL DEF WorkerSpec, Spec

(* Replicas of the worker process, whatever they crash in, never submit    *)
(* what was not accepted and never share a transfer under a live lease.    *)
THEOREM WorkersSafe == WorkerSpec => [](SubmissionSafety /\ LeaseExclusive)
BY WorkersImplementSwitch, SubmissionsSafe, LeasesExclusive, PTL
=============================================================================

----------------------------- MODULE SPIWorker -----------------------------
(***************************************************************************)
(* The SPI worker process (cmd/pixrail-worker) on top of Switch: at every  *)
(* tick of its interval it reads the oldest pending transfers and submits  *)
(* them one by one (SubmitPendingSPI).  A conflict skips a transfer; any   *)
(* other error ends the batch, and the rest of it waits for a later one.   *)
(***************************************************************************)
EXTENDS Switch, FiniteSets

CONSTANTS BatchSize,    \* PIXRAIL_WORKER_BATCH_SIZE
          Refused       \* the transfers that the SPI may refuse for ever

ASSUME BatchAssumption == BatchSize \in Nat \ {0} /\ Refused \subseteq TransferIDs

VARIABLES older,        \* older[id], the transfers with an earlier CreatedAt
          batch         \* batch[w], what is left of the worker's batch

workerVars == <<vars, older, batch>>

WorkerInit ==
  /\ Init
  /\ older = [id \in TransferIDs |-> {}]
  /\ batch = [w \in Workers |-> {}]

-----------------------------------------------------------------------------
(* A deliberately wrong form of Pending.                                   *)
PendingNeverClaimed(id) ==
  /\ transfers[id].status = "accepted"
  /\ transfers[id].spiClaimToken = None

-----------------------------------------------------------------------------
Pending(id) ==
  /\ transfers[id].status = "accepted"
  /\ transfers[id].spiMessageID = None
  /\ transfers[id].spiClaimedUntil = 0

(* The pending transfers that fewer than BatchSize pending ones precede.   *)
PendingSPISubmissions ==
  LET pending == {id \in TransferIDs : Pending(id)} IN
  {id \in pending : Cardinality(older[id] \cap pending) < BatchSize}

(* A transfer just built is younger than every other.  Ids not in use are  *)
(* counted too: they are never pending.                                    *)
Youngest(new) ==
  [id \in TransferIDs |-> IF id = new THEN TransferIDs \ {new} ELSE older[id] \ {new}]

(* CreatedAt is read when the transfer is built, before the insert.        *)
Create(c) ==
  /\ ClientStep(c)
  /\ older' = IF client[c].pc = "decide" /\ client'[c].pc = "insert"
              THEN Youngest(client'[c].id)
              ELSE older
  /\ UNCHANGED batch

BatchStart(w) ==
  /\ worker[w].pc = "idle"
  /\ batch[w] = {}
  /\ PendingSPISubmissions # {}
  /\ batch' = [batch EXCEPT ![w] = PendingSPISubmissions]
  /\ UNCHANGED <<vars, older>>

(* The batch is gone through by CreatedAt.                                 *)
BatchNext(w) ==
  /\ \E id \in batch[w] :
       /\ older[id] \cap batch[w] = {}
       /\ SubmitStart(w, transfers[id].tenant, id)
  /\ UNCHANGED <<older, batch>>

Skip(w) == batch' = [batch EXCEPT ![w] = @ \ {worker[w].id}]
Stop(w) == batch' = [batch EXCEPT ![w] = {}]

(* An expiry already past is a validation error, which is no conflict.     *)
BatchClaim(w) ==
  /\ SubmitClaim(w)
  /\ CASE worker'[w].pc = "submit" -> UNCHANGED batch
       [] worker[w].until = 0 /\ ~Submitted(transfers[worker[w].id]) -> Stop(w)
       [] OTHER -> Skip(w)
  /\ UNCHANGED older

BatchSubmit(w) ==
  /\ SubmitAccepted(w) \/ SubmitFailed(w)
  /\ UNCHANGED <<older, batch>>

BatchRecord(w) == SubmitRecord(w) /\ Skip(w) /\ UNCHANGED older

(* SubmitToSPI returns the SPI's error, which is no conflict either.       *)
BatchRelease(w) == SubmitRelease(w) /\ Stop(w) /\ UNCHANGED older

(* A crash, shutdown or store error, in SubmitToSPI or between two calls.  *)
BatchAbort(w) ==
  /\ batch[w] # {}
  /\ \/ SubmitAbort(w)
     \/ worker[w].pc = "idle" /\ UNCHANGED vars
  /\ Stop(w)
  /\ UNCHANGED older

RunBatch(w) ==
  \/ BatchStart(w) \/ BatchNext(w) \/ BatchClaim(w) \/ BatchSubmit(w)
  \/ BatchRecord(w) \/ BatchRelease(w) \/ BatchAbort(w)

WorkerNext ==
  \/ \E c \in Clients : Create(c)
  \/ \E r \in Reviewers : ReviewerStep(r) /\ UNCHANGED <<older, batch>>
  \/ \E w \in Workers : RunBatch(w)
  \/ Tick /\ UNCHANGED <<older, batch>>

WorkerSpec == WorkerInit /\ [][WorkerNext]_workerVars

(* Worker w is at transfer id under a lease that still runs.               *)
InTime(w, id) == worker[w].id = id /\ worker[w].until > 0

(* The ticker fires and time passes, and a worker's calls return: the SPI  *)
(* call is cut off at 10s of the 30s of a lease.  Someone runs a crashed   *)
(* process again (compose.yaml does not).  If a transfer is tried again    *)
(* and again, slow calls and crashes do not hit every try: each step of    *)
(* SubmitToSPI is some day taken within the lease.  And the SPI does not   *)
(* for ever fail a transfer that it does not refuse.  Of the refused ones  *)
(* only an answer is assumed.                                              *)
WorkerFairness ==
  /\ WF_workerVars(Tick /\ UNCHANGED <<older, batch>>)
  /\ \A w \in Workers :
       /\ WF_workerVars(BatchStart(w) \/ BatchNext(w))
       /\ WF_workerVars(BatchClaim(w) \/ BatchSubmit(w) \/ BatchRecord(w)
                        \/ BatchRelease(w))
  /\ \A id \in TransferIDs :
       /\ SF_workerVars(\E w \in Workers : BatchNext(w) /\ worker'[w].id = id)
       /\ SF_workerVars(\E w \in Workers : BatchClaim(w) /\ InTime(w, id))
       /\ SF_workerVars(\E w \in Workers :
            /\ BatchSubmit(w) /\ InTime(w, id)
            /\ id \notin Refused => worker'[w].pc = "record")
       /\ SF_workerVars(\E w \in Workers : BatchRecord(w) /\ InTime(w, id))
       /\ SF_workerVars(\E w \in Workers : BatchRelease(w) /\ InTime(w, id))

LiveSpec == WorkerSpec /\ WorkerFairness

-----------------------------------------------------------------------------
(* What is left of a worker's batch are rows of the store.  The transfer   *)
(* in work is one of them, worked on for its own tenant, and older than    *)
(* the rest of the batch: a claim is refused because another worker has    *)
(* the transfer or the lease is used up, never because it is not found.    *)
BatchFacts ==
  \A w \in Workers :
    /\ batch[w] \subseteq {id \in TransferIDs : Exists(id)}
    /\ worker[w].pc # "idle" =>
         /\ worker[w].id \in batch[w]
         /\ GetTransfer(worker[w].tenant, worker[w].id)
         /\ older[worker[w].id] \cap batch[w] = {}

Built(id) == Exists(id) \/ \E c \in Clients : client[c].pc = "insert" /\ client[c].id = id

(* The transfers that are stored or about to be are strictly ordered by    *)
(* CreatedAt, whatever creates race or are given up between building a     *)
(* transfer and inserting it.                                              *)
OrderFacts ==
  \A x, y \in {id \in TransferIDs : Built(id)} :
    /\ x \notin older[x]
    /\ x # y => (x \in older[y] <=> y \notin older[x])
    /\ \A z \in TransferIDs :
         Built(z) /\ x \in older[y] /\ y \in older[z] => x \in older[z]

Accepted(id) == transfers[id].status = "accepted"

(* Ahead of the transfer, in every batch that has both, is one that the    *)
(* SPI refuses for ever: the error ends the batch before its turn comes.   *)
BehindRefused(id) == \E o \in older[id] \cap Refused : Accepted(o)

(* PIXRAIL_WORKER_INTERVAL is below the retry delay: if a refused transfer *)
(* is put off again and again, a batch is started while it is.             *)
ShortInterval ==
  \A w \in Workers :
    SF_workerVars(BatchStart(w) /\ \A o \in Refused : ~Pending(o))

(* Every accepted transfer that the SPI does not refuse for ever is        *)
(* eventually submitted and recorded.  Failed submissions, crashed         *)
(* workers, expired leases, full batches and a younger transfer that is    *)
(* refused only delay it.  An older one that is refused may hold it up,    *)
(* since each batch ends at it (service.go 329), but if it is the only one *)
(* its retry delay lets the others past, given a short interval.           *)
AcceptedIsSubmitted ==
  \A id \in TransferIDs \ Refused :
    /\ Accepted(id) ~> ~Accepted(id) \/ BehindRefused(id)
    /\ Cardinality(Refused) <= 1 /\ ShortInterval => (Accepted(id) ~> ~Accepted(id))
=============================================================================

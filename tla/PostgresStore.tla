--------------------------- MODULE PostgresStore ---------------------------
(***************************************************************************)
(* The transfer side of internal/postgres/store.go: the mutations of the   *)
(* contract as READ COMMITTED transactions of several sessions (the API    *)
(* processes, the workers).  A transaction locks the transfer row with     *)
(* `select ... for update', decides with a rail function on the row it     *)
(* read, updates some columns, inserts events and audit records, and       *)
(* commits; every early return runs the deferred rollback.                 *)
(*                                                                         *)
(* External behaviour relied on (PostgreSQL): a statement sees what is     *)
(* committed when it starts; a row lock and a pending unique key make      *)
(* other transactions wait; nothing of a transaction is visible before its *)
(* commit, all of it after; a sequence number once drawn is never drawn    *)
(* again, committed or not.  The begin is merged with the first statement, *)
(* which is the first to see anything.                                     *)
(*                                                                         *)
(* The idempotency index is not state here: it is the unique constraint on *)
(* the rows.  processed_spi_callbacks is a set of rows whose primary key   *)
(* includes the hash, so the table itself admits two callbacks for one     *)
(* message.                                                                *)
(***************************************************************************)
EXTENDS Rail, TransferEvents, Sequences

CONSTANTS Tenants, Keys, TransferIDs, Hashes, Tokens, Codes,
          ClaimTTL, RetryDelay,
          Sessions,      \* database sessions
          MaxSequence    \* bound on the outbox sequence numbers drawn

VARIABLES transfers,     \* committed pix_transfers rows
          processed,     \* committed processed_spi_callbacks rows
          outbox, audit, \* committed payment_outbox, audit_records, by transfer
          positions,     \* the sequence numbers of outbox[id]'s transactions
          nextSeq,       \* last sequence number drawn
          lock,          \* lock[id], the session holding the row lock, or None
          tx             \* tx[s], the open transaction of session s

pgVars == <<transfers, processed, outbox, audit, positions, nextSeq, lock, tx>>
committed == <<transfers, processed, outbox, audit, positions>>

(* The store as its callers see it.                                        *)
Index ==
  [k \in Tenants \X Keys |->
    LET ids == {id \in TransferIDs : transfers[id].tenant = k[1] /\ transfers[id].key = k[2]}
    IN  IF ids = {} THEN None ELSE CHOOSE id \in ids : TRUE]
Processed(tenant, message) ==
  {cb \in processed : cb.tenant = tenant /\ cb.spiMessageID = message}
ProcessedCallbacks ==
  [m \in Tenants \X {<<"spi", id>> : id \in TransferIDs} |->
    IF Processed(m[1], m[2]) = {} THEN None ELSE CHOOSE cb \in Processed(m[1], m[2]) : TRUE]

Contract == INSTANCE StoreContract
              WITH idempotency <- Index, callbacks <- ProcessedCallbacks

(* The empty string is no tenant, key, id, token, message, callback or     *)
(* session, and no operation or review status.                             *)
ASSUME PostgresAssumption ==
  /\ None \notin Tenants /\ None \notin Keys /\ None \notin Hashes
  /\ None \notin TransferIDs
  /\ None \notin Tokens /\ None \notin Sessions
  /\ None \notin Contract!MessageIDs
  /\ None \notin Contract!Callback
  /\ None \notin {"insert", "claim", "record", "release", "review", "settle",
                  "accepted", "blocked"}
  /\ ClaimTTL \in Nat \ {0} /\ RetryDelay \in Nat \ {0} /\ MaxSequence \in Nat

(* A call's arguments, the row as read and then as updated, and the first  *)
(* sequence number the transaction drew.                                   *)
NoCall == [op |-> None, tenant |-> None, id |-> None, token |-> None,
           until |-> 0, status |-> None, callback |-> None]
Call(op, tenant, id) == [NoCall EXCEPT !.op = op, !.tenant = tenant, !.id = id]
IdleTx == [pc |-> "idle", call |-> NoCall, row |-> NoTransfer, seq |-> 0]

Ops == {"insert", "claim", "record", "release", "review", "settle"}
AnyCall ==
  [op : Ops \cup {None}, tenant : Tenants \cup {None}, id : TransferIDs \cup {None},
   token : Tokens \cup {None}, until : 0..ClaimTTL, status : {"accepted", "blocked", None},
   callback : Contract!Callback \cup {None}]
OpenCall ==
  {call \in AnyCall :
     /\ call.op # None /\ call.tenant # None /\ call.id # None
     /\ call.op \in {"claim", "record", "release"} => call.token # None
     /\ call.op = "review" => call.status # None
     /\ call.op = "settle" =>
          /\ call.callback # None
          /\ call.callback.tenant = call.tenant /\ call.callback.transfer = call.id}
Tx == [pc : {"idle", "locked", "checked", "written"}, call : AnyCall,
       row : Contract!Transfer \cup {NoTransfer}, seq : Nat]

Init ==
  /\ transfers = [id \in TransferIDs |-> NoTransfer]
  /\ processed = {}
  /\ outbox = [id \in TransferIDs |-> <<>>]
  /\ audit = [id \in TransferIDs |-> <<>>]
  /\ positions = [id \in TransferIDs |-> <<>>]
  /\ nextSeq = 0
  /\ lock = [id \in TransferIDs |-> None]
  /\ tx = [s \in Sessions |-> IdleTx]

-----------------------------------------------------------------------------
Exists(id) == transfers[id].status # "absent"

(* Open transactions that have inserted or updated rows.                   *)
Writers == {s \in Sessions : tx[s].pc = "written"}

(* Deliberately wrong forms of the operators below.                        *)
DuplicateOnlyByID(id, row) == Exists(id)
ReadWithoutLock(s, id) == UNCHANGED lock
InsertNeverWaits(id, row) == FALSE

(* A unique violation on id or (tenant_id, idempotency_key).               *)
Duplicate(id, row) ==
  \/ Exists(id)
  \/ \E other \in TransferIDs :
       transfers[other].tenant = row.tenant /\ transfers[other].key = row.key

(* ... or the insert that would decide it is still uncommitted.            *)
InsertWaits(id, row) ==
  \E s \in Writers :
    /\ tx[s].call.op = "insert"
    /\ \/ tx[s].call.id = id
       \/ tx[s].row.tenant = row.tenant /\ tx[s].row.key = row.key

Locking(s, id) == lock' = [lock EXCEPT ![id] = s]
Unlocking(s) == lock' = [id \in TransferIDs |-> IF lock[id] = s THEN None ELSE lock[id]]

(* The end of a transaction that wrote nothing: a replay's commit, or the  *)
(* deferred rollback.                                                      *)
Finish(s) ==
  /\ tx' = [tx EXCEPT ![s] = IdleTx]
  /\ Unlocking(s)
  /\ UNCHANGED <<transfers, processed, outbox, audit, positions, nextSeq>>

(* The methods that insert events and an audit record; the claim and its   *)
(* release only update.                                                    *)
Recorded(op) == op \notin {"claim", "release"}

(* The statements after a successful decision, up to the commit.           *)
Written(s, call, row) ==
  /\ nextSeq' = IF Recorded(call.op) THEN nextSeq + 1 ELSE nextSeq
  /\ nextSeq' <= MaxSequence
  /\ tx' = [tx EXCEPT ![s] = [pc |-> "written", call |-> call, row |-> row, seq |-> nextSeq']]

-----------------------------------------------------------------------------
(* InsertTransfer: a duplicate is translated to a conflict and rolled back *)
(* at once; otherwise the rows are in, uncommitted.                        *)
InsertTransfer(s, id, req, decision) ==
  LET row == Contract!NewTransfer(req, decision) IN
  /\ tx[s].pc = "idle"
  /\ ~Duplicate(id, row)
  /\ ~InsertWaits(id, row)
  /\ Written(s, Call("insert", req.tenant, id), row)
  /\ UNCHANGED <<committed, lock>>

(* select ... for update, which opens the five other mutations.  It waits  *)
(* while another session holds the row; a row of another tenant, or not    *)
(* yet committed, is not found and ends the call.                          *)
SelectForUpdate(s, call) ==
  /\ tx[s].pc = "idle"
  /\ Exists(call.id) /\ transfers[call.id].tenant = call.tenant
  /\ lock[call.id] = None
  /\ Locking(s, call.id)
  /\ tx' = [tx EXCEPT ![s] = [pc |-> "locked", call |-> call,
                              row |-> transfers[call.id], seq |-> 0]]
  /\ UNCHANGED <<committed, nextSeq>>

TokenCalls(op, tenant, id, until) ==
  {[Call(op, tenant, id) EXCEPT !.token = token, !.until = until] : token \in Tokens}
ReviewCalls(tenant, id) ==
  {[Call("review", tenant, id) EXCEPT !.status = status] : status \in {"accepted", "blocked"}}
SettleCalls(tenant, id) ==
  {[Call("settle", tenant, id) EXCEPT !.callback = cb] :
     cb \in {c \in Contract!Callback : c.tenant = tenant /\ c.transfer = id}}
Calls(tenant, id) ==
  TokenCalls("record", tenant, id, 0) \cup TokenCalls("release", tenant, id, 0) \cup
  ReviewCalls(tenant, id) \cup SettleCalls(tenant, id) \cup
  UNION {TokenCalls("claim", tenant, id, until) : until \in 1..ClaimTTL}

(* UpdateSettlement's second statement.  A stored callback ends the call:  *)
(* the same one is a replay, another one a conflict.                       *)
SelectCallback(s) ==
  LET cb == tx[s].call.callback IN
  /\ tx[s].pc = "locked"
  /\ tx[s].call.op = "settle"
  /\ \/ /\ Processed(cb.tenant, cb.spiMessageID) # {}
        /\ Finish(s)
     \/ /\ Processed(cb.tenant, cb.spiMessageID) = {}
        /\ tx' = [tx EXCEPT ![s].pc = "checked"]
        /\ UNCHANGED <<committed, nextSeq, lock>>

(* The row is decided on: at once, or after the callback was looked for.   *)
Deciding(s) == tx[s].pc = IF tx[s].call.op = "settle" THEN "checked" ELSE "locked"

(* One decision: the rail function's error (or a replay) ends the call, a  *)
(* new row is written.                                                     *)
Decide(s, op, ok, row) ==
  /\ tx[s].call.op = op
  /\ Deciding(s)
  /\ \/ ~ok /\ Finish(s)
     \/ ok /\ Written(s, tx[s].call, row) /\ UNCHANGED <<committed, lock>>

UpdateClaim(s) ==
  LET row == tx[s].row  call == tx[s].call IN
  Decide(s, "claim", ~Submitted(row) /\ CanClaimSPISubmission(row, call.until),
         ClaimSPISubmission(row, call.token, call.until))

UpdateRecord(s) ==
  LET row == tx[s].row  call == tx[s].call  message == Contract!MessageOf(call.id) IN
  Decide(s, "record",
         /\ ~(row.status = "approved" /\ row.spiMessageID = message)
         /\ CanRecordSPISubmission(row, call.token),
         RecordSPISubmission(row, message))

UpdateRelease(s) ==
  LET row == tx[s].row  call == tx[s].call IN
  Decide(s, "release", ~Submitted(row) /\ CanReleaseSPISubmission(row, call.token),
         ReleaseSPISubmission(row, RetryDelay))

UpdateReview(s) ==
  LET row == tx[s].row  call == tx[s].call IN
  Decide(s, "review", CanRecordReviewDecision(row, call.status),
         RecordReviewDecision(row, call.status))

UpdateSettled(s) ==
  LET row == tx[s].row  cb == tx[s].call.callback IN
  Decide(s, "settle", CanRecordSettlement(row, cb), RecordSettlement(row, cb))

-----------------------------------------------------------------------------
(* Deliberately wrong: no update statement in UpdateSettlement.            *)
UpdatedNotWhenSettled(op, old, new) == IF op = "settle" THEN old ELSE new

(* The columns each update statement sets, on the row as it is now.        *)
Updated(op, old, new) ==
  CASE op = "insert" -> new
    [] op \in {"claim", "release"} ->
         [old EXCEPT !.spiClaimToken = new.spiClaimToken, !.spiClaimedUntil = new.spiClaimedUntil]
    [] op = "record" ->
         [old EXCEPT !.status = new.status, !.spiMessageID = new.spiMessageID,
                     !.spiClaimToken = None, !.spiClaimedUntil = 0]
    [] op \in {"review", "settle"} -> [old EXCEPT !.status = new.status]

Events(op, status) ==
  CASE op = "insert" -> CreateEvents(status)
    [] op = "record" -> SubmissionEvents
    [] op = "review" -> ReviewEvents(status)
    [] op = "settle" -> SettlementEvents(status)
AuditActions(op) ==
  CASE op = "insert" -> CreateAudit
    [] op = "record" -> SubmissionAudit
    [] op = "review" -> ReviewAudit
    [] op = "settle" -> SettlementAudit

Commit(s) ==
  LET call == tx[s].call  row == tx[s].row IN
  /\ tx[s].pc = "written"
  /\ transfers' = [transfers EXCEPT ![call.id] = Updated(call.op, @, row)]
  /\ IF Recorded(call.op)
     THEN /\ outbox' = [outbox EXCEPT ![call.id] = @ \o Events(call.op, row.status)]
          /\ positions' = [positions EXCEPT ![call.id] = Append(@, tx[s].seq)]
          /\ audit' = [audit EXCEPT ![call.id] = @ \o AuditActions(call.op)]
     ELSE UNCHANGED <<outbox, positions, audit>>
  /\ processed' = processed \cup (IF call.op = "settle" THEN {call.callback} ELSE {})
  /\ tx' = [tx EXCEPT ![s] = IdleTx]
  /\ Unlocking(s)
  /\ UNCHANGED nextSeq

(* A failing statement, a cancelled context or a lost connection.          *)
Rollback(s) == tx[s].pc # "idle" /\ Finish(s)

(* One unit of time passes, for the committed leases and for the instants  *)
(* that open transactions hold.                                            *)
Tick ==
  /\ transfers' = [id \in TransferIDs |->
       [transfers[id] EXCEPT !.spiClaimedUntil = Contract!Elapse(@)]]
  /\ tx' = [s \in Sessions |->
       [tx[s] EXCEPT !.row.spiClaimedUntil = Contract!Elapse(@),
                     !.call.until = Contract!Elapse(@)]]
  /\ UNCHANGED <<processed, outbox, audit, positions, nextSeq, lock>>

Session(s) ==
  \/ \E id \in TransferIDs, req \in Contract!Request, decision \in Contract!Decisions :
       InsertTransfer(s, id, req, decision)
  \/ \E tenant \in Tenants, id \in TransferIDs : \E call \in Calls(tenant, id) :
       SelectForUpdate(s, call)
  \/ SelectCallback(s)
  \/ UpdateClaim(s) \/ UpdateRecord(s) \/ UpdateRelease(s)
  \/ UpdateReview(s) \/ UpdateSettled(s)
  \/ Commit(s) \/ Rollback(s)

Next == (\E s \in Sessions : Session(s)) \/ Tick

Spec == Init /\ [][Next]_pgVars

-----------------------------------------------------------------------------
(* The state has its types.                                                *)
TypeOK ==
  /\ Contract!StoreTypeOK
  /\ processed \subseteq Contract!Callback
  /\ positions \in [TransferIDs -> Seq(Nat)]
  /\ nextSeq \in Nat
  /\ lock \in [TransferIDs -> Sessions \cup {None}]
  /\ tx \in [Sessions -> Tx]

(* The row a transaction decides on is the committed row until it commits: *)
(* `for update' is taken before the read, by all five methods, so no       *)
(* decision is made on a stale row although the isolation level would      *)
(* allow it.                                                               *)
DecidedRowIsCurrent ==
  \A s \in Sessions :
    tx[s].pc \in {"locked", "checked"} => tx[s].row = transfers[tx[s].call.id]

(* Two open inserts differ in both unique keys.                            *)
Apart(s, o) ==
  tx[s].call.op = "insert" /\ tx[o].call.op = "insert" =>
    /\ tx[o].call.id # tx[s].call.id
    /\ tx[o].row.tenant # tx[s].row.tenant \/ tx[o].row.key # tx[s].row.key

Stands(call, row, now) ==
  CASE call.op = "insert" -> ~Duplicate(call.id, row)
    [] call.op = "claim" ->
         /\ ~Submitted(now) /\ CanClaimSPISubmission(now, ClaimTTL)
         /\ row.spiClaimToken = call.token /\ row.spiClaimedUntil <= ClaimTTL
    [] call.op = "record" ->
         /\ CanRecordSPISubmission(now, call.token)
         /\ row.status = "approved" /\ row.spiMessageID = Contract!MessageOf(call.id)
    [] call.op = "release" ->
         /\ ~Submitted(now) /\ CanReleaseSPISubmission(now, call.token)
         /\ row.spiClaimToken = None /\ row.spiClaimedUntil <= RetryDelay
    [] call.op = "review" ->
         CanRecordReviewDecision(now, call.status) /\ row.status = call.status
    [] call.op = "settle" ->
         /\ CanRecordSettlement(now, call.callback)
         /\ row.status = SettlementOutcome(call.callback.status)

(* A decision once written stands until its commit, whatever the other     *)
(* sessions commit in between: the rail function that allowed it would     *)
(* allow it on the committed row now, and the columns to be set are those  *)
(* it would give.  No update is lost and none is based on an overtaken     *)
(* row.  Inserts have no lock; their unique keys keep them apart.          *)
DecisionStands ==
  \A s \in Writers :
    /\ Stands(tx[s].call, tx[s].row, transfers[tx[s].call.id])
    /\ \A o \in Writers \ {s} : Apart(s, o)

(* What an open transaction has: its arguments; for all but an insert the  *)
(* lock of a row of its tenant; when it has written events, a number after *)
(* all that its transfer has committed.                                    *)
SessionFacts(s) ==
  LET call == tx[s].call  row == tx[s].row IN
  /\ call \in OpenCall
  /\ call.op = "insert" =>
       /\ tx[s].pc = "written"
       /\ \E req \in Contract!Request, decision \in Contract!Decisions :
            row = Contract!NewTransfer(req, decision)
  /\ tx[s].pc = "checked" => call.op = "settle"
  /\ call.op # "insert" =>
       lock[call.id] = s /\ Exists(call.id) /\ transfers[call.id].tenant = call.tenant
  /\ tx[s].pc = "written" /\ Recorded(call.op) =>
       /\ tx[s].seq <= nextSeq
       /\ \A i \in DOMAIN positions[call.id] : positions[call.id][i] < tx[s].seq

(* What is committed of one transfer.                                      *)
RowFacts(id) ==
  /\ ~Exists(id) => transfers[id] = NoTransfer /\ positions[id] = <<>>
  /\ transfers[id].spiMessageID \in {None, Contract!MessageOf(id)}
  /\ \A i \in DOMAIN positions[id] : positions[id][i] <= nextSeq
  /\ \A other \in TransferIDs \ {id} :
       Exists(id) => \/ transfers[other].tenant # transfers[id].tenant
                     \/ transfers[other].key # transfers[id].key

(* What is committed of one callback: it moved its transfer.               *)
CallbackFacts(cb) ==
  LET tr == transfers[cb.transfer] IN
  /\ tr.tenant = cb.tenant /\ tr.spiMessageID = cb.spiMessageID
  /\ tr.status = SettlementOutcome(cb.status)

(* The open transactions and the committed rows agree: a transaction past  *)
(* its `for update' holds the lock, a row owns its key and only its own    *)
(* message id, and a processed callback is the one that moved its transfer *)
(* to its final status, whatever transactions interleave or roll back.     *)
LocksAndRowsAgree ==
  /\ \A s \in Sessions : tx[s].pc # "idle" => SessionFacts(s)
  /\ \A id \in TransferIDs : RowFacts(id)
  /\ \A cb \in processed : CallbackFacts(cb)

(* At most one callback is recorded for a message, although the table's    *)
(* primary key would take one for every hash: the row lock orders the      *)
(* look-ups and the inserts of UpdateSettlement.                           *)
OneCallbackPerMessage ==
  \A a, b \in processed :
    a.tenant = b.tenant /\ a.spiMessageID = b.spiMessageID => a = b

(* The events of one transfer carry sequence numbers in the order of the   *)
(* changes they report, although the numbers are drawn before the commits: *)
(* what the relay and its consumers sort by.                               *)
SequenceFollowsCommits ==
  \A id \in TransferIDs : \A i, j \in DOMAIN positions[id] :
    i < j => positions[id][i] < positions[id][j]

(* The transactions implement the contract: every commit is one method of  *)
(* the contract on the state before it, and nothing else is ever visible.  *)
ImplementsContract == Contract!StoreSpec
=============================================================================

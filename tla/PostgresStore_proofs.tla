------------------------ MODULE PostgresStore_proofs ------------------------
(***************************************************************************)
(* For any number of sessions, tenants, keys and transfers: the invariants *)
(* of PostgresStore, and that its transactions implement StoreContract.    *)
(*                                                                         *)
(* IInv joins the stated invariants, which are inductive only together:    *)
(* the lock keeps a decision standing, a standing decision keeps the rows  *)
(* and the callbacks in agreement, and these keep the next decision sound. *)
(* Steps are of three kinds: those that commit nothing (Quiet), the        *)
(* commits (Commits), and the passing of time (Ages).                      *)
(***************************************************************************)
EXTENDS PostgresStore, TLAPS

Rows == Contract!Transfer \cup {NoTransfer}

IInv ==
  /\ TypeOK
  /\ DecidedRowIsCurrent
  /\ DecisionStands
  /\ LocksAndRowsAgree
  /\ OneCallbackPerMessage
  /\ SequenceFollowsCommits

-----------------------------------------------------------------------------
(* The index and the recorded callbacks have their types whatever the      *)
(* tables hold, so the contract's type correctness is about the tables.    *)
TablesTyped ==
  /\ transfers \in [TransferIDs -> Rows]
  /\ DOMAIN outbox = TransferIDs /\ DOMAIN audit = TransferIDs
(* The contract's types, read through the refinement mapping, are those of *)
(* the tables.                                                             *)
LEMMA StoreTyped ==
  processed \subseteq Contract!Callback => (Contract!StoreTypeOK <=> TablesTyped)
<1> SUFFICES ASSUME processed \subseteq Contract!Callback
             PROVE  Contract!StoreTypeOK <=> TablesTyped
  OBVIOUS
<1>1. Index \in [Tenants \X Keys -> TransferIDs \cup {None}]
  <2>1. ASSUME NEW k \in Tenants \X Keys PROVE Index[k] \in TransferIDs \cup {None}
    <3> DEFINE ids == {id \in TransferIDs : transfers[id].tenant = k[1] /\ transfers[id].key = k[2]}
    <3>1. ids # {} => (CHOOSE id \in ids : TRUE) \in ids
      BY Zenon
    <3>2. Index[k] = IF ids = {} THEN None ELSE CHOOSE id \in ids : TRUE
      BY Zenon DEF Index
    <3> QED
      BY <3>1, <3>2
  <2> QED
    BY <2>1, Zenon DEF Index
<1>2. ProcessedCallbacks \in [Tenants \X Contract!MessageIDs -> Contract!Callback \cup {None}]
  <2>1. Contract!MessageIDs = {<<"spi", id>> : id \in TransferIDs}
    BY Zenon DEF Contract!MessageIDs, Contract!MessageOf
  <2>2. ASSUME NEW m \in Tenants \X Contract!MessageIDs
        PROVE  ProcessedCallbacks[m] \in Contract!Callback \cup {None}
    <3> DEFINE cbs == Processed(m[1], m[2])
    <3>1. cbs # {} => (CHOOSE cb \in cbs : TRUE) \in cbs
      BY Zenon
    <3>2. ProcessedCallbacks[m] = IF cbs = {} THEN None ELSE CHOOSE cb \in cbs : TRUE
      BY <2>1, Zenon DEF ProcessedCallbacks
    <3>3. cbs \subseteq Contract!Callback
      BY DEF Processed
    <3> QED
      BY <3>1, <3>2, <3>3
  <2> QED
    BY <2>1, <2>2, Zenon DEF ProcessedCallbacks
<1> QED
  BY <1>1, <1>2, Zenon DEF Contract!StoreTypeOK, TablesTyped, Rows, NoTransfer,
     Contract!NoTransfer

(* ... and in the next state.                                              *)
LEMMA StoreTypedNext ==
  (processed \subseteq Contract!Callback => (Contract!StoreTypeOK <=> TablesTyped))'
  BY StoreTyped, PTL

(* An instant in the past, and a call that is not made.                    *)
LEMMA NoCallTyped == 0 \in 0..ClaimTTL /\ 0..ClaimTTL \subseteq Nat /\ NoCall \in AnyCall
<1>1. 0 \in 0..ClaimTTL /\ 0..ClaimTTL \subseteq Nat
  BY PostgresAssumption
<1> QED
  BY <1>1, Zenon DEF NoCall, AnyCall

(* What the types give for one session.                                    *)
LEMMA TxTyped ==
  ASSUME TypeOK, NEW s \in Sessions
  PROVE  /\ tx[s] \in Tx /\ tx[s].call \in AnyCall /\ tx[s].row \in Rows /\ tx[s].seq \in Nat
         /\ tx[s].pc \in {"idle", "locked", "checked", "written"}
  BY DEF TypeOK, Tx, Rows

(* A row that exists is a transfer.                                        *)
LEMMA RowTyped ==
  ASSUME TypeOK, NEW id \in TransferIDs
  PROVE  transfers[id] \in Rows /\ (Exists(id) => transfers[id] \in Contract!Transfer)
<1>1. transfers[id] \in Rows
  BY StoreTyped DEF TypeOK, TablesTyped
<1> QED
  BY <1>1 DEF Rows, Exists, NoTransfer

(* The row of an insert.                                                   *)
LEMMA NewTyped ==
  ASSUME NEW req \in Contract!Request, NEW decision \in Contract!Decisions
  PROVE  LET row == Contract!NewTransfer(req, decision) IN
         /\ row \in Contract!Transfer
         /\ row.tenant = req.tenant /\ row.key = req.key /\ row.status = decision
         /\ row.spiMessageID = None /\ row.spiClaimedUntil = 0
  BY Zenon DEF Contract!Request, Contract!Decisions, Contract!NewTransfer, Contract!NoTransfer,
     Contract!Transfer, Contract!TransferStatus

-----------------------------------------------------------------------------
(* A step of session s that commits nothing keeps the invariant when what  *)
(* it leaves in s's transaction is justified: the other sessions keep      *)
(* their locks and the rows they looked at.                                *)
LEMMA Quiet ==
  ASSUME IInv, NEW s \in Sessions, NEW new \in Tx,
         tx' = [tx EXCEPT ![s] = new],
         UNCHANGED committed,
         nextSeq' \in Nat, nextSeq <= nextSeq',
         lock' \in [TransferIDs -> Sessions \cup {None}],
         \A id \in TransferIDs : lock[id] \notin {s, None} => lock'[id] = lock[id],
         new.pc \in {"locked", "checked"} => new.row = transfers[new.call.id],
         new.pc = "written" =>
           /\ Stands(new.call, new.row, transfers[new.call.id])
           /\ \A o \in Writers \ {s} : Apart(s, o)',
         new.pc # "idle" => SessionFacts(s)'
  PROVE  IInv'
<1>1. /\ transfers' = transfers /\ processed' = processed /\ outbox' = outbox
      /\ audit' = audit /\ positions' = positions
  BY DEF committed
<1>2. tx'[s] = new /\ \A o \in Sessions \ {s} : tx'[o] = tx[o]
  BY DEF IInv, TypeOK
<1>3. TypeOK'
  <2>1. processed' \subseteq Contract!Callback
    BY <1>1 DEF IInv, TypeOK
  <2>2. Contract!StoreTypeOK'
    BY <1>1, <2>1, StoreTyped, StoreTypedNext DEF IInv, TypeOK, TablesTyped
  <2>3. tx' \in [Sessions -> Tx]
    BY DEF IInv, TypeOK
  <2> QED
    BY <1>1, <2>1, <2>2, <2>3 DEF IInv, TypeOK
<1>4. DecidedRowIsCurrent'
  BY <1>1, <1>2 DEF IInv, DecidedRowIsCurrent
<1>5. DecisionStands'
  <2> SUFFICES ASSUME NEW w \in Writers'
               PROVE  /\ Stands(tx[w].call, tx[w].row, transfers[tx[w].call.id])'
                      /\ \A o \in Writers' \ {w} : Apart(w, o)'
    BY Zenon DEF DecisionStands
  <2>1. \A o \in Sessions \ {s} : o \in Writers' <=> o \in Writers
    BY <1>2 DEF Writers
  <2>2. w \in Sessions /\ tx'[w].pc = "written"
    BY DEF Writers
  <2>3. CASE w = s
    <3>1. Stands(tx[w].call, tx[w].row, transfers[tx[w].call.id])'
      BY <1>1, <1>2, <2>2, <2>3, ZenonT(60) DEF Stands, Duplicate, Exists
    <3> QED
      BY <1>2, <2>1, <2>2, <2>3, <3>1 DEF Writers
  <2>4. CASE w # s
    <3>1. w \in Writers
      BY <2>1, <2>2, <2>4
    <3>2. Stands(tx[w].call, tx[w].row, transfers[tx[w].call.id])'
      <4>1. Stands(tx[w].call, tx[w].row, transfers[tx[w].call.id])
        BY <3>1 DEF IInv, DecisionStands
      <4>2. tx'[w] = tx[w]
        BY <1>2, <2>2, <2>4
      <4> QED
        BY <1>1, <4>1, <4>2, ZenonT(60) DEF Stands, Duplicate, Exists
    <3>3. ASSUME NEW o \in Writers' \ {w} PROVE Apart(w, o)'
      <4>1. CASE o = s
        BY <1>2, <2>2, <2>4, <3>1, <4>1, SMTT(30) DEF Writers, Apart
      <4>2. CASE o # s
        BY <1>2, <2>1, <2>2, <2>4, <3>1, <3>3, <4>2 DEF IInv, DecisionStands, Writers, Apart
      <4> QED
        BY <4>1, <4>2
    <3> QED
      BY <3>2, <3>3
  <2> QED
    BY <2>3, <2>4
<1>6. LocksAndRowsAgree'
  <2>1. ASSUME NEW o \in Sessions, tx'[o].pc # "idle" PROVE SessionFacts(o)'
    <3>1. CASE o = s
      BY <1>2, <2>1, <3>1, SMTT(30)
    <3>2. CASE o # s
      <4>1. tx'[o] = tx[o] /\ SessionFacts(o)
        BY <1>2, <2>1, <3>2, SMTT(30) DEF IInv, LocksAndRowsAgree
      <4>2. tx[o].call.op # "insert" => lock'[tx[o].call.id] = o
        BY <4>1, <3>2, TxTyped, PostgresAssumption, ZenonT(60)
        DEF IInv, SessionFacts, OpenCall, AnyCall
      <4>3. tx[o].seq \in Nat
        BY TxTyped DEF IInv
      <4>4. tx[o].seq <= nextSeq => tx[o].seq <= nextSeq'
        BY <4>3 DEF IInv, TypeOK
      <4> QED
        BY <1>1, <4>1, <4>2, <4>4, ZenonT(60) DEF SessionFacts, Exists
    <3> QED
      BY <3>1, <3>2
  <2>2. ASSUME NEW id \in TransferIDs PROVE RowFacts(id)'
    <3>1. RowFacts(id)
      BY DEF IInv, LocksAndRowsAgree
    <3>2. \A i \in DOMAIN positions[id] : positions[id][i] <= nextSeq'
      BY <3>1 DEF RowFacts, IInv, TypeOK
    <3> QED
      BY <1>1, <3>1, <3>2 DEF RowFacts, Exists
  <2>3. ASSUME NEW cb \in processed' PROVE CallbackFacts(cb)'
    BY <1>1 DEF IInv, LocksAndRowsAgree, CallbackFacts
  <2> QED
    BY <2>1, <2>2, <2>3 DEF LocksAndRowsAgree
<1>7. OneCallbackPerMessage' /\ SequenceFollowsCommits'
  BY <1>1 DEF IInv, OneCallbackPerMessage, SequenceFollowsCommits
<1> QED
  BY <1>3, <1>4, <1>5, <1>6, <1>7 DEF IInv

(* The end of a transaction that wrote nothing.                            *)
LEMMA Finishes ==
  ASSUME IInv, NEW s \in Sessions, Finish(s)
  PROVE  IInv'
<1>1. IdleTx \in Tx
  BY NoCallTyped DEF IdleTx, Tx, NoTransfer
<1>2. /\ lock' \in [TransferIDs -> Sessions \cup {None}]
      /\ \A id \in TransferIDs : lock[id] \notin {s, None} => lock'[id] = lock[id]
  BY DEF Finish, Unlocking, IInv, TypeOK
<1>3. nextSeq' \in Nat /\ nextSeq <= nextSeq'
  BY DEF Finish, IInv, TypeOK
<1>4. tx' = [tx EXCEPT ![s] = IdleTx] /\ UNCHANGED committed
  BY DEF Finish, committed
<1>5. IdleTx.pc = "idle"
  BY DEF IdleTx
<1> QED
  BY <1>1, <1>2, <1>3, <1>4, <1>5, Quiet, Zenon

(* The statements up to the commit: what they leave open is typed, and the *)
(* number they drew is new.                                                *)
LEMMA Writes ==
  ASSUME IInv, NEW s \in Sessions, NEW call \in AnyCall, NEW row \in Rows,
         Written(s, call, row)
  PROVE  /\ nextSeq' \in Nat /\ nextSeq <= nextSeq'
         /\ Recorded(call.op) => nextSeq < nextSeq'
         /\ \E new \in Tx :
              /\ tx' = [tx EXCEPT ![s] = new] /\ tx'[s] = new
              /\ new = [pc |-> "written", call |-> call, row |-> row, seq |-> nextSeq']
<1>1. /\ nextSeq' \in Nat /\ nextSeq <= nextSeq'
      /\ Recorded(call.op) => nextSeq < nextSeq'
  BY DEF Written, IInv, TypeOK
<1>2. PICK n \in Nat : n = nextSeq'
  BY <1>1
<1>3. [pc |-> "written", call |-> call, row |-> row, seq |-> n] \in Tx
  BY DEF Tx, Rows
<1>4. tx' = [tx EXCEPT ![s] = [pc |-> "written", call |-> call, row |-> row, seq |-> n]]
  BY <1>2 DEF Written
<1>5. tx'[s] = [pc |-> "written", call |-> call, row |-> row, seq |-> n]
  BY <1>4 DEF IInv, TypeOK
<1> QED
  BY <1>1, <1>2, <1>3, <1>4, <1>5, Zenon

(* The arguments of an insert.                                             *)
LEMMA InsertCallTyped ==
  ASSUME NEW tenant \in Tenants, NEW id \in TransferIDs
  PROVE  LET call == Call("insert", tenant, id) IN
         call \in OpenCall /\ call \in AnyCall /\ call.op = "insert" /\ call.id = id
<1>1. PICK call : call = Call("insert", tenant, id)
  OBVIOUS
<1>2. call = [op |-> "insert", tenant |-> tenant, id |-> id, token |-> None, until |-> 0,
              status |-> None, callback |-> None]
  BY <1>1, Zenon DEF Call, NoCall
<1>3. call \in AnyCall
  BY <1>2, NoCallTyped DEF AnyCall, Ops
<1>4. call \in OpenCall
  BY <1>2, <1>3, PostgresAssumption DEF OpenCall
<1> QED
  BY <1>1, <1>2, <1>3, <1>4

(* An insert, when its unique keys are free and nobody is inserting them.  *)
LEMMA Inserts ==
  ASSUME IInv, NEW s \in Sessions, NEW id \in TransferIDs, NEW req \in Contract!Request,
         NEW decision \in Contract!Decisions, InsertTransfer(s, id, req, decision)
  PROVE  IInv'
<1> DEFINE call == Call("insert", req.tenant, id)
           row == Contract!NewTransfer(req, decision)
<1>1. /\ ~Duplicate(id, row) /\ ~InsertWaits(id, row)
      /\ Written(s, call, row)
      /\ UNCHANGED committed /\ lock' = lock
  BY DEF InsertTransfer
<1>2. call \in OpenCall /\ call \in AnyCall /\ call.op = "insert" /\ call.id = id
  <2>1. req.tenant \in Tenants
    BY DEF Contract!Request
  <2> QED
    BY <2>1, InsertCallTyped
<1>3. row \in Contract!Transfer /\ row \in Rows /\ row.status = decision
  BY NewTyped DEF Rows
<1> HIDE DEF call, row
<1>4. /\ nextSeq' \in Nat /\ nextSeq <= nextSeq'
      /\ Recorded(call.op) => nextSeq < nextSeq'
  BY <1>1, <1>2, <1>3, Writes
<1>5. PICK new \in Tx :
        /\ tx' = [tx EXCEPT ![s] = new] /\ tx'[s] = new
        /\ new = [pc |-> "written", call |-> call, row |-> row, seq |-> nextSeq']
  BY <1>1, <1>2, <1>3, Writes
<1>6. new.pc = "written" /\ new.call = call /\ new.row = row /\ new.seq = nextSeq'
  BY <1>5
<1>7. Stands(new.call, new.row, transfers[new.call.id])
  BY <1>1, <1>2, <1>6, Zenon DEF Stands
<1>8. ASSUME NEW o \in Writers \ {s} PROVE Apart(s, o)'
  <2>1. tx'[o] = tx[o]
    BY <1>5, SMTT(30) DEF Writers, IInv, TypeOK
  <2> QED
    BY <1>1, <1>2, <1>5, <1>6, <2>1 DEF Apart, InsertWaits
<1>9. SessionFacts(s)'
  <2>1. positions' = positions /\ transfers' = transfers
    BY <1>1, SMTT(30) DEF committed
  <2>2. positions[id] = <<>> \/ Exists(id)
    BY DEF IInv, LocksAndRowsAgree, RowFacts
  <2>3. ~Exists(id)
    BY <1>1 DEF Duplicate
  <2>4. \A i \in DOMAIN positions'[id] : positions'[id][i] < nextSeq'
    BY <2>1, <2>2, <2>3
  <2>5. \E r \in Contract!Request, d \in Contract!Decisions : row = Contract!NewTransfer(r, d)
    BY DEF row
  <2>6. nextSeq' <= nextSeq'
    BY <1>4
  <2> QED
    BY <1>2, <1>5, <1>6, <2>4, <2>5, <2>6 DEF SessionFacts
<1>10. /\ lock' \in [TransferIDs -> Sessions \cup {None}]
       /\ \A i \in TransferIDs : lock[i] \notin {s, None} => lock'[i] = lock[i]
  BY <1>1 DEF IInv, TypeOK
<1> QED
  BY <1>1, <1>4, <1>5, <1>6, <1>7, <1>8, <1>9, <1>10, Quiet, Zenon

(* The arguments of the five methods.                                      *)
LEMMA CallsTyped ==
  ASSUME NEW tenant \in Tenants, NEW id \in TransferIDs, NEW call \in Calls(tenant, id)
  PROVE  /\ call \in OpenCall /\ call \in AnyCall /\ call.id \in TransferIDs
         /\ call.op # "insert"
<1>1. ASSUME NEW op \in {"claim", "record", "release"}, NEW until \in 0..ClaimTTL, NEW token \in Tokens,
             call = [Call(op, tenant, id) EXCEPT !.token = token, !.until = until]
      PROVE  call \in OpenCall /\ call.id = id /\ call.op # "insert"
  <2>1. call = [op |-> op, tenant |-> tenant, id |-> id, token |-> token, until |-> until,
                status |-> None, callback |-> None]
    BY <1>1, Zenon DEF Call, NoCall
  <2>2. call \in AnyCall
    BY <2>1 DEF AnyCall, Ops
  <2> QED
    BY <2>1, <2>2, PostgresAssumption DEF OpenCall
<1>2. ASSUME NEW op \in {"claim", "record", "release"}, NEW until \in 0..ClaimTTL,
             call \in TokenCalls(op, tenant, id, until)
      PROVE  call \in OpenCall /\ call.id = id /\ call.op # "insert"
  BY <1>1, <1>2, Zenon DEF TokenCalls
<1>3. ASSUME NEW status \in {"accepted", "blocked"},
             call = [Call("review", tenant, id) EXCEPT !.status = status]
      PROVE  call \in OpenCall /\ call.id = id /\ call.op # "insert"
  <2>1. call = [op |-> "review", tenant |-> tenant, id |-> id, token |-> None, until |-> 0,
                status |-> status, callback |-> None]
    BY <1>3, Zenon DEF Call, NoCall
  <2>2. call \in AnyCall
    BY <2>1, NoCallTyped DEF AnyCall, Ops
  <2> QED
    BY <2>1, <2>2, PostgresAssumption DEF OpenCall
<1>4. ASSUME NEW cb \in Contract!Callback, cb.tenant = tenant, cb.transfer = id,
             call = [Call("settle", tenant, id) EXCEPT !.callback = cb]
      PROVE  call \in OpenCall /\ call.id = id /\ call.op # "insert"
  <2>1. call = [op |-> "settle", tenant |-> tenant, id |-> id, token |-> None, until |-> 0,
                status |-> None, callback |-> cb]
    BY <1>4, Zenon DEF Call, NoCall
  <2>2. call \in AnyCall
    BY <2>1, NoCallTyped DEF AnyCall, Ops
  <2> QED
    BY <1>4, <2>1, <2>2, PostgresAssumption DEF OpenCall
<1>5. call \in OpenCall /\ call.id = id /\ call.op # "insert"
  <2>1. \A until \in 1..ClaimTTL : until \in 0..ClaimTTL
    BY PostgresAssumption
  <2>2. 0 \in 0..ClaimTTL
    BY PostgresAssumption
  <2>3. CASE call \in UNION {TokenCalls("claim", tenant, id, until) : until \in 1..ClaimTTL}
    BY <1>2, <2>1, <2>3, Zenon
  <2>4. CASE call \in TokenCalls("record", tenant, id, 0) \cup TokenCalls("release", tenant, id, 0)
    BY <1>2, <2>2, <2>4, Zenon
  <2>5. CASE call \in ReviewCalls(tenant, id)
    BY <1>3, <2>5, Zenon DEF ReviewCalls
  <2>6. CASE call \in SettleCalls(tenant, id)
    <3>1. PICK cb \in {c \in Contract!Callback : c.tenant = tenant /\ c.transfer = id} :
            call = [Call("settle", tenant, id) EXCEPT !.callback = cb]
      BY <2>6, Zenon DEF SettleCalls
    <3> QED
      BY <1>4, <3>1
  <2> QED
    BY <2>3, <2>4, <2>5, <2>6, Zenon DEF Calls
<1> QED
  BY <1>5 DEF OpenCall

(* select ... for update.                                                  *)
LEMMA Selects ==
  ASSUME IInv, NEW s \in Sessions, NEW tenant \in Tenants, NEW id \in TransferIDs,
         NEW call \in Calls(tenant, id), SelectForUpdate(s, call)
  PROVE  IInv'
<1>1. /\ call \in OpenCall /\ call \in AnyCall /\ call.id \in TransferIDs
      /\ call.op # "insert"
  BY CallsTyped
<1> DEFINE new == [pc |-> "locked", call |-> call, row |-> transfers[call.id], seq |-> 0]
<1>2. new \in Tx
  BY <1>1, RowTyped DEF IInv, Tx, Rows
<1>3. tx' = [tx EXCEPT ![s] = new] /\ UNCHANGED committed /\ nextSeq' = nextSeq
  BY DEF SelectForUpdate
<1>4. tx'[s] = new /\ new.pc = "locked" /\ new.row = transfers[new.call.id] /\ new.call = call
  BY <1>3 DEF IInv, TypeOK
<1> HIDE DEF new
<1>5. /\ lock[call.id] = None /\ lock' = [lock EXCEPT ![call.id] = s]
      /\ Exists(call.id) /\ transfers[call.id].tenant = call.tenant
  BY DEF SelectForUpdate, Locking
<1>6. /\ lock' \in [TransferIDs -> Sessions \cup {None}]
      /\ \A i \in TransferIDs : lock[i] \notin {s, None} => lock'[i] = lock[i]
      /\ lock'[call.id] = s
  BY <1>1, <1>5, SMTT(30) DEF IInv, TypeOK
<1>7. SessionFacts(s)'
  BY <1>1, <1>3, <1>4, <1>5, <1>6 DEF SessionFacts, committed, Exists
<1>8. nextSeq' \in Nat /\ nextSeq <= nextSeq'
  BY <1>3 DEF IInv, TypeOK
<1>9. PICK n \in Tx : n = new
  BY <1>2
<1> QED
  BY <1>3, <1>4, <1>6, <1>7, <1>8, <1>9, Quiet, Zenon

(* RecordSPISubmission yields a transfer.                                  *)
LEMMA RecordTyped ==
  ASSUME NEW tr \in Contract!Transfer, NEW message \in Contract!MessageIDs
  PROVE  RecordSPISubmission(tr, message) \in Contract!Transfer
  BY ZenonT(60) DEF RecordSPISubmission, Contract!Transfer, Contract!TransferStatus

(* What is known of a session that has its row.                            *)
LEMMA Deciders ==
  ASSUME IInv, NEW s \in Sessions, tx[s].pc \in {"locked", "checked"}
  PROVE  /\ SessionFacts(s) /\ tx[s].call \in OpenCall /\ tx[s].call.id \in TransferIDs
         /\ tx[s].call \in AnyCall /\ tx[s].call.op # "insert"
         /\ tx[s].row = transfers[tx[s].call.id] /\ tx[s].row \in Contract!Transfer
         /\ transfers[tx[s].call.id].spiMessageID \in {None, Contract!MessageOf(tx[s].call.id)}
<1>1. SessionFacts(s) /\ tx[s].row = transfers[tx[s].call.id]
  BY SMTT(30) DEF IInv, LocksAndRowsAgree, DecidedRowIsCurrent
<1>2. /\ tx[s].call \in OpenCall /\ tx[s].call.id \in TransferIDs
      /\ tx[s].call \in AnyCall /\ tx[s].call.op # "insert"
  BY <1>1, SMTT(30) DEF SessionFacts, OpenCall, AnyCall
<1>3. Exists(tx[s].call.id)
  BY <1>1, <1>2 DEF SessionFacts
<1>4. tx[s].row \in Contract!Transfer
  BY <1>1, <1>2, <1>3, RowTyped DEF IInv
<1>5. RowFacts(tx[s].call.id)
  BY <1>2 DEF IInv, LocksAndRowsAgree
<1> QED
  BY <1>1, <1>2, <1>4, <1>5 DEF RowFacts

(* A decision that stands when it is written keeps the invariant.          *)
LEMMA Decided ==
  ASSUME IInv, NEW s \in Sessions, tx[s].pc \in {"locked", "checked"},
         NEW row \in Contract!Transfer,
         Written(s, tx[s].call, row), UNCHANGED <<committed, lock>>,
         Stands(tx[s].call, row, transfers[tx[s].call.id])
  PROVE  IInv'
<1>1. PICK call \in AnyCall : call = tx[s].call
  BY Deciders
<1>2. row \in Rows /\ call \in OpenCall /\ call.id \in TransferIDs /\ call.op # "insert"
  BY <1>1, Deciders DEF Rows
<1>3. Written(s, call, row)
  BY <1>1
<1>4. /\ nextSeq' \in Nat /\ nextSeq <= nextSeq'
      /\ Recorded(call.op) => nextSeq < nextSeq'
  BY <1>2, <1>3, Writes
<1>5. PICK new \in Tx :
        /\ tx' = [tx EXCEPT ![s] = new] /\ tx'[s] = new
        /\ new = [pc |-> "written", call |-> call, row |-> row, seq |-> nextSeq']
  BY <1>2, <1>3, Writes
<1>6. new.pc = "written" /\ new.call = call /\ new.row = row /\ new.seq = nextSeq'
  BY <1>5
<1>7. Stands(new.call, new.row, transfers[new.call.id])
  BY <1>1, <1>6, SMTT(30)
<1>8. ASSUME NEW o \in Writers \ {s} PROVE Apart(s, o)'
  BY <1>2, <1>5, <1>6, SMTT(30) DEF Apart
<1>9. SessionFacts(s)'
  <2>1. positions' = positions /\ transfers' = transfers /\ lock' = lock
    BY ZenonT(60) DEF committed
  <2>2. /\ lock[call.id] = s /\ Exists(call.id) /\ transfers[call.id].tenant = call.tenant
    BY <1>1, <1>2, Deciders, SMTT(30) DEF SessionFacts
  <2>3. positions[call.id] \in Seq(Nat) /\ RowFacts(call.id)
    BY <1>2 DEF IInv, TypeOK, LocksAndRowsAgree
  <2>4. ASSUME Recorded(call.op), NEW i \in DOMAIN positions[call.id]
        PROVE  positions[call.id][i] < nextSeq'
    <3>1. positions[call.id][i] <= nextSeq /\ positions[call.id][i] \in Nat
      BY <2>3 DEF RowFacts
    <3> QED
      BY <1>4, <2>4, <3>1, SMTT(30) DEF IInv, TypeOK
  <2>5. nextSeq' <= nextSeq'
    BY <1>4
  <2> QED
    BY <1>2, <1>5, <1>6, <2>1, <2>2, <2>4, <2>5 DEF SessionFacts, Exists
<1>10. /\ lock' \in [TransferIDs -> Sessions \cup {None}]
       /\ \A i \in TransferIDs : lock[i] \notin {s, None} => lock'[i] = lock[i]
  BY DEF IInv, TypeOK
<1> QED
  BY <1>4, <1>5, <1>6, <1>7, <1>8, <1>9, <1>10, Quiet, Zenon

(* Each decision: the rail function's guard is what makes it stand.        *)
LEMMA Claims ==
  ASSUME IInv, NEW s \in Sessions, UpdateClaim(s)
  PROVE  IInv'
<1>1. CASE Finish(s)
  BY <1>1, Finishes
<1>2. CASE ~Finish(s)
  <2>1. /\ tx[s].call.op = "claim" /\ tx[s].pc \in {"locked", "checked"}
        /\ UNCHANGED <<committed, lock>>
    BY <1>2, SMTT(30) DEF UpdateClaim, Decide, Deciding
  <2>2. PICK call \in AnyCall : call = tx[s].call
    BY <2>1, Deciders
  <2>3. PICK old \in Contract!Transfer : old = tx[s].row
    BY <2>1, Deciders
  <2> DEFINE row == ClaimSPISubmission(old, call.token, call.until)
  <2>4. /\ ~Submitted(old) /\ CanClaimSPISubmission(old, call.until)
        /\ Written(s, call, row)
    BY <1>2, <2>2, <2>3, Zenon DEF UpdateClaim, Decide
  <2>5. /\ old = transfers[call.id] /\ call.op = "claim" /\ call \in OpenCall
    BY <2>1, <2>2, <2>3, Deciders
  <2>6. row \in Contract!Transfer
    <3>1. call.token \in Tokens \cup {None} /\ call.until \in Nat
      BY NoCallTyped DEF AnyCall
    <3> QED
      BY <2>5, <3>1, Zenon DEF ClaimSPISubmission, Contract!Transfer
  <2>7. Stands(call, row, transfers[call.id])
    BY <2>4, <2>5, PostgresAssumption, SMTT(30)
    DEF Stands, ClaimSPISubmission, CanClaimSPISubmission, Contract!Transfer, AnyCall
  <2> HIDE DEF row
  <2> QED
    BY <2>1, <2>2, <2>4, <2>6, <2>7, Decided, SMTT(30)
<1> QED
  BY <1>1, <1>2

(* RecordSPISubmission.                                                    *)
LEMMA Records ==
  ASSUME IInv, NEW s \in Sessions, UpdateRecord(s)
  PROVE  IInv'
<1>1. CASE Finish(s)
  BY <1>1, Finishes
<1>2. CASE ~Finish(s)
  <2>1. /\ tx[s].call.op = "record" /\ tx[s].pc \in {"locked", "checked"}
        /\ UNCHANGED <<committed, lock>>
    BY <1>2 DEF UpdateRecord, Decide, Deciding
  <2>2. PICK call \in AnyCall : call = tx[s].call
    BY <2>1, Deciders
  <2>3. PICK old \in Contract!Transfer : old = tx[s].row
    BY <2>1, Deciders
  <2> DEFINE row == RecordSPISubmission(old, Contract!MessageOf(call.id))
  <2>4. /\ CanRecordSPISubmission(old, call.token)
        /\ Written(s, call, row)
    BY <1>2, <2>2, <2>3, Zenon DEF UpdateRecord, Decide
  <2>5. /\ old = transfers[call.id] /\ call.op = "record" /\ call \in OpenCall
    BY <2>1, <2>2, <2>3, Deciders
  <2>6. row \in Contract!Transfer
    <3>1. Contract!MessageOf(call.id) \in Contract!MessageIDs
      BY <2>5 DEF Contract!MessageIDs, OpenCall, AnyCall
    <3> QED
      BY <2>5, <3>1, RecordTyped
  <2>7. Stands(call, row, transfers[call.id])
    BY <2>4, <2>5, SMTT(30) DEF Stands, RecordSPISubmission, Contract!Transfer
  <2> HIDE DEF row
  <2> QED
    BY <2>1, <2>2, <2>4, <2>6, <2>7, Decided, SMTT(30)
<1> QED
  BY <1>1, <1>2

(* ReleaseSPISubmission.                                                   *)
LEMMA Releases ==
  ASSUME IInv, NEW s \in Sessions, UpdateRelease(s)
  PROVE  IInv'
<1>1. CASE Finish(s)
  BY <1>1, Finishes
<1>2. CASE ~Finish(s)
  <2>1. /\ tx[s].call.op = "release" /\ tx[s].pc \in {"locked", "checked"}
        /\ UNCHANGED <<committed, lock>>
    BY <1>2 DEF UpdateRelease, Decide, Deciding
  <2>2. PICK call \in AnyCall : call = tx[s].call
    BY <2>1, Deciders
  <2>3. PICK old \in Contract!Transfer : old = tx[s].row
    BY <2>1, Deciders
  <2> DEFINE row == ReleaseSPISubmission(old, RetryDelay)
  <2>4. /\ ~Submitted(old) /\ CanReleaseSPISubmission(old, call.token)
        /\ Written(s, call, row)
    BY <1>2, <2>2, <2>3, Zenon DEF UpdateRelease, Decide
  <2>5. /\ old = transfers[call.id] /\ call.op = "release" /\ call \in OpenCall
    BY <2>1, <2>2, <2>3, Deciders
  <2>6. row \in Contract!Transfer
    BY <2>5, PostgresAssumption, Zenon DEF ReleaseSPISubmission, Contract!Transfer
  <2>7. Stands(call, row, transfers[call.id])
    BY <2>4, <2>5, PostgresAssumption, SMTT(30) DEF Stands, ReleaseSPISubmission, Contract!Transfer
  <2> HIDE DEF row
  <2> QED
    BY <2>1, <2>2, <2>4, <2>6, <2>7, Decided
<1> QED
  BY <1>1, <1>2

(* RecordReviewDecision.                                                   *)
LEMMA Reviews ==
  ASSUME IInv, NEW s \in Sessions, UpdateReview(s)
  PROVE  IInv'
<1>1. CASE Finish(s)
  BY <1>1, Finishes
<1>2. CASE ~Finish(s)
  <2>1. /\ tx[s].call.op = "review" /\ tx[s].pc \in {"locked", "checked"}
        /\ UNCHANGED <<committed, lock>>
    BY <1>2 DEF UpdateReview, Decide, Deciding
  <2>2. PICK call \in AnyCall : call = tx[s].call
    BY <2>1, Deciders
  <2>3. PICK old \in Contract!Transfer : old = tx[s].row
    BY <2>1, Deciders
  <2> DEFINE row == RecordReviewDecision(old, call.status)
  <2>4. /\ CanRecordReviewDecision(old, call.status)
        /\ Written(s, call, row)
    BY <1>2, <2>2, <2>3, Zenon DEF UpdateReview, Decide
  <2>5. /\ old = transfers[call.id] /\ call.op = "review" /\ call \in OpenCall
    BY <2>1, <2>2, <2>3, Deciders
  <2>6. row \in Contract!Transfer
    BY <2>4, <2>5 DEF RecordReviewDecision, CanRecordReviewDecision, Contract!Transfer,
       Contract!TransferStatus
  <2>7. Stands(call, row, transfers[call.id])
    BY <2>4, <2>5, SMTT(30) DEF Stands, RecordReviewDecision, Contract!Transfer
  <2> HIDE DEF row
  <2> QED
    BY <2>1, <2>2, <2>4, <2>6, <2>7, Decided, SMTT(30)
<1> QED
  BY <1>1, <1>2

(* UpdateSettlement, after the look-up.                                    *)
LEMMA Settles ==
  ASSUME IInv, NEW s \in Sessions, UpdateSettled(s)
  PROVE  IInv'
<1>1. CASE Finish(s)
  BY <1>1, Finishes
<1>2. CASE ~Finish(s)
  <2>1. /\ tx[s].call.op = "settle" /\ tx[s].pc \in {"locked", "checked"}
        /\ UNCHANGED <<committed, lock>>
    BY <1>2 DEF UpdateSettled, Decide, Deciding
  <2>2. PICK call \in AnyCall : call = tx[s].call
    BY <2>1, Deciders
  <2>3. PICK old \in Contract!Transfer : old = tx[s].row
    BY <2>1, Deciders
  <2> DEFINE row == RecordSettlement(old, call.callback)
  <2>4. /\ CanRecordSettlement(old, call.callback)
        /\ Written(s, call, row)
    BY <1>2, <2>2, <2>3, Zenon DEF UpdateSettled, Decide
  <2>5. /\ old = transfers[call.id] /\ call.op = "settle" /\ call \in OpenCall
    BY <2>1, <2>2, <2>3, Deciders
  <2>6. row \in Contract!Transfer
    BY <2>5 DEF RecordSettlement, SettlementOutcome, Contract!Transfer, Contract!TransferStatus
  <2>7. Stands(call, row, transfers[call.id])
    BY <2>4, <2>5 DEF Stands, RecordSettlement, Contract!Transfer
  <2> HIDE DEF row
  <2> QED
    BY <2>1, <2>2, <2>4, <2>6, <2>7, Decided, SMTT(30)
<1> QED
  BY <1>1, <1>2

(* The look-up of a stored callback.                                       *)
LEMMA Checks ==
  ASSUME IInv, NEW s \in Sessions, SelectCallback(s)
  PROVE  IInv'
<1>1. CASE Finish(s)
  BY <1>1, Finishes
<1>2. CASE ~Finish(s)
  <2>1. /\ tx[s].pc = "locked" /\ tx[s].call.op = "settle"
        /\ tx' = [tx EXCEPT ![s].pc = "checked"]
        /\ UNCHANGED committed /\ nextSeq' = nextSeq /\ lock' = lock
    BY <1>2 DEF SelectCallback
  <2>2. PICK old \in Tx : old = tx[s]
    BY TxTyped DEF IInv
  <2>3. PICK new \in Tx : new = [old EXCEPT !.pc = "checked"]
    BY Zenon DEF Tx
  <2>4. tx' = [tx EXCEPT ![s] = new] /\ tx'[s] = new
    BY <2>1, <2>2, <2>3 DEF IInv, TypeOK
  <2>5. new.pc = "checked" /\ new.call = tx[s].call /\ new.row = tx[s].row
    BY <2>2, <2>3 DEF Tx
  <2>6. new.row = transfers[new.call.id] /\ SessionFacts(s)
    BY <2>1, <2>5, Deciders, SMTT(30)
  <2>7. SessionFacts(s)'
    BY <2>1, <2>4, <2>5, <2>6 DEF SessionFacts, committed, Exists
  <2>8. nextSeq' \in Nat /\ nextSeq <= nextSeq' /\ lock' \in [TransferIDs -> Sessions \cup {None}]
    BY <2>1 DEF IInv, TypeOK
  <2> QED
    BY <2>1, <2>4, <2>5, <2>6, <2>7, <2>8, Quiet, Zenon
<1> QED
  BY <1>1, <1>2

-----------------------------------------------------------------------------
(* What a commit sets: what the rail function gives on the committed row.  *)
CommitSet(s, call, row, old, new) ==
  /\ call \in OpenCall /\ call.id \in TransferIDs /\ call.op \in Ops
  /\ Stands(call, row, old) /\ SessionFacts(s)
  /\ call.op = "insert" =>
       /\ new = row /\ ~Exists(call.id)
       /\ \E req \in Contract!Request, decision \in Contract!Decisions :
            new = Contract!NewTransfer(req, decision)
  /\ call.op # "insert" =>
       old \in Contract!Transfer /\ Exists(call.id) /\ old.tenant = call.tenant
  /\ call.op = "claim" => new = ClaimSPISubmission(old, call.token, row.spiClaimedUntil)
  /\ call.op = "record" => new = RecordSPISubmission(old, Contract!MessageOf(call.id))
  /\ call.op = "release" => new = ReleaseSPISubmission(old, row.spiClaimedUntil)
  /\ call.op = "review" => new = RecordReviewDecision(old, call.status)
  /\ call.op = "settle" => new = RecordSettlement(old, call.callback)
(* What a commit is about, given the invariant: the facts of CommitSet.    *)
LEMMA CommitSets ==
  ASSUME IInv, NEW s \in Sessions, tx[s].pc = "written",
         NEW call \in AnyCall, NEW row \in Rows, NEW old, NEW new,
         call = tx[s].call, row = tx[s].row, old = transfers[call.id],
         new = Updated(call.op, old, row)
  PROVE  CommitSet(s, call, row, old, new)
<1>1. SessionFacts(s) /\ Stands(call, row, old)
  BY SMTT(30) DEF IInv, LocksAndRowsAgree, DecisionStands, Writers
<1>2. call \in OpenCall
  BY <1>1 DEF SessionFacts
<1>3. call.id \in TransferIDs /\ call.op \in Ops
  BY <1>2, ZenonT(60) DEF OpenCall, AnyCall
<1>4. ASSUME call.op # "insert"
      PROVE  old \in Contract!Transfer /\ Exists(call.id) /\ old.tenant = call.tenant
  BY <1>1, <1>3, <1>4, RowTyped DEF SessionFacts, IInv
<1>5. ASSUME call.op = "insert"
      PROVE  /\ new = row /\ ~Exists(call.id)
             /\ \E req \in Contract!Request, decision \in Contract!Decisions :
                  new = Contract!NewTransfer(req, decision)
  BY <1>1, <1>5 DEF Stands, Duplicate, SessionFacts, Updated
<1>6. call.op = "claim" => new = ClaimSPISubmission(old, call.token, row.spiClaimedUntil)
  BY <1>1, Zenon DEF Stands, Updated, ClaimSPISubmission
<1>7. call.op = "record" => new = RecordSPISubmission(old, Contract!MessageOf(call.id))
  BY <1>1, Zenon DEF Stands, Updated, RecordSPISubmission
<1>8. call.op = "release" => new = ReleaseSPISubmission(old, row.spiClaimedUntil)
  BY <1>1, Zenon DEF Stands, Updated, ReleaseSPISubmission
<1>9. call.op = "review" => new = RecordReviewDecision(old, call.status)
  BY <1>1, SMTT(30) DEF Stands, Updated, RecordReviewDecision
<1>10. call.op = "settle" => new = RecordSettlement(old, call.callback)
  BY <1>1 DEF Stands, Updated, RecordSettlement
<1> QED
  BY <1>1, <1>2, <1>3, <1>4, <1>5, <1>6, <1>7, <1>8, <1>9, <1>10, Zenon DEF CommitSet

(* What is known of the row a commit sets.                                 *)
CommitRow(call, row, old, new) ==
  /\ new \in Contract!Transfer
  /\ call.op = "insert" => new = row
  /\ call.op # "insert" => new.tenant = old.tenant /\ new.key = old.key
  /\ new.spiMessageID \in {None, Contract!MessageOf(call.id)}
  /\ old.status \in {"settled", "rejected"} =>
       /\ call.op \notin {"insert", "settle"}
       /\ new.status = old.status /\ new.spiMessageID = old.spiMessageID
  /\ call.op = "settle" =>
       /\ new.status = SettlementOutcome(call.callback.status)
       /\ new.spiMessageID = call.callback.spiMessageID
(* The row that a commit replaces and the one it puts there: the facts of  *)
(* CommitRow.                                                              *)
LEMMA CommitRows ==
  ASSUME IInv, NEW s \in Sessions, tx[s].pc = "written",
         NEW call \in AnyCall, NEW row \in Rows, NEW old, NEW new,
         call = tx[s].call, row = tx[s].row, old = transfers[call.id],
         new = Updated(call.op, old, row)
  PROVE  CommitRow(call, row, old, new)
<1>0. CommitSet(s, call, row, old, new)
  BY CommitSets, Zenon
<1>1. /\ call \in OpenCall /\ call.id \in TransferIDs /\ call.op \in Ops
      /\ Stands(call, row, old)
      /\ call.op # "insert" => old \in Contract!Transfer
      /\ call.op = "insert" => old.status = "absent"
  BY <1>0, Zenon DEF CommitSet, Exists
<1>2. old.spiMessageID \in {None, Contract!MessageOf(call.id)}
  BY <1>1 DEF IInv, LocksAndRowsAgree, RowFacts
<1>3. row.spiClaimedUntil \in Nat
  BY DEF Rows, Contract!Transfer, NoTransfer
<1>4. Contract!MessageOf(call.id) \in Contract!MessageIDs
  BY <1>1, Zenon DEF Contract!MessageIDs
<1>5. CASE call.op = "insert"
  <2>1. PICK req \in Contract!Request, decision \in Contract!Decisions :
          new = row /\ new = Contract!NewTransfer(req, decision)
    BY <1>0, <1>5, Zenon DEF CommitSet
  <2>2. new \in Contract!Transfer /\ new.spiMessageID = None
    BY <2>1, NewTyped
  <2> QED
    BY <1>1, <1>5, <2>1, <2>2 DEF CommitRow
<1>6. CASE call.op = "claim"
  <2>1. new = ClaimSPISubmission(old, call.token, row.spiClaimedUntil) /\ old \in Contract!Transfer
    BY <1>0, <1>6, Zenon DEF CommitSet
  <2>2. call.token \in Tokens \cup {None}
    BY DEF AnyCall
  <2>3. new \in Contract!Transfer
    BY <1>3, <2>1, <2>2, Zenon DEF ClaimSPISubmission, Contract!Transfer
  <2> QED
    BY <1>2, <1>6, <2>1, <2>3, Zenon DEF ClaimSPISubmission, Contract!Transfer, CommitRow
<1>7. CASE call.op = "record"
  <2>1. /\ new = RecordSPISubmission(old, Contract!MessageOf(call.id)) /\ old \in Contract!Transfer
    BY <1>0, <1>7, Zenon DEF CommitSet
  <2>0. old.status = "accepted"
    BY <1>1, <1>7, SMTT(30) DEF Stands, CanRecordSPISubmission
  <2>2. new \in Contract!Transfer
    <3>1. PICK m \in Contract!MessageIDs : m = Contract!MessageOf(call.id)
      BY <1>4
    <3>2. new = RecordSPISubmission(old, m)
      BY <2>1, <3>1
    <3> QED
      BY <2>1, <3>2, RecordTyped, SMTT(30)
  <2> QED
    BY <1>7, <2>0, <2>1, <2>2, Zenon DEF RecordSPISubmission, Contract!Transfer, CommitRow
<1>8. CASE call.op = "release"
  <2>1. new = ReleaseSPISubmission(old, row.spiClaimedUntil) /\ old \in Contract!Transfer
    BY <1>0, <1>8, Zenon DEF CommitSet
  <2>2. new \in Contract!Transfer
    BY <1>3, <2>1, ZenonT(60) DEF ReleaseSPISubmission, Contract!Transfer
  <2> QED
    BY <1>2, <1>8, <2>1, <2>2, Zenon DEF ReleaseSPISubmission, Contract!Transfer, CommitRow
<1>9. CASE call.op = "review"
  <2>1. /\ new = RecordReviewDecision(old, call.status) /\ old \in Contract!Transfer
    BY <1>0, <1>9, Zenon DEF CommitSet
  <2>0. old.status = "review" /\ call.status \in {"accepted", "blocked"}
    BY <1>1, <1>9 DEF Stands, CanRecordReviewDecision
  <2>2. new \in Contract!Transfer
    BY <2>0, <2>1, ZenonT(60) DEF RecordReviewDecision, Contract!Transfer, Contract!TransferStatus
  <2> QED
    BY <1>2, <1>9, <2>0, <2>1, <2>2 DEF RecordReviewDecision, Contract!Transfer, CommitRow
<1>10. CASE call.op = "settle"
  <2>1. /\ new = RecordSettlement(old, call.callback) /\ old \in Contract!Transfer
    BY <1>0, <1>10, Zenon DEF CommitSet
  <2>0. old.status = "approved" /\ old.spiMessageID = call.callback.spiMessageID
    BY <1>1, <1>10, SMTT(30) DEF Stands, CanRecordSettlement
  <2>2. new \in Contract!Transfer
    BY <2>1 DEF RecordSettlement, SettlementOutcome, Contract!Transfer, Contract!TransferStatus
  <2> QED
    BY <1>2, <1>10, <2>0, <2>1, <2>2 DEF RecordSettlement, Contract!Transfer, CommitRow
<1> QED
  BY <1>1, <1>5, <1>6, <1>7, <1>8, <1>9, <1>10, Zenon DEF Ops

(* While s has written, no other open transaction is on its transfer: two  *)
(* updates would both hold the lock, two inserts would share the id, and   *)
(* an update needs the row that an insert needs absent.                    *)
LEMMA AloneOnRow ==
  ASSUME IInv, NEW s \in Sessions, tx[s].pc = "written",
         NEW o \in Sessions \ {s}, tx[o].pc # "idle"
  PROVE  tx[o].call.id # tx[s].call.id
<1> SUFFICES ASSUME tx[o].call.id = tx[s].call.id PROVE FALSE
  OBVIOUS
<1>1. SessionFacts(s) /\ SessionFacts(o)
  BY DEF IInv, LocksAndRowsAgree
<1>2. s \in Writers
  BY ZenonT(60) DEF Writers
<1>3. CASE tx[s].call.op = "insert" /\ tx[o].call.op = "insert"
  BY <1>1, <1>2, <1>3 DEF IInv, DecisionStands, Apart, SessionFacts, Writers
<1>4. CASE tx[s].call.op = "insert" /\ tx[o].call.op # "insert"
  BY <1>1, <1>2, <1>4, Zenon DEF IInv, DecisionStands, Stands, Duplicate, SessionFacts
<1>5. CASE tx[s].call.op # "insert" /\ tx[o].call.op = "insert"
  <2>1. o \in Writers
    BY <1>1, <1>5, SMTT(30) DEF SessionFacts, Writers
  <2> QED
    BY <1>1, <1>5, <2>1, ZenonT(60) DEF IInv, DecisionStands, Stands, Duplicate, SessionFacts
<1>6. CASE tx[s].call.op # "insert" /\ tx[o].call.op # "insert"
  BY <1>1, <1>6 DEF SessionFacts
<1> QED
  BY <1>3, <1>4, <1>5, <1>6

(* What a commit writes.                                                   *)
CommitWritten(s, call, seq, new) ==
  /\ tx[s].pc = "written" /\ nextSeq' = nextSeq
  /\ transfers' = [transfers EXCEPT ![call.id] = new]
  /\ DOMAIN outbox' = DOMAIN outbox /\ DOMAIN audit' = DOMAIN audit
  /\ positions' = IF Recorded(call.op) THEN [positions EXCEPT ![call.id] = Append(@, seq)]
                   ELSE positions
  /\ processed' = processed \cup (IF call.op = "settle" THEN {call.callback} ELSE {})
  /\ tx' = [tx EXCEPT ![s] = IdleTx]
  /\ lock' = [i \in TransferIDs |-> IF lock[i] = s THEN None ELSE lock[i]]
(* What a commit leaves in the tables: the facts of CommitWritten.         *)
LEMMA CommitWrites ==
  ASSUME NEW s \in Sessions, Commit(s),
         NEW call, NEW row, NEW seq, NEW old, NEW new,
         call = tx[s].call, row = tx[s].row, seq = tx[s].seq,
         old = transfers[call.id], new = Updated(call.op, old, row)
  PROVE  CommitWritten(s, call, seq, new)
<1>1. /\ tx[s].pc = "written" /\ nextSeq' = nextSeq
      /\ tx' = [tx EXCEPT ![s] = IdleTx]
      /\ lock' = [i \in TransferIDs |-> IF lock[i] = s THEN None ELSE lock[i]]
  BY Zenon DEF Commit, Unlocking
<1>2. transfers' = [transfers EXCEPT ![call.id] = new]
  BY Zenon DEF Commit
<1>3. DOMAIN outbox' = DOMAIN outbox /\ DOMAIN audit' = DOMAIN audit
  BY Zenon DEF Commit
<1>4. positions' = IF Recorded(call.op) THEN [positions EXCEPT ![call.id] = Append(@, seq)]
                   ELSE positions
  BY Zenon DEF Commit
<1>5. processed' = processed \cup (IF call.op = "settle" THEN {call.callback} ELSE {})
  BY Zenon DEF Commit
<1> QED
  BY <1>1, <1>2, <1>3, <1>4, <1>5, Zenon DEF CommitWritten

(* The last of an appended sequence is the only new one.                   *)
LEMMA Appended ==
  ASSUME NEW p \in Seq(Nat), NEW n \in Nat, NEW q, q = Append(p, n)
  PROVE  /\ \A i \in DOMAIN q : q[i] = n \/ (i \in DOMAIN p /\ q[i] = p[i])
         /\ \A i, j \in DOMAIN q : i < j => i \in DOMAIN p /\ q[i] = p[i]
  BY SMTT(30)

(* A commit: the rows are those of the contract, the other sessions' rows  *)
(* are not touched, and the transfer's numbers go on increasing.           *)
LEMMA Commits ==
  ASSUME IInv, NEW s \in Sessions, Commit(s)
  PROVE  IInv'
<1>0. tx[s].pc = "written"
  BY DEF Commit
<1>1. PICK call \in AnyCall, row \in Rows, seq \in Nat :
        call = tx[s].call /\ row = tx[s].row /\ seq = tx[s].seq
  BY TxTyped, SMTT(30) DEF IInv
<1>2. PICK old, new : old = transfers[call.id] /\ new = Updated(call.op, old, row)
  BY SMTT(30)
<1>3. /\ tx[s].pc = "written" /\ nextSeq' = nextSeq
      /\ transfers' = [transfers EXCEPT ![call.id] = new]
      /\ DOMAIN outbox' = DOMAIN outbox /\ DOMAIN audit' = DOMAIN audit
      /\ positions' = IF Recorded(call.op) THEN [positions EXCEPT ![call.id] = Append(@, seq)]
                       ELSE positions
      /\ processed' = processed \cup (IF call.op = "settle" THEN {call.callback} ELSE {})
      /\ tx' = [tx EXCEPT ![s] = IdleTx]
      /\ lock' = [i \in TransferIDs |-> IF lock[i] = s THEN None ELSE lock[i]]
  <2>1. CommitWritten(s, call, seq, new)
    BY <1>1, <1>2, CommitWrites
  <2> QED
    BY <2>1 DEF CommitWritten
<1>4. /\ call \in OpenCall /\ call.id \in TransferIDs /\ call.op \in Ops
      /\ Stands(call, row, old) /\ SessionFacts(s)
      /\ call.op = "insert" => ~Exists(call.id)
      /\ call.op # "insert" => Exists(call.id) /\ old.tenant = call.tenant
  <2>1. CommitSet(s, call, row, old, new)
    BY <1>0, <1>1, <1>2, CommitSets, Zenon
  <2> QED
    BY <2>1, Zenon DEF CommitSet
<1>5. /\ new \in Contract!Transfer
      /\ call.op = "insert" => new = row
      /\ call.op # "insert" => new.tenant = old.tenant /\ new.key = old.key
      /\ new.spiMessageID \in {None, Contract!MessageOf(call.id)}
      /\ old.status \in {"settled", "rejected"} =>
           /\ call.op \notin {"insert", "settle"}
           /\ new.status = old.status /\ new.spiMessageID = old.spiMessageID
      /\ call.op = "settle" =>
           /\ new.status = SettlementOutcome(call.callback.status)
           /\ new.spiMessageID = call.callback.spiMessageID
  <2>1. CommitRow(call, row, old, new)
    BY <1>0, <1>1, <1>2, CommitRows, Zenon
  <2> QED
    BY <2>1, Zenon DEF CommitRow
<1>6. transfers \in [TransferIDs -> Rows]
  BY StoreTyped, Zenon DEF IInv, TypeOK, TablesTyped
<1>7. /\ transfers'[call.id] = new
      /\ \A i \in TransferIDs \ {call.id} : transfers'[i] = transfers[i]
      /\ transfers' \in [TransferIDs -> Rows]
  BY <1>3, <1>4, <1>5, <1>6, Zenon DEF Rows
<1>8. /\ tx'[s].pc = "idle" /\ \A o \in Sessions \ {s} : tx'[o] = tx[o]
      /\ tx' \in [Sessions -> Tx]
  BY <1>3, NoCallTyped, Zenon DEF IInv, TypeOK, IdleTx, Tx, NoTransfer
<1>9. \A o \in Sessions : tx'[o].pc # "idle" =>
        o # s /\ tx'[o] = tx[o] /\ tx[o].call.id # call.id /\ SessionFacts(o)
  BY <1>1, <1>3, <1>8, AloneOnRow, Zenon DEF IInv, LocksAndRowsAgree
<1>10. \A o \in Sessions : tx'[o].pc # "idle" => tx[o].call.id \in TransferIDs
  BY <1>9, Zenon DEF SessionFacts, OpenCall, AnyCall
<1>11. new.status # "absent" /\ new.tenant \in Tenants /\ new.key \in Keys
  BY <1>5, Zenon DEF Contract!Transfer, Contract!TransferStatus
<1>12. call.op = "settle" =>
         /\ call.callback \in Contract!Callback /\ call.callback.transfer = call.id
         /\ call.callback.tenant = call.tenant
  BY <1>4 DEF OpenCall, AnyCall
<1>13. positions \in [TransferIDs -> Seq(Nat)] /\ nextSeq \in Nat
  BY SMTT(30) DEF IInv, TypeOK
<1>14. /\ positions' \in [TransferIDs -> Seq(Nat)]
       /\ \A i \in TransferIDs \ {call.id} : positions'[i] = positions[i]
       /\ positions'[call.id] = IF Recorded(call.op) THEN Append(positions[call.id], seq)
                                ELSE positions[call.id]
  BY <1>3, <1>4, <1>13, SMTT(30)
<1>20. TypeOK'
  <2>1. processed' \subseteq Contract!Callback
    BY <1>3, <1>12, SMTT(30) DEF IInv, TypeOK
  <2>2. TablesTyped'
    BY <1>3, <1>7, StoreTyped, SMTT(30) DEF IInv, TypeOK, TablesTyped
  <2>3. lock' \in [TransferIDs -> Sessions \cup {None}]
    BY <1>3, SMTT(30) DEF IInv, TypeOK
  <2> QED
    BY <1>3, <1>8, <1>13, <1>14, <2>1, <2>2, <2>3, StoreTypedNext, SMTT(30) DEF TypeOK
<1>21. DecidedRowIsCurrent'
  BY <1>7, <1>9, <1>10 DEF IInv, DecidedRowIsCurrent
<1>22. DecisionStands'
  <2> SUFFICES ASSUME NEW w \in Writers'
               PROVE  /\ Stands(tx[w].call, tx[w].row, transfers[tx[w].call.id])'
                      /\ \A o \in Writers' \ {w} : Apart(w, o)'
    BY Zenon DEF DecisionStands
  <2>1. /\ w \in Sessions /\ w # s /\ tx'[w] = tx[w] /\ w \in Writers
        /\ tx[w].call.id # call.id /\ tx[w].call.id \in TransferIDs
    BY <1>9, <1>10, SMTT(30) DEF Writers
  <2>2. ASSUME NEW o \in Writers' \ {w} PROVE Apart(w, o)'
    <3>1. tx'[o] = tx[o] /\ o \in Writers \ {w}
      BY <1>9 DEF Writers
    <3> QED
      BY <2>1, <3>1, SMTT(30) DEF IInv, DecisionStands, Apart
  <2>3. PICK c, r : c = tx[w].call /\ r = tx[w].row
    BY SMTT(30)
  <2>4. Stands(c, r, transfers[c.id]) /\ transfers'[c.id] = transfers[c.id]
    BY <1>7, <2>1, <2>3 DEF IInv, DecisionStands
  <2>5. CASE c.op = "insert"
    <3>1. ~Duplicate(c.id, r)
      BY <2>4, <2>5 DEF Stands
    <3>2. new.tenant # r.tenant \/ new.key # r.key
      <4>1. CASE call.op = "insert"
        <5>1. Apart(s, w)
          BY <1>3, <2>1, Zenon DEF IInv, DecisionStands, Writers
        <5> QED
          BY <1>1, <1>5, <2>3, <2>5, <4>1, <5>1, Zenon DEF Apart
      <4>2. CASE call.op # "insert"
        BY <1>2, <1>4, <1>5, <3>1, <4>2, SMTT(30) DEF Duplicate
      <4> QED
        BY <4>1, <4>2
    <3>3. ~Duplicate(c.id, r)'
      BY <1>7, <2>4, <3>1, <3>2 DEF Duplicate, Exists
    <3> QED
      BY <2>1, <2>2, <2>3, <2>5, <3>3 DEF Stands
  <2>6. CASE c.op # "insert"
    <3>0. c.op \in Ops
      BY <1>9, <2>1, <2>3 DEF Writers, SessionFacts, OpenCall, AnyCall
    <3>1. Stands(c, r, transfers[c.id])'
      BY <2>4, <2>6, <3>0, Zenon DEF Ops, Stands, Submitted, CanClaimSPISubmission, CanRecordSPISubmission,
         CanReleaseSPISubmission, CanRecordReviewDecision, CanRecordSettlement
    <3> QED
      BY <2>1, <2>2, <2>3, <3>1, ZenonT(60)
  <2> QED
    BY <2>5, <2>6
<1>23. ASSUME NEW o \in Sessions, tx'[o].pc # "idle" PROVE SessionFacts(o)'
  <2>1. /\ tx'[o] = tx[o] /\ SessionFacts(o) /\ o # s
        /\ tx[o].call.id # call.id /\ tx[o].call.id \in TransferIDs
    BY <1>9, <1>10, <1>23, SMTT(30)
  <2>2. /\ transfers'[tx[o].call.id] = transfers[tx[o].call.id]
        /\ positions'[tx[o].call.id] = positions[tx[o].call.id]
    BY <1>7, <1>14, <2>1, SMTT(30)
  <2>3. lock[tx[o].call.id] = o => lock'[tx[o].call.id] = o
    BY <1>3, <2>1
  <2> QED
    BY <1>3, <2>1, <2>2, <2>3, ZenonT(60) DEF SessionFacts, Exists
<1>24. ASSUME NEW id \in TransferIDs PROVE RowFacts(id)'
  <2>1. RowFacts(id) /\ RowFacts(call.id)
    BY <1>4 DEF IInv, LocksAndRowsAgree
  <2>2. \A i \in DOMAIN positions'[id] : positions'[id][i] <= nextSeq'
    <3>1. positions[id] \in Seq(Nat)
      BY <1>13, Zenon
    <3>2. CASE id # call.id \/ ~Recorded(call.op)
      BY <1>3, <1>14, <2>1, <3>2, Zenon DEF RowFacts
    <3>3. CASE id = call.id /\ Recorded(call.op)
      <4>1. seq <= nextSeq
        BY <1>1, <1>2, <1>3, <1>4, <3>3, ZenonT(60) DEF SessionFacts
      <4>2. \A i \in DOMAIN positions'[id] :
              positions'[id][i] = seq \/
              (i \in DOMAIN positions[id] /\ positions'[id][i] = positions[id][i])
        <5>1. PICK q : q = positions'[id]
          OBVIOUS
        <5>2. q = Append(positions[id], seq)
          BY <1>14, <3>3, <5>1
        <5> QED
          BY <3>1, <5>1, <5>2, Appended
      <4>3. \A i \in DOMAIN positions[id] : positions[id][i] <= nextSeq
        BY <2>1, Zenon DEF RowFacts
      <4> QED
        BY <1>3, <4>1, <4>2, <4>3, Zenon
    <3> QED
      BY <3>2, <3>3
  <2>3. transfers'[id].spiMessageID \in {None, Contract!MessageOf(id)}
    BY <1>5, <1>7, <2>1, SMTT(30) DEF RowFacts
  <2>4. ~Exists(id)' => transfers'[id] = NoTransfer /\ positions'[id] = <<>>
    BY <1>7, <1>11, <1>14, <2>1 DEF RowFacts, Exists
  <2>5. ASSUME NEW other \in TransferIDs \ {id}, Exists(id)'
        PROVE  \/ transfers'[other].tenant # transfers'[id].tenant
               \/ transfers'[other].key # transfers'[id].key
    <3>1. CASE call.op # "insert"
      <4>1. \A i \in TransferIDs : /\ transfers'[i].tenant = transfers[i].tenant
                                   /\ transfers'[i].key = transfers[i].key
        BY <1>2, <1>5, <1>7, <3>1
      <4>2. Exists(id)
        BY <1>4, <1>7, <2>5, <3>1 DEF Exists
      <4> QED
        BY <2>1, <4>1, <4>2, SMTT(30) DEF RowFacts
    <3>2. CASE call.op = "insert"
      <4>1. \A i \in TransferIDs :
              transfers[i].tenant # new.tenant \/ transfers[i].key # new.key
        BY <1>4, <1>5, <3>2 DEF Stands, Duplicate
      <4>2. CASE id = call.id \/ other = call.id
        BY <1>7, <2>5, <4>1, <4>2, SMTT(30)
      <4>3. CASE id # call.id /\ other # call.id
        BY <1>7, <2>1, <2>5, <4>3 DEF RowFacts, Exists
      <4> QED
        BY <4>2, <4>3
    <3> QED
      BY <3>1, <3>2, SMTT(30)
  <2> QED
    BY <2>2, <2>3, <2>4, <2>5 DEF RowFacts
<1>25. ASSUME NEW cb \in processed' PROVE CallbackFacts(cb)'
  <2>1. CASE cb \in processed
    <3>1. CallbackFacts(cb) /\ cb.transfer \in TransferIDs
      BY <2>1 DEF IInv, LocksAndRowsAgree, TypeOK, Contract!Callback
    <3>2. CASE cb.transfer # call.id
      BY <1>7, <3>1, <3>2, SMTT(30) DEF CallbackFacts
    <3>3. CASE cb.transfer = call.id
      <4>1. old.status \in {"settled", "rejected"}
        BY <1>2, <3>1, <3>3, SMTT(30) DEF CallbackFacts, SettlementOutcome
      <4> QED
        BY <1>2, <1>5, <1>7, <3>1, <3>3, <4>1 DEF CallbackFacts
    <3> QED
      BY <3>2, <3>3
  <2>2. CASE cb \notin processed
    <3>1. cb = call.callback /\ call.op = "settle"
      BY <1>3, <2>2
    <3> QED
      BY <1>4, <1>5, <1>7, <1>12, <3>1, SMTT(30) DEF CallbackFacts
  <2> QED
    BY <2>1, <2>2
<1>26. LocksAndRowsAgree'
  BY <1>23, <1>24, <1>25, SMTT(30) DEF LocksAndRowsAgree
<1>27. OneCallbackPerMessage'
  <2>1. ASSUME NEW a \in processed, call.op = "settle",
               a.spiMessageID = call.callback.spiMessageID
        PROVE  FALSE
    <3>1. CallbackFacts(a) /\ a.transfer \in TransferIDs /\ a.spiMessageID \in Contract!MessageIDs
      BY DEF IInv, LocksAndRowsAgree, TypeOK, Contract!Callback
    <3>2. RowFacts(a.transfer) /\ RowFacts(call.id)
      BY <1>4, <3>1 DEF IInv, LocksAndRowsAgree
    <3>3. old.spiMessageID = a.spiMessageID /\ old.status = "approved"
      BY <1>4, <2>1, ZenonT(60) DEF Stands, CanRecordSettlement
    <3>4. Contract!MessageOf(a.transfer) = Contract!MessageOf(call.id)
      BY <1>2, <3>1, <3>2, <3>3, PostgresAssumption, SMTT(30) DEF RowFacts, CallbackFacts
    <3>5. a.transfer = call.id
      BY <3>4, SMTT(30) DEF Contract!MessageOf
    <3> QED
      BY <1>2, <3>1, <3>3, <3>5 DEF CallbackFacts, SettlementOutcome
  <2> QED
    BY <1>3, <2>1 DEF IInv, OneCallbackPerMessage
<1>28. SequenceFollowsCommits'
  <2> SUFFICES ASSUME NEW id \in TransferIDs, NEW i \in DOMAIN positions'[id],
                      NEW j \in DOMAIN positions'[id], i < j
               PROVE  positions'[id][i] < positions'[id][j]
    BY DEF SequenceFollowsCommits
  <2>1. positions[id] \in Seq(Nat)
    BY <1>13
  <2>2. CASE id # call.id \/ ~Recorded(call.op)
    BY <1>14, <2>2 DEF IInv, SequenceFollowsCommits
  <2>3. CASE id = call.id /\ Recorded(call.op)
    <3>1. \A k \in DOMAIN positions[id] : positions[id][k] < seq
      BY <1>1, <1>2, <1>3, <1>4, <2>3, Zenon DEF SessionFacts
    <3>2. \A k, l \in DOMAIN positions[id] : k < l => positions[id][k] < positions[id][l]
      BY SMTT(30) DEF IInv, SequenceFollowsCommits
    <3>3. positions'[id] = Append(positions[id], seq)
      BY <1>14, <2>3
    <3>4. /\ positions'[id][j] = seq \/
             (j \in DOMAIN positions[id] /\ positions'[id][j] = positions[id][j])
          /\ i \in DOMAIN positions[id] /\ positions'[id][i] = positions[id][i]
      <4>1. PICK q : q = positions'[id]
        OBVIOUS
      <4>2. /\ q[j] = seq \/ (j \in DOMAIN positions[id] /\ q[j] = positions[id][j])
            /\ i \in DOMAIN positions[id] /\ q[i] = positions[id][i]
        BY <2>1, <3>3, <4>1, Appended, SMTT(30)
      <4> QED
        BY <4>1, <4>2
    <3> QED
      BY <3>1, <3>2, <3>4, Zenon
  <2> QED
    BY <2>2, <2>3
<1> QED
  BY <1>20, <1>21, <1>22, <1>26, <1>27, <1>28, Zenon DEF IInv

-----------------------------------------------------------------------------
Aged(tr) == [tr EXCEPT !.spiClaimedUntil = Contract!Elapse(@)]

(* A row one unit of time later.                                           *)
LEMMA AgedRow ==
  ASSUME NEW tr \in Rows
  PROVE  /\ Aged(tr) \in Rows
         /\ Aged(tr).tenant = tr.tenant /\ Aged(tr).key = tr.key
         /\ Aged(tr).status = tr.status /\ Aged(tr).spiMessageID = tr.spiMessageID
         /\ Aged(tr).spiClaimToken = tr.spiClaimToken
         /\ tr.spiClaimedUntil \in Nat /\ Aged(tr).spiClaimedUntil \in Nat
         /\ Aged(tr).spiClaimedUntil <= tr.spiClaimedUntil
         /\ tr.spiClaimedUntil = 0 => Aged(tr) = tr
<1>1. tr.spiClaimedUntil \in Nat
  BY DEF Rows, Contract!Transfer, NoTransfer
<1>2. PICK left \in Nat : /\ left = Contract!Elapse(tr.spiClaimedUntil)
                          /\ left <= tr.spiClaimedUntil
                          /\ tr.spiClaimedUntil = 0 => left = 0
  BY <1>1 DEF Contract!Elapse
<1>3. Aged(tr) = [tr EXCEPT !.spiClaimedUntil = left]
  BY <1>2, Zenon DEF Aged
<1>4. CASE tr \in Contract!Transfer
  BY <1>1, <1>2, <1>3, <1>4 DEF Rows, Contract!Transfer
<1>5. CASE tr = NoTransfer
  BY <1>1, <1>2, <1>3, <1>5 DEF Rows, NoTransfer
<1> QED
  BY <1>4, <1>5 DEF Rows

(* A transaction one unit of time later.                                   *)
LEMMA AgedTx ==
  ASSUME TypeOK, Tick, NEW s \in Sessions
  PROVE  /\ tx'[s] \in Tx /\ tx'[s].pc = tx[s].pc /\ tx'[s].seq = tx[s].seq
         /\ tx'[s].row = Aged(tx[s].row)
         /\ tx'[s].call = [tx[s].call EXCEPT !.until = Contract!Elapse(@)]
         /\ tx'[s].call \in AnyCall
         /\ tx'[s].call.op = tx[s].call.op /\ tx'[s].call.tenant = tx[s].call.tenant
         /\ tx'[s].call.id = tx[s].call.id /\ tx'[s].call.token = tx[s].call.token
         /\ tx'[s].call.status = tx[s].call.status
         /\ tx'[s].call.callback = tx[s].call.callback
         /\ tx[s].call \in OpenCall => tx'[s].call \in OpenCall
<1>1. PICK t \in Tx : t = tx[s]
  BY DEF TypeOK
<1>2. tx'[s] = [t EXCEPT !.row.spiClaimedUntil = Contract!Elapse(@),
                         !.call.until = Contract!Elapse(@)]
  BY <1>1, Zenon DEF Tick
<1>3. PICK call \in AnyCall, row \in Rows : call = t.call /\ row = t.row
  BY DEF Tx, Rows
<1>4. t = [pc |-> t.pc, call |-> call, row |-> row, seq |-> t.seq]
  BY <1>3 DEF Tx
<1>5. PICK left : left = Contract!Elapse(call.until)
  OBVIOUS
<1>6. left \in 0..ClaimTTL
  <2>1. call.until \in Nat /\ call.until <= ClaimTTL /\ ClaimTTL \in Nat
    BY PostgresAssumption DEF AnyCall
  <2> QED
    BY <1>5, <2>1 DEF Contract!Elapse
<1>7. PICK c : c = [call EXCEPT !.until = left]
  BY Zenon
<1>8. /\ c \in AnyCall /\ c.op = call.op /\ c.tenant = call.tenant /\ c.id = call.id
      /\ c.token = call.token /\ c.status = call.status /\ c.callback = call.callback
  BY <1>6, <1>7, Zenon DEF AnyCall
<1>9. call \in OpenCall => c \in OpenCall
  BY <1>8 DEF OpenCall
<1>10. Aged(row) \in Rows
  BY AgedRow
<1>11. tx'[s] = [pc |-> t.pc, call |-> c, row |-> Aged(row), seq |-> t.seq]
  <2>1. PICK p, q, n : p = t.pc /\ q = t.seq /\ n = Contract!Elapse(row.spiClaimedUntil)
    OBVIOUS
  <2>2. t = [pc |-> p, call |-> call, row |-> row, seq |-> q]
    BY <1>4, <2>1
  <2>3. tx'[s] = [t EXCEPT !.row.spiClaimedUntil = n, !.call.until = left]
    BY <1>2, <1>3, <1>5, <2>1
  <2>4. tx'[s] = [pc |-> p, call |-> [call EXCEPT !.until = left],
                  row |-> [row EXCEPT !.spiClaimedUntil = n], seq |-> q]
    BY <2>2, <2>3, Zenon
  <2>5. Aged(row) = [row EXCEPT !.spiClaimedUntil = n]
    BY <2>1, Zenon DEF Aged
  <2> QED
    BY <1>7, <2>1, <2>4, <2>5
<1>12. tx'[s] \in Tx
  <2>1. t.pc \in {"idle", "locked", "checked", "written"} /\ t.seq \in Nat
    BY DEF Tx
  <2> QED
    BY <1>8, <1>10, <1>11, <2>1 DEF Tx, Rows
<1>13. /\ tx'[s].pc = t.pc /\ tx'[s].seq = t.seq /\ tx'[s].row = Aged(row) /\ tx'[s].call = c
  BY <1>11
<1> QED
  BY <1>1, <1>3, <1>5, <1>7, <1>8, <1>9, <1>12, <1>13, Zenon

(* Time passes: a written claim's lease runs, the row it is for is free    *)
(* and stays so, and every other guard ignores the time.                   *)
LEMMA Ages ==
  ASSUME IInv, Tick
  PROVE  IInv'
<1>1. /\ processed' = processed /\ outbox' = outbox /\ audit' = audit
      /\ positions' = positions /\ nextSeq' = nextSeq /\ lock' = lock
  BY Zenon DEF Tick
<1>2. transfers \in [TransferIDs -> Rows]
  BY StoreTyped, Zenon DEF IInv, TypeOK, TablesTyped
<1>3. \A id \in TransferIDs : transfers'[id] = Aged(transfers[id])
  BY Zenon DEF Tick, Aged
<1>4. transfers' \in [TransferIDs -> Rows]
  <2>1. DOMAIN transfers' = TransferIDs /\ transfers' = [id \in TransferIDs |-> transfers'[id]]
    BY Zenon DEF Tick
  <2> QED
    BY <1>2, <1>3, <2>1, AgedRow, ZenonT(60)
<1>5. \A id \in TransferIDs :
        /\ transfers'[id].tenant = transfers[id].tenant /\ transfers'[id].key = transfers[id].key
        /\ transfers'[id].status = transfers[id].status
        /\ transfers'[id].spiMessageID = transfers[id].spiMessageID
        /\ transfers'[id].spiClaimToken = transfers[id].spiClaimToken
        /\ transfers[id].spiClaimedUntil = 0 => transfers'[id].spiClaimedUntil = 0
        /\ transfers[id] = NoTransfer => transfers'[id] = NoTransfer
  BY <1>2, <1>3, AgedRow DEF NoTransfer
<1>6. \A id \in TransferIDs : Exists(id)' <=> Exists(id)
  BY <1>5 DEF Exists
<1>7. ASSUME NEW s \in Sessions
      PROVE  /\ tx'[s].pc = tx[s].pc /\ tx'[s].seq = tx[s].seq /\ tx'[s] \in Tx
             /\ tx'[s].row = Aged(tx[s].row) /\ tx[s].row \in Rows
             /\ tx'[s].call.op = tx[s].call.op /\ tx'[s].call.tenant = tx[s].call.tenant
             /\ tx'[s].call.id = tx[s].call.id /\ tx'[s].call.token = tx[s].call.token
             /\ tx'[s].call.status = tx[s].call.status
             /\ tx'[s].call.callback = tx[s].call.callback
             /\ tx[s].call \in OpenCall => tx'[s].call \in OpenCall
             /\ tx'[s].row.tenant = tx[s].row.tenant /\ tx'[s].row.key = tx[s].row.key
             /\ tx'[s].row.status = tx[s].row.status
             /\ tx'[s].row.spiMessageID = tx[s].row.spiMessageID
             /\ tx'[s].row.spiClaimToken = tx[s].row.spiClaimToken
             /\ tx'[s].row.spiClaimedUntil \in Nat /\ tx[s].row.spiClaimedUntil \in Nat
             /\ tx'[s].row.spiClaimedUntil <= tx[s].row.spiClaimedUntil
             /\ tx[s].row.spiClaimedUntil = 0 => tx'[s].row = tx[s].row
  <2>1. PICK row \in Rows : row = tx[s].row
    BY TxTyped DEF IInv
  <2>2. tx'[s].row = Aged(row)
    BY <2>1, AgedTx, ZenonT(60) DEF IInv
  <2> QED
    BY <2>1, <2>2, AgedRow, AgedTx, ZenonT(60) DEF IInv
<1>8. \A s \in Sessions : tx[s].pc # "idle" => SessionFacts(s) /\ tx[s].call.id \in TransferIDs
  BY DEF IInv, LocksAndRowsAgree, SessionFacts, OpenCall, AnyCall
<1>10. TypeOK'
  <2>1. processed' \subseteq Contract!Callback
    BY <1>1, Zenon DEF IInv, TypeOK
  <2>2. TablesTyped'
    BY <1>1, <1>4, StoreTyped DEF IInv, TypeOK, TablesTyped
  <2>3. tx' \in [Sessions -> Tx]
    <3>1. tx' = [s \in Sessions |-> tx'[s]]
      BY Zenon DEF Tick
    <3> QED
      BY <1>7, <3>1, Zenon
  <2> QED
    BY <1>1, <2>1, <2>2, <2>3, StoreTypedNext DEF TypeOK, IInv
<1>11. DecidedRowIsCurrent'
  BY <1>3, <1>7, <1>8, SMTT(30) DEF IInv, DecidedRowIsCurrent
<1>12. ASSUME NEW w \in Writers' PROVE Stands(tx[w].call, tx[w].row, transfers[tx[w].call.id])'
  <2>1. w \in Sessions /\ w \in Writers
    BY <1>7 DEF Writers
  <2>2. PICK c, r, now, d, q, later :
          /\ c = tx[w].call /\ r = tx[w].row /\ now = transfers[c.id]
          /\ d = tx'[w].call /\ q = tx'[w].row /\ later = transfers'[c.id]
    BY Zenon
  <2>3. Stands(c, r, now) /\ c.op \in Ops /\ c.id \in TransferIDs
    BY <1>8, <2>1, <2>2, ZenonT(60) DEF IInv, DecisionStands, Writers, SessionFacts, OpenCall, AnyCall
  <2>4. /\ d.op = c.op /\ d.id = c.id /\ d.token = c.token /\ d.status = c.status
        /\ d.callback = c.callback
        /\ q.tenant = r.tenant /\ q.key = r.key /\ q.status = r.status
        /\ q.spiMessageID = r.spiMessageID /\ q.spiClaimToken = r.spiClaimToken
        /\ q.spiClaimedUntil \in Nat /\ r.spiClaimedUntil \in Nat
        /\ q.spiClaimedUntil <= r.spiClaimedUntil
    BY <1>7, <2>1, <2>2, ZenonT(60)
  <2>5. /\ later.status = now.status /\ later.spiMessageID = now.spiMessageID
        /\ later.spiClaimToken = now.spiClaimToken
        /\ now.spiClaimedUntil = 0 => later.spiClaimedUntil = 0
    BY <1>5, <2>2, <2>3
  <2>6. Stands(d, q, later)'
    <3>1. CASE c.op = "insert"
      <4>1. ~Duplicate(c.id, r)
        BY <2>3, <3>1, SMTT(30) DEF Stands
      <4>2. ~Duplicate(d.id, q)'
        BY <1>5, <1>6, <2>3, <2>4, <4>1 DEF Duplicate
      <4> QED
        BY <2>4, <3>1, <4>2 DEF Stands
    <3>2. CASE c.op = "claim"
      BY <2>3, <2>4, <2>5, <3>2, PostgresAssumption DEF Stands, Submitted, CanClaimSPISubmission
    <3>3. CASE c.op = "record"
      BY <2>3, <2>4, <2>5, <3>3 DEF Stands, CanRecordSPISubmission
    <3>4. CASE c.op = "release"
      BY <2>3, <2>4, <2>5, <3>4, PostgresAssumption DEF Stands, Submitted, CanReleaseSPISubmission
    <3>5. CASE c.op = "review"
      BY <2>3, <2>4, <2>5, <3>5 DEF Stands, CanRecordReviewDecision
    <3>6. CASE c.op = "settle"
      BY <2>3, <2>4, <2>5, <3>6, ZenonT(60) DEF Stands, CanRecordSettlement
    <3> QED
      BY <2>3, <3>1, <3>2, <3>3, <3>4, <3>5, <3>6 DEF Ops
  <2> QED
    BY <2>2, <2>4, <2>6, SMTT(30)
<1>13. ASSUME NEW w \in Writers', NEW o \in Writers' \ {w} PROVE Apart(w, o)'
  <2>1. w \in Writers /\ o \in Writers /\ w \in Sessions /\ o \in Sessions
    BY <1>7 DEF Writers
  <2> QED
    BY <1>7, <2>1, SMTT(30) DEF IInv, DecisionStands, Apart
<1>14. DecisionStands'
  BY <1>12, <1>13, Zenon DEF DecisionStands
<1>15. ASSUME NEW s \in Sessions, tx'[s].pc # "idle" PROVE SessionFacts(s)'
  <2>1. SessionFacts(s) /\ tx[s].call.id \in TransferIDs
    BY <1>7, <1>8, <1>15, Zenon
  <2>2. ASSUME tx[s].call.op = "insert"
        PROVE  \E req \in Contract!Request, decision \in Contract!Decisions :
                 tx'[s].row = Contract!NewTransfer(req, decision)
    <3>1. PICK req \in Contract!Request, decision \in Contract!Decisions :
            tx[s].row = Contract!NewTransfer(req, decision)
      BY <2>1, <2>2, ZenonT(60) DEF SessionFacts
    <3>2. tx[s].row.spiClaimedUntil = 0
      BY <3>1, NewTyped, ZenonT(60)
    <3> QED
      BY <1>7, <3>1, <3>2, ZenonT(60)
  <2>3. /\ tx'[s].call \in OpenCall /\ tx'[s].pc = tx[s].pc
        /\ tx'[s].call.op = tx[s].call.op /\ tx'[s].call.id = tx[s].call.id
        /\ tx'[s].call.tenant = tx[s].call.tenant
        /\ tx'[s].row.status = tx[s].row.status /\ tx'[s].seq = tx[s].seq
    BY <1>7, <2>1, Zenon DEF SessionFacts
  <2> QED
    BY <1>1, <1>5, <1>6, <2>1, <2>2, <2>3, ZenonT(60) DEF SessionFacts
<1>16. ASSUME NEW id \in TransferIDs PROVE RowFacts(id)'
  <2>1. RowFacts(id)
    BY Zenon DEF IInv, LocksAndRowsAgree
  <2> QED
    BY <1>1, <1>5, <1>6, <2>1 DEF RowFacts
<1>17. ASSUME NEW cb \in processed' PROVE CallbackFacts(cb)'
  <2>1. CallbackFacts(cb) /\ cb.transfer \in TransferIDs
    BY <1>1, SMTT(30) DEF IInv, LocksAndRowsAgree, TypeOK, Contract!Callback
  <2> QED
    BY <1>5, <2>1 DEF CallbackFacts
<1>18. LocksAndRowsAgree'
  BY <1>15, <1>16, <1>17 DEF LocksAndRowsAgree
<1>19. OneCallbackPerMessage' /\ SequenceFollowsCommits'
  BY <1>1 DEF IInv, OneCallbackPerMessage, SequenceFollowsCommits
<1> QED
  BY <1>10, <1>11, <1>14, <1>18, <1>19, Zenon DEF IInv

-----------------------------------------------------------------------------
(* The initial state satisfies the invariant.                              *)
LEMMA Starts == Init => IInv
<1> SUFFICES ASSUME Init PROVE IInv
  OBVIOUS
<1>1. \A s \in Sessions : tx[s].pc = "idle"
  BY DEF Init, IdleTx
<1>2. TypeOK
  <2>1. tx \in [Sessions -> Tx]
    BY NoCallTyped DEF Init, IdleTx, Tx, NoTransfer
  <2>2. TablesTyped
    BY DEF Init, TablesTyped, Rows
  <2>3. lock \in [TransferIDs -> Sessions \cup {None}] /\ nextSeq \in Nat /\ processed = {}
    BY DEF Init
  <2>4. positions \in [TransferIDs -> Seq(Nat)]
    BY SMTT(30) DEF Init
  <2> QED
    BY <2>1, <2>2, <2>3, <2>4, StoreTyped, SMTT(30) DEF TypeOK
<1>3. \A id \in TransferIDs : RowFacts(id)
  BY SMTT(30) DEF Init, RowFacts, Exists, NoTransfer
<1>4. DecidedRowIsCurrent /\ DecisionStands
  BY <1>1 DEF DecidedRowIsCurrent, DecisionStands, Writers
<1>5. LocksAndRowsAgree
  BY <1>1, <1>3 DEF LocksAndRowsAgree, Init
<1>6. OneCallbackPerMessage /\ SequenceFollowsCommits
  BY DEF Init, OneCallbackPerMessage, SequenceFollowsCommits
<1> QED
  BY <1>2, <1>4, <1>5, <1>6 DEF IInv

(* Every step keeps the invariant.                                         *)
LEMMA Steps == IInv /\ [Next]_pgVars => IInv'
<1> SUFFICES ASSUME IInv, [Next]_pgVars PROVE IInv'
  OBVIOUS
<1>1. ASSUME NEW s \in Sessions, Session(s) PROVE IInv'
  <2>1. CASE Rollback(s)
    BY <2>1, Finishes DEF Rollback
  <2> QED
    BY <1>1, <2>1, Inserts, Selects, Checks, Claims, Records, Releases, Reviews, Settles, Commits,
       Zenon DEF Session
<1>2. CASE Tick
  BY <1>2, Ages
<1>3. CASE UNCHANGED pgVars
  <2>1. /\ transfers' = transfers /\ processed' = processed /\ outbox' = outbox
        /\ audit' = audit /\ positions' = positions /\ nextSeq' = nextSeq
        /\ lock' = lock /\ tx' = tx
    BY <1>3 DEF pgVars
  <2>2. TablesTyped'
    BY <2>1, StoreTyped DEF IInv, TypeOK, TablesTyped
  <2>3. TypeOK'
    BY <2>1, <2>2, StoreTypedNext, SMTT(30) DEF IInv, TypeOK
  <2>4. DecidedRowIsCurrent' /\ OneCallbackPerMessage' /\ SequenceFollowsCommits'
    BY <2>1 DEF IInv, DecidedRowIsCurrent, OneCallbackPerMessage, SequenceFollowsCommits
  <2>5. DecisionStands'
    <3>1. Writers' = Writers
      BY <2>1 DEF Writers
    <3>2. ASSUME NEW w \in Writers PROVE Stands(tx[w].call, tx[w].row, transfers[tx[w].call.id])'
      <4>1. Stands(tx[w].call, tx[w].row, transfers[tx[w].call.id])
        BY SMTT(30) DEF IInv, DecisionStands
      <4> QED
        BY <2>1, <4>1, Zenon DEF Stands, Duplicate, Exists
    <3>3. ASSUME NEW w \in Writers, NEW o \in Writers \ {w} PROVE Apart(w, o)'
      BY <2>1 DEF IInv, DecisionStands, Apart
    <3> QED
      BY <3>1, <3>2, <3>3, Zenon DEF DecisionStands
  <2>6. LocksAndRowsAgree'
    <3>1. ASSUME NEW s \in Sessions, tx'[s].pc # "idle" PROVE SessionFacts(s)'
      <4>1. SessionFacts(s)
        BY <2>1, <3>1, SMTT(30) DEF IInv, LocksAndRowsAgree
      <4> QED
        BY <2>1, <4>1, SMTT(30) DEF SessionFacts, Exists
    <3>2. ASSUME NEW id \in TransferIDs PROVE RowFacts(id)'
      BY <2>1, SMTT(30) DEF IInv, LocksAndRowsAgree, RowFacts, Exists
    <3>3. ASSUME NEW cb \in processed' PROVE CallbackFacts(cb)'
      BY <2>1 DEF IInv, LocksAndRowsAgree, CallbackFacts
    <3> QED
      BY <3>1, <3>2, <3>3, SMTT(30) DEF LocksAndRowsAgree
  <2> QED
    BY <2>3, <2>4, <2>5, <2>6 DEF IInv
<1> QED
  BY <1>1, <1>2, <1>3 DEF Next

(* The state has its types, in every behaviour of any number of sessions.  *)
THEOREM TypeCorrect == Spec => []TypeOK
  BY Starts, Steps, PTL DEF Spec, IInv

(* No transaction decides on a stale row.                                  *)
THEOREM DecisionsCurrent == Spec => []DecidedRowIsCurrent
  BY Starts, Steps, PTL DEF Spec, IInv

(* A decision once written stands until its commit.                        *)
THEOREM DecisionsCorrect == Spec => []DecisionStands
  BY Starts, Steps, PTL DEF Spec, IInv

(* Locks, committed rows and processed callbacks agree.                    *)
THEOREM RowsCorrect == Spec => []LocksAndRowsAgree
  BY Starts, Steps, PTL DEF Spec, IInv

(* At most one callback is ever recorded for a message.                    *)
THEOREM CallbackOnce == Spec => []OneCallbackPerMessage
  BY Starts, Steps, PTL DEF Spec, IInv

(* A transfer's events are numbered in the order of its commits.           *)
THEOREM NumbersFollowCommits == Spec => []SequenceFollowsCommits
  BY Starts, Steps, PTL DEF Spec, IInv

-----------------------------------------------------------------------------
(* The contract's operators are those of the modules both are built on.    *)
LEMMA SameRail ==
  /\ \A tr : Contract!Submitted(tr) = Submitted(tr)
  /\ \A tr, until : Contract!CanClaimSPISubmission(tr, until) = CanClaimSPISubmission(tr, until)
  /\ \A tr, token : Contract!CanRecordSPISubmission(tr, token) = CanRecordSPISubmission(tr, token)
  /\ \A tr, token : Contract!CanReleaseSPISubmission(tr, token) = CanReleaseSPISubmission(tr, token)
  /\ \A tr, st : Contract!CanRecordReviewDecision(tr, st) = CanRecordReviewDecision(tr, st)
  /\ \A tr, cb : Contract!CanRecordSettlement(tr, cb) = CanRecordSettlement(tr, cb)
  BY Zenon DEF Contract!Submitted, Submitted, Contract!CanClaimSPISubmission, CanClaimSPISubmission,
     Contract!CanRecordSPISubmission, CanRecordSPISubmission, Contract!CanReleaseSPISubmission,
     CanReleaseSPISubmission, Contract!CanRecordReviewDecision, CanRecordReviewDecision,
     Contract!CanRecordSettlement, CanRecordSettlement, Contract!Terminal, Terminal,
     Contract!SettlementStatus, SettlementStatus

(* ... what the transitions give ...                                       *)
LEMMA SameTransitions ==
  /\ \A tr, token, until :
       Contract!ClaimSPISubmission(tr, token, until) = ClaimSPISubmission(tr, token, until)
  /\ \A tr, m : Contract!RecordSPISubmission(tr, m) = RecordSPISubmission(tr, m)
  /\ \A tr, after : Contract!ReleaseSPISubmission(tr, after) = ReleaseSPISubmission(tr, after)
  /\ \A tr, st : Contract!RecordReviewDecision(tr, st) = RecordReviewDecision(tr, st)
  /\ \A tr, cb : Contract!RecordSettlement(tr, cb) = RecordSettlement(tr, cb)
  /\ \A st : Contract!SettlementOutcome(st) = SettlementOutcome(st)
  BY Zenon DEF Contract!ClaimSPISubmission, ClaimSPISubmission, Contract!RecordSPISubmission,
     RecordSPISubmission, Contract!ReleaseSPISubmission, ReleaseSPISubmission,
     Contract!RecordReviewDecision, RecordReviewDecision, Contract!RecordSettlement,
     RecordSettlement, Contract!SettlementOutcome, SettlementOutcome

(* ... and the records that go with them.                                  *)
LEMMA SameEvents ==
  /\ \A d : Contract!CreateEvents(d) = CreateEvents(d)
  /\ \A st : Contract!ReviewEvents(st) = ReviewEvents(st)
  /\ \A st : Contract!SettlementEvents(st) = SettlementEvents(st)
  /\ Contract!SubmissionEvents = SubmissionEvents
  /\ Contract!CreateAudit = CreateAudit /\ Contract!ReviewAudit = ReviewAudit
  /\ Contract!SubmissionAudit = SubmissionAudit /\ Contract!SettlementAudit = SettlementAudit
  BY DEF Contract!CreateEvents, CreateEvents, Contract!ReviewEvents, ReviewEvents,
     Contract!SettlementEvents, SettlementEvents, Contract!SubmissionEvents, SubmissionEvents,
     Contract!CreateAudit, CreateAudit, Contract!ReviewAudit, ReviewAudit,
     Contract!SubmissionAudit, SubmissionAudit, Contract!SettlementAudit, SettlementAudit

(* The index is a function of the rows' tenants and keys.                  *)
LEMMA IndexKept ==
  ASSUME \A id \in TransferIDs :
           transfers'[id].tenant = transfers[id].tenant /\ transfers'[id].key = transfers[id].key
  PROVE  Index' = Index
<1> DEFINE Owners(k) ==
      {id \in TransferIDs : transfers[id].tenant = k[1] /\ transfers[id].key = k[2]}
           Owner(ids) == IF ids = {} THEN None ELSE CHOOSE id \in ids : TRUE
<1>1. ASSUME NEW k PROVE Owners(k)' = Owners(k)
  OBVIOUS
<1>2. Index = [k \in Tenants \X Keys |-> Owner(Owners(k))]
  BY Zenon DEF Index
<1>3. Index' = [k \in Tenants \X Keys |-> Owner(Owners(k)')]
  BY Zenon DEF Index
<1> HIDE DEF Owners, Owner
<1> QED
  BY <1>1, <1>2, <1>3, Zenon

(* The recorded callbacks are a function of the table.                     *)
LEMMA RecordedKept ==
  ASSUME processed' = processed
  PROVE  ProcessedCallbacks' = ProcessedCallbacks
  BY DEF ProcessedCallbacks, Processed

(* What is not committed is not seen.                                      *)
LEMMA Unseen ==
  ASSUME UNCHANGED committed
  PROVE  UNCHANGED Contract!storeVars
<1>1. transfers' = transfers /\ processed' = processed /\ outbox' = outbox /\ audit' = audit
  BY DEF committed
<1> QED
  BY <1>1, IndexKept, RecordedKept DEF Contract!storeVars

(* Time passes for the contract as it does here.                           *)
LEMMA TickRefines ==
  ASSUME IInv, Tick
  PROVE  Contract!StoreNext
<1>1. /\ processed' = processed /\ outbox' = outbox /\ audit' = audit
      /\ transfers' = [id \in TransferIDs |->
                         [transfers[id] EXCEPT !.spiClaimedUntil = Contract!Elapse(@)]]
  BY Zenon DEF Tick
<1>2. transfers \in [TransferIDs -> Rows]
  BY StoreTyped DEF IInv, TypeOK, TablesTyped
<1>3. ASSUME NEW id \in TransferIDs
      PROVE  transfers'[id].tenant = transfers[id].tenant /\ transfers'[id].key = transfers[id].key
  <2>1. transfers[id] \in Rows /\ transfers'[id] = Aged(transfers[id])
    BY <1>1, <1>2 DEF Aged
  <2> QED
    BY <2>1, AgedRow
<1>4. Index' = Index /\ ProcessedCallbacks' = ProcessedCallbacks
  BY <1>1, <1>3, IndexKept, RecordedKept
<1>5. Contract!Age
  BY <1>1, <1>4 DEF Contract!Age
<1> QED
  BY <1>5, Zenon DEF Contract!StoreNext

(* The initial states are those of the contract.                           *)
LEMMA InitRefines == Init => Contract!StoreInit
<1> SUFFICES ASSUME Init PROVE Contract!StoreInit
  OBVIOUS
<1>1. ASSUME NEW k \in Tenants \X Keys PROVE Index[k] = None
  <2>1. {id \in TransferIDs : transfers[id].tenant = k[1] /\ transfers[id].key = k[2]} = {}
    BY PostgresAssumption DEF Init, NoTransfer
  <2> QED
    BY <2>1, Zenon DEF Index
<1>2. Index = [k \in Tenants \X Keys |-> None]
  BY <1>1, Zenon DEF Index
<1>3. Contract!MessageIDs = {<<"spi", id>> : id \in TransferIDs}
  BY Zenon DEF Contract!MessageIDs, Contract!MessageOf
<1>4. ProcessedCallbacks = [m \in Tenants \X Contract!MessageIDs |-> None]
  <2>1. \A t, m : Processed(t, m) = {}
    BY DEF Init, Processed
  <2> QED
    BY <1>3, <2>1, Zenon DEF ProcessedCallbacks
<1> QED
  BY <1>2, <1>4, Zenon DEF Init, Contract!StoreInit, NoTransfer, Contract!NoTransfer

(* An inserted row owns its key in the index, and only that.               *)
LEMMA IndexGains ==
  ASSUME IInv, NEW id \in TransferIDs, NEW new \in Contract!Transfer,
         transfers' = [transfers EXCEPT ![id] = new], ~Exists(id), ~Duplicate(id, new)
  PROVE  /\ Index[<<new.tenant, new.key>>] = None
         /\ Index' = [Index EXCEPT ![<<new.tenant, new.key>>] = id]
<1> DEFINE Owners(k) ==
      {i \in TransferIDs : transfers[i].tenant = k[1] /\ transfers[i].key = k[2]}
           Owner(ids) == IF ids = {} THEN None ELSE CHOOSE i \in ids : TRUE
<1>1. PICK own \in Tenants \X Keys : own = <<new.tenant, new.key>>
  BY Zenon DEF Contract!Transfer
<1>2. own[1] = new.tenant /\ own[2] = new.key
  BY <1>1, SMTT(30)
<1>3. DOMAIN transfers = TransferIDs
  BY StoreTyped DEF IInv, TypeOK, TablesTyped
<1>4. /\ transfers'[id] = new
      /\ \A i \in TransferIDs \ {id} : transfers'[i] = transfers[i]
  BY <1>3
<1>5. Owners(own) = {}
  BY <1>2 DEF Duplicate
<1>6. Owners(own)' = {id}
  BY <1>2, <1>4, SMTT(30) DEF Duplicate
<1>7. transfers[id].tenant = None
  BY SMTT(30) DEF IInv, LocksAndRowsAgree, RowFacts, NoTransfer
<1>8. ASSUME NEW k \in Tenants \X Keys, k # own PROVE Owners(k)' = Owners(k)
  <2>1. new.tenant # k[1] \/ new.key # k[2]
    BY <1>1, <1>8
  <2>2. transfers[id].tenant # k[1]
    BY <1>7, PostgresAssumption
  <2> QED
    BY <1>4, <2>1, <2>2
<1>9. Index = [k \in Tenants \X Keys |-> Owner(Owners(k))]
  BY Zenon DEF Index
<1>10. Index' = [k \in Tenants \X Keys |-> Owner(Owners(k)')]
  BY Zenon DEF Index
<1>11. Owner({}) = None /\ Owner({id}) = id
  OBVIOUS
<1> HIDE DEF Owners, Owner
<1>12. Index[own] = None
  BY <1>5, <1>9, <1>11, Zenon
<1>13. Index' = [Index EXCEPT ![own] = id]
  BY <1>6, <1>8, <1>9, <1>10, <1>11, Zenon
<1> QED
  BY <1>1, <1>12, <1>13

(* A recorded callback is found under its message, and only there.         *)
LEMMA RecordedGains ==
  ASSUME NEW cb \in Contract!Callback, processed' = processed \cup {cb},
         Processed(cb.tenant, cb.spiMessageID) = {}
  PROVE  /\ ProcessedCallbacks[<<cb.tenant, cb.spiMessageID>>] = None
         /\ ProcessedCallbacks' =
              [ProcessedCallbacks EXCEPT ![<<cb.tenant, cb.spiMessageID>>] = cb]
<1> DEFINE One(cbs) == IF cbs = {} THEN None ELSE CHOOSE c \in cbs : TRUE
           Found(m) == Processed(m[1], m[2])
<1>1. PICK own \in Tenants \X Contract!MessageIDs : own = <<cb.tenant, cb.spiMessageID>>
  BY Zenon DEF Contract!Callback
<1>2. own[1] = cb.tenant /\ own[2] = cb.spiMessageID
  BY <1>1, SMTT(30)
<1>3. Found(own) = {} /\ Found(own)' = {cb}
  BY <1>2 DEF Processed
<1>4. ASSUME NEW m \in Tenants \X Contract!MessageIDs, m # own PROVE Found(m)' = Found(m)
  <2>1. cb.tenant # m[1] \/ cb.spiMessageID # m[2]
    BY <1>1, <1>4
  <2> QED
    BY <2>1 DEF Processed
<1>5. {<<"spi", id>> : id \in TransferIDs} = Contract!MessageIDs
  BY Zenon DEF Contract!MessageIDs, Contract!MessageOf
<1>6. ProcessedCallbacks = [m \in Tenants \X Contract!MessageIDs |-> One(Found(m))]
  BY <1>5, Zenon DEF ProcessedCallbacks
<1>7. ProcessedCallbacks' = [m \in Tenants \X Contract!MessageIDs |-> One(Found(m)')]
  BY <1>5, Zenon DEF ProcessedCallbacks
<1>8. One({}) = None /\ One({cb}) = cb
  OBVIOUS
<1> HIDE DEF Found, One
<1>9. ProcessedCallbacks[own] = None
  BY <1>3, <1>6, <1>8, Zenon
<1>10. ProcessedCallbacks' = [ProcessedCallbacks EXCEPT ![own] = cb]
  BY <1>3, <1>4, <1>6, <1>7, <1>8, Zenon
<1> QED
  BY <1>1, <1>9, <1>10

(* A commit is one method of the contract: its guard holds on the          *)
(* committed row, because the decision stands, and it writes what the      *)
(* method writes.                                                          *)
LEMMA CommitRefines ==
  ASSUME IInv, NEW s \in Sessions, Commit(s)
  PROVE  Contract!StoreNext
<1>0. tx[s].pc = "written"
  BY DEF Commit
<1>1. PICK call \in AnyCall, row \in Rows, seq \in Nat :
        call = tx[s].call /\ row = tx[s].row /\ seq = tx[s].seq
  BY TxTyped DEF IInv
<1>2. PICK old, new : old = transfers[call.id] /\ new = Updated(call.op, old, row)
  OBVIOUS
<1>set. CommitSet(s, call, row, old, new) /\ CommitWritten(s, call, seq, new)
  BY <1>0, <1>1, <1>2, CommitSets, CommitWrites, Zenon
<1>3. /\ transfers' = [transfers EXCEPT ![call.id] = new]
      /\ processed' = processed \cup (IF call.op = "settle" THEN {call.callback} ELSE {})
  BY <1>set, Zenon DEF CommitWritten
<1>4. ASSUME Recorded(call.op), NEW events, NEW actions,
             events = Events(call.op, row.status), actions = AuditActions(call.op)
      PROVE  Contract!Write(call.id, new, events, actions)
  <2>1. /\ outbox' = [outbox EXCEPT ![call.id] = @ \o events]
        /\ audit' = [audit EXCEPT ![call.id] = @ \o actions]
    BY <1>1, <1>4, Zenon DEF Commit
  <2> QED
    BY <1>3, <2>1, Zenon DEF Contract!Write
<1>5. ~Recorded(call.op) => outbox' = outbox /\ audit' = audit
  BY <1>1, Zenon DEF Commit
<1>6. /\ call \in OpenCall /\ call.id \in TransferIDs /\ call.op \in Ops
      /\ Stands(call, row, old)
      /\ call.op # "insert" => Exists(call.id) /\ old.tenant = call.tenant
  BY <1>set, Zenon DEF CommitSet
<1>7. /\ new \in Contract!Transfer
      /\ call.op # "insert" => new.tenant = old.tenant /\ new.key = old.key
  <2>1. CommitRow(call, row, old, new)
    BY <1>0, <1>1, <1>2, CommitRows, Zenon
  <2> QED
    BY <2>1, Zenon DEF CommitRow
<1>8. call.tenant \in Tenants /\ DOMAIN transfers = TransferIDs /\ row.spiClaimedUntil \in Nat
  <2>1. call.tenant \in Tenants
    BY <1>6, SMTT(30) DEF OpenCall, AnyCall
  <2>2. DOMAIN transfers = TransferIDs
    BY StoreTyped, SMTT(30) DEF IInv, TypeOK, TablesTyped
  <2>3. row.spiClaimedUntil \in Nat
    BY DEF Rows, Contract!Transfer, NoTransfer
  <2> QED
    BY <2>1, <2>2, <2>3, SMTT(30)
<1>9. ASSUME call.op # "insert" PROVE Index' = Index /\ Contract!GetTransfer(call.tenant, call.id)
  <2>1. ASSUME NEW id \in TransferIDs
        PROVE  transfers'[id].tenant = transfers[id].tenant /\ transfers'[id].key = transfers[id].key
    BY <1>2, <1>3, <1>7, <1>8, <1>9, SMTT(30)
  <2>2. Contract!GetTransfer(call.tenant, call.id)
    BY <1>2, <1>6, <1>9 DEF Contract!GetTransfer, Contract!Exists, Exists
  <2> QED
    BY <2>1, <2>2, IndexKept
<1>10. ASSUME call.op # "settle" PROVE ProcessedCallbacks' = ProcessedCallbacks
  <2>1. processed' = processed
    BY <1>3, <1>10, SMTT(30)
  <2> QED
    BY <2>1, RecordedKept
<1>11. ASSUME call.op \in {"claim", "record", "release"} PROVE call.token \in Tokens
  BY <1>6, <1>11 DEF OpenCall, AnyCall
<1>12. ASSUME call.op \in {"claim", "release"} PROVE Contract!WriteClaim(call.id, new)
  BY <1>3, <1>5, <1>9, <1>10, <1>12 DEF Recorded, Contract!WriteClaim
<1>20. CASE call.op = "claim"
  <2>1. /\ ~Submitted(old) /\ CanClaimSPISubmission(old, ClaimTTL)
        /\ row.spiClaimedUntil \in 0..ClaimTTL /\ ClaimTTL \in 1..ClaimTTL
    BY <1>6, <1>8, <1>20, PostgresAssumption DEF Stands
  <2>2. Contract!ClaimSucceeds(call.tenant, call.id, ClaimTTL)
    BY <1>2, <1>9, <1>20, <2>1, SameRail, Zenon DEF Contract!ClaimSucceeds
  <2>3. new = ClaimSPISubmission(old, call.token, row.spiClaimedUntil)
    BY <1>set, <1>20, Zenon DEF CommitSet
  <2>4. Contract!StoreClaim(call.id, call.token, row.spiClaimedUntil)
    BY <1>2, <1>12, <1>20, <2>3, SameTransitions, Zenon DEF Contract!StoreClaim
  <2>5. row.spiClaimedUntil <= ClaimTTL
    BY <2>1, PostgresAssumption
  <2>6. \E until \in 1..ClaimTTL, left \in 0..ClaimTTL :
          left <= until /\ Contract!Claim(call.tenant, call.id, call.token, until, left)
    BY <2>1, <2>2, <2>4, <2>5, Zenon DEF Contract!Claim
  <2> QED
    BY <1>6, <1>8, <1>11, <1>20, <2>6, Zenon DEF Contract!StoreNext, Contract!SubmissionStep
<1>21. CASE call.op = "record"
  <2>1. CanRecordSPISubmission(old, call.token) /\ old.status # "approved"
    BY <1>6, <1>21 DEF Stands, CanRecordSPISubmission
  <2>2. Contract!RecordSucceeds(call.tenant, call.id, call.token)
    BY <1>2, <1>9, <1>21, <2>1, SameRail, Zenon DEF Contract!RecordSucceeds, Contract!RecordReplays
  <2>3. new = RecordSPISubmission(old, Contract!MessageOf(call.id))
    BY <1>set, <1>21, Zenon DEF CommitSet
  <2>4. Contract!Write(call.id, new, SubmissionEvents, SubmissionAudit)
    BY <1>4, <1>21 DEF Recorded, Events, AuditActions
  <2>5. Contract!StoreRecord(call.id, SubmissionEvents, SubmissionAudit)
    BY <1>2, <1>9, <1>10, <1>21, <2>3, <2>4, SameTransitions, Zenon DEF Contract!StoreRecord
  <2>6. Contract!Record(call.tenant, call.id, call.token)
    BY <2>2, <2>5, SameEvents, Zenon DEF Contract!Record
  <2> QED
    BY <1>6, <1>8, <1>11, <1>21, <2>6, Zenon DEF Contract!StoreNext, Contract!SubmissionStep
<1>22. CASE call.op = "release"
  <2>1. /\ ~Submitted(old) /\ CanReleaseSPISubmission(old, call.token)
        /\ row.spiClaimedUntil \in 0..RetryDelay
    BY <1>6, <1>8, <1>22, PostgresAssumption, SMTT(30) DEF Stands
  <2>2. Contract!ReleaseSucceeds(call.tenant, call.id, call.token)
    BY <1>2, <1>9, <1>22, <2>1, SameRail DEF Contract!ReleaseSucceeds
  <2>3. new = ReleaseSPISubmission(old, row.spiClaimedUntil)
    BY <1>set, <1>22, Zenon DEF CommitSet
  <2>4. Contract!StoreRelease(call.id, row.spiClaimedUntil)
    BY <1>2, <1>12, <1>22, <2>3, SameTransitions, Zenon DEF Contract!StoreRelease
  <2>5. \E left \in 0..RetryDelay : Contract!Release(call.tenant, call.id, call.token, left)
    BY <2>1, <2>2, <2>4, Zenon DEF Contract!Release
  <2> QED
    BY <1>6, <1>8, <1>11, <1>22, <2>5, Zenon DEF Contract!StoreNext, Contract!SubmissionStep
<1>23. CASE call.op = "review"
  <2>1. CanRecordReviewDecision(old, call.status) /\ row.status = call.status
    BY <1>6, <1>23 DEF Stands
  <2>2. Contract!ReviewSucceeds(call.tenant, call.id, call.status)
    BY <1>2, <1>9, <1>23, <2>1, SameRail, Zenon DEF Contract!ReviewSucceeds
  <2>3. new = RecordReviewDecision(old, call.status)
    BY <1>set, <1>23, Zenon DEF CommitSet
  <2>4. Contract!Write(call.id, new, ReviewEvents(call.status), ReviewAudit)
    BY <1>4, <1>23, <2>1 DEF Recorded, Events, AuditActions
  <2>5. Contract!StoreReview(call.id, call.status, ReviewEvents(call.status), ReviewAudit)
    BY <1>2, <1>9, <1>10, <1>23, <2>3, <2>4, SameTransitions, Zenon DEF Contract!StoreReview
  <2>6. Contract!Review(call.tenant, call.id, call.status)
    BY <2>2, <2>5, SameEvents, Zenon DEF Contract!Review
  <2>7. call.status \in {"accepted", "blocked"}
    BY <2>1 DEF CanRecordReviewDecision
  <2> QED
    BY <1>6, <1>8, <2>6, <2>7, Zenon DEF Contract!StoreNext, Contract!ReviewStep
<1>24. CASE call.op = "settle"
  <2>1. PICK cb \in Contract!Callback :
          cb = call.callback /\ cb.tenant = call.tenant /\ cb.transfer = call.id
    BY <1>6, <1>24 DEF OpenCall, AnyCall
  <2>2. /\ CanRecordSettlement(old, cb) /\ row.status = SettlementOutcome(cb.status)
        /\ old.status = "approved" /\ old.spiMessageID = cb.spiMessageID
    BY <1>6, <1>24, <2>1, SMTT(30) DEF Stands, CanRecordSettlement
  <2>3. ASSUME NEW a \in processed, a.spiMessageID = cb.spiMessageID PROVE FALSE
    <3>1. CallbackFacts(a) /\ a.transfer \in TransferIDs /\ a.spiMessageID \in Contract!MessageIDs
      BY DEF IInv, LocksAndRowsAgree, TypeOK, Contract!Callback
    <3>2. RowFacts(a.transfer) /\ RowFacts(call.id)
      BY <1>6, <3>1, Zenon DEF IInv, LocksAndRowsAgree
    <3>3. Contract!MessageOf(a.transfer) = Contract!MessageOf(call.id)
      BY <1>2, <2>2, <2>3, <3>1, <3>2, PostgresAssumption, ZenonT(60) DEF RowFacts, CallbackFacts
    <3>4. a.transfer = call.id
      BY <3>3 DEF Contract!MessageOf
    <3> QED
      BY <1>2, <2>2, <3>1, <3>4 DEF CallbackFacts, SettlementOutcome
  <2>4. Processed(cb.tenant, cb.spiMessageID) = {}
    BY <2>3 DEF Processed
  <2>5. processed' = processed \cup {cb}
    BY <1>3, <1>24, <2>1
  <2>6. /\ ProcessedCallbacks[<<cb.tenant, cb.spiMessageID>>] = None
        /\ ProcessedCallbacks' =
             [ProcessedCallbacks EXCEPT ![<<cb.tenant, cb.spiMessageID>>] = cb]
    BY <2>4, <2>5, RecordedGains
  <2>7. Contract!SettlementSucceeds(cb.tenant, cb.transfer, cb)
    BY <1>2, <1>9, <1>24, <2>1, <2>2, <2>6, SameRail, Zenon DEF Contract!SettlementSucceeds
  <2>8. new = RecordSettlement(old, cb)
    BY <1>set, <1>24, <2>1, Zenon DEF CommitSet
  <2> DEFINE events == SettlementEvents(SettlementOutcome(cb.status))
  <2>9. Contract!Write(call.id, new, events, SettlementAudit)
    BY <1>4, <1>24, <2>2 DEF Recorded, Events, AuditActions
  <2>10. Contract!UpdateSettlement(cb.tenant, cb.transfer, cb, events, SettlementAudit)
    <3> HIDE DEF events
    <3> QED
      BY <1>2, <1>9, <1>24, <2>1, <2>6, <2>8, <2>9, SameTransitions, Zenon
      DEF Contract!UpdateSettlement
  <2>11. Contract!Settle(cb)
    BY <2>7, <2>10, SameEvents, SameTransitions, Zenon DEF Contract!Settle
  <2> QED
    BY <2>11, Zenon DEF Contract!StoreNext, Contract!SettleStep
<1>25. CASE call.op = "insert"
  <2>1. PICK req \in Contract!Request, decision \in Contract!Decisions :
          new = Contract!NewTransfer(req, decision)
    BY <1>set, <1>25, Zenon DEF CommitSet
  <2>2. new = row /\ ~Exists(call.id) /\ ~Duplicate(call.id, new)
    <3>1. new = row /\ ~Exists(call.id)
      BY <1>set, <1>25, Zenon DEF CommitSet
    <3>2. ~Duplicate(call.id, row)
      BY <1>6, <1>25, Zenon DEF Stands
    <3> QED
      BY <3>1, <3>2
  <2>3. /\ Index[<<new.tenant, new.key>>] = None
        /\ Index' = [Index EXCEPT ![<<new.tenant, new.key>>] = call.id]
    BY <1>3, <1>6, <1>7, <2>2, IndexGains, Zenon
  <2>4. row.status = decision
    <3>1. Contract!NewTransfer(req, decision).status = decision
      BY NewTyped
    <3> QED
      BY <2>1, <2>2, <3>1, SMTT(30)
  <2>5. ~Contract!InsertConflict(call.id, new)
    BY <2>2, <2>3, Zenon
    DEF Contract!InsertConflict, Contract!FindByIdempotency, Contract!Exists, Exists
  <2>6. Contract!Write(call.id, new, CreateEvents(decision), CreateAudit)
    BY <1>4, <1>25, <2>4 DEF Recorded, Events, AuditActions
  <2>7. Contract!InsertTransfer(call.id, new, CreateEvents(decision), CreateAudit)
    BY <1>10, <1>25, <2>3, <2>6, Zenon DEF Contract!InsertTransfer
  <2>8. Contract!Insert(call.id, req, decision)
    BY <2>1, <2>5, <2>7, SameEvents, Zenon DEF Contract!Insert
  <2> QED
    BY <1>6, <2>8, Zenon DEF Contract!StoreNext, Contract!InsertStep
<1> QED
  BY <1>6, <1>20, <1>21, <1>22, <1>23, <1>24, <1>25 DEF Ops

(* Every step is a step of the contract or leaves what it shows alone.     *)
LEMMA StepRefines ==
  IInv /\ [Next]_pgVars => [Contract!StoreNext]_(Contract!storeVars)
<1> SUFFICES ASSUME IInv, [Next]_pgVars
             PROVE  Contract!StoreNext \/ UNCHANGED Contract!storeVars
  OBVIOUS
<1>1. CASE UNCHANGED pgVars
  BY <1>1, Unseen DEF pgVars, committed
<1>2. CASE Tick
  BY <1>2, TickRefines
<1>3. ASSUME NEW s \in Sessions, Session(s)
      PROVE  Contract!StoreNext \/ UNCHANGED Contract!storeVars
  <2>1. CASE Commit(s)
    BY <2>1, CommitRefines
  <2>2. CASE ~Commit(s)
    <3>1. UNCHANGED committed
      BY <1>3, <2>2, Zenon DEF Session, InsertTransfer, SelectForUpdate, SelectCallback, UpdateClaim,
         UpdateRecord, UpdateRelease, UpdateReview, UpdateSettled, Decide, Rollback, Finish, committed
    <3> QED
      BY <3>1, Unseen
  <2> QED
    BY <2>1, <2>2
<1> QED
  BY <1>1, <1>2, <1>3 DEF Next

(* The transactions implement the contract: whatever number of sessions    *)
(* interleave, roll back or wait for each other, every commit is one       *)
(* method of the contract on the committed state before it.                *)
THEOREM Implements == Spec => ImplementsContract
  BY InitRefines, Starts, Steps, StepRefines, PTL DEF Spec, ImplementsContract, Contract!StoreSpec

-----------------------------------------------------------------------------
(* What the contract promises therefore holds of the committed rows.       *)
Promises == INSTANCE StoreContract_proofs
              WITH idempotency <- Index, callbacks <- ProcessedCallbacks

(* The constants are as the contract assumes them.                         *)
LEMMA AsAssumed ==
  /\ /\ None \notin Tenants /\ None \notin Keys /\ None \notin Hashes
     /\ None \notin TransferIDs /\ None \notin Tokens
     /\ None \notin Promises!MessageIDs /\ None \notin Promises!Callback
  /\ ClaimTTL \in Nat \ {0} /\ RetryDelay \in Nat \ {0}
<1>1. Promises!MessageIDs = Contract!MessageIDs
  BY Zenon DEF Promises!MessageIDs, Contract!MessageIDs, Promises!MessageOf, Contract!MessageOf
<1>2. Promises!Callback = Contract!Callback
  BY <1>1, Zenon DEF Promises!Callback, Contract!Callback, Promises!SettlementStatus,
     Contract!SettlementStatus
<1> QED
  BY <1>1, <1>2, PostgresAssumption, Zenon

(* The contract's definitions under their two names: the methods of the    *)
(* instance the refinement is stated with are those of the instance the    *)
(* theorems come from.                                                     *)
LEMMA SameMethods ==
  /\ \A id, req, d : Contract!Insert(id, req, d) => Promises!Insert(id, req, d)
  /\ \A tenant, id, token, until, left :
       Contract!Claim(tenant, id, token, until, left) => Promises!Claim(tenant, id, token, until, left)
  /\ \A tenant, id, token : Contract!Record(tenant, id, token) => Promises!Record(tenant, id, token)
  /\ \A tenant, id, token, left :
       Contract!Release(tenant, id, token, left) => Promises!Release(tenant, id, token, left)
  /\ \A tenant, id, status : Contract!Review(tenant, id, status) => Promises!Review(tenant, id, status)
  /\ \A cb : Contract!Settle(cb) => Promises!Settle(cb)
  /\ Contract!Age => Promises!Age
<1>1. ASSUME NEW id, NEW req, NEW d, Contract!Insert(id, req, d)
      PROVE  Promises!Insert(id, req, d)
  BY <1>1, Zenon
     DEF Contract!Insert, Promises!Insert, Contract!InsertConflict, Promises!InsertConflict,
       Contract!InsertTransfer, Promises!InsertTransfer, Contract!Write, Promises!Write,
       Contract!NewTransfer, Promises!NewTransfer, Contract!NoTransfer, Promises!NoTransfer,
       Contract!CreateEvents, Promises!CreateEvents, Contract!CreateAudit,
       Promises!CreateAudit, Contract!FindByIdempotency, Promises!FindByIdempotency,
       Contract!Exists, Promises!Exists
<1>2. ASSUME NEW tenant, NEW id, NEW token, NEW until, NEW left,
             Contract!Claim(tenant, id, token, until, left)
      PROVE  Promises!Claim(tenant, id, token, until, left)
  BY <1>2, Zenon
     DEF Contract!Claim, Promises!Claim, Contract!ClaimSucceeds, Promises!ClaimSucceeds,
       Contract!StoreClaim, Promises!StoreClaim, Contract!GetTransfer, Promises!GetTransfer,
       Contract!Exists, Promises!Exists, Contract!Submitted, Promises!Submitted,
       Contract!CanClaimSPISubmission, Promises!CanClaimSPISubmission, Contract!WriteClaim,
       Promises!WriteClaim, Contract!ClaimSPISubmission, Promises!ClaimSPISubmission
<1>3. ASSUME NEW tenant, NEW id, NEW token, Contract!Record(tenant, id, token)
      PROVE  Promises!Record(tenant, id, token)
  BY <1>3, Zenon
     DEF Contract!Record, Promises!Record, Contract!RecordSucceeds, Promises!RecordSucceeds,
       Contract!StoreRecord, Promises!StoreRecord, Contract!RecordReplays,
       Promises!RecordReplays, Contract!GetTransfer, Promises!GetTransfer, Contract!Exists,
       Promises!Exists, Contract!CanRecordSPISubmission, Promises!CanRecordSPISubmission,
       Contract!MessageOf, Promises!MessageOf, Contract!RecordSPISubmission,
       Promises!RecordSPISubmission, Contract!Write, Promises!Write,
       Contract!SubmissionEvents, Promises!SubmissionEvents, Contract!SubmissionAudit,
       Promises!SubmissionAudit
<1>4. ASSUME NEW tenant, NEW id, NEW token, NEW left, Contract!Release(tenant, id, token, left)
      PROVE  Promises!Release(tenant, id, token, left)
  BY <1>4, Zenon
     DEF Contract!Release, Promises!Release, Contract!ReleaseSucceeds,
       Promises!ReleaseSucceeds, Contract!StoreRelease, Promises!StoreRelease,
       Contract!GetTransfer, Promises!GetTransfer, Contract!Exists, Promises!Exists,
       Contract!Submitted, Promises!Submitted, Contract!CanReleaseSPISubmission,
       Promises!CanReleaseSPISubmission, Contract!WriteClaim, Promises!WriteClaim,
       Contract!ReleaseSPISubmission, Promises!ReleaseSPISubmission
<1>5. ASSUME NEW tenant, NEW id, NEW status, Contract!Review(tenant, id, status)
      PROVE  Promises!Review(tenant, id, status)
  BY <1>5, Zenon
     DEF Contract!Review, Promises!Review, Contract!ReviewSucceeds, Promises!ReviewSucceeds,
       Contract!StoreReview, Promises!StoreReview, Contract!GetTransfer,
       Promises!GetTransfer, Contract!Exists, Promises!Exists,
       Contract!CanRecordReviewDecision, Promises!CanRecordReviewDecision,
       Contract!RecordReviewDecision, Promises!RecordReviewDecision, Contract!Write,
       Promises!Write, Contract!ReviewEvents, Promises!ReviewEvents, Contract!ReviewAudit,
       Promises!ReviewAudit
<1>6. ASSUME NEW cb, Contract!Settle(cb)
      PROVE  Promises!Settle(cb)
  BY <1>6, Zenon
     DEF Contract!Settle, Promises!Settle, Contract!SettlementSucceeds,
       Promises!SettlementSucceeds, Contract!UpdateSettlement, Promises!UpdateSettlement,
       Contract!GetTransfer, Promises!GetTransfer, Contract!Exists, Promises!Exists,
       Contract!CanRecordSettlement, Promises!CanRecordSettlement,
       Contract!RecordSettlement, Promises!RecordSettlement, Contract!Terminal,
       Promises!Terminal, Contract!SettlementStatus, Promises!SettlementStatus,
       Contract!SettlementOutcome, Promises!SettlementOutcome, Contract!SettlementEvents,
       Promises!SettlementEvents, Contract!SettlementAudit, Promises!SettlementAudit,
       Contract!Write, Promises!Write
<1>7. Contract!Age => Promises!Age
  BY Zenon DEF Contract!Age, Promises!Age, Contract!Elapse, Promises!Elapse
<1> QED
  BY <1>1, <1>2, <1>3, <1>4, <1>5, <1>6, <1>7, Zenon

(* So a refinement of the one is a refinement of the other.                *)
LEMMA KeepsPromises == Spec => Promises!StoreSpec
<1>1. Contract!StoreInit => Promises!StoreInit
  BY Zenon DEF Contract!StoreInit, Promises!StoreInit, Contract!NoTransfer, Promises!NoTransfer,
     Contract!MessageIDs, Promises!MessageIDs, Contract!MessageOf, Promises!MessageOf
<1>2. [Contract!StoreNext]_(Contract!storeVars) => [Promises!StoreNext]_(Promises!storeVars)
  <2>1. Contract!storeVars = Promises!storeVars /\ Contract!storeVars' = Promises!storeVars'
    BY Zenon DEF Contract!storeVars, Promises!storeVars
  <2>2. Contract!InsertStep => Promises!InsertStep
    BY SameMethods, Zenon DEF Contract!InsertStep, Promises!InsertStep, Contract!Request,
       Promises!Request, Contract!Decisions, Promises!Decisions
  <2>3. Contract!SubmissionStep => Promises!SubmissionStep
    BY SameMethods, ZenonT(60) DEF Contract!SubmissionStep, Promises!SubmissionStep
  <2>4. Contract!ReviewStep => Promises!ReviewStep
    BY SameMethods, Zenon DEF Contract!ReviewStep, Promises!ReviewStep
  <2>5. Contract!SettleStep => Promises!SettleStep
    BY SameMethods, Zenon DEF Contract!SettleStep, Promises!SettleStep, Contract!Callback,
       Promises!Callback, Contract!MessageIDs, Promises!MessageIDs, Contract!MessageOf,
       Promises!MessageOf, Contract!SettlementStatus, Promises!SettlementStatus
  <2> QED
    BY <2>1, <2>2, <2>3, <2>4, <2>5, SameMethods, Zenon DEF Contract!StoreNext, Promises!StoreNext
<1> QED
  BY <1>1, <1>2, Implements, PTL DEF ImplementsContract, Contract!StoreSpec, Promises!StoreSpec

(* No two committed rows have the same tenant and idempotency key, and a   *)
(* lookup by the unique constraint finds the row that has them.            *)
THEOREM IndexCorrect == Spec => []Contract!IndexMatchesRows
<1>1. Promises!IndexMatchesRows => Contract!IndexMatchesRows
  BY Zenon DEF Contract!IndexMatchesRows, Promises!IndexMatchesRows, Contract!FindByIdempotency,
     Promises!FindByIdempotency, Contract!GetTransfer, Promises!GetTransfer, Contract!Exists,
     Promises!Exists
<1> QED
  BY <1>1, AsAssumed, KeepsPromises, Promises!IndexPromised, PTL

(* The committed events of a transfer are always the history its committed *)
(* status calls for: no transaction commits a transition without its       *)
(* events, and none commits an event twice.                                *)
THEOREM OutboxCorrect == Spec => []Contract!OutboxMatchesStatus
<1>1. \A status : Promises!HistoryOf(status) = Contract!HistoryOf(status)
  BY Zenon DEF Contract!HistoryOf, Promises!HistoryOf, Contract!Then, Promises!Then,
     Contract!NoHistory, Promises!NoHistory, Contract!ReviewHistory, Promises!ReviewHistory,
     Contract!BlockedHistory, Promises!BlockedHistory, Contract!AcceptedHistory,
     Promises!AcceptedHistory, Contract!ApprovedHistory, Promises!ApprovedHistory,
     Contract!CreateEvents, Promises!CreateEvents, Contract!ReviewEvents, Promises!ReviewEvents,
     Contract!SubmissionEvents, Promises!SubmissionEvents, Contract!SettlementEvents,
     Promises!SettlementEvents
<1>2. Promises!OutboxMatchesStatus => Contract!OutboxMatchesStatus
  BY <1>1, Zenon DEF Contract!OutboxMatchesStatus, Promises!OutboxMatchesStatus
<1> QED
  BY <1>2, AsAssumed, KeepsPromises, Promises!OutboxPromised, PTL

(* A committed claim or retry delay is left on accepted rows only.         *)
THEOREM ClaimsCorrect == Spec => []Contract!ClaimOnlyWhileAccepted
<1>1. Promises!ClaimOnlyWhileAccepted => Contract!ClaimOnlyWhileAccepted
  BY Zenon DEF Contract!ClaimOnlyWhileAccepted, Promises!ClaimOnlyWhileAccepted
<1> QED
  BY <1>1, AsAssumed, KeepsPromises, Promises!ClaimsPromised, PTL

(* A committed row carries its own SPI message id exactly from its         *)
(* recorded submission on.                                                 *)
THEOREM MessagesCorrect == Spec => []Contract!MessageMatchesStatus
<1>1. Promises!MessageMatchesStatus => Contract!MessageMatchesStatus
  BY Zenon DEF Contract!MessageMatchesStatus, Promises!MessageMatchesStatus, Contract!MessageOf,
     Promises!MessageOf
<1> QED
  BY <1>1, AsAssumed, KeepsPromises, Promises!MessagesPromised, PTL

(* A settled or rejected row has its callback in processed_spi_callbacks,  *)
(* with the status the row took: no transaction commits one without the    *)
(* other.                                                                  *)
THEOREM SettlementsCorrect == Spec => []Contract!SettledByCallback
<1>1. Promises!SettledByCallback => Contract!SettledByCallback
  BY Zenon DEF Contract!SettledByCallback, Promises!SettledByCallback, Contract!SettlementOutcome,
     Promises!SettlementOutcome
<1> QED
  BY <1>1, AsAssumed, KeepsPromises, Promises!SettlementsPromised, PTL

(* The committed tables implement the documented state machine: whatever   *)
(* the interleaving of transactions, each commit makes one transition with *)
(* its events and audit record, or none.                                   *)
THEOREM LifecycleImplemented == Spec => Promises!ImplementsLifecycle
  BY AsAssumed, KeepsPromises, Promises!LifecyclePromised, PTL
=============================================================================

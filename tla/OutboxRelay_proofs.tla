------------------------- MODULE OutboxRelay_proofs -------------------------
(***************************************************************************)
(* Proofs about OutboxRelay for both drivers, any numbers of relays,       *)
(* accounts, tokens and records, any retry policy and any clock skew.      *)
(***************************************************************************)
EXTENDS OutboxRelay, TLAPS

USE RelayAssumption

(* A relay inside its loop: its fields, and the record in hand.            *)
LEMMA BusyRelay ==
  ASSUME TypeOK, NEW r \in Relays, relay[r].pc # "idle"
  PROVE  /\ relay[r].token \in Tokens /\ relay[r].token # None
         /\ relay[r].until \in Nat /\ relay[r].retry \in Nat
         /\ relay[r].batch \in SUBSET Sequence
         /\ relay[r].record \in relay[r].batch /\ relay[r].record \in Sequence
         /\ events[relay[r].record] \in Record
<1>1. relay[r] \in LoopState
  BY DEF TypeOK, RelayState, IdleRelay
<1> QED
  BY <1>1 DEF TypeOK, LoopState

(* What the loop leaves of a relay after a record is marked.               *)
LEMMA ContinueEffect ==
  ASSUME TypeOK, NEW r \in Relays, relay[r].pc # "idle", Continue(r)
  PROVE  /\ relay' \in [Relays -> RelayState]
         /\ \A o \in Relays \ {r} : relay'[o] = relay[o]
         /\ relay'[r].pc \in {"idle", "publish"}
         /\ relay'[r].token \in {None, relay[r].token}
         /\ relay'[r].until \in {0, relay[r].until}
         /\ relay'[r].batch \subseteq relay[r].batch \ {relay[r].record}
         /\ relay'[r].pc # "idle" => relay'[r].record \in relay'[r].batch
<1> DEFINE rest == relay[r].batch \ {relay[r].record}
<1>1. relay[r] \in LoopState
  BY DEF TypeOK, RelayState, IdleRelay
<1>2. CASE rest = {}
  <2>1. relay' = [relay EXCEPT ![r] = IdleRelay]
    BY <1>2 DEF Continue
  <2> QED
    BY <2>1 DEF TypeOK, RelayState, IdleRelay
<1>3. CASE rest # {}
  <2>1. PICK s \in Nexts(rest) :
          relay' = [relay EXCEPT ![r] =
            [@ EXCEPT !.pc = "publish", !.batch = rest, !.record = s, !.retry = 0]]
    BY <1>3 DEF Continue
  <2>2. s \in rest
    BY DEF Nexts
  <2>3. rest \in SUBSET Sequence
    BY <1>1 DEF LoopState
  <2> HIDE DEF rest
  <2> DEFINE new == [relay[r] EXCEPT !.pc = "publish", !.batch = rest, !.record = s, !.retry = 0]
  <2>4. /\ new.pc = "publish" /\ new.token = relay[r].token /\ new.until = relay[r].until
        /\ new.batch = rest /\ new.record = s
        /\ new \in LoopState
    BY <1>1, <2>2, <2>3, ZenonT(60) DEF LoopState
  <2>5. relay' = [relay EXCEPT ![r] = new]
    BY <2>1, Zenon
  <2> HIDE DEF new
  <2>6. relay'[r] = new /\ \A o \in Relays \ {r} : relay'[o] = relay[o]
    BY <2>5 DEF TypeOK
  <2> QED
    BY <2>2, <2>4, <2>5, <2>6 DEF TypeOK, RelayState, rest
<1> QED
  BY <1>2, <1>3

(* ClaimPendingOutbox claims pending records only, for any length of time. *)
LEMMA ClaimsPending ==
  ASSUME NEW r \in Relays, ClaimPendingOutbox(r)
  PROVE  \E batch \in SUBSET Sequence, until \in Nat :
           ClaimRecords(r, batch, until) /\ \A s \in batch : Pending(s)
<1>1. PICK skipped \in SUBSET Skippable, until \in Leases :
        ClaimRecords(r, NextRecords(skipped), until)
  BY Zenon DEF ClaimPendingOutbox
<1>2. until \in Nat
  BY DEF Leases
<1>3. /\ NextRecords(skipped) \in SUBSET Sequence
      /\ \A s \in NextRecords(skipped) : Pending(s)
  BY DEF NextRecords
<1> QED
  BY <1>1, <1>2, <1>3, Zenon

(* Time passes for a relay: only its lease and its delay get shorter.      *)
LEMMA TickEffect ==
  ASSUME TypeOK, Tick
  PROVE  \A r \in Relays :
           /\ relay'[r].pc = relay[r].pc /\ relay'[r].token = relay[r].token
           /\ relay'[r].batch = relay[r].batch /\ relay'[r].record = relay[r].record
           /\ relay'[r].until = Elapse(relay[r].until)
<1> DEFINE Local == [pc : {"idle", "publish", "published", "failed"},
                     token : Tokens \cup {None}, until : Nat,
                     batch : SUBSET Sequence, record : Sequence \cup {None}, retry : Nat]
<1>1. \A r \in Relays : relay[r] \in Local
  <2>1. IdleRelay \in Local
    BY DEF IdleRelay
  <2>2. \A me \in LoopState : me \in Local
    BY DEF LoopState
  <2> QED
    BY <2>1, <2>2 DEF TypeOK, RelayState
<1>2. \A r \in Relays :
        relay'[r] = [relay[r] EXCEPT !.until = Elapse(@), !.retry = Elapse(@)]
  BY Zenon DEF Tick
<1> QED
  BY <1>1, <1>2, ZenonT(60)

(* Clock skew leaves delays natural numbers.                               *)
LEMMA SkewedDelay == \A left \in Nat : SeenByStore(left) \subseteq Nat
  BY DEF SeenByStore

(* Every state is well typed; in particular a relay never asks for the     *)
(* next record of an empty batch.                                          *)
THEOREM TypeCorrect == Spec => []TypeOK
<1>1. Init => TypeOK
  BY DEF Init, TypeOK, Record, NewRecord, RelayState, IdleRelay, Sequence
<1>2. TypeOK /\ [Next]_vars => TypeOK'
  <2> SUFFICES ASSUME TypeOK, [Next]_vars PROVE TypeOK'
    OBVIOUS
  <2>1. ASSUME NEW s \in Sequence, NEW account \in Accounts, AppendEvent(s, account)
        PROVE  TypeOK'
    <3>1. PICK availableIn \in SeenByStore(0) :
            events' = [events EXCEPT ![s] = NewRecord(account, availableIn)]
      BY <2>1, Zenon DEF AppendEvent
    <3>2. NewRecord(account, availableIn) \in Record
      BY SkewedDelay DEF NewRecord, Record
    <3> QED
      BY <2>1, <3>1, <3>2 DEF TypeOK, AppendEvent
  <2>2. ASSUME NEW r \in Relays, ClaimPendingOutbox(r) PROVE TypeOK'
    <3>1. PICK batch \in SUBSET Sequence, until \in Nat : ClaimRecords(r, batch, until)
      BY <2>2, ClaimsPending
    <3>2. PICK token \in Tokens, first \in Nexts(batch) :
            /\ events' = [s \in Sequence |->
                 IF s \in batch
                 THEN [events[s] EXCEPT !.claimToken = token, !.claimedFor = until]
                 ELSE events[s]]
            /\ relay' = [relay EXCEPT ![r] =
                 [pc |-> "publish", token |-> token, until |-> until,
                  batch |-> batch, record |-> first, retry |-> 0]]
      BY <3>1, ZenonT(60) DEF ClaimRecords
    <3>3. events' \in [Sequence -> Record]
      <4>1. \A rec \in Record :
              [rec EXCEPT !.claimToken = token, !.claimedFor = until] \in Record
        BY Zenon DEF Record
      <4> QED
        BY <3>2, <4>1, Zenon DEF TypeOK
    <3>4. first \in batch
      BY DEF Nexts
    <3> DEFINE new == [pc |-> "publish", token |-> token, until |-> until,
                       batch |-> batch, record |-> first, retry |-> 0]
    <3>5. new \in LoopState /\ new.record \in new.batch
      BY <3>4 DEF LoopState
    <3>6. relay' = [relay EXCEPT ![r] = new]
      BY <3>2, Zenon
    <3> HIDE DEF new
    <3>7. /\ relay' \in [Relays -> RelayState]
          /\ \A o \in Relays : relay'[o].pc # "idle" => relay'[o].record \in relay'[o].batch
      BY <3>5, <3>6 DEF TypeOK, RelayState
    <3>8. UNCHANGED delivered
      BY <3>1, Zenon DEF ClaimRecords
    <3> QED
      BY <3>3, <3>7, <3>8, Zenon DEF TypeOK
  <2>3. ASSUME NEW r \in Relays, PublishAccepted(r) \/ PublishFailed(r) PROVE TypeOK'
    <3>1. relay[r].pc = "publish"
      BY <2>3 DEF PublishAccepted, PublishFailed
    <3>2. relay[r].record \in Sequence /\ events[relay[r].record].backoff \in Nat
      BY <3>1, BusyRelay DEF Record
    <3>3. relay[r] \in LoopState
      BY <3>1, SMTT(30) DEF TypeOK, RelayState, IdleRelay
    <3>4. PICK pc \in {"published", "failed"}, retry \in Nat :
            relay' = [relay EXCEPT ![r] = [relay[r] EXCEPT !.pc = pc, !.retry = retry]]
      <4>1. CASE PublishAccepted(r)
        <5>1. [relay[r] EXCEPT !.pc = "published"] =
              [relay[r] EXCEPT !.pc = "published", !.retry = relay[r].retry]
          BY <3>3, Zenon DEF LoopState
        <5>2. relay[r].retry \in Nat
          BY <3>3 DEF LoopState
        <5>3. relay' = [relay EXCEPT ![r] = [relay[r] EXCEPT !.pc = "published"]]
          BY <4>1, Zenon DEF PublishAccepted
        <5> QED
          BY <5>1, <5>2, <5>3, Zenon
      <4>2. CASE PublishFailed(r)
        <5>1. PICK retry \in SeenByStore(events[relay[r].record].backoff) :
                relay' = [relay EXCEPT ![r] =
                           [relay[r] EXCEPT !.pc = "failed", !.retry = retry]]
          BY <4>2, Zenon DEF PublishFailed
        <5>2. retry \in Nat
          BY <3>2, SkewedDelay
        <5> QED
          BY <5>1, <5>2, Zenon
      <4> QED
        BY <2>3, <4>1, <4>2, Zenon
    <3> DEFINE new == [relay[r] EXCEPT !.pc = pc, !.retry = retry]
    <3>5. new \in LoopState /\ new.record = relay[r].record /\ new.batch = relay[r].batch
      BY <3>3, ZenonT(60) DEF LoopState
    <3>6. relay' = [relay EXCEPT ![r] = new]
      BY <3>4, Zenon
    <3> HIDE DEF new
    <3>7. /\ relay' \in [Relays -> RelayState]
          /\ \A o \in Relays : relay'[o].pc # "idle" => relay'[o].record \in relay'[o].batch
      BY <3>1, <3>5, <3>6 DEF TypeOK, RelayState
    <3> QED
      BY <2>3, <3>2, <3>7 DEF TypeOK, PublishAccepted, PublishFailed
  <2>4. ASSUME NEW r \in Relays, MarkOutboxPublished(r) \/ MarkOutboxFailed(r) PROVE TypeOK'
    <3> DEFINE s == relay[r].record
    <3>1. /\ relay[r].pc # "idle" /\ UNCHANGED delivered
          /\ \/ UNCHANGED events /\ relay' = [relay EXCEPT ![r] = IdleRelay]
             \/ /\ Continue(r)
                /\ \/ events' = [events EXCEPT ![s] = Published(@)]
                   \/ events' = [events EXCEPT ![s] = Failed(@, relay[r].retry)]
      BY <2>4 DEF MarkOutboxPublished, MarkOutboxFailed
    <3>2. s \in Sequence /\ events[s] \in Record /\ relay[r].retry \in Nat
      BY <3>1, BusyRelay
    <3>3. Published(events[s]) \in Record
      BY <3>2, Zenon DEF Published, Record
    <3>4. Failed(events[s], relay[r].retry) \in Record
      <4>1. \A delay \in Nat : Doubled(delay) \in Nat
        BY DEF Doubled
      <4> QED
        BY <3>2, <4>1, Zenon DEF Failed, Record
    <3> HIDE DEF s
    <3>5. events' \in [Sequence -> Record]
      BY <3>1, <3>2, <3>3, <3>4 DEF TypeOK
    <3>6. /\ relay' \in [Relays -> RelayState]
          /\ \A o \in Relays : relay'[o].pc # "idle" => relay'[o].record \in relay'[o].batch
      <4>1. CASE relay' = [relay EXCEPT ![r] = IdleRelay]
        BY <4>1 DEF TypeOK, RelayState, IdleRelay
      <4>2. CASE Continue(r)
        BY <3>1, <4>2, ContinueEffect DEF TypeOK
      <4> QED
        BY <3>1, <4>1, <4>2
    <3> QED
      BY <3>1, <3>5, <3>6 DEF TypeOK
  <2>5. ASSUME NEW r \in Relays, DrainAbort(r) PROVE TypeOK'
    BY <2>5, SMTT(30) DEF TypeOK, DrainAbort, RelayState, IdleRelay
  <2>6. CASE Tick
    <3>1. \A left \in Nat : Elapse(left) \in Nat
      BY SMTT(30) DEF Elapse
    <3>2. events' \in [Sequence -> Record]
      BY <2>6, <3>1, ZenonT(60) DEF TypeOK, Tick, Record
    <3>3. \A r \in Relays : [relay[r] EXCEPT !.until = Elapse(@), !.retry = Elapse(@)] \in RelayState
      <4>1. [IdleRelay EXCEPT !.until = Elapse(@), !.retry = Elapse(@)] = IdleRelay
        <5> DEFINE Idle == [pc : {"idle"}, token : {None}, until : {0}, batch : {{}},
                           record : {None}, retry : {0}]
        <5>0. Elapse(0) = 0
          BY DEF Elapse
        <5>1. \A me \in Idle : [me EXCEPT !.until = Elapse(@), !.retry = Elapse(@)] \in Idle
          BY <5>0, Zenon
        <5>2. \A me \in Idle : me = IdleRelay
          BY DEF IdleRelay
        <5>3. IdleRelay \in Idle
          BY DEF IdleRelay
        <5> QED
          BY <5>1, <5>2, <5>3
      <4>2. \A me \in LoopState :
              [me EXCEPT !.until = Elapse(@), !.retry = Elapse(@)] \in LoopState
        BY <3>1, Zenon DEF LoopState
      <4> QED
        BY <4>1, <4>2, Zenon DEF TypeOK, RelayState
    <3>4. \A r \in Relays : relay'[r].pc # "idle" => relay'[r].record \in relay'[r].batch
      BY <2>6, TickEffect DEF TypeOK
    <3> QED
      BY <2>6, <3>2, <3>3, <3>4, Zenon DEF TypeOK, Tick
  <2>7. CASE UNCHANGED vars
    BY <2>7 DEF TypeOK, vars
  <2> QED
    BY <2>1, <2>2, <2>3, <2>4, <2>5, <2>6, <2>7 DEF Next, Drain
<1> QED
  BY <1>1, <1>2, PTL DEF Spec

-----------------------------------------------------------------------------
(* RelayFacts, record by record and relay by relay.                        *)
RecordOK(s) ==
  /\ events[s].published \/ ~Appended(s) =>
       events[s].claimToken = None /\ events[s].claimedFor = 0
  /\ events[s].published => s \in delivered /\ Appended(s) /\ events[s].availableIn = 0
  /\ events[s].claimToken # None => events[s].availableIn = 0

HoldsBatch(r) ==
  relay[r].until > 0 =>
    \A s \in relay[r].batch :
      events[s].claimToken = relay[r].token /\ events[s].claimedFor = relay[r].until

RelayOK(r) ==
  /\ \A s \in relay[r].batch : Appended(s)
  /\ relay[r].pc = "published" => relay[r].record \in delivered
  /\ HoldsBatch(r)

TokensDistinct ==
  \A r, o \in Relays : r # o /\ relay[r].token # None => relay[o].token # relay[r].token

(* The pieces together are RelayFacts.                                     *)
LEMMA Pieces ==
  RelayFacts <=> /\ \A s \in Sequence : RecordOK(s)
                 /\ \A r \in Relays : RelayOK(r)
                 /\ TokensDistinct
  BY DEF RelayFacts, RecordOK, RelayOK, HoldsBatch, TokensDistinct

(* A relay that keeps its locals keeps its facts as long as the records of *)
(* its live batch keep their claims.                                       *)
LEMMA RelayUntouched ==
  ASSUME NEW r \in Relays, RelayOK(r), relay'[r] = relay[r], delivered \subseteq delivered',
         \A s \in relay[r].batch : events'[s].account = events[s].account,
         relay[r].until > 0 =>
           \A s \in relay[r].batch :
             /\ events'[s].claimToken = events[s].claimToken
             /\ events'[s].claimedFor = events[s].claimedFor
  PROVE  RelayOK(r)'
  BY DEF RelayOK, HoldsBatch, Appended

(* An idle relay has no facts to keep.                                     *)
LEMMA IdleOK ==
  ASSUME NEW r \in Relays, relay'[r] = IdleRelay
  PROVE  RelayOK(r)' /\ relay'[r].token = None
  BY DEF RelayOK, HoldsBatch, IdleRelay

(* Tokens stay distinct when one relay takes a fresh token, keeps its own  *)
(* or drops it.                                                            *)
LEMMA TokensStay ==
  ASSUME TokensDistinct, NEW r \in Relays,
         \A o \in Relays \ {r} : relay'[o] = relay[o],
         \/ relay'[r].token \in {None, relay[r].token}
         \/ \A o \in Relays : relay[o].token # relay'[r].token
  PROVE  TokensDistinct'
  BY DEF TokensDistinct

Claimed(r, batch, until, token) ==
  /\ FreshToken(token, batch)
  /\ \A s \in batch :
       /\ events'[s].account = events[s].account
       /\ events'[s].published = events[s].published
       /\ events'[s].availableIn = events[s].availableIn
       /\ events'[s].claimToken = token /\ events'[s].claimedFor = until
  /\ \A s \in Sequence \ batch : events'[s] = events[s]
  /\ relay'[r].pc = "publish" /\ relay'[r].token = token
  /\ relay'[r].until = until /\ relay'[r].batch = batch
  /\ \A o \in Relays \ {r} : relay'[o] = relay[o]
  /\ UNCHANGED delivered

(* What a claim does to the records and to its relay.                      *)
LEMMA ClaimEffect ==
  ASSUME TypeOK, NEW r \in Relays, NEW batch \in SUBSET Sequence, NEW until \in Nat,
         ClaimRecords(r, batch, until)
  PROVE  \E token \in Tokens : Claimed(r, batch, until, token)
<1>1. PICK token \in Tokens, first \in Nexts(batch) :
        /\ FreshToken(token, batch)
        /\ events' = [s \in Sequence |->
             IF s \in batch
             THEN [events[s] EXCEPT !.claimToken = token, !.claimedFor = until]
             ELSE events[s]]
        /\ relay' = [relay EXCEPT ![r] =
             [pc |-> "publish", token |-> token, until |-> until,
              batch |-> batch, record |-> first, retry |-> 0]]
  BY Zenon DEF ClaimRecords
<1>2. \A s \in batch :
        /\ events'[s].account = events[s].account
        /\ events'[s].published = events[s].published
        /\ events'[s].availableIn = events[s].availableIn
        /\ events'[s].claimToken = token /\ events'[s].claimedFor = until
  <2>1. \A s \in batch : events[s] \in Record
    BY DEF TypeOK
  <2>2. \A s \in batch :
          events'[s] = [events[s] EXCEPT !.claimToken = token, !.claimedFor = until]
    BY <1>1
  <2> QED
    BY <2>1, <2>2, ZenonT(60) DEF Record
<1>3. \A s \in Sequence \ batch : events'[s] = events[s]
  BY <1>1, ZenonT(60)
<1>4. /\ relay'[r].pc = "publish" /\ relay'[r].token = token
      /\ relay'[r].until = until /\ relay'[r].batch = batch
      /\ \A o \in Relays \ {r} : relay'[o] = relay[o]
  BY <1>1, ZenonT(60) DEF TypeOK
<1>5. UNCHANGED delivered
  BY ZenonT(60) DEF ClaimRecords
<1>6. FreshToken(token, batch)
  BY <1>1, Zenon
<1>7. Claimed(r, batch, until, token)
  BY <1>2, <1>3, <1>4, <1>5, <1>6, Zenon DEF Claimed
<1> QED
  BY <1>7

(* What an accepted mark does: the record in hand loses its claim, and is  *)
(* published or delayed; the relay goes on without it.                     *)
LEMMA MarkEffect ==
  ASSUME TypeOK, NEW r \in Relays, MarkOutboxPublished(r) \/ MarkOutboxFailed(r),
         Owned(relay[r].record, relay[r].token)
  PROVE  LET s == relay[r].record IN
         /\ relay[r].pc # "idle" /\ s \in Sequence /\ s \in relay[r].batch
         /\ events[s].claimToken = relay[r].token /\ relay[r].token # None
         /\ events'[s].account = events[s].account
         /\ events'[s].claimToken = None /\ events'[s].claimedFor = 0
         /\ \/ /\ relay[r].pc = "published" /\ events'[s].published
               /\ events'[s].availableIn = events[s].availableIn
            \/ events'[s].published = events[s].published
         /\ \A t \in Sequence \ {s} : events'[t] = events[t]
         /\ Continue(r)
         /\ UNCHANGED delivered
<1> DEFINE s == relay[r].record
<1>1. /\ relay[r].pc # "idle"
      /\ \/ relay[r].pc = "published" /\ events' = [events EXCEPT ![s] = Published(events[s])]
         \/ events' = [events EXCEPT ![s] = Failed(events[s], relay[r].retry)]
      /\ Continue(r) /\ UNCHANGED delivered
  BY DEF MarkOutboxPublished, MarkOutboxFailed
<1>2. s \in Sequence /\ s \in relay[r].batch /\ events[s] \in Record /\ relay[r].token # None
  BY <1>1, BusyRelay
<1>3. events[s].claimToken = relay[r].token
  BY DEF Owned
<1>4. LET new == Published(events[s]) IN
      /\ new.account = events[s].account
      /\ new.claimToken = None /\ new.claimedFor = 0 /\ new.published
      /\ new.availableIn = events[s].availableIn
  BY <1>2 DEF Published, Record
<1>5. LET new == Failed(events[s], relay[r].retry) IN
      /\ new.account = events[s].account
      /\ new.claimToken = None /\ new.claimedFor = 0 /\ new.published = events[s].published
  BY <1>2 DEF Failed, Record
<1> HIDE DEF s
<1>6. \/ relay[r].pc = "published" /\ events'[s] = Published(events[s])
      \/ events'[s] = Failed(events[s], relay[r].retry)
  BY <1>1, <1>2 DEF TypeOK
<1>7. \A t \in Sequence \ {s} : events'[t] = events[t]
  BY <1>1, <1>2 DEF TypeOK
<1>8. /\ events'[s].account = events[s].account
      /\ events'[s].claimToken = None /\ events'[s].claimedFor = 0
      /\ \/ /\ relay[r].pc = "published" /\ events'[s].published
            /\ events'[s].availableIn = events[s].availableIn
         \/ events'[s].published = events[s].published
  BY <1>4, <1>5, <1>6
<1> QED
  BY <1>1, <1>2, <1>3, <1>7, <1>8 DEF s

(* The strengthening is inductive: no interleaving of relays, failures,    *)
(* crashes and lease expiries breaks it.                                   *)
THEOREM RelaysCorrect == Spec => []RelayFacts
<1>1. Init => RelayFacts
  BY DEF Init, RelayFacts, NewRecord, IdleRelay, Appended
<1>2. TypeOK /\ RelayFacts /\ [Next]_vars => RelayFacts'
  <2> SUFFICES ASSUME TypeOK, [Next]_vars,
                      \A s \in Sequence : RecordOK(s),
                      \A r \in Relays : RelayOK(r),
                      TokensDistinct
               PROVE  /\ \A s \in Sequence : RecordOK(s)'
                      /\ \A r \in Relays : RelayOK(r)'
                      /\ TokensDistinct'
    <3>1. RelayFacts' <=> /\ \A s \in Sequence : RecordOK(s)'
                          /\ \A r \in Relays : RelayOK(r)'
                          /\ TokensDistinct'
      BY DEF RelayFacts, RecordOK, RelayOK, HoldsBatch, TokensDistinct, Appended
    <3> QED
      BY <3>1, Pieces
  <2> DEFINE Goal == /\ \A s \in Sequence : RecordOK(s)'
                     /\ \A r \in Relays : RelayOK(r)'
                     /\ TokensDistinct'
  <2>1. /\ \A r \in Relays : relay[r].batch \subseteq Sequence
        /\ \A r \in Relays : relay[r].until \in Nat
    BY DEF TypeOK, RelayState, LoopState, IdleRelay
  <2>2. ASSUME NEW n \in Sequence, NEW account \in Accounts, AppendEvent(n, account)
        PROVE  Goal
    <3>1. PICK availableIn \in SeenByStore(0) :
            events' = [events EXCEPT ![n] = NewRecord(account, availableIn)]
      BY <2>2, Zenon DEF AppendEvent
    <3>2. /\ ~Appended(n) /\ UNCHANGED <<relay, delivered>>
          /\ events'[n] = NewRecord(account, availableIn)
          /\ \A s \in Sequence \ {n} : events'[s] = events[s]
      BY <2>2, <3>1 DEF AppendEvent, TypeOK
    <3>3. RecordOK(n)'
      <4>1. ~events'[n].published /\ events'[n].claimToken = None /\ events'[n].claimedFor = 0
        BY <3>2 DEF NewRecord
      <4> QED
        BY <4>1 DEF RecordOK
    <3>4. ASSUME NEW s \in Sequence, s # n PROVE RecordOK(s)'
      <4>1. events'[s] = events[s] /\ delivered' = delivered
        BY <3>2, <3>4
      <4> QED
        BY <4>1 DEF RecordOK, Appended
    <3>5. ASSUME NEW r \in Relays PROVE RelayOK(r)'
      <4>1. \A s \in relay[r].batch : events'[s] = events[s]
        BY <2>1, <3>2 DEF RelayOK
      <4> QED
        BY <3>2, <4>1, RelayUntouched
    <3>6. TokensDistinct'
      BY <3>2 DEF TokensDistinct
    <3> QED
      BY <3>3, <3>4, <3>5, <3>6
  <2>3. ASSUME NEW r \in Relays, ClaimPendingOutbox(r) PROVE Goal
    <3>0. PICK batch \in SUBSET Sequence, until \in Nat :
            ClaimRecords(r, batch, until) /\ \A s \in batch : Pending(s)
      BY <2>3, ClaimsPending
    <3>a. PICK token \in Tokens : Claimed(r, batch, until, token)
      BY <3>0, ClaimEffect, Zenon
    <3>1. /\ FreshToken(token, batch)
          /\ \A s \in batch :
               /\ events'[s].account = events[s].account
               /\ events'[s].published = events[s].published
               /\ events'[s].availableIn = events[s].availableIn
               /\ events'[s].claimToken = token /\ events'[s].claimedFor = until
          /\ \A s \in Sequence \ batch : events'[s] = events[s]
          /\ relay'[r].pc = "publish" /\ relay'[r].token = token
          /\ relay'[r].until = until /\ relay'[r].batch = batch
          /\ \A o \in Relays \ {r} : relay'[o] = relay[o]
          /\ UNCHANGED delivered
      BY <3>a, Zenon DEF Claimed
    <3>2. ASSUME NEW s \in batch PROVE RecordOK(s)'
      <4>1. ~events'[s].published /\ events'[s].availableIn = 0 /\ Appended(s)'
        BY <3>0, <3>1 DEF Pending, Appended
      <4> QED
        BY <4>1 DEF RecordOK
    <3>3. \A s \in Sequence \ batch : RecordOK(s)'
      BY <3>1 DEF RecordOK, Appended
    <3>4. RelayOK(r)'
      <4>1. \A s \in batch : Appended(s)'
        BY <3>0, <3>1 DEF Pending, Appended
      <4> QED
        BY <3>1, <4>1 DEF RelayOK, HoldsBatch
    <3>5. ASSUME NEW o \in Relays \ {r} PROVE RelayOK(o)'
      <4>1. relay[o].until > 0 => \A s \in relay[o].batch : s \notin batch
        BY <3>0 DEF RelayOK, HoldsBatch, Pending
      <4>2. relay[o].until > 0 => \A s \in relay[o].batch : events'[s] = events[s]
        BY <2>1, <3>1, <4>1
      <4>3. \A s \in relay[o].batch : events'[s].account = events[s].account
        BY <2>1, <3>1
      <4>4. relay'[o] = relay[o] /\ UNCHANGED delivered
        BY <3>1
      <4> QED
        BY <4>2, <4>3, <4>4, RelayUntouched
    <3>6. TokensDistinct'
      <4>1. \A o \in Relays : relay[o].token # relay'[r].token
        BY <3>1 DEF FreshToken
      <4> QED
        BY <3>1, <4>1, TokensStay
    <3> QED
      BY <3>2, <3>3, <3>4, <3>5, <3>6
  <2>4. ASSUME NEW r \in Relays, PublishAccepted(r) \/ PublishFailed(r) PROVE Goal
    <3>1. /\ relay[r].pc = "publish" /\ UNCHANGED events
          /\ delivered \subseteq delivered'
          /\ relay'[r].pc = "published" => relay[r].record \in delivered'
          /\ relay'[r].token = relay[r].token /\ relay'[r].until = relay[r].until
          /\ relay'[r].batch = relay[r].batch /\ relay'[r].record = relay[r].record
          /\ \A o \in Relays \ {r} : relay'[o] = relay[o]
      BY <2>4 DEF PublishAccepted, PublishFailed, TypeOK, RelayState, LoopState, IdleRelay
    <3>2. \A s \in Sequence : RecordOK(s)'
      BY <3>1 DEF RecordOK, Appended
    <3>3. RelayOK(r)'
      BY <3>1 DEF RelayOK, HoldsBatch, Appended
    <3>4. ASSUME NEW o \in Relays \ {r} PROVE RelayOK(o)'
      BY <2>1, <3>1, RelayUntouched
    <3>5. TokensDistinct'
      BY <3>1, TokensStay
    <3> QED
      BY <3>2, <3>3, <3>4, <3>5
  <2>5. ASSUME NEW r \in Relays, UNCHANGED <<events, delivered>>,
               relay' = [relay EXCEPT ![r] = IdleRelay]
        PROVE  Goal
    <3>1. relay'[r] = IdleRelay /\ \A o \in Relays \ {r} : relay'[o] = relay[o]
      BY <2>5 DEF TypeOK
    <3>2. \A s \in Sequence : RecordOK(s)'
      BY <2>5 DEF RecordOK, Appended
    <3>3. RelayOK(r)' /\ relay'[r].token = None
      BY <3>1, IdleOK
    <3>4. ASSUME NEW o \in Relays \ {r} PROVE RelayOK(o)'
      BY <2>1, <2>5, <3>1, RelayUntouched
    <3>5. TokensDistinct'
      BY <3>1, <3>3, TokensStay
    <3> QED
      BY <3>2, <3>3, <3>4, <3>5
  <2>6. ASSUME NEW r \in Relays, MarkOutboxPublished(r) \/ MarkOutboxFailed(r),
               Owned(relay[r].record, relay[r].token)
        PROVE  Goal
    <3> DEFINE s == relay[r].record
    <3>1. /\ relay[r].pc # "idle" /\ s \in Sequence /\ s \in relay[r].batch
          /\ events[s].claimToken = relay[r].token /\ relay[r].token # None
          /\ events'[s].account = events[s].account
          /\ events'[s].claimToken = None /\ events'[s].claimedFor = 0
          /\ \/ /\ relay[r].pc = "published" /\ events'[s].published
                /\ events'[s].availableIn = events[s].availableIn
             \/ events'[s].published = events[s].published
          /\ \A t \in Sequence \ {s} : events'[t] = events[t]
          /\ Continue(r)
          /\ UNCHANGED delivered
      BY <2>6, MarkEffect
    <3>2. relay[r].pc = "published" => s \in delivered
      BY SMTT(30) DEF RelayOK
    <3> HIDE DEF s
    <3>3. /\ \A o \in Relays \ {r} : relay'[o] = relay[o]
          /\ relay'[r].pc \in {"idle", "publish"}
          /\ relay'[r].token \in {None, relay[r].token}
          /\ relay'[r].until \in {0, relay[r].until}
          /\ relay'[r].batch \subseteq relay[r].batch \ {s}
          /\ relay'[r] \in RelayState
      BY <3>1, ContinueEffect DEF s
    <3>4. ASSUME NEW t \in Sequence, t = s PROVE RecordOK(t)'
      <4>1. ~events[s].published /\ events[s].availableIn = 0 /\ Appended(t)'
        BY <3>1, <3>4 DEF RecordOK, RelayOK, Appended
      <4>2. events'[t].claimToken = None /\ events'[t].claimedFor = 0
        BY <3>1, <3>4
      <4>3. events'[t].published =>
              t \in delivered' /\ Appended(t)' /\ events'[t].availableIn = 0
        BY <3>1, <3>2, <3>4, <4>1, Zenon
      <4> QED
        BY <4>2, <4>3 DEF RecordOK
    <3>5. \A t \in Sequence \ {s} : RecordOK(t)'
      BY <3>1 DEF RecordOK, Appended
    <3>6. RelayOK(r)'
      <4>1. relay'[r].until > 0 => relay'[r].token = relay[r].token /\ relay'[r].until = relay[r].until
        BY <3>3 DEF RelayState, LoopState, IdleRelay
      <4>2. \A t \in relay'[r].batch : t \in relay[r].batch /\ events'[t] = events[t]
        BY <2>1, <3>1, <3>3
      <4> QED
        BY <3>1, <3>3, <4>1, <4>2 DEF RelayOK, HoldsBatch, Appended
    <3>7. ASSUME NEW o \in Relays \ {r} PROVE RelayOK(o)'
      <4>1. relay[o].until > 0 => s \notin relay[o].batch
        <5>1. relay[o].token # relay[r].token
          BY <3>1 DEF TokensDistinct
        <5> QED
          BY <3>1, <5>1 DEF RelayOK, HoldsBatch
      <4>2. relay[o].until > 0 => \A t \in relay[o].batch : events'[t] = events[t]
        BY <2>1, <3>1, <4>1
      <4>3. relay'[o] = relay[o] /\ UNCHANGED delivered
        BY <3>1, <3>3
      <4>4. \A t \in relay[o].batch : events'[t].account = events[t].account
        BY <2>1, <3>1
      <4> QED
        BY <4>2, <4>3, <4>4, RelayUntouched
    <3>8. TokensDistinct'
      BY <3>3, TokensStay
    <3> QED
      BY <3>4, <3>5, <3>6, <3>7, <3>8, SMTT(30)
  <2>7. ASSUME NEW r \in Relays,
               \/ DrainAbort(r)
               \/ /\ MarkOutboxPublished(r) \/ MarkOutboxFailed(r)
                  /\ ~Owned(relay[r].record, relay[r].token)
        PROVE  Goal
    BY <2>5, <2>7 DEF DrainAbort, MarkOutboxPublished, MarkOutboxFailed
  <2>8. CASE Tick
    <3>1. /\ UNCHANGED delivered
          /\ \A s \in Sequence :
               /\ events'[s].account = events[s].account
               /\ events'[s].published = events[s].published
               /\ events'[s].claimToken = events[s].claimToken
               /\ events'[s].availableIn = Elapse(events[s].availableIn)
               /\ events'[s].claimedFor = Elapse(events[s].claimedFor)
      BY <2>8, ZenonT(60) DEF Tick, TypeOK, Record
    <3>2. \A r \in Relays :
            /\ relay'[r].pc = relay[r].pc /\ relay'[r].token = relay[r].token
            /\ relay'[r].batch = relay[r].batch /\ relay'[r].record = relay[r].record
            /\ relay'[r].until = Elapse(relay[r].until)
      BY <2>8, TickEffect
    <3>3. Elapse(0) = 0 /\ \A left \in Nat : Elapse(left) > 0 => left > 0
      BY DEF Elapse
    <3>4. \A s \in Sequence : RecordOK(s)'
      BY <3>1, <3>3 DEF RecordOK, Appended
    <3>5. ASSUME NEW r \in Relays PROVE RelayOK(r)'
      <4>1. \A s \in relay'[r].batch : Appended(s)'
        BY <2>1, <3>1, <3>2 DEF RelayOK, Appended
      <4>2. relay'[r].until > 0 => relay[r].until > 0
        BY <2>1, <3>2, <3>3
      <4>3. HoldsBatch(r)'
        BY <2>1, <3>1, <3>2, <4>2 DEF RelayOK, HoldsBatch
      <4> QED
        BY <3>1, <3>2, <4>1, <4>3 DEF RelayOK
    <3>6. TokensDistinct'
      BY <3>2 DEF TokensDistinct
    <3> QED
      BY <3>4, <3>5, <3>6, SMTT(30)
  <2>9. CASE UNCHANGED vars
    <3>1. UNCHANGED <<events, relay, delivered>>
      BY <2>9 DEF vars
    <3> QED
      BY <3>1 DEF RecordOK, RelayOK, HoldsBatch, TokensDistinct, Appended
  <2> QED
    BY <2>2, <2>3, <2>4, <2>6, <2>7, <2>8, <2>9 DEF Next, Drain
<1> QED
  BY <1>1, <1>2, TypeCorrect, PTL DEF Spec

(* No event is lost: what is marked published was delivered.               *)
THEOREM NothingLost == Spec => []PublishedWasDelivered
<1>1. RelayFacts => PublishedWasDelivered
  BY DEF RelayFacts, PublishedWasDelivered
<1> QED
  BY <1>1, RelaysCorrect, PTL

(* While a lease runs its relay alone owns the rest of its batch.          *)
THEOREM BatchesExclusive == Spec => []BatchExclusive
<1>1. TypeOK /\ RelayFacts => BatchExclusive
  <2> SUFFICES ASSUME TypeOK, RelayFacts, NEW r \in Relays, Busy(r), relay[r].until > 0,
                      NEW s \in relay[r].batch
               PROVE  /\ events[s].claimToken = relay[r].token
                      /\ ~events[s].published
                      /\ \A o \in Relays \ {r} :
                           Busy(o) /\ relay[o].until > 0 => s \notin relay[o].batch
    BY DEF BatchExclusive
  <2>1. relay[r].token # None /\ s \in Sequence
    BY BusyRelay DEF Busy
  <2>2. events[s].claimToken = relay[r].token
    BY DEF RelayFacts
  <2>3. ~events[s].published
    BY <2>1, <2>2 DEF RelayFacts
  <2>4. ASSUME NEW o \in Relays \ {r}, relay[o].until > 0, s \in relay[o].batch PROVE FALSE
    <3>1. events[s].claimToken = relay[o].token
      BY <2>4 DEF RelayFacts
    <3>2. relay[o].token # relay[r].token
      BY <2>1 DEF RelayFacts
    <3> QED
      BY <2>2, <3>1, <3>2
  <2> QED
    BY <2>2, <2>3, <2>4
<1> QED
  BY <1>1, TypeCorrect, RelaysCorrect, PTL

(* A published record is never touched again: no claim picks it up, and no *)
(* relay still owns it when its late mark arrives.                         *)
THEOREM PublishedFinal == Spec => PublishedIsFinal
<1> DEFINE Kept == \A s \in Sequence : events[s].published => events'[s] = events[s]
<1>1. TypeOK /\ RelayFacts /\ [Next]_vars => Kept
  <2> SUFFICES ASSUME TypeOK, [Next]_vars, \A s \in Sequence : RecordOK(s),
                      NEW s \in Sequence, events[s].published
               PROVE  events'[s] = events[s]
    BY Pieces
  <2>1. /\ Appended(s)
        /\ events[s].claimToken = None /\ events[s].claimedFor = 0
        /\ events[s].availableIn = 0
    BY DEF RecordOK
  <2>2. ASSUME NEW n \in Sequence, NEW account \in Accounts, AppendEvent(n, account)
        PROVE  events'[s] = events[s]
    BY <2>1, <2>2 DEF AppendEvent, TypeOK
  <2>3. ASSUME NEW r \in Relays, ClaimPendingOutbox(r) PROVE events'[s] = events[s]
    <3>1. PICK batch \in SUBSET Sequence, until \in Nat :
            ClaimRecords(r, batch, until) /\ \A t \in batch : Pending(t)
      BY <2>3, ClaimsPending
    <3>2. s \notin batch
      BY <3>1 DEF Pending
    <3>3. \A t \in Sequence \ batch : events'[t] = events[t]
      BY <3>1, ClaimEffect, Zenon DEF Claimed
    <3> QED
      BY <3>2, <3>3
  <2>4. ASSUME NEW r \in Relays, MarkOutboxPublished(r) \/ MarkOutboxFailed(r)
        PROVE  events'[s] = events[s]
    <3>1. CASE Owned(relay[r].record, relay[r].token)
      <4>1. relay[r].record # s
        BY <2>1, <3>1 DEF Owned
      <4> QED
        BY <2>4, <3>1, <4>1, MarkEffect
    <3>2. CASE ~Owned(relay[r].record, relay[r].token)
      BY <2>4, <3>2, SMTT(30) DEF MarkOutboxPublished, MarkOutboxFailed
    <3> QED
      BY <3>1, <3>2
  <2>5. CASE Tick
    <3>1. Elapse(0) = 0
      BY DEF Elapse
    <3>2. \A rec \in Record :
            rec.availableIn = 0 /\ rec.claimedFor = 0 =>
              [rec EXCEPT !.availableIn = 0, !.claimedFor = 0] = rec
      BY Zenon DEF Record
    <3>3. events[s] \in Record
      BY DEF TypeOK
    <3>4. events'[s] = [events[s] EXCEPT !.availableIn = Elapse(events[s].availableIn),
                                         !.claimedFor = Elapse(events[s].claimedFor)]
      BY <2>5, Zenon DEF Tick
    <3>5. events'[s] = [events[s] EXCEPT !.availableIn = 0, !.claimedFor = 0]
      BY <2>1, <3>1, <3>4, Zenon
    <3> QED
      BY <2>1, <3>2, <3>3, <3>5, Zenon
  <2>6. CASE UNCHANGED events
    BY <2>6
  <2> QED
    BY <2>2, <2>3, <2>4, <2>5, <2>6, Zenon
    DEF Next, Drain, PublishAccepted, PublishFailed, DrainAbort, vars
<1> QED
  BY <1>1, TypeCorrect, RelaysCorrect, PTL DEF Spec, PublishedIsFinal
-----------------------------------------------------------------------------
(* The delays that are stored or about to be never pass their limits.      *)
WaitOK(rec) ==
  /\ rec.backoff <= LongestBackoff
  /\ rec.availableIn <= LongestBackoff + MaxSkew
  /\ rec.claimedFor <= ClaimTTL + MaxSkew

(* What the relays do to a record, and time, keep its delays in bounds.    *)
LEMMA WaitSteps ==
  /\ LongestBackoff \in Nat /\ InitialBackoff <= LongestBackoff
  /\ \A left \in Nat : Elapse(left) \in Nat /\ Elapse(left) <= left
  /\ \A delay \in Nat : Doubled(delay) <= LongestBackoff
  /\ \A left \in Nat : \A t \in SeenByStore(left) : t \in Nat /\ t <= left + MaxSkew
  /\ \A until \in Leases : until <= ClaimTTL + MaxSkew
<1>1. LongestBackoff \in Nat /\ InitialBackoff <= LongestBackoff /\ MaxBackoff <= LongestBackoff
  BY DEF LongestBackoff
<1>2. \A left \in Nat : Elapse(left) \in Nat /\ Elapse(left) <= left
  BY DEF Elapse
<1>3. \A delay \in Nat : Doubled(delay) <= LongestBackoff
  BY <1>1 DEF Doubled
<1>4. \A left \in Nat : \A t \in SeenByStore(left) : t \in Nat /\ t <= left + MaxSkew
  BY DEF SeenByStore
<1>5. \A until \in Leases : until <= ClaimTTL + MaxSkew
  BY DEF Leases
<1> QED
  BY <1>1, <1>2, <1>3, <1>4, <1>5

(* The loop starts each record without a delay in hand.                    *)
LEMMA RetryForgotten ==
  ASSUME TypeOK, NEW r \in Relays, relay[r].pc # "idle", Continue(r)
  PROVE  \A o \in Relays : relay'[o].retry \in {0, relay[o].retry}
<1> DEFINE rest == relay[r].batch \ {relay[r].record}
<1>1. relay[r] \in LoopState
  BY DEF TypeOK, RelayState, IdleRelay
<1>2. CASE rest = {}
  <2>1. relay' = [relay EXCEPT ![r] = IdleRelay]
    BY <1>2 DEF Continue
  <2> QED
    BY <2>1 DEF TypeOK, IdleRelay
<1>3. CASE rest # {}
  <2>1. PICK s \in Nexts(rest) :
          relay' = [relay EXCEPT ![r] =
            [@ EXCEPT !.pc = "publish", !.batch = rest, !.record = s, !.retry = 0]]
    BY <1>3 DEF Continue
  <2> HIDE DEF rest
  <2>2. [relay[r] EXCEPT !.pc = "publish", !.batch = rest, !.record = s, !.retry = 0].retry = 0
    BY <1>1, Zenon DEF LoopState
  <2> QED
    BY <2>1, <2>2 DEF TypeOK
<1> QED
  BY <1>2, <1>3

(* Time passes for the delay that a relay has in hand.                     *)
LEMMA RetryElapses ==
  ASSUME TypeOK, Tick
  PROVE  \A r \in Relays : relay[r].retry \in Nat /\ relay'[r].retry = Elapse(relay[r].retry)
<1> DEFINE Local == [pc : {"idle", "publish", "published", "failed"},
                     token : Tokens \cup {None}, until : Nat,
                     batch : SUBSET Sequence, record : Sequence \cup {None}, retry : Nat]
<1>1. \A r \in Relays : relay[r] \in Local
  <2>1. IdleRelay \in Local
    BY DEF IdleRelay
  <2>2. \A me \in LoopState : me \in Local
    BY DEF LoopState
  <2> QED
    BY <2>1, <2>2 DEF TypeOK, RelayState
<1>2. \A r \in Relays :
        relay'[r] = [relay[r] EXCEPT !.until = Elapse(@), !.retry = Elapse(@)]
  BY Zenon DEF Tick
<1> QED
  BY <1>1, <1>2, ZenonT(60)

(* A record stays away from the relays for a bounded time only.            *)
THEOREM WaitsEnd == Spec => []WaitsBounded
<1>1. Init => WaitsBounded
  BY WaitSteps DEF Init, WaitsBounded, NewRecord, IdleRelay
<1>2. TypeOK /\ WaitsBounded /\ [Next]_vars => WaitsBounded'
  <2> SUFFICES ASSUME TypeOK, WaitsBounded, [Next]_vars PROVE WaitsBounded'
    OBVIOUS
  <2>0. /\ \A s \in Sequence : WaitOK(events[s]) /\ events[s] \in Record
        /\ (\A s \in Sequence : WaitOK(events'[s])) /\
           (\A r \in Relays : relay'[r].retry <= LongestBackoff + MaxSkew) => WaitsBounded'
    BY DEF WaitsBounded, WaitOK, TypeOK
  <2>1. ASSUME NEW s \in Sequence, NEW account \in Accounts, AppendEvent(s, account)
        PROVE  WaitsBounded'
    <3>1. PICK availableIn \in SeenByStore(0) :
            events' = [events EXCEPT ![s] = NewRecord(account, availableIn)]
      BY <2>1, Zenon DEF AppendEvent
    <3>2. WaitOK(NewRecord(account, availableIn))
      BY WaitSteps DEF NewRecord, WaitOK
    <3>3. \A t \in Sequence : WaitOK(events'[t])
      BY <2>0, <3>1, <3>2 DEF TypeOK
    <3> QED
      BY <2>0, <2>1, <3>3 DEF AppendEvent, WaitsBounded
  <2>2. ASSUME NEW r \in Relays, ClaimPendingOutbox(r) PROVE WaitsBounded'
    <3>0. \A skipped : NextRecords(skipped) \in SUBSET Sequence
      BY DEF NextRecords
    <3>1. PICK batch \in SUBSET Sequence, until \in Leases : ClaimRecords(r, batch, until)
      BY <2>2, <3>0, Zenon DEF ClaimPendingOutbox
    <3>2. PICK token \in Tokens, first \in Nexts(batch) :
            /\ events' = [s \in Sequence |->
                 IF s \in batch
                 THEN [events[s] EXCEPT !.claimToken = token, !.claimedFor = until]
                 ELSE events[s]]
            /\ relay' = [relay EXCEPT ![r] =
                 [pc |-> "publish", token |-> token, until |-> until,
                  batch |-> batch, record |-> first, retry |-> 0]]
      BY <3>1, ZenonT(60) DEF ClaimRecords
    <3>3. \A rec \in Record : WaitOK(rec) =>
            WaitOK([rec EXCEPT !.claimToken = token, !.claimedFor = until])
      <4>1. \A rec \in Record :
              LET new == [rec EXCEPT !.claimToken = token, !.claimedFor = until] IN
              /\ new.backoff = rec.backoff /\ new.availableIn = rec.availableIn
              /\ new.claimedFor = until
        BY Zenon DEF Record
      <4> QED
        BY <4>1, WaitSteps, Zenon DEF WaitOK
    <3>4. \A s \in Sequence : WaitOK(events'[s])
      BY <2>0, <3>2, <3>3, Zenon
    <3>5. \A o \in Relays : relay'[o].retry \in {0, relay[o].retry}
      BY <3>2 DEF TypeOK
    <3> QED
      BY <2>0, <3>4, <3>5, WaitSteps DEF WaitsBounded
  <2>3. ASSUME NEW r \in Relays, PublishAccepted(r) \/ PublishFailed(r) PROVE WaitsBounded'
    <3>1. relay[r].pc = "publish"
      BY <2>3 DEF PublishAccepted, PublishFailed
    <3>2. relay[r].record \in Sequence /\ events[relay[r].record].backoff \in Nat
      BY <3>1, BusyRelay DEF Record
    <3>3. relay'[r].retry <= LongestBackoff + MaxSkew /\ \A o \in Relays \ {r} : relay'[o] = relay[o]
      <4>0. relay[r] \in LoopState
        BY <3>1 DEF TypeOK, RelayState, IdleRelay
      <4>1. CASE PublishAccepted(r)
        <5>1. relay'[r] = [relay[r] EXCEPT !.pc = "published"] /\ \A o \in Relays \ {r} : relay'[o] = relay[o]
          BY <4>1 DEF PublishAccepted, TypeOK
        <5>2. relay'[r].retry = relay[r].retry
          BY <4>0, <5>1, Zenon DEF LoopState
        <5> QED
          BY <5>1, <5>2 DEF WaitsBounded
      <4>2. CASE PublishFailed(r)
        <5>1. PICK retry \in SeenByStore(events[relay[r].record].backoff) :
                relay' = [relay EXCEPT ![r] =
                           [relay[r] EXCEPT !.pc = "failed", !.retry = retry]]
          BY <4>2, Zenon DEF PublishFailed
        <5>2. [relay[r] EXCEPT !.pc = "failed", !.retry = retry].retry = retry
          BY <4>0, Zenon DEF LoopState
        <5>3. relay'[r].retry = retry /\ \A o \in Relays \ {r} : relay'[o] = relay[o]
          BY <5>1, <5>2 DEF TypeOK
        <5>4. retry \in Nat /\ retry <= events[relay[r].record].backoff + MaxSkew
          BY <3>2, WaitSteps
        <5>5. events[relay[r].record].backoff <= LongestBackoff
          BY <3>2 DEF WaitsBounded
        <5> QED
          BY <3>2, <5>3, <5>4, <5>5, WaitSteps
      <4> QED
        BY <2>3, <4>1, <4>2
    <3>4. UNCHANGED events
      BY <2>3 DEF PublishAccepted, PublishFailed
    <3> QED
      BY <2>0, <3>3, <3>4 DEF WaitsBounded
  <2>4. ASSUME NEW r \in Relays, MarkOutboxPublished(r) \/ MarkOutboxFailed(r) PROVE WaitsBounded'
    <3> DEFINE s == relay[r].record
    <3>1. /\ relay[r].pc # "idle"
          /\ \/ UNCHANGED events /\ relay' = [relay EXCEPT ![r] = IdleRelay]
             \/ /\ Continue(r)
                /\ \/ events' = [events EXCEPT ![s] = Published(@)]
                   \/ events' = [events EXCEPT ![s] = Failed(@, relay[r].retry)]
      BY <2>4 DEF MarkOutboxPublished, MarkOutboxFailed
    <3>2. s \in Sequence /\ events[s] \in Record /\ WaitOK(events[s])
          /\ relay[r].retry \in Nat /\ relay[r].retry <= LongestBackoff + MaxSkew
      BY <2>0, <3>1, BusyRelay DEF WaitsBounded
    <3>3. WaitOK(Published(events[s]))
      <4>1. \A rec \in Record : /\ Published(rec).backoff = rec.backoff
                                /\ Published(rec).availableIn = rec.availableIn
                                /\ Published(rec).claimedFor = 0
        BY Zenon DEF Published, Record
      <4> QED
        BY <3>2, <4>1 DEF WaitOK
    <3>4. WaitOK(Failed(events[s], relay[r].retry))
      <4>1. \A rec \in Record, retry \in Nat :
              /\ Failed(rec, retry).backoff = Doubled(rec.backoff)
              /\ Failed(rec, retry).availableIn = retry
              /\ Failed(rec, retry).claimedFor = 0
        BY Zenon DEF Failed, Record
      <4>2. events[s].backoff \in Nat
        BY <3>2 DEF Record
      <4> QED
        BY <3>2, <4>1, <4>2, WaitSteps DEF WaitOK
    <3> HIDE DEF s
    <3>5. \A t \in Sequence : WaitOK(events'[t])
      BY <2>0, <3>1, <3>2, <3>3, <3>4 DEF TypeOK
    <3>6. \A o \in Relays : relay'[o].retry \in {0, relay[o].retry}
      BY <3>1, RetryForgotten DEF TypeOK, IdleRelay
    <3> QED
      BY <2>0, <3>5, <3>6, WaitSteps DEF WaitsBounded
  <2>5. ASSUME NEW r \in Relays, DrainAbort(r) PROVE WaitsBounded'
    <3>1. \A o \in Relays : relay'[o].retry \in {0, relay[o].retry}
      BY <2>5 DEF TypeOK, DrainAbort, IdleRelay
    <3> QED
      BY <2>0, <2>5, <3>1, WaitSteps DEF WaitsBounded, DrainAbort
  <2>6. CASE Tick
    <3>1. \A rec \in Record : WaitOK(rec) =>
            WaitOK([rec EXCEPT !.availableIn = Elapse(@), !.claimedFor = Elapse(@)])
      <4> SUFFICES ASSUME NEW rec \in Record, WaitOK(rec)
                   PROVE  WaitOK([rec EXCEPT !.availableIn = Elapse(@), !.claimedFor = Elapse(@)])
        OBVIOUS
      <4> DEFINE new == [rec EXCEPT !.availableIn = Elapse(@), !.claimedFor = Elapse(@)]
      <4>1. /\ new.backoff = rec.backoff /\ new.availableIn = Elapse(rec.availableIn)
            /\ new.claimedFor = Elapse(rec.claimedFor)
        BY Zenon DEF Record
      <4>2. rec.availableIn \in Nat /\ rec.claimedFor \in Nat /\ rec.backoff \in Nat
        BY DEF Record
      <4> HIDE DEF new
      <4>3. WaitOK(new)
        BY <4>1, <4>2, WaitSteps DEF WaitOK
      <4> QED
        BY <4>3 DEF new
    <3>2. \A s \in Sequence :
            events'[s] = [events[s] EXCEPT !.availableIn = Elapse(@), !.claimedFor = Elapse(@)]
      BY <2>6, Zenon DEF Tick
    <3>3. \A s \in Sequence : WaitOK(events'[s])
      BY <2>0, <3>1, <3>2, Zenon
    <3>4. \A r \in Relays : relay[r].retry \in Nat /\ relay'[r].retry = Elapse(relay[r].retry)
      BY <2>6, RetryElapses
    <3> QED
      BY <2>0, <3>3, <3>4, WaitSteps DEF WaitsBounded
  <2>7. CASE UNCHANGED vars
    BY <2>7 DEF WaitsBounded, vars
  <2> QED
    BY <2>1, <2>2, <2>3, <2>4, <2>5, <2>6, <2>7 DEF Next, Drain
<1> QED
  BY <1>1, <1>2, TypeCorrect, PTL DEF Spec
=============================================================================

---------------------------- MODULE OutboxRelay ----------------------------
(***************************************************************************)
(* The transactional outbox and the relays that drain it                   *)
(* (internal/messaging/relay.go).  Each relay claims a batch under one     *)
(* token and one lease, then publishes and marks its records one by one;   *)
(* every store call and every Publish is a step, so relays interleave      *)
(* between any two of them.                                                *)
(*                                                                         *)
(* Driver is the store: "memory", the events slice of                      *)
(* internal/store/memory.go, or "postgres", the payment_outbox table of    *)
(* internal/postgres/store.go.  Each operation is one critical section of  *)
(* the first and one statement of the second, and PostgreSQL differs in    *)
(* four ways: sequence numbers are drawn before the commit, so a lower     *)
(* number may appear after a higher one or never; rows that another        *)
(* statement has locked are skipped; a batch comes back in any order; and  *)
(* leases and delays are computed with the relay's clock and compared with *)
(* the database's, which may differ by up to MaxSkew.                      *)
(*                                                                         *)
(* ClaimedUntil and AvailableAt are the time left until those instants by  *)
(* the store's clock, as in Rail.  Event payloads are left out: nothing    *)
(* here looks at or changes them.  Attempts matter only for                *)
(* backoff(Attempts + 1), so a record carries that delay instead, which    *)
(* each counted attempt takes one loop iteration further.                  *)
(***************************************************************************)
EXTENDS Integers, FiniteSets

CONSTANTS None, Relays, Accounts, Tokens,
          Driver,           \* PIXRAIL_STORE_DRIVER
          MaxSkew,          \* bound: how far the two clocks are apart
          MaxRecords,       \* bound: records ever appended
          Limit,            \* Drain's batch limit
          ClaimTTL, InitialBackoff, MaxBackoff    \* RetryPolicy

VARIABLES events,      \* events[sequence]
          relay,       \* relay-local state
          delivered    \* sequence numbers the broker has received

vars == <<events, relay, delivered>>

Sequence == 1..MaxRecords

(* NewRelay replaces every policy value that is not positive.              *)
ASSUME RelayAssumption ==
  /\ MaxRecords \in Nat /\ Limit \in Nat \ {0}
  /\ ClaimTTL \in Nat \ {0}
  /\ InitialBackoff \in Nat \ {0} /\ MaxBackoff \in Nat \ {0}
  /\ None \notin Tokens /\ None \notin Accounts
  /\ Driver \in {"memory", "postgres"} /\ MaxSkew \in Nat
  /\ Driver = "memory" => MaxSkew = 0

Record ==
  [account : Accounts \cup {None}, published : BOOLEAN, backoff : Nat,
   availableIn : Nat, claimToken : Tokens \cup {None}, claimedFor : Nat]

NewRecord(account, availableIn) ==
  [account |-> account, published |-> FALSE, backoff |-> InitialBackoff,
   availableIn |-> availableIn, claimToken |-> None, claimedFor |-> 0]

IdleRelay ==
  [pc |-> "idle", token |-> None, until |-> 0, batch |-> {}, record |-> None,
   retry |-> 0]

Init ==
  /\ events = [s \in Sequence |-> NewRecord(None, 0)]    \* none appended yet
  /\ relay = [r \in Relays |-> IdleRelay]
  /\ delivered = {}

Appended(s) == events[s].account # None

-----------------------------------------------------------------------------
(* Deliberately wrong forms of the operators below.                        *)
PendingEvenIfClaimed(s) ==
  Appended(s) /\ ~events[s].published /\ events[s].availableIn = 0
PendingUnclaimed(s) == PendingEvenIfClaimed(s) /\ events[s].claimToken = None
AnyClaim(s, token) == Appended(s)
FailedNeverRetried(rec, retryAfter) ==
  [rec EXCEPT !.published = TRUE, !.claimToken = None, !.claimedFor = 0]

-----------------------------------------------------------------------------
(* What is left, by the store's clock, of a delay computed with a relay's. *)
SeenByStore(left) == {t \in 0..(left + MaxSkew) : t >= left - MaxSkew}

(* appendEventsLocked numbers events as it appends them; insertOutbox has  *)
(* drawn the number from a sequence before its transaction commits or      *)
(* rolls back.  OccurredAt, from which a record is available, is not later *)
(* than the commit by the clock of the process that wrote it.              *)
AppendEvent(s, account) ==
  /\ ~Appended(s)
  /\ Driver = "memory" => \A t \in 1..(s - 1) : Appended(t)
  /\ \E availableIn \in SeenByStore(0) :
       events' = [events EXCEPT ![s] = NewRecord(account, availableIn)]
  /\ UNCHANGED <<relay, delivered>>

(* What ClaimPendingOutbox and PendingOutbox may return.                   *)
Pending(s) ==
  /\ Appended(s)
  /\ ~events[s].published
  /\ events[s].availableIn = 0
  /\ events[s].claimedFor = 0

(* The first Limit pending records among those not skipped.                *)
NextRecords(skipped) ==
  LET candidates == {s \in Sequence \ skipped : Pending(s)} IN
  {s \in candidates : Cardinality({t \in candidates : t < s}) < Limit}

(* `for update skip locked': another statement, finished or rolled back    *)
(* later, may hold the lock of any row.                                    *)
Skippable == IF Driver = "postgres" THEN Sequence ELSE {}

(* Both stores check the expiry with the relay's clock, before they wait   *)
(* for the mutex or send the statement: a lease may be used up by then.    *)
Leases == 0..(ClaimTTL + MaxSkew)

(* The next record of a batch: update ... returning promises no order.     *)
Nexts(batch) ==
  {s \in batch : Driver = "memory" => \A t \in batch : s <= t}

(* newClaimToken: no relay presents the token and no record keeps it.  The *)
(* tokens that the claim itself replaces are forgotten with it.            *)
FreshToken(token, batch) ==
  /\ \A r \in Relays : relay[r].token # token
  /\ \A s \in Sequence \ batch : events[s].claimToken # token

(* Drain up to ClaimPendingOutbox.  claimUntil is computed before the call *)
(* so the lease may be any part of ClaimTTL by the time it is stored.  An  *)
(* empty batch, an expiry already past and a store error end Drain at once *)
(* and change nothing.                                                     *)
ClaimRecords(r, batch, until) ==
  /\ relay[r].pc = "idle"
  /\ batch # {}
  /\ \E token \in Tokens, first \in Nexts(batch) :
       /\ FreshToken(token, batch)
       /\ events' = [s \in Sequence |->
            IF s \in batch
            THEN [events[s] EXCEPT !.claimToken = token, !.claimedFor = until]
            ELSE events[s]]
       /\ relay' = [relay EXCEPT ![r] =
            [pc |-> "publish", token |-> token, until |-> until,
             batch |-> batch, record |-> first, retry |-> 0]]
  /\ UNCHANGED delivered

ClaimPendingOutbox(r) ==
  \E skipped \in SUBSET Skippable, until \in Leases :
    ClaimRecords(r, NextRecords(skipped), until)

PublishAccepted(r) ==
  /\ relay[r].pc = "publish"
  /\ delivered' = delivered \cup {relay[r].record}
  /\ relay' = [relay EXCEPT ![r].pc = "published"]
  /\ UNCHANGED events

(* Publish returns an error; the broker may have taken the event in.  The  *)
(* record in hand was read when it was claimed, and nothing counts an      *)
(* attempt while its claim stands, so its attempts are still the stored    *)
(* ones whenever the mark below is accepted (and unused when it is not).   *)
PublishFailed(r) ==
  /\ relay[r].pc = "publish"
  /\ delivered' \in {delivered, delivered \cup {relay[r].record}}
  /\ \E retry \in SeenByStore(events[relay[r].record].backoff) :
       relay' = [relay EXCEPT ![r].pc = "failed", ![r].retry = retry]
  /\ UNCHANGED events

(* Both marks are accepted from the owner of the claim only; the lease may *)
(* have run out.                                                           *)
Owned(s, token) == events[s].claimToken # None /\ events[s].claimToken = token

Published(rec) == [rec EXCEPT !.published = TRUE, !.claimToken = None, !.claimedFor = 0]

(* One iteration of backoff's loop.  The first delay is InitialBackoff     *)
(* even when that exceeds MaxBackoff.                                      *)
Doubled(delay) == IF 2 * delay >= MaxBackoff THEN MaxBackoff ELSE 2 * delay

Failed(rec, retryAfter) ==
  [rec EXCEPT !.backoff = Doubled(@),
              !.availableIn = retryAfter, !.claimToken = None, !.claimedFor = 0]

(* The loop goes on with the rest of the batch.                            *)
Continue(r) ==
  LET rest == relay[r].batch \ {relay[r].record} IN
  IF rest = {} THEN relay' = [relay EXCEPT ![r] = IdleRelay]
  ELSE \E s \in Nexts(rest) :
         relay' = [relay EXCEPT ![r] =
           [@ EXCEPT !.pc = "publish", !.batch = rest, !.record = s, !.retry = 0]]

MarkOutboxPublished(r) ==
  /\ relay[r].pc = "published"
  /\ IF Owned(relay[r].record, relay[r].token)
     THEN /\ events' = [events EXCEPT ![relay[r].record] = Published(@)]
          /\ Continue(r)
     ELSE /\ relay' = [relay EXCEPT ![r] = IdleRelay]
          /\ UNCHANGED events
  /\ UNCHANGED delivered

MarkOutboxFailed(r) ==
  /\ relay[r].pc = "failed"
  /\ IF Owned(relay[r].record, relay[r].token)
     THEN /\ events' = [events EXCEPT ![relay[r].record] = Failed(@, relay[r].retry)]
          /\ Continue(r)
     ELSE /\ relay' = [relay EXCEPT ![r] = IdleRelay]
          /\ UNCHANGED events
  /\ UNCHANGED delivered

(* Crash, cancelled context or store error: the rest of the batch waits    *)
(* for its lease to run out.                                               *)
DrainAbort(r) ==
  /\ relay[r].pc # "idle"
  /\ relay' = [relay EXCEPT ![r] = IdleRelay]
  /\ UNCHANGED <<events, delivered>>

Elapse(left) == IF left > 0 THEN left - 1 ELSE 0

Tick ==
  /\ events' = [s \in Sequence |-> [events[s] EXCEPT !.availableIn = Elapse(@),
                                                     !.claimedFor = Elapse(@)]]
  /\ relay' = [r \in Relays |-> [relay[r] EXCEPT !.until = Elapse(@), !.retry = Elapse(@)]]
  /\ UNCHANGED delivered

Drain(r) ==
  \/ ClaimPendingOutbox(r)
  \/ PublishAccepted(r)
  \/ PublishFailed(r)
  \/ MarkOutboxPublished(r)
  \/ MarkOutboxFailed(r)
  \/ DrainAbort(r)

Next ==
  \/ \E s \in Sequence, account \in Accounts : AppendEvent(s, account)
  \/ \E r \in Relays : Drain(r)
  \/ Tick

Spec == Init /\ [][Next]_vars

(* Nothing is assumed of a relay but that time passes: Drain is called by  *)
(* no process of this repository, only by its tests.                       *)
LiveSpec == Spec /\ WF_vars(Tick)

-----------------------------------------------------------------------------
LoopState ==
  [pc : {"publish", "published", "failed"}, token : Tokens, until : Nat,
   batch : SUBSET Sequence, record : Sequence, retry : Nat]
RelayState == {IdleRelay} \cup LoopState

(* The outbox records and each relay's locals have the shape of the Go     *)
(* types, and a relay inside its loop has a token and a record in hand.    *)
TypeOK ==
  /\ events \in [Sequence -> Record]
  /\ relay \in [Relays -> RelayState]
  /\ \A r \in Relays : relay[r].pc # "idle" => relay[r].record \in relay[r].batch
  /\ delivered \subseteq Sequence

(* No event is lost: a record is marked published only when the broker has *)
(* received it, whichever relay delivered it and whichever one's mark won. *)
PublishedWasDelivered ==
  \A s \in Sequence : events[s].published => s \in delivered

Busy(r) == relay[r].pc # "idle"

(* While its lease runs, a relay owns every record left in its batch: the  *)
(* record names its token, is still unpublished, and is in no other live   *)
(* batch.                                                                  *)
BatchExclusive ==
  \A r \in Relays :
    Busy(r) /\ relay[r].until > 0 =>
      \A s \in relay[r].batch :
        /\ events[s].claimToken = relay[r].token
        /\ ~events[s].published
        /\ \A o \in Relays \ {r} :
             Busy(o) /\ relay[o].until > 0 => s \notin relay[o].batch

(* A published record is never claimed, retried or changed again, not even *)
(* by a relay that failed to deliver it under an older claim.              *)
PublishedIsFinal ==
  [][\A s \in Sequence : events[s].published => events'[s] = events[s]]_vars

(* The inductive strengthening.  A published or unappended record carries  *)
(* no claim and no delay; a relay marks as published only what the broker  *)
(* has received; its token is its own; and until its lease runs out every  *)
(* record left in its batch carries that token and the same expiry.        *)
RelayFacts ==
  /\ \A s \in Sequence :
       /\ events[s].published \/ ~Appended(s) =>
            events[s].claimToken = None /\ events[s].claimedFor = 0
       /\ events[s].published =>
            s \in delivered /\ Appended(s) /\ events[s].availableIn = 0
       /\ events[s].claimToken # None => events[s].availableIn = 0
  /\ \A r \in Relays :
       /\ \A s \in relay[r].batch : Appended(s)
       /\ relay[r].pc = "published" => relay[r].record \in delivered
       /\ \A o \in Relays \ {r} :
            relay[r].token # None => relay[o].token # relay[r].token
       /\ relay[r].until > 0 =>
            \A s \in relay[r].batch :
              /\ events[s].claimToken = relay[r].token
              /\ events[s].claimedFor = relay[r].until

LongestBackoff == IF InitialBackoff > MaxBackoff THEN InitialBackoff ELSE MaxBackoff

(* However often deliveries fail and relays crash, a record that is not    *)
(* published is kept from the next claim for at most one lease or the      *)
(* longest back-off, give or take the skew: no claim needs to be released, *)
(* and no back-off grows past its limit.                                   *)
WaitsBounded ==
  /\ \A s \in Sequence :
       /\ events[s].backoff <= LongestBackoff
       /\ events[s].availableIn <= LongestBackoff + MaxSkew
       /\ events[s].claimedFor <= ClaimTTL + MaxSkew
  /\ \A r \in Relays : relay[r].retry <= LongestBackoff + MaxSkew

InTime(r, s) == relay[r].record = s /\ relay[r].until > 0

(* What a process that hosts relays owes them: it calls Drain again and    *)
(* again, with a context that ends every call (relay.go sets no deadline), *)
(* and some claim is stored in time and meets no locked row.               *)
HostDrains ==
  /\ SF_vars(\E r \in Relays, until \in Leases \ {0} :
               ClaimRecords(r, NextRecords({}), until))
  /\ \A r \in Relays :
       WF_vars(PublishAccepted(r) \/ PublishFailed(r)
               \/ MarkOutboxPublished(r) \/ MarkOutboxFailed(r))

(* What the broker owes: a record whose publish is tried again and again   *)
(* within a live lease is some day taken, and marked before the lease ends.*)
BrokerAccepts ==
  \A s \in Sequence :
    /\ SF_vars(\E r \in Relays : PublishAccepted(r) /\ InTime(r, s))
    /\ SF_vars(\E r \in Relays : MarkOutboxPublished(r) /\ InTime(r, s))

(* Given such a host and such a broker, every appended event is eventually *)
(* published: failed deliveries, back-off, crashed relays, expired leases, *)
(* skipped rows and batches that end early leave none behind.              *)
EventuallyPublished ==
  HostDrains /\ BrokerAccepts =>
    \A s \in Sequence : Appended(s) ~> events[s].published

(* docs/events/README.md 22: "Partition by `account_id` for payer-local    *)
(* ordering": the broker receives an account's events in sequence order.   *)
PayerLocalOrdering ==
  [][\A s \in delivered' \ delivered, t \in Sequence :
       t < s /\ events[t].account = events[s].account => t \in delivered]_vars
=============================================================================

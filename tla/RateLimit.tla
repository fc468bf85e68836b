----------------------------- MODULE RateLimit -----------------------------
(***************************************************************************)
(* The four limiters of internal/ratelimit behind their common interface,  *)
(* Allow(key) bool.  A limiter keeps one entry per key, reads the clock    *)
(* and touches only its key's entry under its mutex; so one entry is       *)
(* modelled, each call is one step, and the clock moves between calls.     *)
(*                                                                         *)
(*              size           refill            period                    *)
(*   token      Capacity       RefillTokens      RefillEvery               *)
(*   fixed      Limit          -                 Window                    *)
(*   sliding    Limit          -                 Window                    *)
(*   leaky      Capacity       -                 LeakEvery                 *)
(*                                                                         *)
(* The constructors replace every value that is not positive.              *)
(***************************************************************************)
EXTENDS Integers, Sequences, FiniteSets

CONSTANTS None,                            \* no entry for the key yet
          MaxSize, MaxRefill, MaxPeriod,   \* bounds: limiter configurations
          MaxTime                          \* bound: the clock

(* What the limiters store for a key.                                      *)
Bucket == [tokens : Nat, seenAt : Nat]
FixedWindow == [start : Nat, count : Nat]
Events == Seq(Nat)
LeakyBucket == [level : Nat, seenAt : Nat]

ASSUME LimitAssumption ==
  /\ MaxSize \in Nat \ {0} /\ MaxRefill \in Nat \ {0}
  /\ MaxPeriod \in Nat \ {0} /\ MaxTime \in Nat
  /\ None \notin Bucket /\ None \notin FixedWindow
  /\ None \notin Events /\ None \notin LeakyBucket

VARIABLES config,     \* the limiter: its kind and its configuration
          entry,      \* what it stores for the key
          now,        \* the clock
          admitted    \* when each admitted call was made

vars == <<config, entry, now, admitted>>

Kinds == {"token", "fixed", "sliding", "leaky"}

Config ==
  [kind : Kinds, size : 1..MaxSize, refill : 1..MaxRefill, period : 1..MaxPeriod]

Init ==
  /\ config \in {c \in Config : c.kind # "token" => c.refill = 1}
  /\ entry = None
  /\ now = 0
  /\ admitted = <<>>

AtMost(n, bound) == IF n > bound THEN bound ELSE n
AtLeast(n, bound) == IF n < bound THEN bound ELSE n

(* Whole periods since an entry was last brought up to date.               *)
Periods(seenAt) == (now - seenAt) \div config.period

-----------------------------------------------------------------------------
(* Deliberately wrong forms of the operators below.                        *)
BeforeCutoff(t) == t < now - config.period
RefilledUncapped(b) ==
  [tokens |-> b.tokens + Periods(b.seenAt) * config.refill,
   seenAt |-> b.seenAt + Periods(b.seenAt) * config.period]

-----------------------------------------------------------------------------
(* Each limiter as what it stores and what it answers, [next, allow].      *)

Refilled(b) ==
  [tokens |-> AtMost(b.tokens + Periods(b.seenAt) * config.refill, config.size),
   seenAt |-> b.seenAt + Periods(b.seenAt) * config.period]

Token ==
  IF entry = None
  THEN [next |-> [tokens |-> config.size - 1, seenAt |-> now], allow |-> TRUE]
  ELSE LET b == Refilled(entry) IN
       IF b.tokens <= 0 THEN [next |-> b, allow |-> FALSE]
       ELSE [next |-> [b EXCEPT !.tokens = @ - 1], allow |-> TRUE]

Fixed ==
  IF entry = None \/ now - entry.start >= config.period
  THEN [next |-> [start |-> now, count |-> 1], allow |-> TRUE]
  ELSE IF entry.count >= config.size THEN [next |-> entry, allow |-> FALSE]
       ELSE [next |-> [entry EXCEPT !.count = @ + 1], allow |-> TRUE]

NotAfterCutoff(t) == t <= now - config.period

(* Where the loop over the log stops: at its end, or at the first event    *)
(* after the cutoff.                                                       *)
KeepFrom(events) ==
  CHOOSE k \in 0..Len(events) :
    /\ \A i \in 1..k : NotAfterCutoff(events[i])
    /\ k < Len(events) => ~NotAfterCutoff(events[k + 1])

Kept(events) == SubSeq(events, KeepFrom(events) + 1, Len(events))

Sliding ==
  LET events == IF entry = None THEN <<>> ELSE Kept(entry) IN
  IF Len(events) >= config.size THEN [next |-> events, allow |-> FALSE]
  ELSE [next |-> Append(events, now), allow |-> TRUE]

Leaked(b) ==
  [level |-> AtLeast(b.level - Periods(b.seenAt), 0),
   seenAt |-> b.seenAt + Periods(b.seenAt) * config.period]

Leaky ==
  IF entry = None
  THEN [next |-> [level |-> 1, seenAt |-> now], allow |-> TRUE]
  ELSE LET b == Leaked(entry) IN
       IF b.level >= config.size THEN [next |-> b, allow |-> FALSE]
       ELSE [next |-> [b EXCEPT !.level = @ + 1], allow |-> TRUE]

Decision ==
  CASE config.kind = "token"   -> Token
    [] config.kind = "fixed"   -> Fixed
    [] config.kind = "sliding" -> Sliding
    [] config.kind = "leaky"   -> Leaky

Allow ==
  /\ entry' = Decision.next
  /\ admitted' = IF Decision.allow THEN Append(admitted, now) ELSE admitted
  /\ UNCHANGED <<config, now>>

Tick ==
  /\ now < MaxTime
  /\ now' = now + 1
  /\ UNCHANGED <<config, entry, admitted>>

Next == Allow \/ Tick

Spec == Init /\ [][Next]_vars

-----------------------------------------------------------------------------
(* The state has its types: a limiter stores its own kind of entry.        *)
TypeOK ==
  /\ config \in Config /\ now \in Nat /\ admitted \in Seq(Nat)
  /\ entry # None => /\ config.kind = "token" => entry \in Bucket
                     /\ config.kind = "fixed" => entry \in FixedWindow
                     /\ config.kind = "sliding" => entry \in Events
                     /\ config.kind = "leaky" => entry \in LeakyBucket

(* Calls admitted at an instant of [from, to).                             *)
Admitted(from, to) ==
  Cardinality({i \in DOMAIN admitted : from <= admitted[i] /\ admitted[i] < to})

(* What a limiter hands out per period in the long run.                    *)
Rate ==
  CASE config.kind = "token" -> config.refill
    [] config.kind = "leaky" -> 1
    [] OTHER                 -> config.size

(* What it may hand out beyond that; the sliding window, nothing.          *)
Burst == IF config.kind = "sliding" THEN 0 ELSE config.size

(* No n consecutive periods, wherever they start, admit more than n times  *)
(* the rate plus one burst.                                                *)
RollingLimit ==
  \A from \in 0..now, n \in 1..MaxTime + 1 :
    Admitted(from, from + n * config.period) <= n * Rate + Burst

(* A call is refused only when a full share was admitted within the last   *)
(* period: no idle time, no burst and no refused call is held against a    *)
(* key for longer.                                                         *)
RefusedOnlyWhenUsedUp ==
  ~Decision.allow =>
    Admitted(now - config.period + 1, now + 1) >= AtMost(Rate, config.size)
=============================================================================

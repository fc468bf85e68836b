-------------------------- MODULE RateLimit_proofs --------------------------
(***************************************************************************)
(* Proofs about RateLimit for every configuration of the four limiters,    *)
(* every call pattern and every length of time.                            *)
(***************************************************************************)
EXTENDS RateLimit, FiniteSetTheorems, SequenceTheorems, WellFoundedInduction, TLAPS

-----------------------------------------------------------------------------
(* Counting the calls of a log.                                            *)

Within(q, from, to) == {i \in DOMAIN q : from <= q[i] /\ q[i] < to}
Count(q, from, to) == Cardinality(Within(q, from, to))

(* The calls of a window are finitely many.                                *)
LEMMA CountTyped ==
  ASSUME NEW q \in Seq(Nat), NEW from \in Int, NEW to \in Int
  PROVE  IsFiniteSet(Within(q, from, to)) /\ Count(q, from, to) \in Nat
<1>1. IsFiniteSet(1..Len(q))
  BY FS_Interval
<1>2. Within(q, from, to) \subseteq 1..Len(q)
  BY DEF Within
<1>3. IsFiniteSet(Within(q, from, to))
  BY <1>1, <1>2, FS_Subset
<1> QED
  BY <1>3, FS_CardinalityType DEF Count

(* A window without calls counts none.                                     *)
LEMMA CountNone ==
  ASSUME NEW q, NEW from, NEW to, \A i \in DOMAIN q : ~(from <= q[i] /\ q[i] < to)
  PROVE  Count(q, from, to) = 0
<1>1. Within(q, from, to) = {}
  BY DEF Within
<1> QED
  BY <1>1, FS_EmptySet DEF Count

(* A wider window counts no less.                                          *)
LEMMA CountWider ==
  ASSUME NEW q \in Seq(Nat), NEW from \in Int, NEW to \in Int,
         NEW wfrom \in Int, NEW wto \in Int, wfrom <= from, to <= wto
  PROVE  Count(q, from, to) <= Count(q, wfrom, wto)
<1>1. Within(q, from, to) \subseteq Within(q, wfrom, wto)
  <2> SUFFICES ASSUME NEW i \in DOMAIN q, from <= q[i], q[i] < to
               PROVE  wfrom <= q[i] /\ q[i] < wto
    BY DEF Within
  <2>1. q[i] \in Nat
    OBVIOUS
  <2> QED
    BY <2>1
<1>2. IsFiniteSet(Within(q, wfrom, wto))
  BY CountTyped
<1> QED
  BY <1>1, <1>2, FS_Subset DEF Count

(* A window counts what its two parts count.                               *)
LEMMA CountSplit ==
  ASSUME NEW q \in Seq(Nat), NEW from \in Int, NEW mid \in Int, NEW to \in Int,
         from <= mid, mid <= to
  PROVE  Count(q, from, to) = Count(q, from, mid) + Count(q, mid, to)
<1> DEFINE A == Within(q, from, mid)
           B == Within(q, mid, to)
<1>1. \A i \in DOMAIN q : q[i] \in Nat
  OBVIOUS
<1>2. Within(q, from, to) = A \cup B
  BY <1>1 DEF Within
<1>3. A \cap B = {}
  BY <1>1 DEF Within
<1>4. IsFiniteSet(A) /\ IsFiniteSet(B) /\ Cardinality(A) \in Nat /\ Cardinality(B) \in Nat
  BY CountTyped DEF Count
<1>5. Cardinality(A \cap B) = 0
  BY <1>3, FS_EmptySet, Zenon
<1>6. Cardinality(A \cup B) = Cardinality(A) + Cardinality(B) - Cardinality(A \cap B)
  BY <1>4, FS_Union
<1> HIDE DEF A, B
<1>7. Cardinality(A \cup B) = Cardinality(A) + Cardinality(B)
  BY <1>4, <1>5, <1>6
<1> QED
  BY <1>2, <1>7 DEF Count, A, B

(* An appended call counts in the windows that hold it.                    *)
LEMMA CountAppend ==
  ASSUME NEW q \in Seq(Nat), NEW t \in Nat, NEW from \in Int, NEW to \in Int
  PROVE  Count(Append(q, t), from, to) =
           IF from <= t /\ t < to THEN Count(q, from, to) + 1 ELSE Count(q, from, to)
<1> DEFINE n == Len(q) + 1
           r == Append(q, t)
<1>1. /\ DOMAIN r = 1..n /\ DOMAIN q = 1..Len(q) /\ Len(q) \in Nat
      /\ \A i \in DOMAIN q : r[i] = q[i]
      /\ r[n] = t
  BY AppendProperties
<1>2. n \notin Within(q, from, to)
  BY <1>1 DEF Within
<1>3. IsFiniteSet(Within(q, from, to)) /\ Count(q, from, to) \in Nat
  BY CountTyped
<1>4. DOMAIN r = DOMAIN q \cup {n} /\ n \notin DOMAIN q
  BY <1>1
<1> HIDE DEF n, r
<1>5. CASE from <= t /\ t < to
  <2>1. Within(r, from, to) = Within(q, from, to) \cup {n}
    BY <1>1, <1>4, <1>5, Zenon DEF Within
  <2>2. Cardinality(Within(q, from, to) \cup {n}) = Cardinality(Within(q, from, to)) + 1
    BY <1>2, <1>3, FS_AddElement, Zenon
  <2> QED
    BY <2>1, <2>2, <1>5 DEF Count, r
<1>6. CASE ~(from <= t /\ t < to)
  <2>1. Within(r, from, to) = Within(q, from, to)
    BY <1>1, <1>4, <1>6, Zenon DEF Within
  <2> QED
    BY <2>1, <1>6 DEF Count, r
<1> QED
  BY <1>5, <1>6

-----------------------------------------------------------------------------
(* Arithmetic of shares and periods.                                       *)

(* A number of shares or periods is a natural number ...                   *)
LEMMA TimesTyped ==
  ASSUME NEW a \in Nat, NEW x \in Nat
  PROVE  a * x \in Nat
  OBVIOUS

(* ... fewer of them are what is left ...                                  *)
LEMMA TimesMinus ==
  ASSUME NEW a \in Nat, NEW b \in Nat, NEW x \in Nat
  PROVE  (a - b) * x = a * x - b * x
  OBVIOUS

(* ... and any come to one at least.                                       *)
LEMMA TimesAtLeast ==
  ASSUME NEW a \in Nat \ {0}, NEW x \in Nat
  PROVE  a * x >= x
<1>1. PICK b \in Nat : a = b + 1
  <2> WITNESS a - 1 \in Nat
  <2> QED
    OBVIOUS
<1>2. (b + 1) * x = b * x + x /\ b * x \in Nat
  OBVIOUS
<1> QED
  BY <1>1, <1>2

(* Whole periods: the last one has begun and is not over.                  *)
LEMMA DivBounds ==
  ASSUME NEW a \in Nat, NEW x \in Nat \ {0}
  PROVE  /\ a \div x \in Nat
         /\ (a \div x) * x <= a
         /\ a < (a \div x) * x + x
<1>1. a \div x \in Int /\ a % x \in 0..(x - 1) /\ a = x * (a \div x) + (a % x)
  OBVIOUS
<1>2. x * (a \div x) = (a \div x) * x
  BY <1>1
<1>3. (a \div x) * x <= a /\ a < (a \div x) * x + x
  BY <1>1, <1>2
<1>4. a \div x \in Nat
  OBVIOUS
<1> QED
  BY <1>3, <1>4

-----------------------------------------------------------------------------
(* The account that token, fixed and leaky limiters keep.  At the instant  *)
(* seen they had avail calls to give away, and handed out rate more at the *)
(* end of each period before it: what any window admitted and what is left *)
(* come to no more than one burst and the periods' shares; and what was    *)
(* admitted since seen and what is left come to no less than one share.    *)
Metered(size, rate, period, q, seen, avail) ==
  /\ \A i \in DOMAIN q : q[i] < seen + period
  /\ \A from, to \in Int, m \in Nat :
       seen <= from + m * period => Count(q, from, to) + avail <= size + m * rate
  /\ \A to \in Int :
       (\A i \in DOMAIN q : q[i] < to) => avail + Count(q, seen, to) >= AtMost(rate, size)

(* A key's first call finds everything available.                          *)
LEMMA MeteredNew ==
  ASSUME NEW size \in Nat, NEW rate \in Nat, NEW period \in Nat, NEW t \in Nat
  PROVE  Metered(size, rate, period, <<>>, t, size)
<1>1. ASSUME NEW from \in Int, NEW to \in Int
      PROVE  Count(<<>>, from, to) = 0
  BY CountNone
<1>2. ASSUME NEW m \in Nat
      PROVE  m * rate \in Nat
  BY TimesTyped
<1>3. AtMost(rate, size) <= size
  BY DEF AtMost
<1> QED
  BY <1>1, <1>2, <1>3 DEF Metered

(* Adding the shares of p whole periods, up to the burst.                  *)
LEMMA MeteredFill ==
  ASSUME NEW size \in Nat, NEW rate \in Nat, NEW period \in Nat \ {0},
         NEW q \in Seq(Nat), NEW seen \in Nat, NEW avail \in 0..size, NEW p \in Nat,
         Metered(size, rate, period, q, seen, avail)
  PROVE  Metered(size, rate, period, q, seen + p * period, AtMost(avail + p * rate, size))
<1> DEFINE later == seen + p * period
           more == AtMost(avail + p * rate, size)
<1>1. /\ p * period \in Nat /\ p * rate \in Nat
      /\ p # 0 => p * period >= period /\ p * rate >= rate
      /\ p = 0 => p * period = 0 /\ p * rate = 0
  BY TimesTyped, TimesAtLeast
<1>2. /\ later \in Nat /\ more \in 0..size /\ more <= avail + p * rate
      /\ p # 0 => more >= AtMost(rate, size)
      /\ p = 0 => later = seen /\ more = avail
  <2> DEFINE share == p * rate
  <2>1. share \in Nat /\ (p # 0 => share >= rate) /\ (p = 0 => share = 0)
    BY <1>1
  <2> HIDE DEF share
  <2>2. LET m == AtMost(avail + share, size) IN
        /\ m \in 0..size /\ m <= avail + share
        /\ p # 0 => m >= AtMost(rate, size)
        /\ p = 0 => m = avail
    BY <2>1 DEF AtMost
  <2> QED
    BY <1>1, <2>2 DEF share
<1>3. \A i \in DOMAIN q : q[i] \in Nat /\ q[i] < seen + period
  BY DEF Metered
<1> HIDE DEF more
<1>4. ASSUME NEW i \in DOMAIN q
      PROVE  q[i] < later + period
  <2> DEFINE x == q[i]
             passed == p * period
  <2>1. x \in Nat /\ x < seen + period /\ passed \in Nat
    BY <1>1, <1>3
  <2> HIDE DEF x, passed
  <2>2. x < (seen + passed) + period
    BY <2>1
  <2> QED
    BY <2>2 DEF x, passed
<1>5. ASSUME NEW from \in Int, NEW to \in Int, NEW m \in Nat, later <= from + m * period
      PROVE  Count(q, from, to) + more <= size + m * rate
  <2>1. m * rate \in Nat /\ m * period \in Nat /\ Count(q, from, to) \in Nat
    BY TimesTyped, CountTyped
  <2>2. CASE m >= p
    <3>1. (m - p) * period = m * period - p * period /\ (m - p) * rate = m * rate - p * rate
      BY TimesMinus
    <3>2. m - p \in Nat /\ seen <= from + (m - p) * period
      BY <1>1, <1>5, <2>1, <2>2, <3>1
    <3>3. Count(q, from, to) + avail <= size + (m - p) * rate
      BY <3>2, Zenon DEF Metered
    <3> QED
      BY <1>1, <1>2, <2>1, <3>1, <3>3, SMTT(30)
  <2>3. CASE m < p
    <3>1. (p - m) * period = p * period - m * period /\ (p - m) * period >= period
      BY <2>3, TimesMinus, TimesAtLeast
    <3>2. seen + period <= from
      <4> DEFINE passed == p * period
                 length == m * period
                 rest == (p - m) * period
      <4>1. /\ passed \in Nat /\ length \in Nat /\ rest = passed - length
            /\ rest >= period /\ seen + passed <= from + length
        BY <1>1, <1>5, <2>1, <3>1
      <4> HIDE DEF passed, length, rest
      <4> QED
        BY <4>1
    <3>3. Count(q, from, to) = 0
      <4>1. \A i \in DOMAIN q : ~(from <= q[i] /\ q[i] < to)
        BY <1>3, <3>2
      <4> QED
        BY <4>1, CountNone
    <3> QED
      BY <1>2, <2>1, <3>3, SMTT(30)
  <2> QED
    BY <2>2, <2>3
<1>6. ASSUME NEW to \in Int, \A i \in DOMAIN q : q[i] < to
      PROVE  more + Count(q, later, to) >= AtMost(rate, size)
  <2>1. Count(q, later, to) \in Nat /\ AtMost(rate, size) \in Nat
    BY <1>2, CountTyped DEF AtMost
  <2>2. CASE p = 0
    BY <1>2, <1>6, <2>2 DEF Metered
  <2>3. CASE p # 0
    BY <1>2, <2>1, <2>3, SMTT(30)
  <2> QED
    BY <2>2, <2>3
<1> QED
  BY <1>4, <1>5, <1>6 DEF Metered, more

(* Starting a new window once the last one is over, when a share is all    *)
(* there is to have.                                                       *)
LEMMA MeteredReset ==
  ASSUME NEW size \in Nat, NEW period \in Nat \ {0}, NEW q \in Seq(Nat),
         NEW seen \in Nat, NEW avail \in 0..size, NEW t \in Nat, seen + period <= t,
         Metered(size, size, period, q, seen, avail)
  PROVE  Metered(size, size, period, q, t, size)
<1>1. \A i \in DOMAIN q : q[i] \in Nat /\ q[i] < seen + period
  BY DEF Metered
<1>2. \A i \in DOMAIN q : q[i] < t + period
  BY <1>1
<1>3. ASSUME NEW from \in Int, NEW to \in Int, NEW m \in Nat, t <= from + m * period
      PROVE  Count(q, from, to) + size <= size + m * size
  <2>1. Count(q, from, to) \in Nat
    BY CountTyped
  <2>2. CASE m = 0
    <3>1. m * period = 0 /\ m * size = 0
      BY <2>2
    <3>2. \A i \in DOMAIN q : ~(from <= q[i] /\ q[i] < to)
      BY <1>1, <1>3, <3>1
    <3>3. Count(q, from, to) = 0
      BY <3>2, CountNone
    <3> QED
      BY <3>1, <3>3
  <2>3. CASE m # 0
    <3>1. /\ (m - 1) * period = m * period - 1 * period
          /\ (m - 1) * size = m * size - 1 * size
      BY TimesMinus
    <3>2. m * period \in Nat /\ m * size \in Nat /\ 1 * period = period /\ 1 * size = size
      BY TimesTyped
    <3>3. m - 1 \in Nat /\ seen <= from + (m - 1) * period
      BY <1>3, <2>3, <3>1, <3>2
    <3>4. Count(q, from, to) + avail <= size + (m - 1) * size
      BY <3>3, Zenon DEF Metered
    <3> QED
      BY <2>1, <3>1, <3>2, <3>4
  <2> QED
    BY <2>2, <2>3
<1>4. ASSUME NEW to \in Int
      PROVE  size + Count(q, t, to) >= AtMost(size, size)
  <2>1. Count(q, t, to) \in Nat
    BY CountTyped
  <2> QED
    BY <2>1 DEF AtMost
<1> QED
  BY <1>2, <1>3, <1>4 DEF Metered

(* Giving one call away during the current period.                         *)
LEMMA MeteredTake ==
  ASSUME NEW size \in Nat, NEW rate \in Nat, NEW period \in Nat \ {0},
         NEW q \in Seq(Nat), NEW seen \in Nat, NEW avail \in 1..size,
         NEW t \in Nat, seen <= t, t < seen + period, \A i \in DOMAIN q : q[i] <= t,
         Metered(size, rate, period, q, seen, avail)
  PROVE  Metered(size, rate, period, Append(q, t), seen, avail - 1)
<1> DEFINE r == Append(q, t)
<1>1. DOMAIN r = DOMAIN q \cup {Len(q) + 1} /\ r[Len(q) + 1] = t
      /\ \A i \in DOMAIN q : r[i] = q[i] /\ q[i] \in Nat
  BY AppendProperties, SMTT(30)
<1>2. ASSUME NEW from \in Int, NEW to \in Int
      PROVE  /\ Count(q, from, to) \in Nat /\ Count(r, from, to) \in Nat
             /\ Count(r, from, to) <= Count(q, from, to) + 1
             /\ from <= t /\ t < to => Count(r, from, to) = Count(q, from, to) + 1
  <2>1. Count(q, from, to) \in Nat
    BY CountTyped
  <2>2. Count(r, from, to) =
          IF from <= t /\ t < to THEN Count(q, from, to) + 1 ELSE Count(q, from, to)
    BY CountAppend
  <2> HIDE DEF r
  <2> QED
    BY <2>1, <2>2
<1> HIDE DEF r
<1>3. \A i \in DOMAIN r : r[i] < seen + period
  BY <1>1 DEF Metered
<1>4. ASSUME NEW from \in Int, NEW to \in Int, NEW m \in Nat, seen <= from + m * period
      PROVE  Count(r, from, to) + (avail - 1) <= size + m * rate
  <2>1. Count(q, from, to) + avail <= size + m * rate
    BY <1>4 DEF Metered
  <2>2. m * rate \in Nat
    BY TimesTyped
  <2>3. /\ Count(q, from, to) \in Nat /\ Count(r, from, to) \in Nat
        /\ Count(r, from, to) <= Count(q, from, to) + 1
    BY <1>2, Zenon
  <2> QED
    BY <2>1, <2>2, <2>3, SMTT(30)
<1>5. ASSUME NEW to \in Int, \A i \in DOMAIN r : r[i] < to
      PROVE  (avail - 1) + Count(r, seen, to) >= AtMost(rate, size)
  <2>1. t < to /\ \A i \in DOMAIN q : q[i] < to
    BY <1>1, <1>5
  <2>2. avail + Count(q, seen, to) >= AtMost(rate, size)
    BY <2>1 DEF Metered
  <2>3. AtMost(rate, size) \in Nat
    BY DEF AtMost
  <2>4. Count(q, seen, to) \in Nat /\ Count(r, seen, to) = Count(q, seen, to) + 1
    <3>1. seen \in Int /\ seen <= t
      OBVIOUS
    <3> QED
      BY <1>2, <2>1, <3>1, Zenon
  <2> QED
    BY <2>2, <2>3, <2>4, SMTT(30)
<1> QED
  BY <1>3, <1>4, <1>5, Zenon DEF Metered, r

-----------------------------------------------------------------------------
(* RollingLimit for windows of any place and length.                       *)
Rolling(q, period, rate, burst) ==
  \A from \in Int, n \in Nat : Count(q, from, from + n * period) <= n * rate + burst

(* A window that is over keeps its count; the account bounds the others.   *)
LEMMA RollingMetered ==
  ASSUME NEW size \in Nat, NEW rate \in Nat, NEW period \in Nat \ {0},
         NEW q \in Seq(Nat), NEW t \in Nat, NEW seen \in Nat, NEW avail \in Nat, seen <= t,
         Rolling(q, period, rate, size),
         Metered(size, rate, period, Append(q, t), seen, avail)
  PROVE  Rolling(Append(q, t), period, rate, size)
<1> SUFFICES ASSUME NEW from \in Int, NEW n \in Nat
             PROVE  Count(Append(q, t), from, from + n * period) <= n * rate + size
  BY DEF Rolling
<1>1. n * period \in Nat /\ n * rate \in Nat /\ Append(q, t) \in Seq(Nat)
  BY TimesTyped
<1> DEFINE to == from + n * period
           c == Count(Append(q, t), from, to)
<1>2. to \in Int
  BY <1>1
<1>3. c \in Nat
  BY <1>1, <1>2, CountTyped, Zenon
<1>4. CASE t < to
  <2>1. c + avail <= size + n * rate
    BY <1>2, <1>4 DEF Metered
  <2> HIDE DEF c
  <2> QED
    BY <1>1, <1>3, <2>1, SMTT(30) DEF c
<1>5. CASE ~(t < to)
  <2>1. c = Count(q, from, to)
    BY <1>2, <1>5, CountAppend
  <2> QED
    BY <2>1 DEF Rolling
<1> QED
  BY <1>4, <1>5

(* A call while fewer than size were admitted in the last period.          *)
LEMMA RollingSlides ==
  ASSUME NEW size \in Nat, NEW period \in Nat \ {0}, NEW q \in Seq(Nat), NEW t \in Nat,
         \A i \in DOMAIN q : q[i] <= t,
         Count(q, t - period + 1, t + 1) < size,
         Rolling(q, period, size, 0)
  PROVE  Rolling(Append(q, t), period, size, 0)
<1> SUFFICES ASSUME NEW from \in Int, NEW n \in Nat
             PROVE  Count(Append(q, t), from, from + n * period) <= n * size + 0
  BY DEF Rolling
<1> DEFINE to == from + n * period
           mid == t - period + 1
           recent == Count(q, mid, t + 1)
<1>1. n * period \in Nat /\ n * size \in Nat
  BY TimesTyped
<1>2. to \in Int /\ mid \in Int /\ mid <= t
  BY <1>1
<1>3. recent \in Nat /\ recent + 1 <= size
  <2>1. recent \in Nat
    BY <1>2, CountTyped
  <2> HIDE DEF recent
  <2>2. recent < size
    BY DEF recent
  <2> QED
    BY <2>1, <2>2
<1>4. CASE ~(from <= t /\ t < to)
  <2>1. Count(Append(q, t), from, to) = Count(q, from, to)
    BY <1>2, <1>4, CountAppend
  <2> QED
    BY <2>1 DEF Rolling
<1>5. CASE from <= t /\ t < to
  <2>1. Count(Append(q, t), from, to) = Count(q, from, to) + 1 /\ Count(q, from, to) \in Nat
    BY <1>2, <1>5, CountAppend, CountTyped
  <2>2. Count(q, from, to) = Count(q, from, t + 1) /\ Count(q, from, t + 1) \in Nat
    <3>1. \A i \in DOMAIN q : ~(t + 1 <= q[i] /\ q[i] < to)
      <4>1. \A i \in DOMAIN q : q[i] \in Nat
        OBVIOUS
      <4> QED
        BY <4>1
    <3>2. Count(q, t + 1, to) = 0
      BY <3>1, CountNone
    <3>3. Count(q, from, to) = Count(q, from, t + 1) + Count(q, t + 1, to)
      BY <1>2, <1>5, CountSplit
    <3>4. Count(q, from, t + 1) \in Nat
      BY CountTyped
    <3> QED
      BY <3>2, <3>3, <3>4
  <2>3. n # 0
    <3>1. n = 0 => n * period = 0
      OBVIOUS
    <3> QED
      BY <1>5, <3>1
  <2>4. (n - 1) * period = n * period - 1 * period /\ (n - 1) * size = n * size - 1 * size
    BY TimesMinus
  <2>5. 1 * period = period /\ 1 * size = size /\ n * size >= size
    BY <2>3, TimesAtLeast
  <2>6. CASE mid <= from
    <3>1. Count(q, from, t + 1) <= recent
      BY <1>2, <2>6, CountWider
    <3> DEFINE c == Count(Append(q, t), from, to)
    <3> HIDE DEF recent, c
    <3>2. c <= recent + 1 /\ c \in Nat
      BY <1>3, <2>1, <2>2, <3>1, SMTT(30) DEF c
    <3>3. recent + 1 <= n * size
      BY <1>1, <1>3, <2>5, SMTT(30)
    <3>4. c <= n * size + 0
      BY <1>1, <1>3, <3>2, <3>3
    <3> QED
      BY <3>4 DEF c
  <2>7. CASE from < mid
    <3>1. Count(q, from, t + 1) = Count(q, from, mid) + recent
      BY <1>2, <2>7, CountSplit
    <3>2. mid <= from + (n - 1) * period /\ n - 1 \in Nat /\ (n - 1) * period \in Nat
      BY <1>1, <1>5, <2>3, <2>4, <2>5, TimesTyped
    <3>3. Count(q, from, mid) <= Count(q, from, from + (n - 1) * period)
      BY <1>2, <3>2, CountWider
    <3>4. Count(q, from, from + (n - 1) * period) <= (n - 1) * size + 0
      BY <3>2, Zenon DEF Rolling
    <3>5. Count(q, from, mid) \in Nat /\ Count(q, from, from + (n - 1) * period) \in Nat
      BY <1>2, <3>2, CountTyped
    <3> HIDE DEF recent, mid
    <3> QED
      BY <1>1, <1>3, <2>1, <2>2, <2>4, <2>5, <3>1, <3>3, <3>4, <3>5, SMTT(30)
  <2> QED
    BY <1>2, <2>6, <2>7
<1> QED
  BY <1>4, <1>5

-----------------------------------------------------------------------------
(* The sliding window's log.                                               *)

LessThan == {p \in Nat \X Nat : p[1] < p[2]}

(* A set of natural numbers has a least one.                               *)
LEMMA LeastElement ==
  ASSUME NEW S \in SUBSET Nat, S # {}
  PROVE  \E x \in S : \A y \in S : x <= y
<1>1. IsWellFoundedOn(LessThan, Nat)
  BY NatLessThanWellFounded DEF LessThan, OpToRel
<1>2. PICK x \in S : \A y \in S : <<y, x>> \notin LessThan
  BY <1>1, WFMin, Zenon
<1>3. ASSUME NEW y \in S
      PROVE  x <= y
  <2>1. x \in Nat /\ y \in Nat /\ <<y, x>> \notin LessThan
    BY <1>2
  <2>2. y < x => <<y, x>> \in LessThan
    <3> DEFINE p == <<y, x>>
    <3>1. p \in Nat \X Nat /\ p[1] = y /\ p[2] = x
      BY <2>1
    <3> HIDE DEF p
    <3>2. y < x => p \in LessThan
      BY <3>1 DEF LessThan
    <3> QED
      BY <3>2 DEF p
  <2> QED
    BY <2>1, <2>2
<1> QED
  BY <1>3

(* Allow's loop stops somewhere.                                           *)
LEMMA KeepFromFound ==
  ASSUME NEW q \in Seq(Nat)
  PROVE  /\ KeepFrom(q) \in 0..Len(q)
         /\ \A i \in 1..KeepFrom(q) : NotAfterCutoff(q[i])
         /\ KeepFrom(q) < Len(q) => ~NotAfterCutoff(q[KeepFrom(q) + 1])
<1> DEFINE Stops(k) == /\ \A i \in 1..k : NotAfterCutoff(q[i])
                       /\ k < Len(q) => ~NotAfterCutoff(q[k + 1])
           Late == {i \in 1..Len(q) : ~NotAfterCutoff(q[i])}
<1>1. \E k \in 0..Len(q) : Stops(k)
  <2>1. CASE Late = {}
    <3>1. Stops(Len(q)) /\ Len(q) \in 0..Len(q)
      BY <2>1
    <3> QED
      BY <3>1, Zenon
  <2>2. CASE Late # {}
    <3>0. Late \in SUBSET Nat
      OBVIOUS
    <3> HIDE DEF Late
    <3>1. PICK x \in Late : \A y \in Late : x <= y
      BY <2>2, <3>0, LeastElement, Zenon
    <3> USE DEF Late
    <3>2. x - 1 \in 0..Len(q) /\ \A i \in 1..(x - 1) : i \notin Late /\ i \in 1..Len(q)
      BY <3>1
    <3>3. (x - 1) + 1 = x /\ ~NotAfterCutoff(q[x])
      OBVIOUS
    <3>4. Stops(x - 1)
      BY <3>2, <3>3
    <3> QED
      BY <3>2, <3>4, Zenon
  <2> QED
    BY <2>1, <2>2
<1>2. KeepFrom(q) = CHOOSE k \in 0..Len(q) : Stops(k)
  BY Zenon DEF KeepFrom
<1> HIDE DEF Stops
<1>3. KeepFrom(q) \in 0..Len(q) /\ Stops(KeepFrom(q))
  BY <1>1, <1>2, Zenon
<1> QED
  BY <1>3 DEF Stops

(* A log holds the last calls of q, and drops none after the cutoff.       *)
Log(q, log, cutoff) ==
  \E k \in 0..Len(q) :
    /\ log = SubSeq(q, k + 1, Len(q))
    /\ \A i \in 1..k : q[i] <= cutoff

(* A log is no more than its part of the calls.                            *)
LEMMA SuffixTyped ==
  ASSUME NEW q \in Seq(Nat), NEW k \in 0..Len(q)
  PROVE  /\ SubSeq(q, k + 1, Len(q)) \in Seq(Nat)
         /\ Len(SubSeq(q, k + 1, Len(q))) = Len(q) - k
         /\ \A i \in 1..(Len(q) - k) : SubSeq(q, k + 1, Len(q))[i] = q[k + i]
<1>1. \A i \in (k + 1)..Len(q) : q[i] \in Nat
  OBVIOUS
<1>2. k + 1 \in Int /\ Len(q) \in Int
  OBVIOUS
<1>3. /\ SubSeq(q, k + 1, Len(q)) \in Seq(Nat)
      /\ Len(SubSeq(q, k + 1, Len(q))) =
           IF k + 1 <= Len(q) THEN Len(q) - (k + 1) + 1 ELSE 0
      /\ \A i \in 1..(Len(q) - (k + 1) + 1) :
           SubSeq(q, k + 1, Len(q))[i] = q[(k + 1) + i - 1]
  BY <1>1, <1>2, SubSeqProperties
<1>4. /\ Len(q) - (k + 1) + 1 = Len(q) - k
      /\ (IF k + 1 <= Len(q) THEN Len(q) - (k + 1) + 1 ELSE 0) = Len(q) - k
  OBVIOUS
<1>5. ASSUME NEW i \in 1..(Len(q) - k)
      PROVE  SubSeq(q, k + 1, Len(q))[i] = q[k + i]
  <2>1. (k + 1) + i - 1 = k + i
    <3>1. \A a, b \in Int : (a + 1) + b - 1 = a + b
      OBVIOUS
    <3>2. k \in Int /\ i \in Int
      BY SMTT(30)
    <3> QED
      BY <3>1, <3>2, Zenon
  <2>2. i \in 1..(Len(q) - (k + 1) + 1)
    BY <1>4
  <2>3. SubSeq(q, k + 1, Len(q))[i] = q[(k + 1) + i - 1]
    BY <1>3, <2>2, Zenon
  <2> QED
    BY <2>1, <2>3, Zenon
<1>6. Len(SubSeq(q, k + 1, Len(q))) = Len(q) - k
  BY <1>3, <1>4, Zenon
<1> QED
  BY <1>3, <1>5, <1>6, Zenon

(* What is left of a log is a log, and holds as many calls as were         *)
(* admitted in the last period.                                            *)
LEMMA LogKept ==
  ASSUME now \in Nat, config.period \in Nat, NEW q \in Seq(Nat),
         \A i \in DOMAIN q : q[i] <= now,
         \A i, j \in DOMAIN q : i <= j => q[i] <= q[j],
         NEW log, Log(q, log, now - config.period)
  PROVE  /\ Kept(log) \in Seq(Nat)
         /\ Log(q, Kept(log), now - config.period)
         /\ Len(Kept(log)) = Count(q, now - config.period + 1, now + 1)
<1> DEFINE cutoff == now - config.period
           n == Len(q)
<1>1. PICK k \in 0..n : log = SubSeq(q, k + 1, n) /\ \A i \in 1..k : q[i] <= cutoff
  BY Zenon DEF Log
<1>2. log \in Seq(Nat) /\ Len(log) = n - k /\ \A i \in 1..(n - k) : log[i] = q[k + i]
  BY <1>1, SuffixTyped
<1>a. n \in Nat /\ cutoff \in Int /\ DOMAIN q = 1..n /\ \A i \in DOMAIN q : q[i] \in Nat
  OBVIOUS
<1> DEFINE f == KeepFrom(log)
           d == k + f
<1>3. /\ f \in 0..(n - k)
      /\ \A i \in 1..f : log[i] <= cutoff
      /\ f < n - k => ~(log[f + 1] <= cutoff)
  BY <1>2, KeepFromFound DEF NotAfterCutoff
<1>4. Kept(log) = SubSeq(log, f + 1, Len(log))
  BY DEF Kept
<1> HIDE DEF f, n
<1>5. /\ Kept(log) \in Seq(Nat) /\ Len(Kept(log)) = (n - k) - f
      /\ \A i \in 1..((n - k) - f) : Kept(log)[i] = log[f + i]
  <2>1. f \in 0..Len(log)
    BY <1>2, <1>3
  <2>2. /\ SubSeq(log, f + 1, Len(log)) \in Seq(Nat)
        /\ Len(SubSeq(log, f + 1, Len(log))) = Len(log) - f
        /\ \A i \in 1..(Len(log) - f) : SubSeq(log, f + 1, Len(log))[i] = log[f + i]
    BY <1>2, <2>1, SuffixTyped, Zenon
  <2> QED
    BY <1>2, <1>4, <2>2, Zenon
<1>6. n \in Nat /\ cutoff \in Int /\ d \in 0..n /\ n - d = (n - k) - f /\ DOMAIN q = 1..n
      /\ \A i \in DOMAIN q : q[i] \in Nat
  BY <1>a, <1>3
<1>b. d \in Int /\ d + 1 \in Int /\ n \in Int
  BY <1>6
<1>7. Kept(log) = SubSeq(q, d + 1, n)
  <2>1. /\ SubSeq(q, d + 1, n) \in Seq(Nat) /\ Len(SubSeq(q, d + 1, n)) = n - d
        /\ \A i \in 1..(n - d) : SubSeq(q, d + 1, n)[i] = q[d + i]
    BY <1>6, SuffixTyped, Zenon DEF n
  <2>2. ASSUME NEW i \in 1..(n - d)
        PROVE  Kept(log)[i] = q[d + i]
    <3>1. Kept(log)[i] = log[f + i]
      BY <1>5, <1>6, Zenon
    <3>2. f + i \in 1..(n - k) /\ k + (f + i) = d + i
      BY <1>3, <1>6
    <3>3. log[f + i] = q[k + (f + i)]
      BY <1>2, <3>2
    <3> QED
      BY <3>1, <3>2, <3>3
  <2> QED
    BY <1>5, <1>6, <2>1, <2>2, SeqEqual, Zenon
<1>8. ASSUME NEW i \in 1..d
      PROVE  q[i] <= cutoff
  <2>1. CASE i <= k
    BY <1>1, <2>1
  <2>2. CASE k < i
    <3>1. i - k \in 1..f /\ i - k \in 1..(n - k) /\ k + (i - k) = i
      BY <1>a, <1>3, <2>2
    <3>2. log[i - k] = q[k + (i - k)] /\ log[i - k] <= cutoff
      BY <1>2, <1>3, <3>1, SMTT(30)
    <3> QED
      BY <3>1, <3>2
  <2> QED
    BY <2>1, <2>2
<1>9. ASSUME NEW i \in (d + 1)..n
      PROVE  cutoff + 1 <= q[i] /\ q[i] < now + 1
  <2>1. f + 1 \in 1..(n - k) /\ k + (f + 1) = d + 1 /\ d + 1 \in DOMAIN q /\ i \in DOMAIN q
    BY <1>3, <1>6
  <2>2. log[f + 1] = q[d + 1] /\ ~(log[f + 1] <= cutoff)
    BY <1>2, <1>3, <2>1
  <2>3. q[d + 1] <= q[i] /\ q[i] <= now /\ q[i] \in Nat /\ q[d + 1] \in Nat
    BY <2>1, SMTT(30)
  <2> DEFINE x == q[i]
             y == q[d + 1]
  <2>4. ~(y <= cutoff) /\ y <= x /\ x <= now /\ x \in Nat /\ y \in Nat
    BY <2>2, <2>3
  <2> HIDE DEF x, y, cutoff
  <2>5. cutoff + 1 <= x /\ x < now + 1
    BY <1>6, <2>4
  <2> QED
    BY <2>5 DEF x
<1>10. Within(q, cutoff + 1, now + 1) = (d + 1)..n
  <2>1. ASSUME NEW i \in 1..n, cutoff + 1 <= q[i]
        PROVE  i \in (d + 1)..n
    <3>1. q[i] \in Nat /\ ~(q[i] <= cutoff)
      BY <1>6, <2>1, SMTT(30)
    <3>2. i \notin 1..d
      BY <1>8, <3>1
    <3> QED
      BY <1>6, <3>2
  <2>2. (d + 1)..n \subseteq 1..n
    BY <1>6
  <2> QED
    BY <1>6, <1>9, <2>1, <2>2, SMTT(30) DEF Within
<1>11. Count(q, cutoff + 1, now + 1) = n - d
  <2>1. Cardinality((d + 1)..n) = IF d + 1 > n THEN 0 ELSE n - (d + 1) + 1
    BY <1>b, FS_Interval, Zenon
  <2>2. (IF d + 1 > n THEN 0 ELSE n - (d + 1) + 1) = n - d
    <3> HIDE DEF d
    <3> QED
      BY <1>6
  <2> QED
    BY <1>10, <2>1, <2>2 DEF Count
<1>12. Log(q, Kept(log), cutoff)
  BY <1>6, <1>7, <1>8, Zenon DEF Log, n
<1> QED
  BY <1>5, <1>6, <1>11, <1>12

(* An admitted call is added to both.                                      *)
LEMMA LogAppend ==
  ASSUME NEW q \in Seq(Nat), NEW log, NEW cutoff \in Int, NEW t \in Nat, Log(q, log, cutoff)
  PROVE  Append(log, t) \in Seq(Nat) /\ Log(Append(q, t), Append(log, t), cutoff)
<1> DEFINE n == Len(q)
           r == Append(q, t)
<1>1. PICK k \in 0..n : log = SubSeq(q, k + 1, n) /\ \A i \in 1..k : q[i] <= cutoff
  BY Zenon DEF Log
<1>2. log \in Seq(Nat) /\ Len(log) = n - k /\ \A i \in 1..(n - k) : log[i] = q[k + i]
  BY <1>1, SuffixTyped
<1>3. /\ r \in Seq(Nat) /\ Len(r) = n + 1 /\ n \in Nat
      /\ \A i \in 1..n : r[i] = q[i]
      /\ r[n + 1] = t
  BY AppendProperties
<1>4. /\ Append(log, t) \in Seq(Nat) /\ Len(Append(log, t)) = (n - k) + 1
      /\ \A i \in 1..(n - k) : Append(log, t)[i] = log[i]
      /\ Append(log, t)[(n - k) + 1] = t
  BY <1>2, AppendProperties
<1> HIDE DEF r, n
<1>5. /\ SubSeq(r, k + 1, Len(r)) \in Seq(Nat)
      /\ Len(SubSeq(r, k + 1, Len(r))) = (n + 1) - k
      /\ \A i \in 1..((n + 1) - k) : SubSeq(r, k + 1, Len(r))[i] = r[k + i]
  <2>1. k \in 0..Len(r)
    BY <1>3
  <2> QED
    BY <1>3, <2>1, SuffixTyped, Zenon
<1>6. ASSUME NEW i \in 1..((n + 1) - k)
      PROVE  Append(log, t)[i] = r[k + i]
  <2>1. CASE i \in 1..(n - k)
    <3>1. k + i \in 1..n
      BY <1>3, <2>1
    <3> QED
      BY <1>2, <1>3, <1>4, <2>1, <3>1
  <2>2. CASE i = (n - k) + 1
    <3>1. k + i = n + 1
      BY <1>3, <2>2
    <3> QED
      BY <1>3, <1>4, <2>2, <3>1
  <2>3. i \in 1..(n - k) \/ i = (n - k) + 1
    BY <1>3
  <2> QED
    BY <2>1, <2>2, <2>3, Zenon
<1>7. Append(log, t) = SubSeq(r, k + 1, Len(r))
  <2>1. (n - k) + 1 = (n + 1) - k
    BY <1>3
  <2> QED
    BY <1>4, <1>5, <1>6, <2>1, SeqEqual, Zenon
<1>8. k \in 0..Len(r) /\ \A i \in 1..k : r[i] <= cutoff
  <2>1. k \in 0..Len(r) /\ 1..k \subseteq 1..n
    BY <1>3
  <2> QED
    BY <1>1, <1>3, <2>1, Zenon
<1>9. Log(r, Append(log, t), cutoff)
  BY <1>7, <1>8, Zenon DEF Log
<1> QED
  BY <1>4, <1>9 DEF r

-----------------------------------------------------------------------------
(* The inductive invariant: the clock and the log of admitted calls agree, *)
(* every window keeps to the limit, and the entry accounts for the calls.  *)

Accounted(q, seen, avail) ==
  /\ seen \in Nat /\ seen <= now /\ avail \in 0..config.size
  /\ Metered(config.size, Rate, config.period, q, seen, avail)

EntryFacts(e, q) ==
  /\ config.kind = "token" => e \in Bucket /\ Accounted(q, e.seenAt, e.tokens)
  /\ config.kind = "fixed" => e \in FixedWindow /\ Accounted(q, e.start, config.size - e.count)
  /\ config.kind = "sliding" => e \in Events /\ Log(q, e, now - config.period)
  /\ config.kind = "leaky" => e \in LeakyBucket /\ Accounted(q, e.seenAt, config.size - e.level)

LogFacts(q) ==
  /\ q \in Seq(Nat)
  /\ \A i \in DOMAIN q : q[i] <= now
  /\ \A i, j \in DOMAIN q : i <= j => q[i] <= q[j]
  /\ Rolling(q, config.period, Rate, Burst)

LimiterInv ==
  /\ config \in Config /\ now \in Nat
  /\ LogFacts(admitted)
  /\ IF entry = None THEN admitted = <<>> ELSE EntryFacts(entry, admitted)

(* The numbers of a configuration.                                         *)
LEMMA ConfigTyped ==
  ASSUME config \in Config
  PROVE  /\ config.kind \in Kinds
         /\ config.size \in Nat \ {0} /\ config.refill \in Nat \ {0}
         /\ config.period \in Nat \ {0} /\ Rate \in Nat \ {0} /\ Burst \in Nat
         /\ config.kind = "token" => Rate = config.refill
         /\ config.kind = "leaky" => Rate = 1
         /\ config.kind \in {"fixed", "sliding"} => Rate = config.size
         /\ config.kind # "sliding" => Burst = config.size
         /\ config.kind = "sliding" => Burst = 0
<1>1. /\ config.kind \in Kinds
      /\ config.size \in Nat \ {0} /\ config.refill \in Nat \ {0}
      /\ config.period \in Nat \ {0}
  BY LimitAssumption DEF Config
<1> QED
  BY <1>1 DEF Rate, Burst, Kinds

(* Bringing an account up to date.                                         *)
LEMMA Filled ==
  ASSUME config \in Config, now \in Nat, NEW q \in Seq(Nat), NEW seen, NEW avail,
         Accounted(q, seen, avail)
  PROVE  LET p == Periods(seen) IN
         /\ p \in Nat
         /\ Accounted(q, seen + p * config.period, AtMost(avail + p * Rate, config.size))
         /\ now < seen + p * config.period + config.period
<1> DEFINE p == Periods(seen)
           size == config.size
           period == config.period
           rate == Rate
<1>1. size \in Nat \ {0} /\ period \in Nat \ {0} /\ rate \in Nat \ {0}
  BY ConfigTyped
<1>2. seen \in Nat /\ avail \in 0..size /\ now - seen \in Nat
  BY DEF Accounted
<1>3. p \in Nat /\ p * period <= now - seen /\ now - seen < p * period + period
  BY <1>1, <1>2, DivBounds, Zenon DEF Periods
<1>4. p * period \in Nat /\ p * rate \in Nat
  BY <1>1, <1>3, TimesTyped, SMTT(30)
<1>5. Metered(size, rate, period, q, seen, avail)
  BY DEF Accounted
<1> HIDE DEF p, size, period, rate
<1>6. Metered(size, rate, period, q, seen + p * period, AtMost(avail + p * rate, size))
  BY <1>1, <1>2, <1>3, <1>5, MeteredFill, Zenon
<1>7. seen + p * period \in Nat /\ seen + p * period <= now
      /\ now < seen + p * period + period
  BY <1>1, <1>2, <1>3, <1>4
<1>8. AtMost(avail + p * rate, size) \in 0..size
  BY <1>1, <1>2, <1>4 DEF AtMost
<1> QED
  BY <1>3, <1>6, <1>7, <1>8 DEF Accounted, p, size, period, rate

(* Admitting one call.                                                     *)
LEMMA Given ==
  ASSUME config \in Config, now \in Nat, LogFacts(admitted), NEW seen, NEW avail,
         Accounted(admitted, seen, avail), avail # 0, now < seen + config.period
  PROVE  Accounted(Append(admitted, now), seen, avail - 1)
<1>1. config.size \in Nat /\ config.period \in Nat \ {0} /\ Rate \in Nat
  BY ConfigTyped
<1>2. seen \in Nat /\ seen <= now /\ avail \in 1..config.size /\ avail - 1 \in 0..config.size
  BY <1>1 DEF Accounted
<1>3. Metered(config.size, Rate, config.period, admitted, seen, avail)
  BY DEF Accounted
<1>4. Metered(config.size, Rate, config.period, Append(admitted, now), seen, avail - 1)
  BY <1>1, <1>2, <1>3, MeteredTake, Zenon DEF LogFacts
<1> QED
  BY <1>2, <1>4 DEF Accounted

(* Before a key's first call nothing is used.                              *)
LEMMA First ==
  ASSUME config \in Config, now \in Nat, admitted = <<>>
  PROVE  Accounted(admitted, now, config.size)
<1>1. config.size \in Nat /\ config.period \in Nat /\ Rate \in Nat
  BY ConfigTyped
<1>2. Metered(config.size, Rate, config.period, admitted, now, config.size)
  BY <1>1, MeteredNew
<1> QED
  BY <1>1, <1>2 DEF Accounted

(* An empty account means a full share in the last period.                 *)
LEMMA UsedUp ==
  ASSUME config \in Config, now \in Nat, LogFacts(admitted), NEW seen,
         Accounted(admitted, seen, 0), now < seen + config.period
  PROVE  Count(admitted, now - config.period + 1, now + 1) >= AtMost(Rate, config.size)
<1> DEFINE share == AtMost(Rate, config.size)
           c == Count(admitted, seen, now + 1)
           w == Count(admitted, now - config.period + 1, now + 1)
<1>1. config.size \in Nat /\ config.period \in Nat /\ Rate \in Nat /\ share \in Nat
  BY ConfigTyped DEF AtMost
<1>2. admitted \in Seq(Nat) /\ \A i \in DOMAIN admitted : admitted[i] \in Nat /\ admitted[i] < now + 1
  BY DEF LogFacts
<1>3. seen \in Nat /\ now + 1 \in Int /\ now - config.period + 1 \in Int
      /\ now - config.period + 1 <= seen
  BY <1>1 DEF Accounted
<1>4. 0 + c >= share
  BY <1>2, <1>3 DEF Accounted, Metered
<1>5. c <= w /\ c \in Nat /\ w \in Nat
  BY <1>2, <1>3, CountWider, CountTyped
<1> HIDE DEF c, w, share
<1>6. w >= share
  BY <1>1, <1>4, <1>5
<1> QED
  BY <1>6 DEF w, share

-----------------------------------------------------------------------------
(* What each limiter decides: the entry it stores accounts for the calls   *)
(* admitted after it, and a refusal means that the account is empty.       *)

After(d) == IF d.allow THEN Append(admitted, now) ELSE admitted

Decides(d) ==
  /\ d.allow \in BOOLEAN
  /\ EntryFacts(d.next, After(d))
  /\ ~d.allow => Count(admitted, now - config.period + 1, now + 1) >= AtMost(Rate, config.size)

(* A bucket's tokens are what is available.                                *)
LEMMA TokenDecides ==
  ASSUME LimiterInv, config.kind = "token"
  PROVE  Decides(Token)
<1>1. /\ config \in Config /\ now \in Nat /\ LogFacts(admitted) /\ admitted \in Seq(Nat)
      /\ Rate = config.refill /\ config.size \in Nat \ {0} /\ config.period \in Nat \ {0}
  BY ConfigTyped DEF LimiterInv, LogFacts
<1>2. CASE entry = None
  <2>1. Accounted(admitted, now, config.size)
    BY <1>1, <1>2, First DEF LimiterInv
  <2>2. Accounted(Append(admitted, now), now, config.size - 1)
    <3>1. now < now + config.period /\ config.size # 0
      BY <1>1
    <3> QED
      BY <1>1, <2>1, <3>1, Given
  <2> DEFINE b == [tokens |-> config.size - 1, seenAt |-> now]
  <2>3. Token = [next |-> b, allow |-> TRUE]
    BY <1>2 DEF Token
  <2>4. b \in Bucket /\ b.seenAt = now /\ b.tokens = config.size - 1
    BY <1>1 DEF Bucket
  <2> HIDE DEF b
  <2>5. Token.allow = TRUE /\ Token.next = b
    BY <2>3
  <2>6. EntryFacts(b, Append(admitted, now))
    BY <2>2, <2>4 DEF EntryFacts
  <2> QED
    BY <2>5, <2>6, Zenon DEF Decides, After
<1>3. CASE entry # None
  <2>1. entry \in Bucket /\ Accounted(admitted, entry.seenAt, entry.tokens)
    BY <1>3 DEF LimiterInv, EntryFacts
  <2> DEFINE b == Refilled(entry)
  <2>2. /\ b.tokens = AtMost(entry.tokens + Periods(entry.seenAt) * Rate, config.size)
        /\ b.seenAt = entry.seenAt + Periods(entry.seenAt) * config.period
        /\ b = [tokens |-> b.tokens, seenAt |-> b.seenAt]
    BY <1>1 DEF Refilled
  <2>3. Accounted(admitted, b.seenAt, b.tokens) /\ now < b.seenAt + config.period
    BY <1>1, <2>1, <2>2, Filled, SMTT(30)
  <2>4. Token = IF b.tokens <= 0 THEN [next |-> b, allow |-> FALSE]
                ELSE [next |-> [b EXCEPT !.tokens = @ - 1], allow |-> TRUE]
    BY <1>3, Zenon DEF Token
  <2> HIDE DEF b
  <2>5. b.tokens \in Nat /\ b.seenAt \in Nat /\ b \in Bucket
    BY <1>1, <2>2, <2>3 DEF Accounted, Bucket
  <2>6. CASE b.tokens <= 0
    <3>1. Token.allow = FALSE /\ Token.next = b
      BY <2>4, <2>6
    <3>2. b.tokens = 0
      BY <2>5, <2>6
    <3>3. Count(admitted, now - config.period + 1, now + 1) >= AtMost(Rate, config.size)
      BY <1>1, <2>3, <3>2, UsedUp
    <3>4. EntryFacts(b, admitted)
      BY <2>3, <2>5 DEF EntryFacts
    <3> QED
      BY <3>1, <3>3, <3>4, Zenon DEF Decides, After
  <2>7. CASE ~(b.tokens <= 0)
    <3> DEFINE c == [b EXCEPT !.tokens = @ - 1]
    <3>1. Token.allow = TRUE /\ Token.next = c
      BY <2>4, <2>7
    <3>2. c \in Bucket /\ c.tokens = b.tokens - 1 /\ c.seenAt = b.seenAt
      BY <2>5, <2>7 DEF Bucket
    <3>3. Accounted(Append(admitted, now), b.seenAt, b.tokens - 1)
      BY <1>1, <2>3, <2>5, <2>7, Given
    <3> HIDE DEF c
    <3>4. EntryFacts(c, Append(admitted, now))
      BY <3>2, <3>3 DEF EntryFacts
    <3> QED
      BY <3>1, <3>4, Zenon DEF Decides, After
  <2> QED
    BY <2>6, <2>7
<1> QED
  BY <1>2, <1>3

(* A bucket's level is what its capacity has lost.                         *)
LEMMA LeakyDecides ==
  ASSUME LimiterInv, config.kind = "leaky"
  PROVE  Decides(Leaky)
<1>1. /\ config \in Config /\ now \in Nat /\ LogFacts(admitted) /\ admitted \in Seq(Nat)
      /\ Rate = 1 /\ config.size \in Nat \ {0} /\ config.period \in Nat \ {0}
  BY ConfigTyped DEF LimiterInv, LogFacts
<1>2. CASE entry = None
  <2>1. Accounted(admitted, now, config.size)
    BY <1>1, <1>2, First DEF LimiterInv
  <2>2. Accounted(Append(admitted, now), now, config.size - 1)
    <3>1. now < now + config.period /\ config.size # 0
      BY <1>1
    <3> QED
      BY <1>1, <2>1, <3>1, Given
  <2> DEFINE b == [level |-> 1, seenAt |-> now]
  <2>3. Leaky = [next |-> b, allow |-> TRUE]
    BY <1>2 DEF Leaky
  <2>4. b \in LeakyBucket /\ b.seenAt = now /\ b.level = 1
    BY <1>1 DEF LeakyBucket
  <2> HIDE DEF b
  <2>5. Leaky.allow = TRUE /\ Leaky.next = b
    BY <2>3
  <2>6. EntryFacts(b, Append(admitted, now))
    BY <2>2, <2>4 DEF EntryFacts
  <2> QED
    BY <2>5, <2>6, Zenon DEF Decides, After
<1>3. CASE entry # None
  <2>1. entry \in LeakyBucket /\ Accounted(admitted, entry.seenAt, config.size - entry.level)
    BY <1>3 DEF LimiterInv, EntryFacts
  <2> DEFINE b == Leaked(entry)
             p == Periods(entry.seenAt)
  <2>2. /\ b.level = AtLeast(entry.level - p, 0)
        /\ b.seenAt = entry.seenAt + p * config.period
        /\ b = [level |-> b.level, seenAt |-> b.seenAt]
    BY DEF Leaked
  <2>3. /\ p \in Nat
        /\ Accounted(admitted, b.seenAt, AtMost((config.size - entry.level) + p * Rate, config.size))
        /\ now < b.seenAt + config.period
    BY <1>1, <2>1, <2>2, Filled
  <2>4. Leaky = IF b.level >= config.size THEN [next |-> b, allow |-> FALSE]
                ELSE [next |-> [b EXCEPT !.level = @ + 1], allow |-> TRUE]
    BY <1>3, Zenon DEF Leaky
  <2> HIDE DEF b, p
  <2>5. /\ config.size - b.level = AtMost((config.size - entry.level) + p * Rate, config.size)
        /\ b.level \in Nat /\ b.level <= config.size
    <3>1. p * Rate = p
      BY <1>1, <2>3
    <3>2. entry.level \in Nat /\ entry.level <= config.size
      BY <1>1, <2>1 DEF LeakyBucket, Accounted
    <3> QED
      BY <1>1, <2>2, <2>3, <3>1, <3>2 DEF AtMost, AtLeast
  <2>6. Accounted(admitted, b.seenAt, config.size - b.level) /\ b.seenAt \in Nat
    BY <2>3, <2>5 DEF Accounted
  <2>7. b \in LeakyBucket
    BY <2>2, <2>5, <2>6 DEF LeakyBucket
  <2>8. CASE b.level >= config.size
    <3>1. Leaky.allow = FALSE /\ Leaky.next = b
      BY <2>4, <2>8
    <3>2. config.size - b.level = 0
      BY <1>1, <2>5, <2>8
    <3>3. Count(admitted, now - config.period + 1, now + 1) >= AtMost(Rate, config.size)
      BY <1>1, <2>3, <2>6, <3>2, UsedUp
    <3>4. EntryFacts(b, admitted)
      BY <2>6, <2>7 DEF EntryFacts
    <3> QED
      BY <3>1, <3>3, <3>4, Zenon DEF Decides, After
  <2>9. CASE ~(b.level >= config.size)
    <3> DEFINE c == [b EXCEPT !.level = @ + 1]
    <3>1. Leaky.allow = TRUE /\ Leaky.next = c
      BY <2>4, <2>9
    <3>2. c \in LeakyBucket /\ c.level = b.level + 1 /\ c.seenAt = b.seenAt
      BY <2>5, <2>7 DEF LeakyBucket
    <3>3. Accounted(Append(admitted, now), b.seenAt, (config.size - b.level) - 1)
      <4>1. config.size - b.level # 0
        BY <1>1, <2>5, <2>9
      <4> QED
        BY <1>1, <2>3, <2>6, <4>1, Given
    <3>4. (config.size - b.level) - 1 = config.size - c.level
      BY <1>1, <2>5, <3>2
    <3> HIDE DEF c
    <3>5. EntryFacts(c, Append(admitted, now))
      BY <3>2, <3>3, <3>4 DEF EntryFacts
    <3> QED
      BY <3>1, <3>5, Zenon DEF Decides, After
  <2> QED
    BY <2>8, <2>9
<1> QED
  BY <1>2, <1>3

(* A window's count is what its limit has lost.                            *)
LEMMA FixedDecides ==
  ASSUME LimiterInv, config.kind = "fixed"
  PROVE  Decides(Fixed)
<1>1. /\ config \in Config /\ now \in Nat /\ LogFacts(admitted) /\ admitted \in Seq(Nat)
      /\ Rate = config.size /\ config.size \in Nat \ {0} /\ config.period \in Nat \ {0}
  BY ConfigTyped DEF LimiterInv, LogFacts
<1>2. entry # None => /\ entry \in FixedWindow
                      /\ Accounted(admitted, entry.start, config.size - entry.count)
  BY DEF LimiterInv, EntryFacts
<1>3. CASE entry = None \/ now - entry.start >= config.period
  <2>1. Accounted(admitted, now, config.size)
    <3>1. CASE entry = None
      BY <1>1, <3>1, First DEF LimiterInv
    <3>2. CASE entry # None
      <4>1. /\ entry.start \in Nat /\ entry.start + config.period <= now
            /\ config.size - entry.count \in 0..config.size
            /\ Metered(config.size, config.size, config.period, admitted, entry.start,
                       config.size - entry.count)
        BY <1>1, <1>2, <1>3, <3>2 DEF Accounted
      <4>2. Metered(config.size, config.size, config.period, admitted, now, config.size)
        BY <1>1, <4>1, MeteredReset
      <4> QED
        BY <1>1, <4>2 DEF Accounted
    <3> QED
      BY <3>1, <3>2
  <2>2. Accounted(Append(admitted, now), now, config.size - 1)
    <3>1. now < now + config.period /\ config.size # 0
      BY <1>1
    <3> QED
      BY <1>1, <2>1, <3>1, Given
  <2> DEFINE b == [start |-> now, count |-> 1]
  <2>3. Fixed = [next |-> b, allow |-> TRUE]
    BY <1>3, Zenon DEF Fixed
  <2>4. b \in FixedWindow /\ b.start = now /\ b.count = 1
    BY <1>1 DEF FixedWindow
  <2> HIDE DEF b
  <2>5. Fixed.allow = TRUE /\ Fixed.next = b
    BY <2>3
  <2>6. EntryFacts(b, Append(admitted, now))
    BY <2>2, <2>4 DEF EntryFacts
  <2> QED
    BY <2>5, <2>6, Zenon DEF Decides, After
<1>4. CASE ~(entry = None \/ now - entry.start >= config.period)
  <2>1. /\ entry \in FixedWindow /\ Accounted(admitted, entry.start, config.size - entry.count)
        /\ entry.count \in Nat /\ entry.count <= config.size
        /\ now < entry.start + config.period
    BY <1>1, <1>2, <1>4 DEF Accounted, FixedWindow
  <2>2. Fixed = IF entry.count >= config.size THEN [next |-> entry, allow |-> FALSE]
                ELSE [next |-> [entry EXCEPT !.count = @ + 1], allow |-> TRUE]
    BY <1>4, Zenon DEF Fixed
  <2>3. CASE entry.count >= config.size
    <3>1. Fixed.allow = FALSE /\ Fixed.next = entry
      BY <2>2, <2>3
    <3>2. config.size - entry.count = 0
      BY <1>1, <2>1, <2>3
    <3>3. Count(admitted, now - config.period + 1, now + 1) >= AtMost(Rate, config.size)
      BY <1>1, <2>1, <3>2, UsedUp
    <3>4. EntryFacts(entry, admitted)
      BY <2>1 DEF EntryFacts
    <3> QED
      BY <3>1, <3>3, <3>4, Zenon DEF Decides, After
  <2>4. CASE ~(entry.count >= config.size)
    <3> DEFINE c == [entry EXCEPT !.count = @ + 1]
    <3>1. Fixed.allow = TRUE /\ Fixed.next = c
      BY <2>2, <2>4
    <3>2. c \in FixedWindow /\ c.count = entry.count + 1 /\ c.start = entry.start
      BY <2>1 DEF FixedWindow
    <3>3. Accounted(Append(admitted, now), entry.start, (config.size - entry.count) - 1)
      <4>1. config.size - entry.count # 0
        BY <1>1, <2>1, <2>4
      <4> QED
        BY <1>1, <2>1, <4>1, Given
    <3>4. (config.size - entry.count) - 1 = config.size - c.count
      BY <1>1, <2>1, <3>2
    <3> HIDE DEF c
    <3>5. EntryFacts(c, Append(admitted, now))
      BY <3>2, <3>3, <3>4 DEF EntryFacts
    <3> QED
      BY <3>1, <3>5, Zenon DEF Decides, After
  <2> QED
    BY <2>3, <2>4
<1> QED
  BY <1>3, <1>4

(* The log that is kept is the last period's calls.                        *)
LEMMA SlidingDecides ==
  ASSUME LimiterInv, config.kind = "sliding"
  PROVE  Decides(Sliding) /\ Rolling(After(Sliding), config.period, Rate, Burst)
<1> DEFINE cutoff == now - config.period
           recent == Count(admitted, now - config.period + 1, now + 1)
           events == IF entry = None THEN <<>> ELSE Kept(entry)
<1>1. /\ config \in Config /\ now \in Nat /\ LogFacts(admitted) /\ admitted \in Seq(Nat)
      /\ Rate = config.size /\ Burst = 0
      /\ config.size \in Nat \ {0} /\ config.period \in Nat \ {0}
  BY ConfigTyped DEF LimiterInv, LogFacts
<1>2. /\ events \in Seq(Nat) /\ Len(events) = recent
      /\ Log(admitted, events, cutoff)
  <2>1. CASE entry = None
    <3>1. admitted = <<>> /\ events = <<>>
      BY <2>1 DEF LimiterInv
    <3>2. recent = 0
      BY <3>1, CountNone
    <3>3. Log(<<>>, <<>>, cutoff)
      <4>1. 0 \in 0..Len(<<>>) /\ <<>> = SubSeq(<<>>, 0 + 1, Len(<<>>)) /\ 1..0 = {}
        BY SubSeqEmpty
      <4> QED
        BY <4>1, Zenon DEF Log
    <3>4. <<>> \in Seq(Nat) /\ Len(<<>>) = 0
      OBVIOUS
    <3> HIDE DEF events, recent
    <3> QED
      BY <3>1, <3>2, <3>3, <3>4, Zenon
  <2>2. CASE entry # None
    <3>1. Log(admitted, entry, cutoff) /\ events = Kept(entry)
      BY <2>2 DEF LimiterInv, EntryFacts
    <3> QED
      BY <1>1, <3>1, LogKept DEF LogFacts
  <2> QED
    BY <2>1, <2>2
<1>3. Sliding = IF Len(events) >= config.size THEN [next |-> events, allow |-> FALSE]
                ELSE [next |-> Append(events, now), allow |-> TRUE]
  BY Zenon DEF Sliding
<1>4. cutoff \in Int /\ recent \in Nat
  BY <1>1, CountTyped
<1> HIDE DEF events, recent
<1>5. CASE Len(events) >= config.size
  <2>1. Sliding.allow = FALSE /\ Sliding.next = events
    BY <1>3, <1>5
  <2>2. recent >= AtMost(Rate, config.size)
    BY <1>1, <1>2, <1>5 DEF AtMost
  <2>3. EntryFacts(events, admitted)
    BY <1>2 DEF EntryFacts, Events
  <2> QED
    BY <2>1, <2>2, <2>3, <1>1, Zenon DEF Decides, After, LogFacts, recent
<1>6. CASE ~(Len(events) >= config.size)
  <2>1. Sliding.allow = TRUE /\ Sliding.next = Append(events, now)
    BY <1>3, <1>6
  <2>2. Append(events, now) \in Seq(Nat) /\ Log(Append(admitted, now), Append(events, now), cutoff)
    BY <1>1, <1>2, <1>4, LogAppend
  <2>3. EntryFacts(Append(events, now), Append(admitted, now))
    BY <2>2 DEF EntryFacts, Events
  <2>4. recent < config.size
    BY <1>1, <1>2, <1>4, <1>6
  <2>5. Rolling(Append(admitted, now), config.period, config.size, 0)
    BY <1>1, <2>4, RollingSlides, SMTT(30) DEF LogFacts, recent
  <2> QED
    BY <1>1, <2>1, <2>3, <2>5, Zenon DEF Decides, After
<1> QED
  BY <1>5, <1>6

(* Whatever the limiter, its decision keeps the account and the limit.     *)
LEMMA DecisionKeeps ==
  ASSUME LimiterInv
  PROVE  /\ Decides(Decision)
         /\ Rolling(After(Decision), config.period, Rate, Burst)
<1>1. /\ config \in Config /\ now \in Nat /\ LogFacts(admitted) /\ admitted \in Seq(Nat)
      /\ config.kind \in Kinds /\ config.size \in Nat /\ Rate \in Nat
      /\ config.period \in Nat \ {0}
  BY ConfigTyped DEF LimiterInv, LogFacts
<1>2. ASSUME NEW d, Decides(d), NEW seen, NEW avail, config.kind # "sliding",
             Accounted(After(d), seen, avail)
      PROVE  Rolling(After(d), config.period, Rate, Burst)
  <2>1. Rolling(admitted, config.period, Rate, config.size) /\ Burst = config.size
    BY <1>1, <1>2, ConfigTyped DEF LogFacts
  <2>2. CASE ~d.allow
    BY <2>1, <2>2 DEF After
  <2>3. CASE d.allow
    <3>1. After(d) = Append(admitted, now)
      BY <2>3 DEF After
    <3>2. /\ seen \in Nat /\ seen <= now /\ avail \in Nat
          /\ Metered(config.size, Rate, config.period, Append(admitted, now), seen, avail)
      BY <1>1, <1>2, <3>1 DEF Accounted
    <3>3. Rolling(Append(admitted, now), config.period, Rate, config.size)
      BY <1>1, <2>1, <3>2, RollingMetered, Zenon
    <3> QED
      BY <2>1, <3>1, <3>3, Zenon
  <2> QED
    BY <2>2, <2>3
<1>3. CASE config.kind = "token"
  <2>1. Decision = Token
    BY <1>3 DEF Decision
  <2>2. Decides(Token)
    BY <1>3, TokenDecides
  <2>3. Accounted(After(Token), Token.next.seenAt, Token.next.tokens)
    BY <1>3, <2>2 DEF Decides, EntryFacts
  <2> QED
    BY <1>2, <1>3, <2>1, <2>2, <2>3
<1>4. CASE config.kind = "fixed"
  <2>1. Decision = Fixed
    BY <1>4 DEF Decision
  <2>2. Decides(Fixed)
    BY <1>4, FixedDecides
  <2>3. Accounted(After(Fixed), Fixed.next.start, config.size - Fixed.next.count)
    BY <1>4, <2>2 DEF Decides, EntryFacts
  <2> QED
    BY <1>2, <1>4, <2>1, <2>2, <2>3
<1>5. CASE config.kind = "leaky"
  <2>1. Decision = Leaky
    BY <1>5 DEF Decision
  <2>2. Decides(Leaky)
    BY <1>5, LeakyDecides
  <2>3. Accounted(After(Leaky), Leaky.next.seenAt, config.size - Leaky.next.level)
    BY <1>5, <2>2 DEF Decides, EntryFacts
  <2> QED
    BY <1>2, <1>5, <2>1, <2>2, <2>3
<1>6. CASE config.kind = "sliding"
  <2>1. Decision = Sliding
    BY <1>6 DEF Decision
  <2> QED
    BY <1>6, <2>1, SlidingDecides
<1> QED
  BY <1>1, <1>3, <1>4, <1>5, <1>6 DEF Kinds

-----------------------------------------------------------------------------
(* No limiter has decided anything at first.                               *)
LEMMA Starts == Init => LimiterInv
<1> SUFFICES ASSUME Init PROVE LimiterInv
  OBVIOUS
<1>1. config \in Config /\ now \in Nat /\ entry = None /\ admitted = <<>>
  BY DEF Init
<1>2. config.period \in Nat /\ Rate \in Nat /\ Burst \in Nat
  BY <1>1, ConfigTyped
<1>3. Rolling(<<>>, config.period, Rate, Burst)
  <2> SUFFICES ASSUME NEW from \in Int, NEW n \in Nat
               PROVE  Count(<<>>, from, from + n * config.period) <= n * Rate + Burst
    BY DEF Rolling
  <2>1. n * Rate \in Nat
    BY <1>2, TimesTyped
  <2>2. Count(<<>>, from, from + n * config.period) = 0
    BY CountNone
  <2> QED
    BY <1>2, <2>1, <2>2
<1>4. LogFacts(admitted)
  BY <1>1, <1>3 DEF LogFacts
<1> QED
  BY <1>1, <1>4 DEF LimiterInv

(* A call keeps the invariant.                                             *)
LEMMA AllowKeeps == LimiterInv /\ Allow => LimiterInv'
<1> SUFFICES ASSUME LimiterInv, Allow PROVE LimiterInv'
  OBVIOUS
<1> DEFINE d == Decision
<1>1. Decides(d) /\ Rolling(After(d), config.period, Rate, Burst)
  BY DecisionKeeps
<1>2. entry' = d.next /\ admitted' = After(d) /\ config' = config /\ now' = now
  BY DEF Allow, After
<1>3. config \in Config /\ now \in Nat /\ LogFacts(admitted)
  BY DEF LimiterInv
<1>4. d.allow \in BOOLEAN /\ EntryFacts(d.next, After(d))
  BY <1>1 DEF Decides
<1> HIDE DEF d
<1>5. Rate' = Rate /\ Burst' = Burst
  BY <1>2 DEF Rate, Burst
<1>6. /\ After(d) \in Seq(Nat)
      /\ \A i \in DOMAIN After(d) : After(d)[i] <= now
      /\ \A i, j \in DOMAIN After(d) : i <= j => After(d)[i] <= After(d)[j]
  <2>1. CASE ~d.allow
    BY <1>3, <2>1 DEF After, LogFacts
  <2>2. CASE d.allow
    <3> DEFINE r == Append(admitted, now)
               n == Len(admitted)
    <3>1. /\ r \in Seq(Nat) /\ DOMAIN r = 1..(n + 1) /\ DOMAIN admitted = 1..n /\ n \in Nat
          /\ \A i \in 1..n : r[i] = admitted[i] /\ admitted[i] \in Nat
          /\ r[n + 1] = now
      BY <1>3, AppendProperties DEF LogFacts
    <3>2. /\ \A i \in 1..n : admitted[i] <= now
          /\ \A i, j \in 1..n : i <= j => admitted[i] <= admitted[j]
      BY <3>1, <1>3, Zenon DEF LogFacts
    <3> HIDE DEF r, n
    <3>3. \A i \in 1..(n + 1) : r[i] <= now
      <4>1. \A i \in 1..(n + 1) : i \in 1..n \/ i = n + 1
        BY <3>1
      <4> QED
        BY <1>3, <3>1, <3>2, <4>1
    <3>4. ASSUME NEW i \in 1..(n + 1), NEW j \in 1..(n + 1), i <= j
          PROVE  r[i] <= r[j]
      <4>1. CASE j = n + 1
        BY <3>1, <3>3, <4>1
      <4>2. CASE j # n + 1
        <5>1. i \in 1..n /\ j \in 1..n
          BY <3>1, <3>4, <4>2
        <5> QED
          BY <3>1, <3>2, <3>4, <5>1
      <4> QED
        BY <4>1, <4>2
    <3>5. After(d) = r
      BY <2>2 DEF After, r
    <3> QED
      BY <3>1, <3>3, <3>4, <3>5
  <2> QED
    BY <1>4, <2>1, <2>2
<1>7. LogFacts(admitted)'
  BY <1>1, <1>2, <1>5, <1>6, SMTT(30) DEF LogFacts
<1>8. EntryFacts(entry, admitted)'
  BY <1>2, <1>4, <1>5, SMTT(30) DEF EntryFacts, Accounted
<1>9. entry' # None
  <2>1. config.kind \in Kinds
    BY <1>3, ConfigTyped
  <2> QED
    BY <1>2, <1>4, <2>1, LimitAssumption DEF EntryFacts, Kinds
<1> QED
  BY <1>2, <1>3, <1>7, <1>8, <1>9 DEF LimiterInv

(* So does time.                                                           *)
LEMMA TickKeeps == LimiterInv /\ Tick => LimiterInv'
<1> SUFFICES ASSUME LimiterInv, Tick PROVE LimiterInv'
  OBVIOUS
<1>1. config' = config /\ entry' = entry /\ admitted' = admitted /\ now' = now + 1
  BY DEF Tick
<1>2. config \in Config /\ now \in Nat /\ LogFacts(admitted) /\ config.period \in Nat
  BY ConfigTyped DEF LimiterInv
<1>3. Rate' = Rate /\ Burst' = Burst
  BY <1>1 DEF Rate, Burst
<1>4. \A i \in DOMAIN admitted : admitted[i] <= now + 1
  <2>1. \A i \in DOMAIN admitted : admitted[i] \in Nat /\ admitted[i] <= now
    BY <1>2 DEF LogFacts
  <2> QED
    BY <1>2, <2>1
<1>5. LogFacts(admitted)'
  BY <1>1, <1>2, <1>3, <1>4 DEF LogFacts
<1>6. ASSUME NEW seen, NEW avail, Accounted(admitted, seen, avail)
      PROVE  Accounted(admitted, seen, avail)'
  BY <1>1, <1>2, <1>3, <1>6 DEF Accounted
<1>7. ASSUME Log(admitted, entry, now - config.period)
      PROVE  Log(admitted, entry, (now + 1) - config.period)
  <2>1. PICK k \in 0..Len(admitted) :
          /\ entry = SubSeq(admitted, k + 1, Len(admitted))
          /\ \A i \in 1..k : admitted[i] <= now - config.period
    BY <1>7, Zenon DEF Log
  <2>2. ASSUME NEW i \in 1..k PROVE admitted[i] <= (now + 1) - config.period
    <3>1. admitted[i] \in Nat /\ admitted[i] <= now - config.period
      BY <1>2, <2>1 DEF LogFacts
    <3> QED
      BY <1>2, <3>1
  <2> QED
    BY <2>1, <2>2, Zenon DEF Log
<1>8. ASSUME EntryFacts(entry, admitted)
      PROVE  EntryFacts(entry, admitted)'
  BY <1>1, <1>6, <1>7, <1>8 DEF EntryFacts
<1> QED
  BY <1>1, <1>2, <1>5, <1>8 DEF LimiterInv

(* Every step keeps the invariant ...                                      *)
LEMMA Steps == LimiterInv /\ [Next]_vars => LimiterInv'
<1>1. LimiterInv /\ UNCHANGED vars => LimiterInv'
  BY DEF vars, LimiterInv, LogFacts, EntryFacts, Accounted, Rate, Burst
<1> QED
  BY <1>1, AllowKeeps, TickKeeps DEF Next

(* ... which therefore holds throughout.                                   *)
LEMMA InvariantHolds == Spec => []LimiterInv
  BY Starts, Steps, PTL DEF Spec

(* Every limiter stores its own kind of entry.                             *)
THEOREM TypeCorrect == Spec => []TypeOK
<1>1. LimiterInv => TypeOK
  BY DEF LimiterInv, LogFacts, EntryFacts, TypeOK
<1> QED
  BY <1>1, InvariantHolds, PTL

(* No window of any place and length admits more than its periods' shares  *)
(* and one burst, whatever the limiter and its configuration.              *)
THEOREM LimitsKept == Spec => []RollingLimit
<1>1. LimiterInv => RollingLimit
  <2> SUFFICES ASSUME LimiterInv, NEW from \in 0..now, NEW n \in 1..MaxTime + 1
               PROVE  Admitted(from, from + n * config.period) <= n * Rate + Burst
    BY DEF RollingLimit
  <2>1. from \in Int /\ n \in Nat
    BY LimitAssumption DEF LimiterInv
  <2>2. Count(admitted, from, from + n * config.period) <= n * Rate + Burst
    BY <2>1 DEF LimiterInv, LogFacts, Rolling
  <2> QED
    BY <2>2 DEF Admitted, Count, Within
<1> QED
  BY <1>1, InvariantHolds, PTL

(* A call is refused only when the last period has admitted a full share.  *)
THEOREM RefusalsJustified == Spec => []RefusedOnlyWhenUsedUp
<1>1. LimiterInv => RefusedOnlyWhenUsedUp
  <2> SUFFICES ASSUME LimiterInv, ~Decision.allow
               PROVE  Admitted(now - config.period + 1, now + 1) >= AtMost(Rate, config.size)
    BY DEF RefusedOnlyWhenUsedUp
  <2>1. Count(admitted, now - config.period + 1, now + 1) >= AtMost(Rate, config.size)
    BY DecisionKeeps DEF Decides
  <2> QED
    BY <2>1 DEF Admitted, Count, Within
<1> QED
  BY <1>1, InvariantHolds, PTL
=============================================================================

--------------------------- MODULE Codec_proofs ---------------------------
(***************************************************************************)
(* Proofs about the binary codecs for every event and every profile: of    *)
(* any texts shorter than 65,536 bytes, any 64-bit integers, any number of *)
(* fraud rules below 65,536 and any extra byte.  First what each decoder   *)
(* makes of the bytes of an item, whole or cut short, and how the items    *)
(* lie in the store; then the inductive invariant, with the steps that     *)
(* write, damage or read an array; then the Protobuf events, of which only *)
(* rules that are not empty are kept, and counted; last what this needs of *)
(* finite sets, and the theorems.                                          *)
(***************************************************************************)
EXTENDS Codec, TLAPS

(* Leaves that name no prover have 30 seconds.                             *)
USE SMTT(30)

(* Sequences of the same length with the same elements are equal.          *)
LEMMA SameSequence ==
  ASSUME NEW S, NEW T, NEW s \in Seq(S), NEW t \in Seq(T), Len(s) = Len(t), \A i \in 1..Len(s) : s[i] = t[i]
  PROVE  s = t
<1>1. s = [i \in 1..Len(s) |-> s[i]]
  OBVIOUS
<1>2. t = [i \in 1..Len(t) |-> t[i]]
  OBVIOUS
<1> QED
  BY <1>1, <1>2, Zenon

(* The elements of a subsequence, and their type.                          *)
LEMMA SubSequence ==
  ASSUME NEW S, NEW T, NEW s \in Seq(S), NEW m \in 1..(Len(s) + 1), NEW n \in (m - 1)..Len(s),
         \A i \in m..n : s[i] \in T
  PROVE  /\ SubSeq(s, m, n) \in Seq(T) /\ Len(SubSeq(s, m, n)) = n - m + 1
         /\ \A i \in 1..(n - m + 1) : SubSeq(s, m, n)[i] = s[m + i - 1]
<1>1. Len(SubSeq(s, m, n)) = n - m + 1
  OBVIOUS
<1>2. \A i \in 1..(n - m + 1) : SubSeq(s, m, n)[i] = s[m + i - 1]
  OBVIOUS
<1>3. SubSeq(s, m, n) \in Seq(T)
  OBVIOUS
<1> QED
  BY <1>1, <1>2, <1>3

(* ByteRange by its bounds, for the places where its definition stays      *)
(* hidden.                                                                 *)
LEMMA ByteRangeFacts == \A b : b \in ByteRange <=> b \in Nat /\ b < 256
BY DEF ByteRange

Element == [text : Names \cup {None}, n : Nat]

(* The encoding e is in s at a place; or s ends within it, perhaps with a  *)
(* text that has lost some of its bytes.                                   *)
Holds(s, at, e) ==
  /\ at + Len(e) <= Len(s)
  /\ \A j \in 1..Len(e) : s[at + j] = e[j]

Short(s, p, x) == p = Len(s) /\ x.text # None /\ s[p].n < x.n

Ends(s, at, e) ==
  /\ at <= Len(s) /\ Len(s) <= at + Len(e)
  /\ \A j \in 1..Len(e) : at + j <= Len(s) => s[at + j] = e[j] \/ Short(s, at + j, e[j])
  /\ Len(s) = at + Len(e) => Len(e) > 0 /\ Short(s, Len(s), e[Len(e)])

(* An encoding without texts.                                              *)
Octets == [text : {None}, n : ByteRange]

OnlyBytes(e) == e \in Seq(Octets)

(* Plain bytes are among what a raw value consists of.                     *)
LEMMA BytesAreElements ==
  ASSUME NEW e, OnlyBytes(e)
  PROVE  /\ e \in Seq(Element) /\ Len(e) \in Nat
         /\ \A j \in 1..Len(e) : e[j].text = None /\ e[j].n \in ByteRange
<1>1. Octets \subseteq Element
  BY ByteRangeFacts DEF Element, Octets
<1>2. e \in Seq(Octets)
  BY DEF OnlyBytes
<1>3. \A j \in 1..Len(e) : e[j] \in Octets
  BY <1>2
<1>4. e \in Seq(Element)
  BY <1>1, <1>2
<1>5. \A x \in Octets : x.text = None /\ x.n \in ByteRange
  BY DEF Octets
<1> QED
  BY <1>2, <1>3, <1>4, <1>5

(* Where two encodings follow each other.                                  *)
LEMMA FirstOfBoth ==
  ASSUME NEW S, NEW d \in Seq(S), NEW e \in Seq(S), Len(d) > 0
  PROVE  (d \o e)[1] = d[1]
<1>1. \A j \in 1..Len(d) : (d \o e)[j] = d[j]
  OBVIOUS
<1>2. 1 \in 1..Len(d)
  OBVIOUS
<1> QED
  BY <1>1, <1>2

(* Where two encodings lie one behind the other, each lies at its place.   *)
LEMMA HoldsBoth ==
  ASSUME NEW s \in Seq(Element), NEW at \in Nat, NEW d \in Seq(Element), NEW e \in Seq(Element),
         Holds(s, at, d \o e)
  PROVE  Holds(s, at, d) /\ Holds(s, at + Len(d), e)
<1>1. Len(d \o e) = Len(d) + Len(e) /\ Len(d) \in Nat /\ Len(e) \in Nat
  OBVIOUS
<1>2. \A j \in 1..Len(d) : (d \o e)[j] = d[j]
  OBVIOUS
<1>3. \A j \in 1..Len(e) : (d \o e)[Len(d) + j] = e[j]
  OBVIOUS
<1>4. ASSUME NEW j \in 1..Len(e) PROVE s[at + Len(d) + j] = e[j]
  <2>1. Len(d) + j \in 1..Len(d \o e) /\ at + (Len(d) + j) = at + Len(d) + j
    BY <1>1
  <2> QED
    BY <1>3, <2>1 DEF Holds
<1>5. ASSUME NEW j \in 1..Len(d) PROVE s[at + j] = d[j]
  <2>1. j \in 1..Len(d \o e)
    BY <1>1
  <2> QED
    BY <1>2, <2>1 DEF Holds
<1>6. at + Len(d) + Len(e) <= Len(s) /\ Len(s) \in Nat
  BY <1>1 DEF Holds
<1> QED
  BY <1>1, <1>4, <1>5, <1>6 DEF Holds

(* A raw value that ends within a head and what follows ends within the    *)
(* one or the other.                                                       *)
LEMMA EndsInOne ==
  ASSUME NEW s \in Seq(Element), NEW at \in Nat, NEW d, OnlyBytes(d), NEW e \in Seq(Element),
         Ends(s, at, d \o e)
  PROVE  Ends(s, at, d) \/ (Holds(s, at, d) /\ Ends(s, at + Len(d), e))
<1>1. d \in Seq(Element) /\ \A j \in 1..Len(d) : d[j].text = None
  BY BytesAreElements
<1>2. Len(d \o e) = Len(d) + Len(e) /\ Len(d) \in Nat /\ Len(e) \in Nat /\ Len(s) \in Nat
  BY <1>1
<1>3. \A j \in 1..Len(d) : (d \o e)[j] = d[j]
  BY <1>1
<1>4. \A j \in 1..Len(e) : (d \o e)[Len(d) + j] = e[j]
  BY <1>1
<1>5. \A j \in 1..Len(d) : at + j <= Len(s) => s[at + j] = d[j]
  <2> SUFFICES ASSUME NEW j \in 1..Len(d), at + j <= Len(s) PROVE s[at + j] = d[j]
    OBVIOUS
  <2>1. s[at + j] = (d \o e)[j] \/ Short(s, at + j, (d \o e)[j])
    BY <1>2 DEF Ends
  <2> QED
    BY <1>1, <1>3, <2>1 DEF Short
<1>6. CASE Len(s) < at + Len(d)
  BY <1>2, <1>5, <1>6 DEF Ends
<1>7. CASE Len(s) >= at + Len(d)
  <2>1. Holds(s, at, d)
    BY <1>2, <1>5, <1>7 DEF Holds
  <2>2. at + Len(d) <= Len(s) /\ Len(s) <= at + Len(d) + Len(e)
    BY <1>2, <1>7 DEF Ends
  <2>3. ASSUME NEW j \in 1..Len(e), at + Len(d) + j <= Len(s)
        PROVE  s[at + Len(d) + j] = e[j] \/ Short(s, at + Len(d) + j, e[j])
    <3>1. Len(d) + j \in 1..Len(d \o e) /\ at + (Len(d) + j) = at + Len(d) + j
      BY <1>2
    <3>2. s[at + (Len(d) + j)] = (d \o e)[Len(d) + j] \/ Short(s, at + (Len(d) + j), (d \o e)[Len(d) + j])
      BY <2>3, <3>1 DEF Ends
    <3> QED
      BY <1>4, <3>1, <3>2
  <2>4. ASSUME Len(s) = at + Len(d) + Len(e)
        PROVE  Len(e) > 0 /\ Short(s, Len(s), e[Len(e)])
    <3>1. Len(d) + Len(e) > 0 /\ Short(s, Len(s), (d \o e)[Len(d) + Len(e)])
      BY <1>2, <2>4 DEF Ends
    <3>2. Len(e) > 0
      <4>1. SUFFICES ASSUME Len(e) = 0 PROVE FALSE
        BY <1>2
      <4>2. (d \o e)[Len(d)] = d[Len(d)] /\ d[Len(d)].text = None
        BY <1>1, <1>2, <1>3, <3>1, <4>1
      <4> QED
        BY <1>2, <3>1, <4>1, <4>2 DEF Short
    <3> QED
      BY <1>2, <1>4, <3>1, <3>2
  <2> QED
    BY <1>2, <2>1, <2>2, <2>3, <2>4 DEF Ends
<1> QED
  BY <1>2, <1>6, <1>7

(* Bytes are lost only by the end.                                         *)
LEMMA BytesLost ==
  ASSUME NEW s \in Seq(Element), NEW at \in Nat, NEW d, OnlyBytes(d), Ends(s, at, d)
  PROVE  /\ Len(s) < at + Len(d)
         /\ \A j \in 1..Len(d) : at + j <= Len(s) => s[at + j] = d[j]
<1>1. Len(d) \in Nat /\ Len(s) \in Nat /\ \A j \in 1..Len(d) : d[j].text = None
  BY BytesAreElements
<1> QED
  BY <1>1 DEF Ends, Short

-----------------------------------------------------------------------------
(* Lengths as 64 bits and back.                                            *)
LEMMA TwoBytes ==
  ASSUME NEW n \in Nat, n < 65536
  PROVE  n \div 256 \in ByteRange /\ n % 256 \in ByteRange /\ n = 256 * (n \div 256) + (n % 256)
<1> DEFINE q == n \div 256
           r == n % 256
<1>1. q \in Int /\ r \in ByteRange /\ n = 256 * q + r
  BY ByteRangeFacts
<1> HIDE DEF q, r
<1>2. q \in ByteRange
  BY <1>1, ByteRangeFacts
<1> QED
  BY <1>1, <1>2 DEF q, r

(* A length below 65,536 as binary.BigEndian writes it: two bytes behind   *)
(* zeros, which give the length again.                                     *)
LEMMA LengthInBytes ==
  ASSUME NEW n \in Nat, n < 65536
  PROVE  /\ Uint64(n) \in Integers64
         /\ Uint64(n) = <<0, 0, 0, 0, 0, 0, n \div 256, n % 256>>
         /\ n \div 256 \in ByteRange /\ n % 256 \in ByteRange
         /\ n = 256 * (n \div 256) + (n % 256)
         /\ Nat32(Uint64(n)) = n
<1> DEFINE q == n \div 256
           r == n % 256
<1>1. q \in ByteRange /\ r \in ByteRange /\ n = 256 * q + r
  BY TwoBytes
<1>2. Uint64(n) = <<0, 0, 0, 0, 0, 0, q, r>>
  <2>1. q % 256 = q
    <3> HIDE DEF q
    <3> QED
      BY <1>1, ByteRangeFacts
  <2>2. n \div 65536 = 0
    OBVIOUS
  <2>3. n \div 16777216 = 0
    OBVIOUS
  <2>4. 0 % 256 = 0
    OBVIOUS
  <2> QED
    BY <2>1, <2>2, <2>3, <2>4 DEF Uint64
<1> HIDE DEF q, r
<1>3. Uint64(n) \in Integers64
  BY <1>1, <1>2, ByteRangeFacts DEF Integers64
<1>4. Nat32(Uint64(n)) = n
  BY <1>1, <1>2, ByteRangeFacts DEF Nat32
<1> QED
  BY <1>1, <1>2, <1>3, <1>4 DEF q, r

(* A number below 256 is its last byte.                                    *)
LEMMA LastByte ==
  ASSUME NEW v \in Integers64, Fits(v, 1)
  PROVE  v = Uint64(v[8])
<1>1. /\ v \in [1..8 -> ByteRange] /\ v[8] \in ByteRange
      /\ v[1] = 0 /\ v[2] = 0 /\ v[3] = 0 /\ v[4] = 0 /\ v[5] = 0 /\ v[6] = 0 /\ v[7] = 0
  BY DEF Integers64, Fits
<1> DEFINE r == v[8]
<1>2. r \div 256 = 0 /\ r % 256 = r /\ r \in Nat /\ r < 65536
  BY <1>1, ByteRangeFacts
<1>3. Uint64(r) = <<0, 0, 0, 0, 0, 0, 0, r>> /\ Uint64(r) \in [1..8 -> ByteRange]
  <2>1. Uint64(r) \in Integers64 /\ Uint64(r) = <<0, 0, 0, 0, 0, 0, r \div 256, r % 256>>
    BY <1>2, LengthInBytes
  <2> HIDE DEF r
  <2>2. r \div 256 = 0 /\ r % 256 = r
    BY <1>2
  <2>3. Uint64(r) = <<0, 0, 0, 0, 0, 0, 0, r>>
    BY <2>1, <2>2, Zenon
  <2> QED
    BY <2>1, <2>3 DEF Integers64
<1>4. \A i \in 1..8 : v[i] = <<0, 0, 0, 0, 0, 0, 0, r>>[i]
  <2> SUFFICES ASSUME NEW i \in 1..8 PROVE v[i] = <<0, 0, 0, 0, 0, 0, 0, r>>[i]
    OBVIOUS
  <2>1. i = 1 \/ i = 2 \/ i = 3 \/ i = 4 \/ i = 5 \/ i = 6 \/ i = 7 \/ i = 8
    OBVIOUS
  <2> QED
    BY <1>1, <2>1
<1>5. \A i \in 1..8 : v[i] = Uint64(r)[i]
  BY <1>3, <1>4
<1> HIDE DEF r
<1>6. v = Uint64(r)
  BY <1>1, <1>3, <1>5
<1> QED
  BY <1>6 DEF r

-----------------------------------------------------------------------------
(* CBOR: the form of a head.                                               *)
LEMMA WidthOf ==
  ASSUME NEW v \in Integers64
  PROVE  /\ Width(v) \in {0, 1, 2, 4, 8}
         /\ Additional(v) \in 0..27
         /\ Additional(v) < 24 <=> Width(v) = 0
         /\ Width(v) = 0 => Additional(v) = v[8] /\ Fits(v, 1)
         /\ HeadWidth(Additional(v)) = Width(v)
         /\ \A i \in 1..(8 - Width(v)) : Width(v) # 0 => v[i] = 0
<1>1. v[8] \in ByteRange
  BY DEF Integers64
<1>2. Width(v) \in {0, 1, 2, 4, 8} /\ (Width(v) = 0 => v[8] < 24 /\ Fits(v, 1)) /\ (Width(v) # 0 => Fits(v, Width(v)))
  <2>1. Fits(v, 8)
    BY DEF Fits
  <2> QED
    BY <1>1, <2>1 DEF Width
<1>3. CASE Width(v) = 0
  BY <1>1, <1>2, <1>3, ByteRangeFacts DEF Additional, HeadWidth
<1>4. CASE Width(v) # 0
  <2>1. Fits(v, Width(v))
    BY <1>2, <1>4
  <2>2. \A i \in 1..(8 - Width(v)) : v[i] = 0
    BY <2>1 DEF Fits
  <2>3. /\ Width(v) = 1 => Additional(v) = 24
        /\ Width(v) = 2 => Additional(v) = 25
        /\ Width(v) = 4 => Additional(v) = 26
        /\ Width(v) = 8 => Additional(v) = 27
    BY DEF Additional
  <2>4. HeadWidth(24) = 1 /\ HeadWidth(25) = 2 /\ HeadWidth(26) = 4 /\ HeadWidth(27) = 8
    BY DEF HeadWidth
  <2>5. Additional(v) \in 24..27 /\ HeadWidth(Additional(v)) = Width(v)
    BY <1>2, <1>4, <2>3, <2>4
  <2> QED
    BY <1>2, <1>4, <2>1, <2>2, <2>5
<1> QED
  BY <1>3, <1>4

(* appendCBORMajor: the first byte gives major type and width back, then   *)
(* come the low bytes of the value.                                        *)
LEMMA HeadForm ==
  ASSUME NEW v \in Integers64, NEW major \in 0..7
  PROVE  LET e == AppendCBORMajor(major, v) IN
         /\ OnlyBytes(e) /\ Len(e) = 1 + Width(v)
         /\ e[1].n = 32 * major + Additional(v)
         /\ e[1].n % 32 = Additional(v) /\ e[1].n \div 32 = major
         /\ \A i \in 1..Width(v) : e[1 + i].n = v[8 - Width(v) + i]
<1> DEFINE w == Width(v)
           a == Additional(v)
           b(i) == IF i = 1 THEN 32 * major + a ELSE v[7 - w + i]
           e == [i \in 1..(1 + w) |-> Byte(b(i))]
<1>1. w \in {0, 1, 2, 4, 8} /\ a \in 0..27
  BY WidthOf
<1>2. AppendCBORMajor(major, v) = e
  BY DEF AppendCBORMajor
<1>3. \A i \in 1..8 : v[i] \in ByteRange
  BY DEF Integers64
<1> HIDE DEF w, a
<1>4. \A i \in 1..(1 + w) : b(i) \in ByteRange
  BY <1>1, <1>3, ByteRangeFacts
<1> HIDE DEF b
<1>5. \A i \in 1..(1 + w) : Byte(b(i)) \in Octets
  BY <1>4 DEF Byte, Octets
<1>6. e \in Seq(Octets) /\ Len(e) = 1 + w
  BY <1>1, <1>5
<1>7. \A i \in 1..(1 + w) : e[i].n = b(i)
  BY DEF Byte
<1>8. e[1].n = 32 * major + a
  BY <1>1, <1>7 DEF b
<1>9. (32 * major + a) % 32 = a /\ (32 * major + a) \div 32 = major
  BY <1>1
<1>10. ASSUME NEW i \in 1..w PROVE e[1 + i].n = v[8 - w + i]
  <2>1. 1 + i \in 1..(1 + w) /\ 1 + i # 1 /\ 7 - w + (1 + i) = 8 - w + i
    BY <1>1
  <2> QED
    BY <1>7, <2>1 DEF b
<1> HIDE DEF e
<1> QED
  BY <1>2, <1>6, <1>8, <1>9, <1>10 DEF OnlyBytes, w, a

(* A CBOR head is made of plain bytes and is not empty.                    *)
LEMMA HeadBytes ==
  ASSUME NEW v \in Integers64, NEW major \in 0..7
  PROVE  /\ OnlyBytes(AppendCBORMajor(major, v)) /\ AppendCBORMajor(major, v) \in Seq(Element)
         /\ Len(AppendCBORMajor(major, v)) \in Nat /\ Len(AppendCBORMajor(major, v)) > 0
<1>1. OnlyBytes(AppendCBORMajor(major, v)) /\ Len(AppendCBORMajor(major, v)) = 1 + Width(v)
  BY HeadForm
<1>2. Width(v) \in {0, 1, 2, 4, 8}
  BY WidthOf
<1> QED
  BY <1>1, <1>2, BytesAreElements

(* A head whose bytes are there is read.                                   *)
LEMMA ReadHeadOk ==
  ASSUME NEW s, NEW at, NEW major,
         ~(at >= Len(s)), ~(s[at + 1].n % 32 > 27), s[at + 1].n \div 32 = major,
         ~(at + 1 + HeadWidth(s[at + 1].n % 32) > Len(s))
  PROVE  ReadHead(major, s, at) =
           IF s[at + 1].n % 32 < 24 THEN Ok(Uint64(s[at + 1].n % 32), at + 1)
           ELSE Ok([i \in 1..8 |-> IF i > 8 - HeadWidth(s[at + 1].n % 32)
                                   THEN s[at + i - 7 + HeadWidth(s[at + 1].n % 32)].n ELSE 0],
                   at + 1 + HeadWidth(s[at + 1].n % 32))
BY Zenon DEF ReadHead

(* A head that is there is read as the number it was made of.              *)
LEMMA HeadRead ==
  ASSUME NEW s \in Seq(Element), NEW at \in Nat, NEW v \in Integers64, NEW major \in 0..7,
         Holds(s, at, AppendCBORMajor(major, v))
  PROVE  ReadHead(major, s, at) = Ok(v, at + Len(AppendCBORMajor(major, v)))
<1> DEFINE e == AppendCBORMajor(major, v)
           w == Width(v)
           a == Additional(v)
<1>1. /\ OnlyBytes(e) /\ Len(e) = 1 + w
      /\ e[1].n % 32 = a /\ e[1].n \div 32 = major
      /\ \A i \in 1..w : e[1 + i].n = v[8 - w + i]
  BY HeadForm, Zenon
<1>2. /\ w \in {0, 1, 2, 4, 8} /\ a \in 0..27 /\ (a < 24 <=> w = 0)
      /\ w = 0 => a = v[8] /\ Fits(v, 1)
      /\ HeadWidth(a) = w
      /\ \A i \in 1..(8 - w) : w # 0 => v[i] = 0
  BY WidthOf
<1>3. v \in [1..8 -> ByteRange] /\ Len(s) \in Nat
  BY DEF Integers64
<1> HIDE DEF e, w, a
<1>4. at + 1 + w <= Len(s) /\ \A j \in 1..(1 + w) : s[at + j] = e[j]
  BY <1>1, <1>2 DEF Holds, e
<1>5. s[at + 1] = e[1]
  BY <1>2, <1>4
<1>6. s[at + 1].n % 32 = a /\ s[at + 1].n \div 32 = major
  BY <1>1, <1>5
<1>7. ReadHead(major, s, at) =
        IF a < 24 THEN Ok(Uint64(a), at + 1)
        ELSE Ok([i \in 1..8 |-> IF i > 8 - HeadWidth(a) THEN s[at + i - 7 + HeadWidth(a)].n ELSE 0],
                at + 1 + HeadWidth(a))
  <2>1. ~(at >= Len(s)) /\ ~(a > 27) /\ ~(at + 1 + HeadWidth(a) > Len(s))
    BY <1>2, <1>3, <1>4
  <2> QED
    BY <1>6, <2>1, ReadHeadOk, Zenon
<1>8. CASE w = 0
  <2>1. v = Uint64(a)
    BY <1>2, <1>8, LastByte
  <2>2. ReadHead(major, s, at) = Ok(Uint64(a), at + 1)
    BY <1>2, <1>6, <1>8, <1>7, Zenon
  <2> QED
    BY <1>1, <1>8, <2>1, <2>2 DEF e
<1>9. CASE w # 0
  <2> DEFINE x == [i \in 1..8 |-> IF i > 8 - w THEN s[at + i - 7 + w].n ELSE 0]
  <2>1. ASSUME NEW i \in 1..8, i > 8 - w PROVE s[at + i - 7 + w].n = v[i]
    <3> DEFINE k == i - 8 + w
    <3>1. k \in 1..w /\ at + (1 + k) = at + i - 7 + w /\ 8 - w + k = i /\ 1 + k \in 1..(1 + w)
      BY <1>2, <2>1
    <3>2. e[1 + k].n = v[8 - w + k]
      BY <1>1, <3>1
    <3>3. s[at + (1 + k)] = e[1 + k]
      BY <1>4, <3>1
    <3> QED
      BY <3>1, <3>2, <3>3
  <2>2. ASSUME NEW i \in 1..8, ~(i > 8 - w) PROVE v[i] = 0
    BY <1>2, <1>9, <2>2
  <2>3. x = v
    BY <1>3, <2>1, <2>2
  <2>4. ReadHead(major, s, at) = Ok(x, at + 1 + w)
    BY <1>2, <1>6, <1>9, <1>7, Zenon
  <2>5. at + Len(e) = at + 1 + w
    BY <1>1, <1>2
  <2> QED
    BY <2>3, <2>4, <2>5, Zenon DEF e
<1> QED
  BY <1>8, <1>9

(* readHead refuses a head that lost its end.                              *)
LEMMA HeadLost ==
  ASSUME NEW s \in Seq(Element), NEW at \in Nat, NEW v \in Integers64, NEW major \in 0..7,
         Ends(s, at, AppendCBORMajor(major, v))
  PROVE  ReadHead(major, s, at) = Failed
<1> DEFINE e == AppendCBORMajor(major, v)
           w == Width(v)
           a == Additional(v)
<1>1. /\ OnlyBytes(e) /\ Len(e) = 1 + w
      /\ e[1].n % 32 = a /\ e[1].n \div 32 = major
  BY HeadForm
<1>2. /\ w \in {0, 1, 2, 4, 8} /\ a \in 0..27 /\ (a < 24 <=> w = 0)
      /\ HeadWidth(a) = w
  BY WidthOf
<1>3. Len(s) < at + Len(e) /\ \A j \in 1..Len(e) : at + j <= Len(s) => s[at + j] = e[j]
  BY <1>1, BytesLost
<1>4. Len(s) \in Nat
  OBVIOUS
<1> HIDE DEF e, w, a
<1>5. CASE at >= Len(s)
  BY <1>5 DEF ReadHead
<1>6. CASE at < Len(s)
  <2>1. s[at + 1] = e[1] /\ w # 0
    <3>1. at + 1 <= Len(s) /\ 1 \in 1..Len(e) /\ 1 + w > 1
      BY <1>1, <1>2, <1>3, <1>4, <1>6
    <3> QED
      BY <1>2, <1>3, <3>1
  <2>2. s[at + 1].n % 32 = a /\ s[at + 1].n \div 32 = major
    BY <1>1, <2>1
  <2> QED
    BY <1>1, <1>2, <1>3, <1>4, <1>6, <2>1, <2>2 DEF ReadHead
<1> QED
  BY <1>4, <1>5, <1>6

-----------------------------------------------------------------------------
(* Texts.                                                                  *)
LEMMA TextFacts ==
  ASSUME NEW t \in Texts
  PROVE  /\ t \in Element /\ t.n \in Nat /\ t.n < 65536
         /\ t.n = 0 => t = Empty
         /\ t.n # 0 => t.text # None
         /\ Chars(t) \in Seq(Element)
         /\ t.n = 0 => Len(Chars(t)) = 0
         /\ t.n # 0 => Len(Chars(t)) = 1 /\ Chars(t)[1] = t
<1>1. CASE t = Empty
  BY <1>1 DEF Empty, Chars, Element
<1>2. CASE t \in {u \in [text : Names, n : Nat] : 0 < u.n /\ u.n < 65536}
  <2>1. t \in Element /\ t.n \in Nat /\ t.n < 65536 /\ 0 < t.n /\ t.text \in Names
    BY <1>2 DEF Element
  <2>2. Chars(t) = <<t>>
    BY <2>1 DEF Chars
  <2>3. <<t>> \in Seq(Element) /\ Len(<<t>>) = 1 /\ <<t>>[1] = t
    BY <2>1
  <2> QED
    BY <2>1, <2>2, <2>3, CodecAssumption
<1> QED
  BY <1>1, <1>2 DEF Texts

(* A decoder that knows a text's length takes the text and stops behind    *)
(* it.                                                                     *)
LEMMA CharsRead ==
  ASSUME NEW s \in Seq(Element), NEW at \in Nat, NEW t \in Texts, Holds(s, at, Chars(t))
  PROVE  ReadChars(s, at, t.n) = Ok(t, at + Len(Chars(t)))
<1>1. CASE t.n = 0
  BY <1>1, TextFacts DEF ReadChars
<1>2. CASE t.n # 0
  <2>1. Len(Chars(t)) = 1 /\ Chars(t)[1] = t /\ t.n \in Nat
    BY <1>2, TextFacts
  <2>2. at + 1 <= Len(s) /\ s[at + 1] = t
    BY <2>1 DEF Holds
  <2>3. at < Len(s) /\ s[at + 1].n >= t.n
    BY <2>1, <2>2
  <2> QED
    BY <1>2, <2>1, <2>2, <2>3, Zenon DEF ReadChars
<1> QED
  BY <1>1, <1>2

(* It refuses a text that lost its end, in whole or in part.               *)
LEMMA CharsLost ==
  ASSUME NEW s \in Seq(Element), NEW at \in Nat, NEW t \in Texts, Ends(s, at, Chars(t))
  PROVE  ReadChars(s, at, t.n) = Failed
<1>1. Len(s) \in Nat /\ t.n \in Nat
  BY TextFacts
<1>2. CASE t.n = 0
  <2>1. Len(Chars(t)) = 0
    BY <1>2, TextFacts
  <2> QED
    BY <1>1, <2>1 DEF Ends
<1>3. CASE t.n # 0
  <2>1. Len(Chars(t)) = 1 /\ Chars(t)[1] = t
    BY <1>3, TextFacts
  <2>2. ASSUME at < Len(s) PROVE ~(s[at + 1].n >= t.n)
    <3>1. Len(s) = at + 1
      BY <1>1, <2>1, <2>2 DEF Ends
    <3>2. Short(s, at + 1, t)
      BY <2>1, <3>1 DEF Ends
    <3>3. s[at + 1] \in Element
      BY <3>1
    <3> QED
      BY <1>1, <3>2, <3>3 DEF Short, Element
  <2> QED
    BY <1>3, <2>2, Zenon DEF ReadChars
<1> QED
  BY <1>2, <1>3

(* A text behind a head.                                                   *)
LEMMA TextBehind ==
  ASSUME NEW s \in Seq(Element), NEW at \in Nat, NEW t \in Texts, NEW h, OnlyBytes(h)
  PROVE  /\ h \o Chars(t) \in Seq(Element) /\ Len(h \o Chars(t)) = Len(h) + Len(Chars(t))
         /\ Holds(s, at, h \o Chars(t)) =>
              /\ Holds(s, at, h)
              /\ ReadChars(s, at + Len(h), t.n) = Ok(t, at + Len(h \o Chars(t)))
         /\ Ends(s, at, h \o Chars(t)) =>
              Ends(s, at, h) \/ (Holds(s, at, h) /\ ReadChars(s, at + Len(h), t.n) = Failed)
<1> DEFINE c == Chars(t)
<1>1. h \in Seq(Element) /\ c \in Seq(Element) /\ Len(h) \in Nat /\ Len(c) \in Nat
  BY BytesAreElements, TextFacts
<1>2. Holds(s, at + Len(h), c) => ReadChars(s, at + Len(h), t.n) = Ok(t, at + Len(h) + Len(c))
  BY <1>1, CharsRead
<1>3. Ends(s, at + Len(h), c) => ReadChars(s, at + Len(h), t.n) = Failed
  BY <1>1, CharsLost
<1> HIDE DEF c
<1>4. h \o c \in Seq(Element) /\ Len(h \o c) = Len(h) + Len(c)
  BY <1>1
<1>5. at + Len(h) + Len(c) = at + Len(h \o c)
  BY <1>1, <1>4
<1>6. Holds(s, at, h \o c) => Holds(s, at, h) /\ Holds(s, at + Len(h), c)
  BY <1>1, HoldsBoth
<1>7. Ends(s, at, h \o c) => Ends(s, at, h) \/ (Holds(s, at, h) /\ Ends(s, at + Len(h), c))
  BY <1>1, EndsInOne
<1> QED
  BY <1>2, <1>3, <1>4, <1>5, <1>6, <1>7 DEF c

-----------------------------------------------------------------------------
(* The items of a value, of which a list of texts is only its length, and  *)
(* what reading one gives.                                                 *)
IsOf(kind, x) ==
  \/ kind = "text" /\ x \in Texts
  \/ kind = "int" /\ x \in Integers64
  \/ kind = "texts" /\ x \in Seq(Texts) /\ Len(x) < 65536

Reads(kind, x) == IF kind = "texts" THEN Len(x) ELSE x

(* The CBOR decoder reads back each item that is there, and refuses one    *)
(* that lost its end.                                                      *)
LEMMA CBORItem ==
  ASSUME NEW s \in Seq(Element), NEW at \in Nat, NEW kind, NEW x, IsOf(kind, x)
  PROVE  LET e == AppendCBOR(kind, x) IN
         /\ e \in Seq(Element) /\ Len(e) > 0
         /\ Holds(s, at, e) => ReadCBOR(kind, s, at) = Ok(Reads(kind, x), at + Len(e))
         /\ Ends(s, at, e) => ReadCBOR(kind, s, at) = Failed
<1>1. CASE kind = "text" /\ x \in Texts
  <2> DEFINE v == Uint64(x.n)
             h == AppendCBORMajor(3, v)
             c == Chars(x)
  <2>1. x.n \in Nat /\ x.n < 65536 /\ c \in Seq(Element)
    BY <1>1, TextFacts
  <2>2. v \in Integers64 /\ Nat32(v) = x.n
    BY <2>1, LengthInBytes
  <2>3. AppendCBOR(kind, x) = h \o c /\ ReadCBOR(kind, s, at) = ReadCBORText(s, at)
    BY <1>1 DEF AppendCBOR, ReadCBOR
  <2> HIDE DEF v
  <2>4. OnlyBytes(h) /\ Len(h) \in Nat /\ Len(h) > 0
    BY <2>2, HeadBytes
  <2>5. Holds(s, at, h) => ReadHead(3, s, at) = Ok(v, at + Len(h))
    BY <2>2, HeadRead
  <2>6. Ends(s, at, h) => ReadHead(3, s, at) = Failed
    BY <2>2, HeadLost
  <2>7. Holds(s, at, h) => ReadCBORText(s, at) = ReadChars(s, at + Len(h), x.n)
    BY <2>2, <2>5 DEF ReadCBORText, Ok
  <2>8. Ends(s, at, h) => ReadCBORText(s, at) = Failed
    BY <2>6 DEF ReadCBORText, Failed
  <2> HIDE DEF h, c
  <2>9. /\ h \o c \in Seq(Element) /\ Len(h \o c) = Len(h) + Len(c)
        /\ Holds(s, at, h \o c) =>
             Holds(s, at, h) /\ ReadChars(s, at + Len(h), x.n) = Ok(x, at + Len(h \o c))
        /\ Ends(s, at, h \o c) =>
             Ends(s, at, h) \/ (Holds(s, at, h) /\ ReadChars(s, at + Len(h), x.n) = Failed)
    BY <1>1, <2>4, TextBehind DEF c
  <2>10. Len(h \o c) > 0
    BY <2>1, <2>4, <2>9
  <2>11. Reads(kind, x) = x
    BY <1>1 DEF Reads
  <2> QED
    BY <2>3, <2>7, <2>8, <2>9, <2>10, <2>11, Zenon
<1>2. CASE kind = "int" /\ x \in Integers64
  <2>1. AppendCBOR(kind, x) = AppendCBORMajor(0, x) /\ ReadCBOR(kind, s, at) = ReadHead(0, s, at)
    BY <1>2 DEF AppendCBOR, ReadCBOR
  <2>2. Reads(kind, x) = x
    BY <1>2 DEF Reads
  <2>3. AppendCBORMajor(0, x) \in Seq(Element) /\ Len(AppendCBORMajor(0, x)) > 0
    BY <1>2, HeadBytes
  <2>4. Holds(s, at, AppendCBORMajor(0, x)) =>
          ReadHead(0, s, at) = Ok(x, at + Len(AppendCBORMajor(0, x)))
    BY <1>2, HeadRead
  <2>5. Ends(s, at, AppendCBORMajor(0, x)) => ReadHead(0, s, at) = Failed
    BY <1>2, HeadLost
  <2> QED
    BY <2>1, <2>2, <2>3, <2>4, <2>5
<1>3. CASE kind = "texts" /\ x \in Seq(Texts) /\ Len(x) < 65536
  <2> DEFINE v == Uint64(Len(x))
  <2>1. v \in Integers64 /\ Nat32(v) = Len(x)
    BY <1>3, LengthInBytes
  <2>2. AppendCBOR(kind, x) = AppendCBORMajor(4, v) /\ ReadCBOR(kind, s, at) = ReadCBORCount(s, at)
    BY <1>3 DEF AppendCBOR, ReadCBOR
  <2>3. Reads(kind, x) = Len(x)
    BY <1>3 DEF Reads
  <2> HIDE DEF v
  <2>4. AppendCBORMajor(4, v) \in Seq(Element) /\ Len(AppendCBORMajor(4, v)) > 0
    BY <2>1, HeadBytes
  <2>5. Holds(s, at, AppendCBORMajor(4, v)) =>
          ReadHead(4, s, at) = Ok(v, at + Len(AppendCBORMajor(4, v)))
    BY <2>1, HeadRead
  <2>6. Holds(s, at, AppendCBORMajor(4, v)) =>
          ReadCBORCount(s, at) = Ok(Len(x), at + Len(AppendCBORMajor(4, v)))
    <3> DEFINE r == ReadHead(4, s, at)
               m == at + Len(AppendCBORMajor(4, v))
    <3>1. SUFFICES ASSUME Holds(s, at, AppendCBORMajor(4, v)) PROVE ReadCBORCount(s, at) = Ok(Len(x), m)
      OBVIOUS
    <3>2. r = Ok(v, m)
      BY <2>5, <3>1
    <3>3. r.ok /\ Nat32(r.value) = Len(x) /\ r.at = m
      <4> HIDE DEF r, m
      <4> QED
        BY <2>1, <3>2 DEF Ok
    <3> QED
      BY <3>3, Zenon DEF ReadCBORCount
  <2>7. Ends(s, at, AppendCBORMajor(4, v)) => ReadCBORCount(s, at) = Failed
    BY <2>1, HeadLost DEF ReadCBORCount, Failed
  <2> QED
    BY <2>2, <2>3, <2>4, <2>5, <2>6, <2>7
<1> QED
  BY <1>1, <1>2, <1>3 DEF IsOf

-----------------------------------------------------------------------------
(* MsgPack: a length in one byte, or in two behind a prefix.               *)
LEMMA BytesOf ==
  ASSUME NEW d \in Seq(ByteRange)
  PROVE  /\ OnlyBytes(Bytes(d)) /\ Bytes(d) \in Seq(Element) /\ Len(Bytes(d)) = Len(d)
         /\ \A i \in 1..Len(d) : Bytes(d)[i].n = d[i]
<1> DEFINE k == Len(d)
           e == [i \in 1..k |-> Byte(d[i])]
<1>1. k \in Nat /\ \A i \in 1..k : d[i] \in ByteRange
  OBVIOUS
<1>2. Bytes(d) = e
  BY DEF Bytes
<1> HIDE DEF k
<1>3. \A i \in 1..k : Byte(d[i]) \in Octets /\ Byte(d[i]).n = d[i]
  BY <1>1 DEF Byte, Octets
<1>4. e \in Seq(Octets) /\ Len(e) = k
  BY <1>1, <1>3
<1>5. \A i \in 1..k : e[i].n = d[i]
  BY <1>3
<1> HIDE DEF e
<1>6. OnlyBytes(e)
  BY <1>4 DEF OnlyBytes
<1>7. e \in Seq(Element)
  BY <1>6, BytesAreElements
<1> QED
  BY <1>2, <1>4, <1>5, <1>6, <1>7 DEF k

(* A head of one byte.                                                     *)
LEMMA OneByte ==
  ASSUME NEW b \in ByteRange
  PROVE  /\ OnlyBytes(Bytes(<<b>>)) /\ Bytes(<<b>>) \in Seq(Element)
         /\ Len(Bytes(<<b>>)) = 1 /\ Bytes(<<b>>)[1].n = b
<1> DEFINE d == <<b>>
<1>1. d \in Seq(ByteRange) /\ Len(d) = 1 /\ d[1] = b
  OBVIOUS
<1> HIDE DEF d
<1>2. OnlyBytes(Bytes(d)) /\ Bytes(d) \in Seq(Element) /\ Len(Bytes(d)) = 1 /\ Bytes(d)[1].n = b
  BY <1>1, BytesOf
<1> QED
  BY <1>2 DEF d

(* A head of three bytes.                                                  *)
LEMMA ThreeBytes ==
  ASSUME NEW a \in ByteRange, NEW b \in ByteRange, NEW c \in ByteRange
  PROVE  /\ OnlyBytes(Bytes(<<a, b, c>>)) /\ Bytes(<<a, b, c>>) \in Seq(Element)
         /\ Len(Bytes(<<a, b, c>>)) = 3 /\ Bytes(<<a, b, c>>)[1].n = a
         /\ Bytes(<<a, b, c>>)[2].n = b /\ Bytes(<<a, b, c>>)[3].n = c
<1> DEFINE d == <<a, b, c>>
<1>1. d \in Seq(ByteRange) /\ Len(d) = 3 /\ d[1] = a /\ d[2] = b /\ d[3] = c
  OBVIOUS
<1> HIDE DEF d
<1>2. Bytes(d)[1].n = a /\ Bytes(d)[2].n = b /\ Bytes(d)[3].n = c
  BY <1>1, BytesOf
<1>3. OnlyBytes(Bytes(d)) /\ Bytes(d) \in Seq(Element) /\ Len(Bytes(d)) = 3
  BY <1>1, BytesOf
<1> QED
  BY <1>2, <1>3 DEF d

(* A MsgPack length within the first byte, as in a fixstr or a fixarray.   *)
LEMMA ShortLength ==
  ASSUME NEW s \in Seq(Element), NEW at \in Nat, NEW fix \in Nat, NEW most \in Nat, NEW prefix16,
         NEW n \in 0..most, fix + most < 256
  PROVE  /\ Holds(s, at, Bytes(<<fix + n>>)) =>
              ReadMsgPackLength(s, at, fix, most, prefix16) = Ok(n, at + 1)
         /\ Ends(s, at, Bytes(<<fix + n>>)) => ReadMsgPackLength(s, at, fix, most, prefix16) = Failed
<1> DEFINE e == Bytes(<<fix + n>>)
<1>1. fix + n \in ByteRange /\ Len(s) \in Nat /\ fix + n \in fix..(fix + most) /\ (fix + n) - fix = n
  BY ByteRangeFacts
<1>2. OnlyBytes(e) /\ Len(e) = 1 /\ e[1].n = fix + n
  BY <1>1, OneByte
<1> HIDE DEF e
<1>3. ASSUME Holds(s, at, e)
      PROVE  ReadMsgPackLength(s, at, fix, most, prefix16) = Ok(n, at + 1)
  <2>1. ~(at >= Len(s)) /\ s[at + 1] = e[1]
    BY <1>1, <1>2, <1>3 DEF Holds
  <2>2. s[at + 1].n = fix + n
    BY <1>2, <2>1
  <2> QED
    BY <1>1, <2>1, <2>2, Zenon DEF ReadMsgPackLength
<1>4. ASSUME Ends(s, at, e)
      PROVE  ReadMsgPackLength(s, at, fix, most, prefix16) = Failed
  <2>1. Len(s) < at + Len(e)
    BY <1>2, <1>4, BytesLost, Zenon
  <2>2. at >= Len(s)
    BY <1>1, <1>2, <2>1
  <2> QED
    BY <2>2, Zenon DEF ReadMsgPackLength
<1> QED
  BY <1>3, <1>4 DEF e

(* A MsgPack length in the two bytes behind the first.                     *)
LEMMA LongLength ==
  ASSUME NEW s \in Seq(Element), NEW at \in Nat, NEW fix \in Nat, NEW most \in Nat, NEW prefix16 \in ByteRange,
         NEW b \in ByteRange, NEW c \in ByteRange, prefix16 > fix + most
  PROVE  /\ Holds(s, at, Bytes(<<prefix16, b, c>>)) =>
              ReadMsgPackLength(s, at, fix, most, prefix16) = Ok(256 * b + c, at + 3)
         /\ Ends(s, at, Bytes(<<prefix16, b, c>>)) =>
              ReadMsgPackLength(s, at, fix, most, prefix16) = Failed
<1> DEFINE e == Bytes(<<prefix16, b, c>>)
<1>1. prefix16 \notin fix..(fix + most) /\ Len(s) \in Nat
  OBVIOUS
<1>2. OnlyBytes(e) /\ Len(e) = 3 /\ e[1].n = prefix16 /\ e[2].n = b /\ e[3].n = c
  BY ThreeBytes
<1> HIDE DEF e
<1>3. ASSUME Holds(s, at, e)
      PROVE  ReadMsgPackLength(s, at, fix, most, prefix16) = Ok(256 * b + c, at + 3)
  <2>1. ~(at >= Len(s)) /\ at + 3 <= Len(s)
    BY <1>1, <1>2, <1>3 DEF Holds
  <2>2. s[at + 1] = e[1] /\ s[at + 2] = e[2] /\ s[at + 3] = e[3]
    BY <1>2, <1>3 DEF Holds
  <2>3. s[at + 1].n = prefix16 /\ s[at + 2].n = b /\ s[at + 3].n = c
    BY <1>2, <2>2
  <2> QED
    BY <1>1, <2>1, <2>3, Zenon DEF ReadMsgPackLength
<1>4. ASSUME Ends(s, at, e)
      PROVE  ReadMsgPackLength(s, at, fix, most, prefix16) = Failed
  <2>1. Len(s) < at + 3 /\ \A j \in 1..3 : at + j <= Len(s) => s[at + j] = e[j]
    <3>1. OnlyBytes(e)
      BY <1>2
    <3>2. Len(s) < at + Len(e) /\ \A j \in 1..Len(e) : at + j <= Len(s) => s[at + j] = e[j]
      BY <1>4, <3>1, BytesLost
    <3> QED
      BY <1>2, <3>2
  <2>2. CASE at >= Len(s)
    BY <2>2, Zenon DEF ReadMsgPackLength
  <2>3. CASE ~(at >= Len(s))
    <3>1. at + 1 <= Len(s) /\ ~(at + 3 <= Len(s))
      BY <1>1, <2>1, <2>3
    <3>2. s[at + 1] = e[1]
      BY <2>1, <3>1
    <3>3. s[at + 1].n = prefix16
      BY <1>2, <3>2
    <3> QED
      BY <1>1, <2>3, <3>1, <3>3, Zenon DEF ReadMsgPackLength
  <2> QED
    BY <2>2, <2>3
<1> QED
  BY <1>3, <1>4 DEF e

(* Integers: one byte, or eight behind a prefix.                           *)
LEMMA MsgPackIntForm ==
  ASSUME NEW v \in Integers64, ~(Fits(v, 1) /\ v[8] <= 127)
  PROVE  LET e == AppendMsgPackInt64(v) IN
         /\ OnlyBytes(e) /\ Len(e) = 9 /\ e[1].n = 211
         /\ \A i \in 1..8 : e[1 + i].n = v[i]
<1> DEFINE b(i) == IF i = 1 THEN 211 ELSE v[i - 1]
           e == [i \in 1..9 |-> Byte(b(i))]
<1>1. AppendMsgPackInt64(v) = e
  BY DEF AppendMsgPackInt64
<1>2. \A i \in 1..9 : b(i) \in ByteRange
  BY ByteRangeFacts DEF Integers64
<1>3. b(1) = 211 /\ \A i \in 1..8 : b(1 + i) = v[i]
  OBVIOUS
<1> HIDE DEF b
<1>4. \A i \in 1..9 : Byte(b(i)) \in Octets /\ Byte(b(i)).n = b(i)
  BY <1>2 DEF Byte, Octets
<1>5. e \in Seq(Octets) /\ Len(e) = 9 /\ \A i \in 1..9 : e[i].n = b(i)
  BY <1>4
<1> HIDE DEF e
<1>6. e[1].n = 211 /\ \A i \in 1..8 : e[1 + i].n = v[i]
  BY <1>3, <1>5
<1> QED
  BY <1>1, <1>5, <1>6 DEF OnlyBytes

(* readInt64 gives back what appendMsgPackInt64 wrote, in one byte or in   *)
(* nine.                                                                   *)
LEMMA MsgPackInt ==
  ASSUME NEW s \in Seq(Element), NEW at \in Nat, NEW v \in Integers64
  PROVE  LET e == AppendMsgPackInt64(v) IN
         /\ e \in Seq(Element) /\ Len(e) > 0
         /\ Holds(s, at, e) => ReadMsgPackInt64(s, at) = Ok(v, at + Len(e))
         /\ Ends(s, at, e) => ReadMsgPackInt64(s, at) = Failed
<1> DEFINE e == AppendMsgPackInt64(v)
<1>1. Len(s) \in Nat /\ v \in [1..8 -> ByteRange]
  BY DEF Integers64
<1>2. CASE Fits(v, 1) /\ v[8] <= 127
  <2>1. e = Bytes(<<v[8]>>) /\ v[8] \in ByteRange
    BY <1>1, <1>2 DEF AppendMsgPackInt64
  <2>2. OnlyBytes(e) /\ e \in Seq(Element) /\ Len(e) = 1 /\ e[1].n = v[8]
    BY <2>1, OneByte
  <2> HIDE DEF e
  <2>3. ASSUME Holds(s, at, e) PROVE ReadMsgPackInt64(s, at) = Ok(v, at + 1)
    <3>1. ~(at >= Len(s)) /\ s[at + 1] = e[1]
      BY <1>1, <2>2, <2>3 DEF Holds
    <3>2. s[at + 1].n = v[8]
      BY <2>2, <3>1
    <3>3. v = Uint64(v[8])
      BY <1>2, LastByte
    <3> QED
      BY <1>2, <3>1, <3>2, <3>3, Zenon DEF ReadMsgPackInt64
  <2>4. ASSUME Ends(s, at, e) PROVE ReadMsgPackInt64(s, at) = Failed
    <3>1. Len(s) < at + Len(e)
      BY <2>2, <2>4, BytesLost, Zenon
    <3>2. at >= Len(s)
      BY <1>1, <2>2, <3>1
    <3> QED
      BY <3>2, Zenon DEF ReadMsgPackInt64
  <2> QED
    BY <2>2, <2>3, <2>4 DEF e
<1>3. CASE ~(Fits(v, 1) /\ v[8] <= 127)
  <2>1. OnlyBytes(e) /\ Len(e) = 9 /\ e[1].n = 211 /\ \A i \in 1..8 : e[1 + i].n = v[i]
    BY <1>3, MsgPackIntForm
  <2> HIDE DEF e
  <2>2. e \in Seq(Element)
    BY <2>1, BytesAreElements
  <2>3. ASSUME Holds(s, at, e) PROVE ReadMsgPackInt64(s, at) = Ok(v, at + 9)
    <3>1. ~(at >= Len(s)) /\ at + 9 <= Len(s) /\ \A j \in 1..9 : s[at + j] = e[j]
      BY <1>1, <2>1, <2>3 DEF Holds
    <3>2. s[at + 1].n = 211 /\ ~(211 <= 127)
      BY <2>1, <3>1
    <3> DEFINE x == [i \in 1..8 |-> s[at + 1 + i].n]
    <3>3. ASSUME NEW i \in 1..8 PROVE s[at + 1 + i].n = v[i]
      <4>1. 1 + i \in 1..9 /\ at + (1 + i) = at + 1 + i
        OBVIOUS
      <4>2. s[at + (1 + i)] = e[1 + i]
        BY <3>1, <4>1, Zenon
      <4>3. e[1 + i].n = v[i]
        BY <2>1
      <4> QED
        BY <4>1, <4>2, <4>3
    <3>4. x = v
      BY <1>1, <3>3, Zenon
    <3>5. ReadMsgPackInt64(s, at) = Ok(x, at + 9)
      BY <3>1, <3>2, Zenon DEF ReadMsgPackInt64
    <3> QED
      BY <3>4, <3>5, Zenon
  <2>4. ASSUME Ends(s, at, e) PROVE ReadMsgPackInt64(s, at) = Failed
    <3>1. OnlyBytes(e)
      BY <2>1
    <3>2. Len(s) < at + Len(e) /\ \A j \in 1..Len(e) : at + j <= Len(s) => s[at + j] = e[j]
      BY <2>4, <3>1, BytesLost
    <3>3. CASE at >= Len(s)
      BY <3>3, Zenon DEF ReadMsgPackInt64
    <3>4. CASE ~(at >= Len(s))
      <4>1. at + 1 <= Len(s) /\ ~(at + 9 <= Len(s)) /\ 1 \in 1..Len(e)
        BY <1>1, <2>1, <3>2, <3>4
      <4>2. s[at + 1] = e[1]
        BY <3>2, <4>1
      <4>3. s[at + 1].n = 211 /\ ~(211 <= 127)
        BY <2>1, <4>2
      <4> QED
        BY <3>4, <4>1, <4>3, Zenon DEF ReadMsgPackInt64
    <3> QED
      BY <3>3, <3>4
  <2> QED
    BY <2>1, <2>2, <2>3, <2>4 DEF e
<1> QED
  BY <1>2, <1>3

(* A length, as that of a text or of a list.                               *)
LengthBytes(n, fix, most, prefix16) ==
  IF n <= most THEN Bytes(<<fix + n>>) ELSE Bytes(<<prefix16, (n \div 256) % 256, n % 256>>)

(* readArrayLen and readString take a length for what was written, in      *)
(* either form.                                                            *)
LEMMA MsgPackLength ==
  ASSUME NEW s \in Seq(Element), NEW at \in Nat, NEW fix \in Nat, NEW most \in Nat, NEW prefix16 \in ByteRange,
         NEW n \in Nat, n < 65536, prefix16 > fix + most
  PROVE  LET e == LengthBytes(n, fix, most, prefix16) IN
         /\ OnlyBytes(e) /\ e \in Seq(Element) /\ Len(e) \in Nat /\ Len(e) > 0
         /\ Holds(s, at, e) => ReadMsgPackLength(s, at, fix, most, prefix16) = Ok(n, at + Len(e))
         /\ Ends(s, at, e) => ReadMsgPackLength(s, at, fix, most, prefix16) = Failed
<1> DEFINE e == LengthBytes(n, fix, most, prefix16)
<1>1. CASE n <= most
  <2>1. e = Bytes(<<fix + n>>) /\ fix + n \in ByteRange /\ fix + most < 256
    BY <1>1, ByteRangeFacts DEF LengthBytes
  <2>2. OnlyBytes(e) /\ e \in Seq(Element) /\ Len(e) = 1
    BY <2>1, OneByte
  <2>3. /\ Holds(s, at, e) => ReadMsgPackLength(s, at, fix, most, prefix16) = Ok(n, at + 1)
        /\ Ends(s, at, e) => ReadMsgPackLength(s, at, fix, most, prefix16) = Failed
    BY <1>1, <2>1, ShortLength
  <2> HIDE DEF e
  <2> QED
    BY <2>2, <2>3 DEF e
<1>2. CASE ~(n <= most)
  <2> DEFINE q == n \div 256
             r == n % 256
  <2>1. q \in ByteRange /\ r \in ByteRange /\ n = 256 * q + r
    <3> HIDE DEF e
    <3> QED
      BY TwoBytes
  <2>2. q % 256 = q
    <3> HIDE DEF q
    <3> QED
      BY <2>1, ByteRangeFacts
  <2>3. e = Bytes(<<prefix16, q, r>>)
    BY <1>2, <2>2 DEF LengthBytes
  <2> HIDE DEF q, r
  <2>4. OnlyBytes(e) /\ e \in Seq(Element) /\ Len(e) = 3
    BY <2>1, <2>3, ThreeBytes
  <2>5. /\ Holds(s, at, e) => ReadMsgPackLength(s, at, fix, most, prefix16) = Ok(256 * q + r, at + 3)
        /\ Ends(s, at, e) => ReadMsgPackLength(s, at, fix, most, prefix16) = Failed
    BY <2>1, <2>3, LongLength
  <2>6. 256 * q + r = n /\ at + 3 = at + Len(e)
    <3> HIDE DEF e
    <3> QED
      BY <2>1, <2>4
  <2>7. Len(e) \in Nat /\ Len(e) > 0
    BY <2>4
  <2> DEFINE read == ReadMsgPackLength(s, at, fix, most, prefix16)
  <2> HIDE DEF read, e
  <2> QED
    BY <2>4, <2>5, <2>6, <2>7, SMT DEF e
<1> QED
  BY <1>1, <1>2

(* The MsgPack decoder reads back each item that is there, and refuses one *)
(* that lost its end.                                                      *)
LEMMA MsgPackItem ==
  ASSUME NEW s \in Seq(Element), NEW at \in Nat, NEW kind, NEW x, IsOf(kind, x)
  PROVE  LET e == AppendMsgPack(kind, x) IN
         /\ e \in Seq(Element) /\ Len(e) > 0
         /\ Holds(s, at, e) => ReadMsgPack(kind, s, at) = Ok(Reads(kind, x), at + Len(e))
         /\ Ends(s, at, e) => ReadMsgPack(kind, s, at) = Failed
<1>1. CASE kind = "text" /\ x \in Texts
  <2> DEFINE h == LengthBytes(x.n, 160, 31, 218)
             c == Chars(x)
  <2>1. x.n \in Nat /\ x.n < 65536 /\ c \in Seq(Element)
    BY <1>1, TextFacts
  <2>2. AppendMsgPack(kind, x) = h \o c /\ ReadMsgPack(kind, s, at) = ReadMsgPackString(s, at)
    BY <1>1, Zenon DEF AppendMsgPack, ReadMsgPack, AppendMsgPackString, LengthBytes
  <2>3. /\ OnlyBytes(h) /\ Len(h) \in Nat /\ Len(h) > 0
        /\ Holds(s, at, h) => ReadMsgPackLength(s, at, 160, 31, 218) = Ok(x.n, at + Len(h))
        /\ Ends(s, at, h) => ReadMsgPackLength(s, at, 160, 31, 218) = Failed
    <3>1. 218 \in ByteRange /\ 218 > 160 + 31
      BY ByteRangeFacts
    <3> DEFINE k == x.n
    <3>2. k \in Nat /\ k < 65536
      BY <2>1
    <3> HIDE DEF k
    <3>3. /\ OnlyBytes(LengthBytes(k, 160, 31, 218))
          /\ Len(LengthBytes(k, 160, 31, 218)) \in Nat /\ Len(LengthBytes(k, 160, 31, 218)) > 0
          /\ Holds(s, at, LengthBytes(k, 160, 31, 218)) =>
               ReadMsgPackLength(s, at, 160, 31, 218) = Ok(k, at + Len(LengthBytes(k, 160, 31, 218)))
          /\ Ends(s, at, LengthBytes(k, 160, 31, 218)) => ReadMsgPackLength(s, at, 160, 31, 218) = Failed
      BY <3>1, <3>2, MsgPackLength, SMT
    <3> QED
      BY <3>3 DEF k
  <2> HIDE DEF h, c
  <2>4. Holds(s, at, h) => ReadMsgPackString(s, at) = ReadChars(s, at + Len(h), x.n)
    BY <2>3 DEF ReadMsgPackString, Ok
  <2>5. Ends(s, at, h) => ReadMsgPackString(s, at) = Failed
    BY <2>3 DEF ReadMsgPackString, Failed
  <2>6. /\ h \o c \in Seq(Element) /\ Len(h \o c) = Len(h) + Len(c)
        /\ Holds(s, at, h \o c) =>
             Holds(s, at, h) /\ ReadChars(s, at + Len(h), x.n) = Ok(x, at + Len(h \o c))
        /\ Ends(s, at, h \o c) =>
             Ends(s, at, h) \/ (Holds(s, at, h) /\ ReadChars(s, at + Len(h), x.n) = Failed)
    BY <1>1, <2>3, TextBehind DEF c
  <2>7. Len(h \o c) > 0
    BY <2>1, <2>3, <2>6
  <2>8. Reads(kind, x) = x
    BY <1>1 DEF Reads
  <2> QED
    BY <2>2, <2>4, <2>5, <2>6, <2>7, <2>8, Zenon
<1>2. CASE kind = "int" /\ x \in Integers64
  <2>1. /\ AppendMsgPack(kind, x) = AppendMsgPackInt64(x)
        /\ ReadMsgPack(kind, s, at) = ReadMsgPackInt64(s, at) /\ Reads(kind, x) = x
    BY <1>2 DEF AppendMsgPack, ReadMsgPack, Reads
  <2> QED
    BY <1>2, <2>1, MsgPackInt
<1>3. CASE kind = "texts" /\ x \in Seq(Texts) /\ Len(x) < 65536
  <2> DEFINE h == LengthBytes(Len(x), 144, 15, 220)
  <2>1. /\ AppendMsgPack(kind, x) = h
        /\ ReadMsgPack(kind, s, at) = ReadMsgPackLength(s, at, 144, 15, 220) /\ Reads(kind, x) = Len(x)
    BY <1>3 DEF AppendMsgPack, ReadMsgPack, Reads, AppendMsgPackCount, LengthBytes, ReadMsgPackCount
  <2>2. Len(x) \in Nat /\ Len(x) < 65536 /\ 220 \in ByteRange /\ 220 > 144 + 15
    BY <1>3, ByteRangeFacts
  <2>3. /\ h \in Seq(Element) /\ Len(h) > 0
        /\ Holds(s, at, h) => ReadMsgPackLength(s, at, 144, 15, 220) = Ok(Len(x), at + Len(h))
        /\ Ends(s, at, h) => ReadMsgPackLength(s, at, 144, 15, 220) = Failed
    BY <2>2, MsgPackLength
  <2> HIDE DEF h
  <2> QED
    BY <2>1, <2>3
<1> QED
  BY <1>1, <1>2, <1>3 DEF IsOf

(* What the decoder of an array codec makes of an item that is there, and  *)
(* of one that is not all there.                                           *)
AppendArrayItem(codec, kind, x) == IF codec = "cbor" THEN AppendCBOR(kind, x) ELSE AppendMsgPack(kind, x)

(* So it is for the codec of an array, whichever it is.                    *)
LEMMA ArrayItem ==
  ASSUME NEW s \in Seq(Element), NEW at \in Nat, NEW kind, NEW x, IsOf(kind, x), NEW codec
  PROVE  LET e == AppendArrayItem(codec, kind, x) IN
         /\ e \in Seq(Element) /\ Len(e) > 0
         /\ Holds(s, at, e) => ReadItem(codec, kind, s, at) = Ok(Reads(kind, x), at + Len(e))
         /\ Ends(s, at, e) => ReadItem(codec, kind, s, at) = Failed
<1>1. CASE codec = "cbor"
  BY <1>1, CBORItem, ZenonT(60) DEF AppendArrayItem, ReadItem
<1>2. CASE codec # "cbor"
  BY <1>2, MsgPackItem, ZenonT(60) DEF AppendArrayItem, ReadItem
<1> QED
  BY <1>1, <1>2

-----------------------------------------------------------------------------
(* Varints: what their groups of 7 bits take from which bytes.             *)
LEMMA Straddle ==
  ASSUME NEW x \in ByteRange, NEW y \in ByteRange, NEW p \in {2, 4, 8, 16, 32, 64, 128}
  PROVE  ((x + 256 * y) \div p) % 128 = (x \div p) + (256 \div p) * (y % (p \div 2))
<1>1. x \in Nat /\ x < 256 /\ y \in Nat /\ y < 256
  BY ByteRangeFacts
<1>2. CASE p = 2
  BY <1>1, <1>2
<1>3. CASE p = 4
  BY <1>1, <1>3
<1>4. CASE p = 8
  BY <1>1, <1>4
<1>5. CASE p = 16
  BY <1>1, <1>5
<1>6. CASE p = 32
  BY <1>1, <1>6
<1>7. CASE p = 64
  BY <1>1, <1>7
<1>8. CASE p = 128
  BY <1>1, <1>8
<1> QED
  BY <1>2, <1>3, <1>4, <1>5, <1>6, <1>7, <1>8

(* A byte whose bits are spread over two groups of seven is put together   *)
(* again from them.                                                        *)
LEMMA Mend ==
  ASSUME NEW x \in ByteRange, NEW y \in ByteRange, NEW z \in ByteRange, NEW p \in {4, 8, 16, 32, 64, 128}
  PROVE  ((((x \div p) + (256 \div p) * (y % (p \div 2)))
           + 128 * ((y \div (p \div 2)) + (512 \div p) * (z % (p \div 4)))) \div (256 \div p)) % 256 = y
<1>1. x \in Nat /\ x < 256 /\ y \in Nat /\ y < 256 /\ z \in Nat /\ z < 256
  BY ByteRangeFacts
<1>2. CASE p = 4
  BY <1>1, <1>2
<1>3. CASE p = 8
  BY <1>1, <1>3
<1>4. CASE p = 16
  BY <1>1, <1>4
<1>5. CASE p = 32
  BY <1>1, <1>5
<1>6. CASE p = 64
  BY <1>1, <1>6
<1>7. CASE p = 128
  BY <1>1, <1>7
<1> QED
  BY <1>2, <1>3, <1>4, <1>5, <1>6, <1>7

(* The groups of seven bits of a 64-bit value, written with its bytes.     *)
LEMMA GroupForm ==
  ASSUME NEW v \in Integers64
  PROVE  /\ Group(v, 0) = v[8] % 128
         /\ Group(v, 1) = (v[8] \div 128) + 2 * (v[7] % 64)
         /\ Group(v, 2) = (v[7] \div 64) + 4 * (v[6] % 32)
         /\ Group(v, 3) = (v[6] \div 32) + 8 * (v[5] % 16)
         /\ Group(v, 4) = (v[5] \div 16) + 16 * (v[4] % 8)
         /\ Group(v, 5) = (v[4] \div 8) + 32 * (v[3] % 4)
         /\ Group(v, 6) = (v[3] \div 4) + 64 * (v[2] % 2)
         /\ Group(v, 7) = (v[2] \div 2) + 128 * (v[1] % 1)
         /\ Group(v, 8) = v[1] % 128 /\ Group(v, 9) = v[1] \div 128
<1>1. \A i \in 1..8 : v[i] \in ByteRange
  BY DEF Integers64
<1>2. \A b \in 0..7 : Octet(v, b) = v[8 - b]
  BY DEF Octet
<1>3. Octet(v, 8) = 0
  BY DEF Octet
<1>4. /\ Power2[1] = 1 /\ Power2[2] = 2 /\ Power2[3] = 4 /\ Power2[4] = 8 /\ Power2[5] = 16
      /\ Power2[6] = 32 /\ Power2[7] = 64 /\ Power2[8] = 128
  BY DEF Power2
<1>5. Group(v, 0) = v[8] % 128
  <2>1. (7 * 0) \div 8 = 0 /\ 1 + ((7 * 0) % 8) = 1
    OBVIOUS
  <2>2. Group(v, 0) = ((v[8] + 256 * v[7]) \div 1) % 128
    BY <1>2, <1>4, <2>1 DEF Group
  <2>3. v[8] \in Nat /\ v[7] \in Nat
    BY <1>1, ByteRangeFacts
  <2> QED
    BY <2>2, <2>3
<1>6. Group(v, 1) = (v[8] \div 128) + 2 * (v[7] % 64)
  <2>1. (7 * 1) \div 8 = 0 /\ 1 + ((7 * 1) % 8) = 8
    OBVIOUS
  <2>2. Group(v, 1) = ((v[8] + 256 * v[7]) \div 128) % 128
    BY <1>2, <1>4, <2>1 DEF Group
  <2>3. v[8] \in ByteRange /\ v[7] \in ByteRange
    BY <1>1
  <2>4. 256 \div 128 = 2 /\ 128 \div 2 = 64
    OBVIOUS
  <2> QED
    BY <2>2, <2>3, <2>4, Straddle
<1>7. Group(v, 2) = (v[7] \div 64) + 4 * (v[6] % 32)
  <2>1. (7 * 2) \div 8 = 1 /\ 1 + ((7 * 2) % 8) = 7
    OBVIOUS
  <2>2. Group(v, 2) = ((v[7] + 256 * v[6]) \div 64) % 128
    BY <1>2, <1>4, <2>1 DEF Group
  <2>3. v[7] \in ByteRange /\ v[6] \in ByteRange
    BY <1>1
  <2>4. 256 \div 64 = 4 /\ 64 \div 2 = 32
    OBVIOUS
  <2> QED
    BY <2>2, <2>3, <2>4, Straddle
<1>8. Group(v, 3) = (v[6] \div 32) + 8 * (v[5] % 16)
  <2>1. (7 * 3) \div 8 = 2 /\ 1 + ((7 * 3) % 8) = 6
    OBVIOUS
  <2>2. Group(v, 3) = ((v[6] + 256 * v[5]) \div 32) % 128
    BY <1>2, <1>4, <2>1 DEF Group
  <2>3. v[6] \in ByteRange /\ v[5] \in ByteRange
    BY <1>1
  <2>4. 256 \div 32 = 8 /\ 32 \div 2 = 16
    OBVIOUS
  <2> QED
    BY <2>2, <2>3, <2>4, Straddle
<1>9. Group(v, 4) = (v[5] \div 16) + 16 * (v[4] % 8)
  <2>1. (7 * 4) \div 8 = 3 /\ 1 + ((7 * 4) % 8) = 5
    OBVIOUS
  <2>2. Group(v, 4) = ((v[5] + 256 * v[4]) \div 16) % 128
    BY <1>2, <1>4, <2>1 DEF Group
  <2>3. v[5] \in ByteRange /\ v[4] \in ByteRange
    BY <1>1
  <2>4. 256 \div 16 = 16 /\ 16 \div 2 = 8
    OBVIOUS
  <2> QED
    BY <2>2, <2>3, <2>4, Straddle
<1>10. Group(v, 5) = (v[4] \div 8) + 32 * (v[3] % 4)
  <2>1. (7 * 5) \div 8 = 4 /\ 1 + ((7 * 5) % 8) = 4
    OBVIOUS
  <2>2. Group(v, 5) = ((v[4] + 256 * v[3]) \div 8) % 128
    BY <1>2, <1>4, <2>1 DEF Group
  <2>3. v[4] \in ByteRange /\ v[3] \in ByteRange
    BY <1>1
  <2>4. 256 \div 8 = 32 /\ 8 \div 2 = 4
    OBVIOUS
  <2> QED
    BY <2>2, <2>3, <2>4, Straddle
<1>11. Group(v, 6) = (v[3] \div 4) + 64 * (v[2] % 2)
  <2>1. (7 * 6) \div 8 = 5 /\ 1 + ((7 * 6) % 8) = 3
    OBVIOUS
  <2>2. Group(v, 6) = ((v[3] + 256 * v[2]) \div 4) % 128
    BY <1>2, <1>4, <2>1 DEF Group
  <2>3. v[3] \in ByteRange /\ v[2] \in ByteRange
    BY <1>1
  <2>4. 256 \div 4 = 64 /\ 4 \div 2 = 2
    OBVIOUS
  <2> QED
    BY <2>2, <2>3, <2>4, Straddle
<1>12. Group(v, 7) = (v[2] \div 2) + 128 * (v[1] % 1)
  <2>1. (7 * 7) \div 8 = 6 /\ 1 + ((7 * 7) % 8) = 2
    OBVIOUS
  <2>2. Group(v, 7) = ((v[2] + 256 * v[1]) \div 2) % 128
    BY <1>2, <1>4, <2>1 DEF Group
  <2>3. v[2] \in ByteRange /\ v[1] \in ByteRange
    BY <1>1
  <2>4. 256 \div 2 = 128 /\ 2 \div 2 = 1
    OBVIOUS
  <2> QED
    BY <2>2, <2>3, <2>4, Straddle
<1>13. Group(v, 8) = v[1] % 128
  <2>1. (7 * 8) \div 8 = 7 /\ 1 + ((7 * 8) % 8) = 1
    OBVIOUS
  <2>2. Group(v, 8) = ((v[1] + 256 * 0) \div 1) % 128
    BY <1>2, <1>3, <1>4, <2>1 DEF Group
  <2>3. v[1] \in Nat /\ v[1] < 256
    BY <1>1, ByteRangeFacts
  <2> QED
    BY <2>2, <2>3
<1>14. Group(v, 9) = v[1] \div 128
  <2>1. (7 * 9) \div 8 = 7 /\ 1 + ((7 * 9) % 8) = 8
    OBVIOUS
  <2>2. Group(v, 9) = ((v[1] + 256 * 0) \div 128) % 128
    BY <1>2, <1>3, <1>4, <2>1 DEF Group
  <2>3. v[1] \in Nat /\ v[1] < 256
    BY <1>1, ByteRangeFacts
  <2> QED
    BY <2>2, <2>3
<1> QED
  BY <1>5, <1>6, <1>7, <1>8, <1>9, <1>10, <1>11, <1>12, <1>13, <1>14

(* A group of seven bits is below 128.                                     *)
LEMMA GroupRange ==
  ASSUME NEW v \in Integers64
  PROVE  \A i \in 0..9 : Group(v, i) \in Nat /\ Group(v, i) < 128
<1>1. \A i \in 1..8 : v[i] \in Nat /\ v[i] < 256
  BY ByteRangeFacts DEF Integers64
<1>2. \A i \in 0..7 : Group(v, i) \in Nat /\ Group(v, i) < 128
  <2>1. Group(v, 0) \in Nat /\ Group(v, 0) < 128 /\ Group(v, 1) \in Nat /\ Group(v, 1) < 128
    BY <1>1, GroupForm
  <2>2. Group(v, 2) \in Nat /\ Group(v, 2) < 128 /\ Group(v, 3) \in Nat /\ Group(v, 3) < 128
    BY <1>1, GroupForm
  <2>3. Group(v, 4) \in Nat /\ Group(v, 4) < 128 /\ Group(v, 5) \in Nat /\ Group(v, 5) < 128
    BY <1>1, GroupForm
  <2>4. Group(v, 6) \in Nat /\ Group(v, 6) < 128 /\ Group(v, 7) \in Nat /\ Group(v, 7) < 128
    BY <1>1, GroupForm
  <2>5. \A i \in 0..7 : i = 0 \/ i = 1 \/ i = 2 \/ i = 3 \/ i = 4 \/ i = 5 \/ i = 6 \/ i = 7
    OBVIOUS
  <2> QED
    BY <2>1, <2>2, <2>3, <2>4, <2>5
<1>3. Group(v, 8) \in Nat /\ Group(v, 8) < 128 /\ Group(v, 9) \in Nat /\ Group(v, 9) < 128
  BY <1>1, GroupForm
<1>4. \A i \in 0..9 : i \in 0..7 \/ i = 8 \/ i = 9
  OBVIOUS
<1> QED
  BY <1>2, <1>3, <1>4

(* The last group written is the last that is not zero, or the first.      *)
LEMMA LastGroupFacts ==
  ASSUME NEW v
  PROVE  /\ LastGroup(v) \in 0..9
         /\ LastGroup(v) = 0 \/ Group(v, LastGroup(v)) # 0
         /\ \A j \in (LastGroup(v) + 1)..9 : Group(v, j) = 0
<1> DEFINE Rest(k) == \A j \in (k + 1)..9 : Group(v, j) = 0
           Last(i) == (i = 0 \/ Group(v, i) # 0) /\ Rest(i)
           Found == \E i \in 0..9 : Last(i)
<1>1. ASSUME NEW k \in 1..9, Rest(k) PROVE Found \/ Rest(k - 1)
  <2>1. CASE Group(v, k) # 0
    BY <1>1, <2>1
  <2>2. CASE Group(v, k) = 0
    <3>1. k - 1 + 1 = k
      OBVIOUS
    <3>2. \A j \in k..9 : j = k \/ j \in (k + 1)..9
      OBVIOUS
    <3> QED
      BY <1>1, <2>2, <3>1, <3>2
  <2> QED
    BY <2>1, <2>2
<1>2. Rest(9)
  OBVIOUS
<1>3. Rest(0) => Found
  <2>1. 0 \in 0..9
    OBVIOUS
  <2> QED
    BY <2>1
<1>4. Found
  <2>1. /\ 9 - 1 = 8 /\ 8 - 1 = 7 /\ 7 - 1 = 6 /\ 6 - 1 = 5 /\ 5 - 1 = 4 /\ 4 - 1 = 3 /\ 3 - 1 = 2
        /\ 2 - 1 = 1 /\ 1 - 1 = 0
    OBVIOUS
  <2> HIDE DEF Rest, Found
  <2> QED
    BY <1>1, <1>2, <1>3, <2>1
<1>5. LastGroup(v) \in 0..9 /\ Last(LastGroup(v))
  BY <1>4, Zenon DEF LastGroup
<1> QED
  BY <1>5

(* appendProtoVarintRaw: one byte per group, all but the last with the     *)
(* high bit.                                                               *)
LEMMA VarintForm ==
  ASSUME NEW v \in Integers64
  PROVE  LET e == AppendProtoVarintRaw(v)
             l == LastGroup(v) IN
         /\ OnlyBytes(e) /\ Len(e) = l + 1
         /\ \A i \in 1..(l + 1) : e[i].n = Group(v, i - 1) + (IF i <= l THEN 128 ELSE 0)
<1> DEFINE l == LastGroup(v)
           b(i) == Group(v, i - 1) + (IF i <= l THEN 128 ELSE 0)
           e == [i \in 1..(l + 1) |-> Byte(b(i))]
<1>1. l \in Nat /\ l <= 9
  BY LastGroupFacts
<1>2. AppendProtoVarintRaw(v) = e
  BY DEF AppendProtoVarintRaw
<1>3. ASSUME NEW i \in 1..(l + 1) PROVE b(i) \in ByteRange
  <2> DEFINE g == Group(v, i - 1)
  <2>1. i - 1 \in 0..9
    BY <1>1
  <2>2. g \in Nat /\ g < 128
    BY <2>1, GroupRange
  <2> HIDE DEF g, l
  <2>3. g + (IF i <= l THEN 128 ELSE 0) \in ByteRange
    BY <2>2, ByteRangeFacts
  <2> QED
    BY <2>3 DEF g, l
<1> HIDE DEF l, b
<1>4. \A i \in 1..(l + 1) : Byte(b(i)) \in Octets /\ Byte(b(i)).n = b(i)
  BY <1>3 DEF Octets, Byte
<1>5. e \in Seq(Octets) /\ Len(e) = l + 1
  BY <1>1, <1>4
<1>6. \A i \in 1..(l + 1) : e[i].n = b(i)
  BY <1>4
<1> QED
  BY <1>2, <1>5, <1>6, Zenon DEF OnlyBytes, l, b

(* The groups put together again.                                          *)
LEMMA GroupsMended ==
  ASSUME NEW v \in Integers64, NEW i \in 1..8
  PROVE  LET low == (8 * (8 - i)) \div 7 IN
         ((Group(v, low) + 128 * Group(v, low + 1)) \div Power2[1 + ((8 * (8 - i)) % 7)]) % 256 = v[i]
<1> DEFINE B(k) == ((Group(v, (8 * (8 - k)) \div 7) + 128 * Group(v, ((8 * (8 - k)) \div 7) + 1))
                    \div Power2[1 + ((8 * (8 - k)) % 7)]) % 256
<1>1. \A k \in 1..8 : v[k] \in ByteRange /\ v[k] \in Nat /\ v[k] < 256
  BY ByteRangeFacts DEF Integers64
<1>2. /\ Power2[1] = 1 /\ Power2[2] = 2 /\ Power2[3] = 4 /\ Power2[4] = 8 /\ Power2[5] = 16
      /\ Power2[6] = 32 /\ Power2[7] = 64
  BY DEF Power2
<1>3. B(8) = v[8]
  <2>1. (8 * (8 - 8)) \div 7 = 0 /\ 0 + 1 = 1 /\ 1 + ((8 * (8 - 8)) % 7) = 1
    OBVIOUS
  <2>2. B(8) = ((Group(v, 0) + 128 * Group(v, 1)) \div 1) % 256
    BY <1>2, <2>1
  <2>3. Group(v, 0) = v[8] % 128 /\ Group(v, 1) = (v[8] \div 128) + 2 * (v[7] % 64)
    BY GroupForm
  <2> HIDE DEF B
  <2> QED
    BY <1>1, <2>2, <2>3
<1>4. B(7) = v[7]
  <2>1. /\ (8 * (8 - 7)) \div 7 = 1 /\ 1 + 1 = 2 /\ 1 + ((8 * (8 - 7)) % 7) = 2
        /\ 256 \div 128 = 2 /\ 128 \div 2 = 64 /\ 128 \div 4 = 32 /\ 512 \div 128 = 4
    OBVIOUS
  <2>2. B(7) = ((Group(v, 1) + 128 * Group(v, 2)) \div 2) % 256
    BY <1>2, <2>1
  <2>3. /\ Group(v, 1) = (v[8] \div 128) + 2 * (v[7] % 64)
        /\ Group(v, 2) = (v[7] \div 64) + 4 * (v[6] % 32)
    BY GroupForm
  <2> HIDE DEF B
  <2>4. v[8] \in ByteRange /\ v[7] \in ByteRange /\ v[6] \in ByteRange
    BY <1>1
  <2> QED
    BY <2>1, <2>2, <2>3, <2>4, Mend
<1>5. B(6) = v[6]
  <2>1. /\ (8 * (8 - 6)) \div 7 = 2 /\ 2 + 1 = 3 /\ 1 + ((8 * (8 - 6)) % 7) = 3
        /\ 256 \div 64 = 4 /\ 64 \div 2 = 32 /\ 64 \div 4 = 16 /\ 512 \div 64 = 8
    OBVIOUS
  <2>2. B(6) = ((Group(v, 2) + 128 * Group(v, 3)) \div 4) % 256
    BY <1>2, <2>1
  <2>3. /\ Group(v, 2) = (v[7] \div 64) + 4 * (v[6] % 32)
        /\ Group(v, 3) = (v[6] \div 32) + 8 * (v[5] % 16)
    BY GroupForm
  <2> HIDE DEF B
  <2>4. v[7] \in ByteRange /\ v[6] \in ByteRange /\ v[5] \in ByteRange
    BY <1>1
  <2> QED
    BY <2>1, <2>2, <2>3, <2>4, Mend
<1>6. B(5) = v[5]
  <2>1. /\ (8 * (8 - 5)) \div 7 = 3 /\ 3 + 1 = 4 /\ 1 + ((8 * (8 - 5)) % 7) = 4
        /\ 256 \div 32 = 8 /\ 32 \div 2 = 16 /\ 32 \div 4 = 8 /\ 512 \div 32 = 16
    OBVIOUS
  <2>2. B(5) = ((Group(v, 3) + 128 * Group(v, 4)) \div 8) % 256
    BY <1>2, <2>1
  <2>3. /\ Group(v, 3) = (v[6] \div 32) + 8 * (v[5] % 16)
        /\ Group(v, 4) = (v[5] \div 16) + 16 * (v[4] % 8)
    BY GroupForm
  <2> HIDE DEF B
  <2>4. v[6] \in ByteRange /\ v[5] \in ByteRange /\ v[4] \in ByteRange
    BY <1>1
  <2> QED
    BY <2>1, <2>2, <2>3, <2>4, Mend
<1>7. B(4) = v[4]
  <2>1. /\ (8 * (8 - 4)) \div 7 = 4 /\ 4 + 1 = 5 /\ 1 + ((8 * (8 - 4)) % 7) = 5
        /\ 256 \div 16 = 16 /\ 16 \div 2 = 8 /\ 16 \div 4 = 4 /\ 512 \div 16 = 32
    OBVIOUS
  <2>2. B(4) = ((Group(v, 4) + 128 * Group(v, 5)) \div 16) % 256
    BY <1>2, <2>1
  <2>3. /\ Group(v, 4) = (v[5] \div 16) + 16 * (v[4] % 8)
        /\ Group(v, 5) = (v[4] \div 8) + 32 * (v[3] % 4)
    BY GroupForm
  <2> HIDE DEF B
  <2>4. v[5] \in ByteRange /\ v[4] \in ByteRange /\ v[3] \in ByteRange
    BY <1>1
  <2> QED
    BY <2>1, <2>2, <2>3, <2>4, Mend
<1>8. B(3) = v[3]
  <2>1. /\ (8 * (8 - 3)) \div 7 = 5 /\ 5 + 1 = 6 /\ 1 + ((8 * (8 - 3)) % 7) = 6
        /\ 256 \div 8 = 32 /\ 8 \div 2 = 4 /\ 8 \div 4 = 2 /\ 512 \div 8 = 64
    OBVIOUS
  <2>2. B(3) = ((Group(v, 5) + 128 * Group(v, 6)) \div 32) % 256
    BY <1>2, <2>1
  <2>3. /\ Group(v, 5) = (v[4] \div 8) + 32 * (v[3] % 4)
        /\ Group(v, 6) = (v[3] \div 4) + 64 * (v[2] % 2)
    BY GroupForm
  <2> HIDE DEF B
  <2>4. v[4] \in ByteRange /\ v[3] \in ByteRange /\ v[2] \in ByteRange
    BY <1>1
  <2> QED
    BY <2>1, <2>2, <2>3, <2>4, Mend
<1>9. B(2) = v[2]
  <2>1. /\ (8 * (8 - 2)) \div 7 = 6 /\ 6 + 1 = 7 /\ 1 + ((8 * (8 - 2)) % 7) = 7
        /\ 256 \div 4 = 64 /\ 4 \div 2 = 2 /\ 4 \div 4 = 1 /\ 512 \div 4 = 128
    OBVIOUS
  <2>2. B(2) = ((Group(v, 6) + 128 * Group(v, 7)) \div 64) % 256
    BY <1>2, <2>1
  <2>3. /\ Group(v, 6) = (v[3] \div 4) + 64 * (v[2] % 2)
        /\ Group(v, 7) = (v[2] \div 2) + 128 * (v[1] % 1)
    BY GroupForm
  <2> HIDE DEF B
  <2>4. v[3] \in ByteRange /\ v[2] \in ByteRange /\ v[1] \in ByteRange
    BY <1>1
  <2> QED
    BY <2>1, <2>2, <2>3, <2>4, Mend
<1>10. B(1) = v[1]
  <2>1. (8 * (8 - 1)) \div 7 = 8 /\ 8 + 1 = 9 /\ 1 + ((8 * (8 - 1)) % 7) = 1
    OBVIOUS
  <2>2. B(1) = ((Group(v, 8) + 128 * Group(v, 9)) \div 1) % 256
    BY <1>2, <2>1
  <2>3. Group(v, 8) = v[1] % 128 /\ Group(v, 9) = v[1] \div 128
    BY GroupForm
  <2> HIDE DEF B
  <2> QED
    BY <1>1, <2>2, <2>3
<1>11. i = 1 \/ i = 2 \/ i = 3 \/ i = 4 \/ i = 5 \/ i = 6 \/ i = 7 \/ i = 8
  OBVIOUS
<1>12. B(i) = v[i]
  <2> HIDE DEF B
  <2> QED
    BY <1>3, <1>4, <1>5, <1>6, <1>7, <1>8, <1>9, <1>10, <1>11
<1> QED
  BY <1>12, Zenon

(* readProtoVarint gives back all 64 bits.                                 *)
LEMMA VarintRead ==
  ASSUME NEW s \in Seq(Element), NEW at \in Nat, NEW v \in Integers64, Holds(s, at, AppendProtoVarintRaw(v))
  PROVE  ReadProtoVarint(s, at) = Ok(v, at + Len(AppendProtoVarintRaw(v)))
<1> DEFINE e == AppendProtoVarintRaw(v)
           l == LastGroup(v)
           G(g) == Group(v, g)
<1>1. l \in Nat /\ l <= 9 /\ \A j \in (l + 1)..9 : G(j) = 0
  BY LastGroupFacts
<1>2. Len(e) = l + 1 /\ \A i \in 1..(l + 1) : e[i].n = G(i - 1) + (IF i <= l THEN 128 ELSE 0)
  BY VarintForm
<1>3. \A g \in 0..9 : G(g) \in Nat /\ G(g) < 128
  BY GroupRange, Zenon
<1>4. at + (l + 1) <= Len(s) /\ \A i \in 1..(l + 1) : s[at + i] = e[i]
  BY <1>2 DEF Holds
<1> HIDE DEF e, l, G
<1>5. \A i \in 1..(l + 1) : s[at + i].n = G(i - 1) + (IF i <= l THEN 128 ELSE 0)
  BY <1>2, <1>4
<1>6. ASSUME NEW i \in 1..l PROVE ~(s[at + i].n < 128)
  <2>1. i \in 1..(l + 1) /\ i <= l /\ i - 1 \in 0..9
    BY <1>1
  <2> DEFINE g == G(i - 1)
  <2>2. s[at + i].n = g + 128
    BY <1>5, <2>1
  <2>3. g \in Nat
    BY <1>3, <2>1, Zenon
  <2> HIDE DEF g
  <2> QED
    BY <2>2, <2>3
<1>7. s[at + (l + 1)].n = G(l) /\ G(l) < 128
  <2>1. l + 1 \in 1..(l + 1) /\ l + 1 - 1 = l /\ ~(l + 1 <= l) /\ l \in 0..9
    BY <1>1
  <2> DEFINE g == G(l)
  <2>2. g \in Nat /\ g < 128
    BY <1>3, <2>1, Zenon
  <2>3. s[at + (l + 1)].n = g + 0
    BY <1>5, <2>1
  <2> HIDE DEF g
  <2>4. s[at + (l + 1)].n = g
    BY <2>2, <2>3
  <2> QED
    BY <2>2, <2>4 DEF g
<1>8. l + 1 \in VarintEnds(s, at) /\ \A i \in VarintEnds(s, at) : i \in 1..10 /\ l + 1 <= i
  <2>1. l + 1 \in 1..10 /\ s[at + (l + 1)].n < 128
    BY <1>1, <1>7
  <2>2. l + 1 \in VarintEnds(s, at)
    BY <1>4, <2>1 DEF VarintEnds
  <2>3. ASSUME NEW i \in VarintEnds(s, at) PROVE i \in 1..10 /\ l + 1 <= i
    <3>1. i \in 1..10 /\ s[at + i].n < 128
      BY DEF VarintEnds
    <3>2. i \notin 1..l
      BY <1>6, <3>1
    <3> QED
      BY <1>1, <3>1, <3>2
  <2> QED
    BY <2>2, <2>3
<1>9. VarintLength(s, at) = l + 1
  <2>1. \E n \in VarintEnds(s, at) : \A i \in VarintEnds(s, at) : n <= i
    BY <1>8
  <2>2. /\ VarintLength(s, at) \in VarintEnds(s, at)
        /\ \A i \in VarintEnds(s, at) : VarintLength(s, at) <= i
    BY <2>1, Zenon DEF VarintLength
  <2> QED
    BY <1>1, <1>8, <2>2
<1>10. ASSUME NEW g \in 0..9 PROVE Septet(s, at, g) = G(g)
  <2>1. CASE g < l + 1
    <3>1. Septet(s, at, g) = s[at + g + 1].n % 128
      BY <1>9, <2>1 DEF Septet
    <3>2. at + g + 1 = at + (g + 1) /\ g + 1 \in 1..(l + 1) /\ g + 1 - 1 = g
      BY <1>1, <2>1
    <3>3. s[at + g + 1].n = G(g) + (IF g + 1 <= l THEN 128 ELSE 0)
      BY <1>5, <3>2
    <3>4. G(g) \in Nat /\ G(g) < 128
      BY <1>3, Zenon
    <3> QED
      BY <3>1, <3>3, <3>4
  <2>2. CASE ~(g < l + 1)
    <3>1. g \in (l + 1)..9
      BY <1>1, <2>2
    <3> QED
      BY <1>1, <1>9, <2>2, <3>1 DEF Septet
  <2> QED
    BY <2>1, <2>2
<1> DEFINE w == [i \in 1..8 |->
             LET bit == 8 * (8 - i)
                 low == bit \div 7 IN
             ((Septet(s, at, low) + 128 * Septet(s, at, low + 1)) \div Power2[1 + (bit % 7)]) % 256]
<1>11. ASSUME NEW i \in 1..8 PROVE w[i] = v[i]
  <2> DEFINE low == (8 * (8 - i)) \div 7
  <2>1. low \in 0..9 /\ low + 1 \in 0..9
    OBVIOUS
  <2>2. Septet(s, at, low) = Group(v, low) /\ Septet(s, at, low + 1) = Group(v, low + 1)
    BY <1>10, <2>1 DEF G
  <2>3. w[i] = ((Septet(s, at, low) + 128 * Septet(s, at, low + 1)) \div Power2[1 + ((8 * (8 - i)) % 7)]) % 256
    BY Zenon
  <2>4. ((Group(v, low) + 128 * Group(v, low + 1)) \div Power2[1 + ((8 * (8 - i)) % 7)]) % 256 = v[i]
    BY GroupsMended, Zenon
  <2> QED
    BY <2>2, <2>3, <2>4, Zenon
<1>12. w = v
  <2>1. w = [i \in 1..8 |-> w[i]] /\ v = [i \in 1..8 |-> v[i]]
    BY Zenon DEF Integers64
  <2> HIDE DEF w
  <2> QED
    BY <1>11, <2>1
<1>13. VarintEnds(s, at) # {}
  BY <1>8
<1>14. ReadProtoVarint(s, at) = Ok(w, at + VarintLength(s, at))
  BY <1>13, Zenon DEF ReadProtoVarint
<1> HIDE DEF w
<1> QED
  BY <1>2, <1>9, <1>12, <1>14 DEF e

(* readProtoVarint refuses a varint that lost its end.                     *)
LEMMA VarintLost ==
  ASSUME NEW s \in Seq(Element), NEW at \in Nat, NEW v \in Integers64, Ends(s, at, AppendProtoVarintRaw(v))
  PROVE  ReadProtoVarint(s, at) = Failed
<1> DEFINE e == AppendProtoVarintRaw(v)
           l == LastGroup(v)
           G(g) == Group(v, g)
<1>1. l \in Nat /\ l <= 9
  BY LastGroupFacts
<1>2. OnlyBytes(e) /\ Len(e) = l + 1 /\ \A i \in 1..(l + 1) : e[i].n = G(i - 1) + (IF i <= l THEN 128 ELSE 0)
  BY VarintForm
<1>3. \A g \in 0..9 : G(g) \in Nat /\ G(g) < 128
  BY GroupRange, Zenon
<1>4. Ends(s, at, e)
  OBVIOUS
<1> HIDE DEF e, l, G
<1>5. Len(s) < at + (l + 1) /\ \A i \in 1..(l + 1) : at + i <= Len(s) => s[at + i] = e[i]
  <2>1. OnlyBytes(e)
    BY <1>2
  <2>2. Len(s) < at + Len(e) /\ \A i \in 1..Len(e) : at + i <= Len(s) => s[at + i] = e[i]
    BY <1>4, <2>1, BytesLost
  <2> QED
    BY <1>2, <2>2
<1>6. ASSUME NEW i \in 1..10, at + i <= Len(s) PROVE ~(s[at + i].n < 128)
  <2>1. i \in 1..(l + 1) /\ i <= l /\ i - 1 \in 0..9
    BY <1>1, <1>5, <1>6
  <2> DEFINE g == G(i - 1)
  <2>2. s[at + i].n = g + 128
    BY <1>2, <1>5, <1>6, <2>1
  <2>3. g \in Nat
    BY <1>3, <2>1, Zenon
  <2> HIDE DEF g
  <2> QED
    BY <2>2, <2>3
<1>7. VarintEnds(s, at) = {}
  BY <1>6, Zenon DEF VarintEnds
<1> QED
  BY <1>7, Zenon DEF ReadProtoVarint

(* A varint takes at least one byte, and there is none at the end.         *)
LEMMA VarintTakes ==
  ASSUME NEW s \in Seq(Element), NEW at \in Nat
  PROVE  /\ at >= Len(s) => ReadProtoVarint(s, at) = Failed
         /\ ReadProtoVarint(s, at) # Failed =>
              /\ ReadProtoVarint(s, at).ok
              /\ ReadProtoVarint(s, at).at \in Nat /\ ReadProtoVarint(s, at).at > at
              /\ ReadProtoVarint(s, at).at <= Len(s)
<1>1. ASSUME at >= Len(s) PROVE VarintEnds(s, at) = {}
  BY <1>1 DEF VarintEnds
<1>2. VarintEnds(s, at) = {} => ReadProtoVarint(s, at) = Failed
  BY Zenon DEF ReadProtoVarint
<1>3. ASSUME VarintEnds(s, at) # {}
      PROVE  VarintLength(s, at) \in 1..10 /\ at + VarintLength(s, at) <= Len(s)
  <2> DEFINE E == VarintEnds(s, at)
  <2>1. E \subseteq 1..10
    BY DEF VarintEnds
  <2>2. \E n \in E : \A i \in E : n <= i
    BY <1>3, <2>1
  <2>3. VarintLength(s, at) \in E
    BY <2>2, Zenon DEF VarintLength
  <2> QED
    BY <2>3 DEF VarintEnds
<1>4. ASSUME VarintEnds(s, at) # {}
      PROVE  ReadProtoVarint(s, at).ok /\ ReadProtoVarint(s, at).at = at + VarintLength(s, at)
  BY <1>4 DEF ReadProtoVarint, Ok
<1> DEFINE r == ReadProtoVarint(s, at)
           n == VarintLength(s, at)
<1> HIDE DEF r, n
<1>5. ASSUME r # Failed PROVE r.ok /\ r.at \in Nat /\ r.at > at /\ r.at <= Len(s)
  <2>1. VarintEnds(s, at) # {}
    BY <1>2, <1>5 DEF r
  <2>2. n \in 1..10 /\ at + n <= Len(s) /\ r.ok /\ r.at = at + n
    BY <2>1, <1>3, <1>4 DEF r, n
  <2> QED
    BY <2>2
<1> QED
  BY <1>1, <1>2, <1>5 DEF r

-----------------------------------------------------------------------------
(* The fields of Protobuf.  A key takes one byte.                          *)
LEMMA SmallVarint ==
  ASSUME NEW n \in Nat, n < 128
  PROVE  Len(AppendProtoVarintRaw(Uint64(n))) = 1 /\ AppendProtoVarintRaw(Uint64(n))[1].n < 128
<1> DEFINE v == Uint64(n)
<1>1. v \in Integers64 /\ v = <<0, 0, 0, 0, 0, 0, n \div 256, n % 256>>
  BY LengthInBytes
<1>2. n \div 256 = 0 /\ n % 256 = n
  OBVIOUS
<1>3. /\ v[1] = 0 /\ v[2] = 0 /\ v[3] = 0 /\ v[4] = 0 /\ v[5] = 0 /\ v[6] = 0 /\ v[7] = 0 /\ v[8] = n
  BY <1>1, <1>2
<1> HIDE DEF v
<1>4. /\ Group(v, 1) = 0 /\ Group(v, 2) = 0 /\ Group(v, 3) = 0 /\ Group(v, 4) = 0 /\ Group(v, 5) = 0
  BY <1>1, <1>3, GroupForm
<1>5. /\ Group(v, 6) = 0 /\ Group(v, 7) = 0 /\ Group(v, 8) = 0 /\ Group(v, 9) = 0
  BY <1>1, <1>3, GroupForm
<1>6. LastGroup(v) = 0
  <2>1. LastGroup(v) \in 0..9 /\ (LastGroup(v) = 0 \/ Group(v, LastGroup(v)) # 0)
    BY LastGroupFacts
  <2>2. \A i \in 0..9 : i = 0 \/ i = 1 \/ i = 2 \/ i = 3 \/ i = 4 \/ i = 5 \/ i = 6 \/ i = 7 \/ i = 8 \/ i = 9
    OBVIOUS
  <2> QED
    BY <1>4, <1>5, <2>1, <2>2
<1>7. Len(AppendProtoVarintRaw(v)) = 1 /\ AppendProtoVarintRaw(v)[1].n = Group(v, 0) + 0
  <2> DEFINE e == AppendProtoVarintRaw(v)
             l == LastGroup(v)
  <2>1. Len(e) = l + 1 /\ \A i \in 1..(l + 1) : e[i].n = Group(v, i - 1) + (IF i <= l THEN 128 ELSE 0)
    BY <1>1, VarintForm, ZenonT(60)
  <2> HIDE DEF e, l
  <2>2. l = 0
    BY <1>6 DEF l
  <2> QED
    BY <2>1, <2>2 DEF e
<1>8. Group(v, 0) \in Nat /\ Group(v, 0) < 128
  BY <1>1, GroupRange
<1> QED
  BY <1>7, <1>8 DEF v

(* The key of a field is one byte below 128, and gives field and wire type *)
(* back.                                                                   *)
LEMMA KeyFacts ==
  ASSUME NEW f \in 1..15, NEW w \in {0, 2}
  PROVE  /\ Uint64(8 * f + w) \in Integers64
         /\ Uint64(8 * f + w)[8] % 8 = w /\ Nat32(Uint64(8 * f + w)) \div 8 = f
         /\ OnlyBytes(AppendProtoVarintRaw(Uint64(8 * f + w)))
         /\ Len(AppendProtoVarintRaw(Uint64(8 * f + w))) = 1
         /\ AppendProtoVarintRaw(Uint64(8 * f + w))[1].n < 128
<1> DEFINE k == 8 * f + w
<1>1. k \in Nat /\ k < 128 /\ k % 8 = w /\ k \div 8 = f
  OBVIOUS
<1> HIDE DEF k
<1>2. k < 65536 /\ k % 256 = k
  BY <1>1
<1>3. /\ Uint64(k) \in Integers64 /\ Nat32(Uint64(k)) = k
      /\ Uint64(k) = <<0, 0, 0, 0, 0, 0, k \div 256, k % 256>>
  BY <1>1, <1>2, LengthInBytes
<1>4. Uint64(k)[8] = k
  BY <1>2, <1>3
<1>5. OnlyBytes(AppendProtoVarintRaw(Uint64(k)))
  BY <1>3, VarintForm
<1>6. Len(AppendProtoVarintRaw(Uint64(k))) = 1 /\ AppendProtoVarintRaw(Uint64(k))[1].n < 128
  BY <1>1, SmallVarint
<1>7. Uint64(k)[8] % 8 = w /\ Nat32(Uint64(k)) \div 8 = f
  BY <1>1, <1>3, <1>4
<1> QED
  BY <1>3, <1>5, <1>6, <1>7 DEF k

(* Behind its key a field is read by its wire type and set; without the    *)
(* key there is an error.                                                  *)
LEMMA FieldRead ==
  ASSUME NEW s \in Seq(Element), NEW at \in Nat, NEW event, NEW f \in 1..15, NEW w \in {0, 2},
         NEW key, key = AppendProtoVarintRaw(Uint64(8 * f + w)),
         NEW field, field = IF w = 0 THEN ReadProtoVarint(s, at + Len(key)) ELSE ReadProtoString(s, at + Len(key))
  PROVE  /\ Holds(s, at, key) =>
              ReadProtoField(event, s, at) =
                IF ~field.ok THEN Failed ELSE Ok(SetField(event, f, w, field.value), field.at)
         /\ Ends(s, at, key) => ReadProtoField(event, s, at) = Failed
<1> DEFINE v == Uint64(8 * f + w)
           r == ReadProtoVarint(s, at)
<1>1. v \in Integers64 /\ v[8] % 8 = w /\ Nat32(v) \div 8 = f
  BY KeyFacts, Zenon
<1> HIDE DEF v
<1>2. ASSUME Holds(s, at, key)
      PROVE  ReadProtoField(event, s, at) =
                IF ~field.ok THEN Failed ELSE Ok(SetField(event, f, w, field.value), field.at)
  <2>1. r = Ok(v, at + Len(key))
    BY <1>1, <1>2, VarintRead DEF v
  <2> HIDE DEF r
  <2>2. r.ok /\ r.value = v /\ r.at = at + Len(key)
    BY <2>1 DEF Ok
  <2> QED
    BY <1>1, <2>2, Zenon DEF ReadProtoField, r
<1>3. ASSUME Ends(s, at, key) PROVE ReadProtoField(event, s, at) = Failed
  <2>1. r = Failed
    BY <1>1, <1>3, VarintLost DEF v
  <2>2. ~r.ok
    BY <2>1 DEF Failed
  <2> QED
    BY <2>2, Zenon DEF ReadProtoField
<1> QED
  BY <1>2, <1>3

(* A text that is not empty is read back into its field, or refused if it  *)
(* lost its end.                                                           *)
LEMMA ProtoText ==
  ASSUME NEW s \in Seq(Element), NEW at \in Nat, NEW event, NEW f \in 1..15, NEW t \in Texts, t.n # 0
  PROVE  LET e == AppendProtoString(f, t) IN
         /\ e \in Seq(Element) /\ Len(e) > 0 /\ e[1].n < 128
         /\ Holds(s, at, e) => ReadProtoField(event, s, at) = Ok(SetField(event, f, 2, t), at + Len(e))
         /\ Ends(s, at, e) => ReadProtoField(event, s, at) = Failed
<1> DEFINE key == AppendProtoVarintRaw(Uint64(8 * f + 2))
           v == Uint64(t.n)
           len == AppendProtoVarintRaw(v)
           c == Chars(t)
           p == at + Len(key)
           length == ReadProtoVarint(s, p)
           field == ReadProtoString(s, p)
<1>1. OnlyBytes(key) /\ Len(key) = 1 /\ key[1].n < 128
  BY KeyFacts, Zenon
<1>2. t.n \in Nat /\ t.n < 65536 /\ c \in Seq(Element) /\ Len(c) \in Nat
  BY TextFacts
<1>3. v \in Integers64 /\ Nat32(v) = t.n
  BY <1>2, LengthInBytes
<1>4. OnlyBytes(len)
  BY <1>3, VarintForm
<1>5. AppendProtoString(f, t) = (key \o len) \o c
  BY DEF AppendProtoString
<1>6. OnlyBytes(key \o len) /\ Len(key \o len) = Len(key) + Len(len) /\ (key \o len)[1] = key[1]
  <2>1. key \in Seq(Octets) /\ len \in Seq(Octets)
    BY <1>1, <1>4 DEF OnlyBytes
  <2> HIDE DEF key, len
  <2>2. key \o len \in Seq(Octets) /\ Len(key \o len) = Len(key) + Len(len)
    BY <2>1
  <2>3. (key \o len)[1] = key[1]
    BY <1>1, <2>1, FirstOfBoth
  <2> QED
    BY <2>2, <2>3 DEF OnlyBytes
<1>7. /\ Holds(s, at, key) =>
           ReadProtoField(event, s, at) =
             IF ~field.ok THEN Failed ELSE Ok(SetField(event, f, 2, field.value), field.at)
      /\ Ends(s, at, key) => ReadProtoField(event, s, at) = Failed
  <2>1. 2 \in {0, 2} /\ field = IF 2 = 0 THEN ReadProtoVarint(s, p) ELSE field
    OBVIOUS
  <2> HIDE DEF field, length, v, len, c
  <2> QED
    BY <2>1, FieldRead, Zenon DEF field
<1>8. /\ Holds(s, p, len) => length = Ok(v, p + Len(len))
      /\ Ends(s, p, len) => length = Failed
  <2>1. p \in Nat
    BY <1>1
  <2> HIDE DEF p, v
  <2> QED
    BY <1>3, <2>1, VarintRead, VarintLost
<1> HIDE DEF key, v, len, c, p
<1>9. /\ key \in Seq(Element) /\ len \in Seq(Element) /\ Len(len) \in Nat /\ p \in Nat
  BY <1>1, <1>4, BytesAreElements DEF p
<1>10. Holds(s, p, len) => field = ReadChars(s, p + Len(len), t.n)
  <2> HIDE DEF length
  <2>1. Holds(s, p, len) => length.ok /\ length.value = v /\ length.at = p + Len(len)
    BY <1>8 DEF Ok
  <2> QED
    BY <1>3, <2>1, Zenon DEF ReadProtoString, length
<1>11. Ends(s, p, len) => field = Failed
  <2> HIDE DEF length
  <2>1. Ends(s, p, len) => ~length.ok
    BY <1>8 DEF Failed
  <2> QED
    BY <2>1, Zenon DEF ReadProtoString, length
<1> HIDE DEF length, field
<1> DEFINE h == key \o len
           e == h \o c
<1>12. /\ e \in Seq(Element) /\ Len(e) = Len(h) + Len(c)
       /\ Holds(s, at, e) => Holds(s, at, h) /\ ReadChars(s, at + Len(h), t.n) = Ok(t, at + Len(e))
       /\ Ends(s, at, e) => Ends(s, at, h) \/ (Holds(s, at, h) /\ ReadChars(s, at + Len(h), t.n) = Failed)
  BY <1>6, TextBehind, ZenonT(60) DEF c
<1>13. Holds(s, at, h) => Holds(s, at, key) /\ Holds(s, p, len)
  BY <1>9, HoldsBoth DEF p
<1>14. Ends(s, at, h) => Ends(s, at, key) \/ (Holds(s, at, key) /\ Ends(s, p, len))
  BY <1>1, <1>9, EndsInOne, Zenon DEF p
<1>15. at + Len(h) = p + Len(len)
  BY <1>1, <1>6, <1>9 DEF p
<1>16. Len(e) > 0 /\ e[1].n < 128
  <2>1. h \in Seq(Element) /\ Len(h) \in Nat /\ Len(h) > 0 /\ h[1] = key[1]
    BY <1>1, <1>6, <1>9
  <2> HIDE DEF h
  <2>2. e[1] = h[1]
    BY <1>2, <2>1
  <2> QED
    BY <1>1, <1>2, <1>12, <2>1, <2>2
<1> HIDE DEF h, e
<1>17. ASSUME Holds(s, at, e) PROVE ReadProtoField(event, s, at) = Ok(SetField(event, f, 2, t), at + Len(e))
  <2>1. Holds(s, at, key) /\ field = Ok(t, at + Len(e))
    BY <1>10, <1>12, <1>13, <1>15, <1>17
  <2>2. field.ok /\ field.value = t /\ field.at = at + Len(e)
    BY <2>1 DEF Ok
  <2> QED
    BY <1>7, <2>1, <2>2
<1>18. ASSUME Ends(s, at, e) PROVE ReadProtoField(event, s, at) = Failed
  <2>1. Ends(s, at, key) \/ (Holds(s, at, key) /\ field = Failed)
    BY <1>10, <1>11, <1>12, <1>13, <1>14, <1>15, <1>18
  <2>2. field = Failed => ~field.ok
    BY DEF Failed
  <2> QED
    BY <1>7, <2>1, <2>2
<1> QED
  BY <1>5, <1>12, <1>16, <1>17, <1>18 DEF e, h

(* So is a number that is not zero.                                        *)
LEMMA ProtoInt ==
  ASSUME NEW s \in Seq(Element), NEW at \in Nat, NEW event, NEW f \in 1..15, NEW v \in Integers64, v # Zero
  PROVE  LET e == AppendProtoVarint(f, v) IN
         /\ e \in Seq(Element) /\ Len(e) > 0 /\ e[1].n < 128
         /\ Holds(s, at, e) => ReadProtoField(event, s, at) = Ok(SetField(event, f, 0, v), at + Len(e))
         /\ Ends(s, at, e) => ReadProtoField(event, s, at) = Failed
<1> DEFINE key == AppendProtoVarintRaw(Uint64(8 * f + 0))
           d == AppendProtoVarintRaw(v)
           p == at + Len(key)
           field == ReadProtoVarint(s, p)
           e == key \o d
<1>1. OnlyBytes(key) /\ Len(key) = 1 /\ key[1].n < 128
  BY KeyFacts, Zenon
<1>2. OnlyBytes(d)
  BY VarintForm
<1>3. AppendProtoVarint(f, v) = e
  <2>1. 8 * f + 0 = 8 * f
    OBVIOUS
  <2> QED
    BY <2>1 DEF AppendProtoVarint
<1>4. /\ Holds(s, at, key) =>
           ReadProtoField(event, s, at) =
             IF ~field.ok THEN Failed ELSE Ok(SetField(event, f, 0, field.value), field.at)
      /\ Ends(s, at, key) => ReadProtoField(event, s, at) = Failed
  <2>1. 0 \in {0, 2} /\ field = IF 0 = 0 THEN field ELSE ReadProtoString(s, p)
    OBVIOUS
  <2> HIDE DEF field
  <2> QED
    BY <2>1, FieldRead, Zenon DEF field
<1>5. /\ Holds(s, p, d) => field = Ok(v, p + Len(d))
      /\ Ends(s, p, d) => field = Failed
  <2>1. p \in Nat
    BY <1>1
  <2> HIDE DEF p
  <2> QED
    BY <2>1, VarintRead, VarintLost
<1> HIDE DEF key, d, p, field
<1>6. key \in Seq(Element) /\ d \in Seq(Element) /\ Len(d) \in Nat /\ p \in Nat
  BY <1>1, <1>2, BytesAreElements DEF p
<1>7. e \in Seq(Element) /\ Len(e) = 1 + Len(d) /\ Len(e) > 0 /\ e[1].n < 128 /\ p + Len(d) = at + Len(e)
  <2>1. e \in Seq(Element) /\ Len(e) = Len(key) + Len(d)
    BY <1>6
  <2>2. e[1] = key[1]
    BY <1>1, <1>6, FirstOfBoth
  <2> QED
    BY <1>1, <1>6, <2>1, <2>2 DEF p
<1>8. Holds(s, at, e) => Holds(s, at, key) /\ Holds(s, p, d)
  BY <1>6, HoldsBoth DEF p
<1>9. Ends(s, at, e) => Ends(s, at, key) \/ (Holds(s, at, key) /\ Ends(s, p, d))
  BY <1>1, <1>6, EndsInOne, Zenon DEF p
<1> HIDE DEF e
<1>10. ASSUME Holds(s, at, e) PROVE ReadProtoField(event, s, at) = Ok(SetField(event, f, 0, v), at + Len(e))
  <2>1. Holds(s, at, key) /\ field = Ok(v, at + Len(e))
    BY <1>5, <1>7, <1>8, <1>10
  <2>2. field.ok /\ field.value = v /\ field.at = at + Len(e)
    BY <2>1 DEF Ok
  <2> QED
    BY <1>4, <2>1, <2>2
<1>11. ASSUME Ends(s, at, e) PROVE ReadProtoField(event, s, at) = Failed
  <2>1. Ends(s, at, key) \/ (Holds(s, at, key) /\ field = Failed)
    BY <1>5, <1>9, <1>11
  <2>2. field = Failed => ~field.ok
    BY DEF Failed
  <2> QED
    BY <1>4, <2>1, <2>2
<1> QED
  BY <1>3, <1>7, <1>10, <1>11

-----------------------------------------------------------------------------
(* A decoder that has come to the last byte, or behind it.                 *)
LEMMA ExtraField ==
  ASSUME NEW s \in Seq(Element), NEW at \in Nat, at + 1 = Len(s), NEW event
  PROVE  ReadProtoField(event, s, at) = Failed
<1> DEFINE key == ReadProtoVarint(s, at)
           wire == key.value[8] % 8
           field == IF wire = 0 THEN ReadProtoVarint(s, key.at) ELSE ReadProtoString(s, key.at)
<1>1. CASE ~key.ok
  BY <1>1, Zenon DEF ReadProtoField
<1>2. CASE key.ok
  <2>1. key # Failed
    BY <1>2 DEF Failed
  <2>2. key.at \in Nat /\ key.at > at /\ key.at <= Len(s)
    BY <2>1, VarintTakes
  <2> HIDE DEF key
  <2>3. key.at >= Len(s)
    BY <2>2
  <2>4. ReadProtoVarint(s, key.at) = Failed
    BY <2>2, <2>3, VarintTakes
  <2>5. ~Failed.ok
    BY DEF Failed
  <2>6. ReadProtoString(s, key.at) = Failed
    BY <2>4, <2>5, Zenon DEF ReadProtoString
  <2>7. field = Failed
    BY <2>4, <2>6, Zenon
  <2> HIDE DEF wire, field
  <2> QED
    BY <2>5, <2>7, Zenon DEF ReadProtoField, key, wire, field
<1> QED
  BY <1>1, <1>2

(* No array decoder reads an item behind the end.                          *)
LEMMA NothingLeft ==
  ASSUME NEW s, NEW at, at >= Len(s), NEW codec, NEW kind \in {"text", "int", "texts"}
  PROVE  ReadItem(codec, kind, s, at) = Failed
<1>1. ~Failed.ok
  BY DEF Failed
<1>2. \A major : ReadHead(major, s, at) = Failed
  BY Zenon DEF ReadHead
<1>3. ReadCBOR(kind, s, at) = Failed
  BY <1>1, <1>2 DEF ReadCBOR, ReadCBORText, ReadCBORCount
<1>4. \A fix, most, prefix16 : ReadMsgPackLength(s, at, fix, most, prefix16) = Failed
  BY Zenon DEF ReadMsgPackLength
<1>5. ReadMsgPackInt64(s, at) = Failed
  BY Zenon DEF ReadMsgPackInt64
<1>6. ReadMsgPack(kind, s, at) = Failed
  BY <1>1, <1>4, <1>5 DEF ReadMsgPack, ReadMsgPackString, ReadMsgPackCount
<1> QED
  BY <1>3, <1>6, Zenon DEF ReadItem

-----------------------------------------------------------------------------
(* What is in the store.  An entry c; w, all its bytes, as they were       *)
(* written; m, where its items begin; s, what is left of w in the store.   *)
IsEntry(c) ==
  /\ c.codec \in Codecs
  /\ \/ c.shape = EventShape /\ c.value \in Events
     \/ c.shape = ProfileShape /\ c.value \in Profiles /\ c.codec \in ArrayCodecs

ItemsOf(c) == Items(c.shape, c.value)

KindOf(c, i) == ItemKind(c.shape, i)

ItemOf(c, i) == Item(c.shape, c.value, i)

HeaderOf(c) == AppendHeader(c.codec, c.shape)

Encoded(c, i) == AppendItem(c.codec, c.shape, c.value, i)

Layout(w, c, m) ==
  /\ w \in Seq(Element)
  /\ m \in Seq(Nat) /\ Len(m) \in 1..(ItemsOf(c) + 1)
  /\ m[1] = Len(HeaderOf(c)) /\ Holds(w, 0, HeaderOf(c))
  /\ \A i \in 1..(Len(m) - 1) : m[i + 1] = m[i] + Len(Encoded(c, i)) /\ Holds(w, m[i], Encoded(c, i))
  /\ m[Len(m)] = Len(w)
  /\ c.codec = "proto" /\ Len(w) > 0 => w[1].n < 128

Frayed(w, s) ==
  /\ Len(s) <= Len(w)
  /\ \A j \in 1..Len(s) : s[j] = w[j] \/ Short(s, j, w[j])
  /\ Len(s) = Len(w) => Len(w) > 0 /\ Short(s, Len(s), w[Len(w)])

Became(w, s, d) ==
  /\ s \in Seq(Element)
  /\ \/ d = "none" /\ s = w
     \/ d = "cut" /\ Frayed(w, s)
     \/ d = "extended" /\ Len(s) = Len(w) + 1 /\ \A j \in 1..Len(w) : s[j] = w[j]

(* Where a decoder is: it has come through the items before in order.  One *)
(* of another codec or type only starts on an extra byte behind nothing.   *)
Intact(w, s, at) == at \in Nat /\ at <= Len(w) /\ at <= Len(s) /\ \A j \in 1..at : s[j] = w[j]

Gets(c, i) == [k \in 1..(i - 1) |-> Reads(KindOf(c, k), ItemOf(c, k))]

ArrayAt(w, c, m, s, r) ==
  /\ r.codec \in ArrayCodecs /\ r.codec = c.codec /\ r.shape = c.shape
  /\ \E i \in 1..(ItemsOf(c) + 1) :
       /\ r.at = m[i] /\ Intact(w, s, m[i])
       /\ r.got = Gets(c, i)

Astray(c, s, r) ==
  /\ r.codec \in ArrayCodecs /\ ~(r.codec = c.codec /\ r.shape = c.shape)
  /\ r.shape \in {EventShape, ProfileShape}
  /\ r.at \in Nat /\ r.at >= Len(s) /\ r.got = <<>>

HasFields(v, n) == v = [f \in 1..n |-> v[f]]

ProtoAt(w, c, m, s, r) ==
  /\ r.codec = "proto" /\ c.codec = "proto" /\ r.shape = c.shape /\ c.shape = EventShape
  /\ HasFields(r.got, 15) /\ r.got[15] \in Seq(Texts)
  /\ \E i \in 1..(ItemsOf(c) + 1) : r.at = m[i] /\ Intact(w, s, m[i]) /\ IsUpTo(i - 1, c.value, r.got)

ReaderAt(w, c, m, s, r) ==
  /\ r = [codec |-> r.codec, shape |-> r.shape, at |-> r.at, got |-> r.got]
  /\ ArrayAt(w, c, m, s, r) \/ Astray(c, s, r) \/ ProtoAt(w, c, m, s, r)

(* The inductive invariant.                                                *)
AsPromised == RoundTrip /\ DamageNoticed /\ CutEventIsPrefix

InStore(w) ==
  /\ Layout(w, entry, marks) /\ Became(w, raw, damage)
  /\ stage = "reading" => ReaderAt(w, entry, marks, raw, reader)

Inv ==
  /\ stage \in {"new", "writing", "stored", "refused", "reading", "loaded"}
  /\ stage \in {"new", "writing"} => damage = "none"
  /\ stage \notin {"new", "refused"} => IsEntry(entry) /\ \E w : InStore(w)
  /\ stage = "writing" => Len(marks) <= ItemsOf(entry)
  /\ stage \in {"stored", "reading", "loaded"} => Len(marks) = ItemsOf(entry) + 1
  /\ AsPromised

-----------------------------------------------------------------------------
(* Events have 15 fields, the last the rules; profiles have 6.             *)
LEMMA ShapeFacts ==
  /\ Len(EventShape) = 15 /\ Len(ProfileShape) = 6 /\ EventShape # ProfileShape
  /\ EventShape[15] = "texts" /\ \A f \in 1..14 : EventShape[f] \in {"text", "int"}
  /\ \A f \in 1..6 : ProfileShape[f] \in {"text", "int"}
<1>1. Len(EventShape) = 15 /\ Len(ProfileShape) = 6
  BY DEF EventShape, ProfileShape
<1>2. EventShape[15] = "texts"
  BY DEF EventShape
<1>3. /\ EventShape[1] = "text" /\ EventShape[2] = "text" /\ EventShape[3] = "text" /\ EventShape[4] = "text"
      /\ EventShape[5] = "text" /\ EventShape[6] = "text" /\ EventShape[7] = "int" /\ EventShape[8] = "int"
      /\ EventShape[9] = "text" /\ EventShape[10] = "text" /\ EventShape[11] = "text"
      /\ EventShape[12] = "text" /\ EventShape[13] = "text" /\ EventShape[14] = "int"
  BY DEF EventShape
<1>4. \A f \in 1..14 : f = 1 \/ f = 2 \/ f = 3 \/ f = 4 \/ f = 5 \/ f = 6 \/ f = 7 \/ f = 8 \/ f = 9
                       \/ f = 10 \/ f = 11 \/ f = 12 \/ f = 13 \/ f = 14
  OBVIOUS
<1>5. \A f \in 1..14 : EventShape[f] \in {"text", "int"}
  BY <1>3, <1>4
<1>6. \A f \in 1..6 : ProfileShape[f] \in {"text", "int"}
  <2>1. /\ ProfileShape[1] = "text" /\ ProfileShape[2] = "text" /\ ProfileShape[3] = "text"
        /\ ProfileShape[4] = "int" /\ ProfileShape[5] = "int" /\ ProfileShape[6] = "int"
    BY DEF ProfileShape
  <2>2. \A f \in 1..6 : f = 1 \/ f = 2 \/ f = 3 \/ f = 4 \/ f = 5 \/ f = 6
    OBVIOUS
  <2> QED
    BY <2>1, <2>2
<1> QED
  BY <1>1, <1>2, <1>5, <1>6

(* A field's value is of the field's kind.                                 *)
LEMMA Fields ==
  ASSUME NEW v, NEW h, HasShape(v, h), NEW f \in 1..Len(h)
  PROVE  /\ h[f] = "texts" => v[f] \in Seq(Texts) /\ Len(v[f]) < 65536
         /\ h[f] # "texts" => v[f] \in Kinds[h[f]]
BY DEF HasShape

(* The items of what is stored: its fields, and for an event the rules     *)
(* behind them.                                                            *)
LEMMA EntryFacts ==
  ASSUME NEW c, IsEntry(c)
  PROVE  /\ c.shape \in {EventShape, ProfileShape} /\ c.codec \in Codecs
         /\ c.codec \notin ArrayCodecs => c.codec = "proto" /\ c.shape = EventShape
         /\ HasFields(c.value, Len(c.shape))
         /\ c.shape = EventShape => /\ c.value[15] \in Seq(Texts) /\ Len(c.value[15]) < 65536
                                    /\ ItemsOf(c) = 15 + Len(c.value[15])
         /\ c.shape = ProfileShape => ItemsOf(c) = 6
         /\ ItemsOf(c) \in Nat /\ Len(c.shape) \in Nat /\ ItemsOf(c) >= Len(c.shape) /\ Len(c.shape) >= 6
         /\ \A i \in 1..ItemsOf(c) : /\ IsOf(KindOf(c, i), ItemOf(c, i))
                                     /\ KindOf(c, i) \in {"text", "int", "texts"}
<1>1. HasShape(c.value, c.shape)
  BY CodecAssumption DEF IsEntry
<1>2. c.shape \in {EventShape, ProfileShape} /\ c.codec \in Codecs
  BY DEF IsEntry
<1>3. c.codec \notin ArrayCodecs => c.codec = "proto" /\ c.shape = EventShape
  BY DEF IsEntry, Codecs
<1>4. \A f \in 1..Len(c.shape) :
        /\ c.shape[f] = "texts" => c.value[f] \in Seq(Texts) /\ Len(c.value[f]) < 65536
        /\ c.shape[f] # "texts" => c.value[f] \in Kinds[c.shape[f]]
  BY <1>1, Fields
<1>5. HasFields(c.value, Len(c.shape))
  BY <1>1 DEF HasShape, HasFields
<1>6. Kinds["text"] = Texts /\ Kinds["int"] = Integers64
  BY DEF Kinds
<1>7. CASE c.shape = EventShape
  <2>1. Len(c.shape) = 15 /\ c.shape[15] = "texts" /\ \A f \in 1..14 : c.shape[f] \in {"text", "int"}
    BY <1>7, ShapeFacts
  <2>2. c.value[15] \in Seq(Texts) /\ Len(c.value[15]) < 65536
    BY <1>4, <2>1
  <2>3. ItemsOf(c) = 15 + Len(c.value[15]) /\ ItemsOf(c) \in Nat /\ ItemsOf(c) >= 15
    BY <1>7, <2>1, <2>2 DEF ItemsOf, Items
  <2>4. ASSUME NEW i \in 1..ItemsOf(c)
        PROVE  IsOf(KindOf(c, i), ItemOf(c, i)) /\ KindOf(c, i) \in {"text", "int", "texts"}
    <3>1. CASE i \in 1..14
      <4>1. KindOf(c, i) = c.shape[i] /\ ItemOf(c, i) = c.value[i]
        BY <2>1, <3>1 DEF KindOf, ItemOf, ItemKind, Item
      <4>2. c.shape[i] \in {"text", "int"} /\ i \in 1..Len(c.shape)
        BY <2>1, <3>1
      <4>3. c.shape[i] # "texts"
        BY <4>2
      <4>4. c.value[i] \in Kinds[c.shape[i]]
        BY <1>4, <4>2, <4>3
      <4> QED
        BY <1>6, <4>1, <4>2, <4>4 DEF IsOf
    <3>2. CASE i = 15
      <4>1. KindOf(c, i) = "texts" /\ ItemOf(c, i) = c.value[15]
        BY <2>1, <3>2 DEF KindOf, ItemOf, ItemKind, Item
      <4> QED
        BY <2>2, <4>1 DEF IsOf
    <3>3. CASE i > 15
      <4>1. KindOf(c, i) = "text" /\ ItemOf(c, i) = c.value[15][i - 15]
        BY <2>1, <3>3 DEF KindOf, ItemOf, ItemKind, Item
      <4>2. i - 15 \in 1..Len(c.value[15])
        BY <2>2, <2>3, <3>3
      <4>3. c.value[15][i - 15] \in Texts
        BY <2>2, <4>2
      <4> QED
        BY <4>1, <4>3 DEF IsOf
    <3> QED
      BY <2>3, <3>1, <3>2, <3>3
  <2>5. c.shape # ProfileShape
    BY <1>7, ShapeFacts
  <2>6. Len(c.shape) \in Nat /\ ItemsOf(c) >= Len(c.shape) /\ Len(c.shape) >= 6
    BY <2>1, <2>3
  <2> QED
    BY <1>2, <1>3, <1>5, <2>2, <2>3, <2>4, <2>5, <2>6
<1>8. CASE c.shape = ProfileShape
  <2>1. Len(c.shape) = 6 /\ c.shape # EventShape /\ \A f \in 1..6 : c.shape[f] \in {"text", "int"}
    BY <1>8, ShapeFacts
  <2>2. ItemsOf(c) = 6
    BY <2>1 DEF ItemsOf, Items
  <2>3. ASSUME NEW i \in 1..6
        PROVE  IsOf(KindOf(c, i), ItemOf(c, i)) /\ KindOf(c, i) \in {"text", "int", "texts"}
    <3>1. KindOf(c, i) = c.shape[i] /\ ItemOf(c, i) = c.value[i]
      BY <2>1 DEF KindOf, ItemOf, ItemKind, Item
    <3>2. c.shape[i] \in {"text", "int"} /\ c.value[i] \in Kinds[c.shape[i]]
      BY <1>4, <2>1
    <3> QED
      BY <1>6, <3>1, <3>2 DEF IsOf
  <2> QED
    BY <1>2, <1>3, <1>5, <2>1, <2>2, <2>3
<1> QED
  BY <1>2, <1>7, <1>8

-----------------------------------------------------------------------------
(* An event as Protobuf has it after one more field, its rules' number,    *)
(* which takes no bytes, or one more rule.                                 *)
Sets(more, got, f, x) == more = [got EXCEPT ![f] = x]

(* What an item of an array takes, and is read as.                         *)
LEMMA EncodedArray ==
  ASSUME NEW c, IsEntry(c), c.codec \in ArrayCodecs, NEW i \in 1..ItemsOf(c), NEW s \in Seq(Element), NEW at \in Nat
  PROVE  LET e == Encoded(c, i)
             r == ReadItem(c.codec, KindOf(c, i), s, at) IN
         /\ e \in Seq(Element) /\ Len(e) > 0
         /\ Holds(s, at, e) => r = Ok(Reads(KindOf(c, i), ItemOf(c, i)), at + Len(e))
         /\ Ends(s, at, e) => r = Failed
<1>1. IsOf(KindOf(c, i), ItemOf(c, i))
  BY EntryFacts
<1>2. Encoded(c, i) = AppendArrayItem(c.codec, KindOf(c, i), ItemOf(c, i))
  BY DEF Encoded, AppendItem, AppendArrayItem, KindOf, ItemOf, ArrayCodecs
<1> QED
  BY <1>1, <1>2, ArrayItem

(* What the fields and rules of Protobuf take, and do to an event.         *)
LEMMA EmptyFields ==
  \A f \in 1..14 : /\ EventShape[f] = "text" => EmptyEvent[f] = Empty
                   /\ EventShape[f] = "int" => EmptyEvent[f] = Zero
<1>1. \A f \in 1..15 :
        EmptyEvent[f] = CASE EventShape[f] = "text" -> Empty [] EventShape[f] = "int" -> Zero [] OTHER -> <<>>
  BY ShapeFacts DEF EmptyEvent
<1> QED
  BY <1>1

(* Unmarshal sets the field it was given, and appends to the rules.        *)
LEMMA SetFieldFacts ==
  ASSUME NEW event, NEW f \in 1..15, NEW x
  PROVE  /\ EventShape[f] = "text" => SetField(event, f, 2, x) = [event EXCEPT ![f] = x]
         /\ EventShape[f] = "int" => SetField(event, f, 0, x) = [event EXCEPT ![f] = x]
         /\ f = 15 => SetField(event, f, 2, x) = [event EXCEPT ![15] = Append(@, x)]
<1>1. f \in 1..Len(EventShape) /\ EventShape[15] = "texts"
  BY ShapeFacts
<1>2. ASSUME EventShape[f] = "text" PROVE SetField(event, f, 2, x) = [event EXCEPT ![f] = x]
  BY <1>1, <1>2 DEF SetField
<1>3. ASSUME EventShape[f] = "int" PROVE SetField(event, f, 0, x) = [event EXCEPT ![f] = x]
  BY <1>1, <1>3 DEF SetField
<1>4. ASSUME f = 15 PROVE SetField(event, f, 2, x) = [event EXCEPT ![15] = Append(@, x)]
  <2>1. <<2, "texts">> \notin {<<0, "int">>, <<2, "text">>}
    OBVIOUS
  <2>2. f \in 1..Len(EventShape) /\ EventShape[f] = "texts"
    BY <1>1, <1>4
  <2> QED
    BY <1>4, <2>1, <2>2, Zenon DEF SetField
<1> QED
  BY <1>2, <1>3, <1>4

(* An item of an event in Protobuf: left out if it is the default, else    *)
(* read back into its field.                                               *)
LEMMA EncodedProto ==
  ASSUME NEW c, IsEntry(c), c.codec = "proto", NEW i \in 1..ItemsOf(c), NEW s \in Seq(Element), NEW at \in Nat,
         NEW got
  PROVE  LET e == Encoded(c, i)
             x == ItemOf(c, i) IN
         /\ e \in Seq(Element) /\ (Len(e) > 0 => e[1].n < 128)
         /\ \/ /\ Len(e) = 0
               /\ (KindOf(c, i) = "text" /\ x = Empty) \/ (KindOf(c, i) = "int" /\ x = Zero) \/ i = 15
            \/ /\ Len(e) > 0 /\ i # 15
               /\ (KindOf(c, i) = "text" /\ x.n # 0) \/ KindOf(c, i) = "int"
               /\ Ends(s, at, e) => ReadProtoField(got, s, at) = Failed
               /\ Holds(s, at, e) =>
                    ReadProtoField(got, s, at) =
                      Ok(SetField(got, IF i <= 15 THEN i ELSE 15, IF KindOf(c, i) = "text" THEN 2 ELSE 0, x),
                         at + Len(e))
<1> DEFINE e == Encoded(c, i)
           x == ItemOf(c, i)
           f == IF i <= 15 THEN i ELSE 15
<1>1. c.shape = EventShape /\ Len(EventShape) = 15 /\ EventShape[15] = "texts"
  BY EntryFacts, ShapeFacts DEF ArrayCodecs
<1>2. e = AppendProto(f, KindOf(c, i), x)
  BY <1>1 DEF Encoded, AppendItem, KindOf, ItemOf
<1>3. f \in 1..15 /\ IsOf(KindOf(c, i), x)
  BY EntryFacts
<1>4. i = 15 <=> KindOf(c, i) = "texts"
  BY <1>1, ShapeFacts DEF KindOf, ItemKind
<1>5. <<>> \in Seq(Element) /\ Len(<<>>) = 0
  OBVIOUS
<1>6. CASE KindOf(c, i) = "texts"
  BY <1>2, <1>4, <1>5, <1>6 DEF AppendProto
<1>7. CASE KindOf(c, i) = "text"
  <2>1. e = AppendProtoString(f, x) /\ x \in Texts
    BY <1>2, <1>3, <1>7 DEF AppendProto, IsOf
  <2>2. CASE x.n = 0
    <3>1. e = <<>> /\ x = Empty
      BY <2>1, <2>2, TextFacts DEF AppendProtoString
    <3> HIDE DEF x, e
    <3> QED
      BY <1>5, <1>7, <3>1 DEF x, e
  <2>3. CASE x.n # 0
    <3>1. f \in 1..15 /\ x \in Texts /\ x.n # 0 /\ e = AppendProtoString(f, x)
      BY <1>3, <2>1, <2>3
    <3> HIDE DEF x, f, e
    <3>2. /\ e \in Seq(Element) /\ Len(e) > 0 /\ e[1].n < 128
          /\ Holds(s, at, e) => ReadProtoField(got, s, at) = Ok(SetField(got, f, 2, x), at + Len(e))
          /\ Ends(s, at, e) => ReadProtoField(got, s, at) = Failed
      BY <3>1, ProtoText, ZenonT(60)
    <3> QED
      BY <1>4, <1>7, <2>3, <3>2 DEF x, f, e
  <2> QED
    BY <2>2, <2>3, Zenon
<1>8. CASE KindOf(c, i) = "int"
  <2>1. e = AppendProtoVarint(f, x) /\ x \in Integers64
    BY <1>2, <1>3, <1>8 DEF AppendProto, IsOf
  <2>2. CASE x = Zero
    <3>1. e = <<>>
      BY <2>1, <2>2 DEF AppendProtoVarint
    <3> HIDE DEF x, e
    <3> QED
      BY <1>5, <1>8, <2>2, <3>1 DEF x, e
  <2>3. CASE x # Zero
    <3>1. f \in 1..15 /\ x \in Integers64 /\ x # Zero /\ e = AppendProtoVarint(f, x)
      BY <1>3, <2>1, <2>3
    <3> HIDE DEF x, f, e
    <3>2. /\ e \in Seq(Element) /\ Len(e) > 0 /\ e[1].n < 128
          /\ Holds(s, at, e) => ReadProtoField(got, s, at) = Ok(SetField(got, f, 0, x), at + Len(e))
          /\ Ends(s, at, e) => ReadProtoField(got, s, at) = Failed
      BY <3>1, ProtoInt, ZenonT(60)
    <3> QED
      BY <1>4, <1>8, <2>3, <3>2 DEF x, f, e
  <2> QED
    BY <2>2, <2>3
<1>9. KindOf(c, i) \in {"text", "int", "texts"}
  BY EntryFacts
<1> QED
  BY <1>6, <1>7, <1>8, <1>9, Zenon

-----------------------------------------------------------------------------
(* What is left of an encoding after the store has been damaged.           *)
LEMMA PassOver ==
  ASSUME NEW w \in Seq(Element), NEW s, NEW d, Became(w, s, d), NEW at, Intact(w, s, at),
         NEW e \in Seq(Element), Holds(w, at, e)
  PROVE  \/ Holds(s, at, e) /\ Intact(w, s, at + Len(e))
         \/ Ends(s, at, e) /\ d = "cut"
<1>1. /\ s \in Seq(Element) /\ Len(s) \in Nat /\ Len(w) \in Nat /\ Len(e) \in Nat
      /\ at \in Nat /\ at <= Len(w) /\ at <= Len(s) /\ \A j \in 1..at : s[j] = w[j]
      /\ at + Len(e) <= Len(w) /\ \A j \in 1..Len(e) : w[at + j] = e[j]
  BY DEF Became, Intact, Holds
<1>2. ASSUME at + Len(e) <= Len(s), \A j \in 1..(at + Len(e)) : s[j] = w[j]
      PROVE  Holds(s, at, e) /\ Intact(w, s, at + Len(e))
  <2>1. ASSUME NEW j \in 1..Len(e) PROVE s[at + j] = e[j]
    <3>1. at + j \in 1..(at + Len(e))
      BY <1>1
    <3> QED
      BY <1>1, <1>2, <3>1
  <2> QED
    BY <1>1, <1>2, <2>1 DEF Holds, Intact
<1>3. CASE d # "cut"
  <2>1. Len(s) >= Len(w) /\ \A j \in 1..Len(w) : s[j] = w[j]
    BY <1>1, <1>3 DEF Became
  <2>2. at + Len(e) <= Len(s) /\ \A j \in 1..(at + Len(e)) : s[j] = w[j]
    BY <1>1, <2>1
  <2> QED
    BY <1>2, <2>2
<1>4. CASE d = "cut"
  <2>1. Len(s) <= Len(w) /\ \A j \in 1..Len(s) : s[j] = w[j] \/ Short(s, j, w[j])
    BY <1>4 DEF Became, Frayed
  <2>2. CASE at + Len(e) <= Len(s) /\ \A j \in 1..(at + Len(e)) : s[j] = w[j]
    BY <1>2, <2>2
  <2>3. CASE at + Len(e) > Len(s)
    <3>1. ASSUME NEW j \in 1..Len(e), at + j <= Len(s) PROVE s[at + j] = e[j] \/ Short(s, at + j, e[j])
      <4>1. at + j \in 1..Len(s) /\ w[at + j] = e[j]
        BY <1>1, <3>1
      <4> QED
        BY <2>1, <4>1
    <3> QED
      BY <1>1, <1>4, <2>3, <3>1 DEF Ends
  <2>4. CASE at + Len(e) <= Len(s) /\ ~\A j \in 1..(at + Len(e)) : s[j] = w[j]
    <3>1. PICK j \in 1..(at + Len(e)) : s[j] # w[j]
      BY <2>4
    <3>2. j \in 1..Len(s) /\ Short(s, j, w[j])
      BY <1>1, <2>1, <2>4, <3>1
    <3>3. j = Len(s) /\ Len(s) = at + Len(e) /\ j > at
      BY <1>1, <2>4, <3>1, <3>2 DEF Short
    <3>4. Len(e) > 0 /\ w[at + Len(e)] = e[Len(e)]
      BY <1>1, <3>3
    <3>5. Short(s, Len(s), e[Len(e)])
      BY <3>2, <3>3, <3>4
    <3>6. ASSUME NEW k \in 1..Len(e), at + k <= Len(s) PROVE s[at + k] = e[k] \/ Short(s, at + k, e[k])
      <4>1. at + k \in 1..Len(s) /\ w[at + k] = e[k]
        BY <1>1, <3>6
      <4> QED
        BY <2>1, <4>1
    <3> QED
      BY <1>1, <1>4, <3>3, <3>4, <3>5, <3>6 DEF Ends
  <2> QED
    BY <1>1, <2>2, <2>3, <2>4
<1> QED
  BY <1>3, <1>4

(* A raw value that begins with all that was written is undamaged or has a *)
(* byte more.                                                              *)
LEMMA AllThere ==
  ASSUME NEW w \in Seq(Element), NEW s, NEW d, Became(w, s, d), Intact(w, s, Len(w))
  PROVE  \/ d = "none" /\ Len(s) = Len(w)
         \/ d = "extended" /\ Len(s) = Len(w) + 1
<1>1. s \in Seq(Element) /\ Len(s) \in Nat /\ Len(w) \in Nat /\ Len(w) <= Len(s) /\ \A j \in 1..Len(w) : s[j] = w[j]
  BY DEF Became, Intact
<1>2. ASSUME d = "cut" PROVE FALSE
  <2>1. Len(s) = Len(w) /\ Len(w) > 0 /\ Short(s, Len(s), w[Len(w)])
    BY <1>1, <1>2 DEF Became, Frayed
  <2>2. s[Len(s)] = w[Len(w)] /\ s[Len(s)] \in Element
    BY <1>1, <2>1
  <2>3. w[Len(w)].n \in Nat /\ w[Len(w)].n < w[Len(w)].n
    BY <2>1, <2>2 DEF Short, Element
  <2> QED
    BY <2>3
<1>3. \/ d = "none" /\ s = w
      \/ d = "extended" /\ Len(s) = Len(w) + 1
  BY <1>2, Zenon DEF Became
<1> QED
  BY <1>3

-----------------------------------------------------------------------------
(* The number of fields that starts an array.                              *)
LEMMA HeaderFacts ==
  ASSUME NEW c, IsEntry(c)
  PROVE  LET h == HeaderOf(c) IN
         /\ h \in Seq(Element) /\ Len(h) \in Nat
         /\ c.codec = "proto" => h = <<>>
         /\ c.codec \in ArrayCodecs => OnlyBytes(h) /\ Len(h) > 0
         /\ c.codec = "cbor" => h[1].n = 128 + Len(c.shape)
         /\ c.codec = "msgpack" => h[1].n = 220
<1> DEFINE h == HeaderOf(c)
           n == Len(c.shape)
<1>1. c.codec \in {"cbor", "msgpack", "proto"} /\ n \in {6, 15}
  BY EntryFacts, ShapeFacts DEF Codecs, ArrayCodecs
<1>2. CASE c.codec = "proto"
  <2>1. h = <<>>
    BY <1>2 DEF HeaderOf, AppendHeader
  <2>2. <<>> \in Seq(Element) /\ Len(<<>>) = 0
    OBVIOUS
  <2> QED
    BY <1>2, <2>1, <2>2 DEF ArrayCodecs
<1>3. CASE c.codec = "msgpack"
  <2>1. h = Bytes(<<220, 0, n>>)
    BY <1>3 DEF HeaderOf, AppendHeader
  <2>2. 220 \in ByteRange /\ 0 \in ByteRange /\ n \in ByteRange
    <3> HIDE DEF n
    <3> QED
      BY <1>1, ByteRangeFacts
  <2> HIDE DEF h, n
  <2>3. OnlyBytes(h) /\ h \in Seq(Element) /\ Len(h) = 3 /\ h[1].n = 220
    BY <2>1, <2>2, ThreeBytes
  <2> QED
    BY <1>3, <2>3 DEF h, n
<1>4. CASE c.codec = "cbor"
  <2> DEFINE v == Uint64(n)
  <2>1. h = AppendCBORMajor(4, v)
    BY <1>4 DEF HeaderOf, AppendHeader
  <2>2. n \in Nat /\ n < 65536 /\ 4 \in 0..7 /\ n < 24 /\ n \div 256 = 0 /\ n % 256 = n
    <3> HIDE DEF n
    <3> QED
      BY <1>1
  <2> HIDE DEF n
  <2>3. v \in Integers64 /\ v = <<0, 0, 0, 0, 0, 0, n \div 256, n % 256>>
    BY <2>2, LengthInBytes
  <2>4. v[8] = n /\ Fits(v, 1)
    <3>1. v = <<0, 0, 0, 0, 0, 0, 0, n>>
      BY <2>2, <2>3
    <3> HIDE DEF v
    <3> QED
      BY <3>1 DEF Fits
  <2> HIDE DEF h, v
  <2>5. Width(v) = 0 /\ Additional(v) = n
    <3>1. Width(v) = 0
      BY <2>2, <2>4 DEF Width
    <3> QED
      BY <2>3, <2>4, <3>1, WidthOf
  <2>6. /\ OnlyBytes(h) /\ h \in Seq(Element) /\ Len(h) \in Nat /\ Len(h) > 0
    BY <2>1, <2>2, <2>3, HeadBytes
  <2>7. h[1].n = 32 * 4 + Additional(v)
    BY <2>1, <2>2, <2>3, HeadForm
  <2> QED
    BY <1>4, <2>2, <2>5, <2>6, <2>7 DEF h, n
<1> QED
  BY <1>1, <1>2, <1>3, <1>4

(* The array decoders read the number of fields, or refuse it if nothing   *)
(* of it is left.                                                          *)
LEMMA HeaderRead ==
  ASSUME NEW c, IsEntry(c), c.codec \in ArrayCodecs, NEW s \in Seq(Element)
  PROVE  /\ Holds(s, 0, HeaderOf(c)) => ReadCount(c.codec, s, 0) = Ok(Len(c.shape), Len(HeaderOf(c)))
         /\ Ends(s, 0, HeaderOf(c)) => ReadCount(c.codec, s, 0) = Failed
<1> DEFINE h == HeaderOf(c)
           n == Len(c.shape)
<1>1. c.codec \in {"cbor", "msgpack"} /\ n \in {6, 15}
  BY EntryFacts, ShapeFacts DEF ArrayCodecs
<1>2. CASE c.codec = "msgpack"
  <2>1. h = Bytes(<<220, 0, n>>)
    BY <1>2 DEF HeaderOf, AppendHeader
  <2>2. 220 \in ByteRange /\ 0 \in ByteRange /\ n \in ByteRange /\ 220 > 144 + 15 /\ 256 * 0 + n = n /\ 0 + 3 = 3
    <3> HIDE DEF n
    <3> QED
      BY <1>1, ByteRangeFacts
  <2>3. ReadCount(c.codec, s, 0) = ReadMsgPackLength(s, 0, 144, 15, 220)
    BY <1>2 DEF ReadCount, ReadItem, ReadMsgPack, ReadMsgPackCount
  <2> HIDE DEF h, n
  <2>4. Len(h) = 3
    BY <2>1, <2>2, ThreeBytes
  <2>5. /\ Holds(s, 0, h) => ReadMsgPackLength(s, 0, 144, 15, 220) = Ok(256 * 0 + n, 0 + 3)
        /\ Ends(s, 0, h) => ReadMsgPackLength(s, 0, 144, 15, 220) = Failed
    BY <2>1, <2>2, LongLength
  <2> QED
    BY <2>2, <2>3, <2>4, <2>5 DEF h, n
<1>3. CASE c.codec = "cbor"
  <2> DEFINE v == Uint64(n)
             r == ReadHead(4, s, 0)
  <2>1. h = AppendCBORMajor(4, v)
    BY <1>3 DEF HeaderOf, AppendHeader
  <2>2. n \in Nat /\ n < 65536 /\ 4 \in 0..7
    <3> HIDE DEF n
    <3> QED
      BY <1>1
  <2>3. ReadCount(c.codec, s, 0) = IF r.ok THEN Ok(Nat32(r.value), r.at) ELSE Failed
    BY <1>3 DEF ReadCount, ReadItem, ReadCBOR, ReadCBORCount
  <2> HIDE DEF n
  <2>4. v \in Integers64 /\ Nat32(v) = n
    BY <2>2, LengthInBytes
  <2>5. Len(h) \in Nat /\ 0 + Len(h) = Len(h)
    BY <2>1, <2>2, <2>4, HeadBytes
  <2> HIDE DEF h, v
  <2>6. Holds(s, 0, h) => r = Ok(v, Len(h))
    BY <2>1, <2>2, <2>4, <2>5, HeadRead
  <2>7. Ends(s, 0, h) => r = Failed
    BY <2>1, <2>2, <2>4, HeadLost
  <2> HIDE DEF r
  <2>8. Holds(s, 0, h) => r.ok /\ r.value = v /\ r.at = Len(h)
    BY <2>6 DEF Ok
  <2>9. Ends(s, 0, h) => ~r.ok
    BY <2>7 DEF Failed
  <2> QED
    BY <2>3, <2>4, <2>8, <2>9 DEF h, n
<1> QED
  BY <1>1, <1>2, <1>3

(* A decoder that meets another codec's first byte.                        *)
LEMMA OtherHeader ==
  ASSUME NEW s \in Seq(Element), Len(s) > 0
  PROVE  /\ s[1].n < 128 => ReadCount("cbor", s, 0) = Failed /\ ReadCount("msgpack", s, 0) = Failed
         /\ s[1].n = 220 => ReadCount("cbor", s, 0) = Failed
         /\ s[1].n \in {128 + 6, 128 + 15} => ReadCount("msgpack", s, 0) = Failed
<1> DEFINE b == s[1].n
           r == ReadHead(4, s, 0)
<1>1. b \in Nat /\ 0 + 1 = 1
  <2>1. s[1] \in Element
    OBVIOUS
  <2> QED
    BY <2>1 DEF Element
<1>2. ReadCount("cbor", s, 0) = IF r.ok THEN Ok(Nat32(r.value), r.at) ELSE Failed
  BY DEF ReadCount, ReadItem, ReadCBOR, ReadCBORCount
<1>3. ReadCount("msgpack", s, 0) = ReadMsgPackLength(s, 0, 144, 15, 220)
  BY DEF ReadCount, ReadItem, ReadMsgPack, ReadMsgPackCount
<1>4. ~(0 >= Len(s))
  OBVIOUS
<1>5. b \div 32 # 4 => r = Failed
  BY <1>1, <1>4, Zenon DEF ReadHead
<1>6. ~(b \in 144..(144 + 15)) /\ b # 220 => ReadMsgPackLength(s, 0, 144, 15, 220) = Failed
  BY <1>1, <1>4 DEF ReadMsgPackLength
<1>7. r = Failed => ~r.ok
  BY DEF Failed
<1> HIDE DEF b, r
<1>8. /\ b < 128 => b \div 32 # 4 /\ ~(b \in 144..(144 + 15)) /\ b # 220
      /\ b = 220 => b \div 32 # 4
      /\ b \in {128 + 6, 128 + 15} => ~(b \in 144..(144 + 15)) /\ b # 220
  BY <1>1
<1> QED
  BY <1>2, <1>3, <1>5, <1>6, <1>7, <1>8 DEF b

(* Reading the number of fields takes a byte.                              *)
LEMMA CountTakes ==
  ASSUME NEW s \in Seq(Element), NEW codec, ReadCount(codec, s, 0).ok
  PROVE  ReadCount(codec, s, 0).at \in Nat /\ ReadCount(codec, s, 0).at >= 1
<1> DEFINE b == s[1].n
           r == ReadHead(4, s, 0)
           a == b % 32
           width == HeadWidth(a)
<1>1. ~Failed.ok
  BY DEF Failed
<1>2. CASE codec = "cbor"
  <2>1. ReadCount(codec, s, 0) = IF r.ok THEN Ok(Nat32(r.value), r.at) ELSE Failed
    BY <1>2 DEF ReadCount, ReadItem, ReadCBOR, ReadCBORCount
  <2>2. r.ok
    BY <1>1, <2>1
  <2>3. ReadCount(codec, s, 0).at = r.at
    BY <2>1, <2>2 DEF Ok
  <2>4. r.at = 0 + 1 \/ r.at = 0 + 1 + width
    <3>1. 0 + 1 = 1
      OBVIOUS
    <3> QED
      BY <1>1, <2>2, <3>1 DEF ReadHead, Ok
  <2>5. width \in Nat
    BY DEF HeadWidth
  <2> HIDE DEF width, r
  <2> QED
    BY <2>3, <2>4, <2>5
<1>3. CASE codec # "cbor"
  <2> DEFINE q == ReadMsgPackLength(s, 0, 144, 15, 220)
  <2>1. ReadCount(codec, s, 0) = q
    BY <1>3 DEF ReadCount, ReadItem, ReadMsgPack, ReadMsgPackCount
  <2>2. q.ok
    BY <2>1
  <2>3. q.at = 0 + 1 \/ q.at = 0 + 3
    BY <1>1, <2>2 DEF ReadMsgPackLength, Ok
  <2> QED
    BY <2>1, <2>3
<1> QED
  BY <1>2, <1>3

(* An array decoder gets past the number of fields of its own codec and    *)
(* type, and otherwise at most past an extra byte behind nothing.          *)
LEMMA OwnStart ==
  ASSUME NEW c, IsEntry(c), c.codec \in ArrayCodecs, NEW w, NEW m, Layout(w, c, m), NEW s, NEW d, Became(w, s, d)
  PROVE  \/ ReadCount(c.codec, s, 0) = Ok(Len(c.shape), m[1]) /\ Intact(w, s, m[1])
         \/ ReadCount(c.codec, s, 0) = Failed /\ d = "cut"
<1> DEFINE h == HeaderOf(c)
<1>1. h \in Seq(Element) /\ Len(h) \in Nat /\ 0 + Len(h) = Len(h)
  BY HeaderFacts
<1>2. w \in Seq(Element) /\ s \in Seq(Element) /\ m[1] = Len(h) /\ Holds(w, 0, h)
  BY DEF Layout, Became
<1>3. Intact(w, s, 0)
  BY <1>2 DEF Intact
<1> HIDE DEF h
<1>4. \/ Holds(s, 0, h) /\ Intact(w, s, 0 + Len(h))
      \/ Ends(s, 0, h) /\ d = "cut"
  BY <1>1, <1>2, <1>3, PassOver
<1>5. /\ Holds(s, 0, h) => ReadCount(c.codec, s, 0) = Ok(Len(c.shape), Len(h))
      /\ Ends(s, 0, h) => ReadCount(c.codec, s, 0) = Failed
  BY <1>2, HeaderRead DEF h
<1> QED
  BY <1>1, <1>2, <1>4, <1>5

(* The first byte of an array survives every damage that leaves a byte.    *)
LEMMA FirstByte ==
  ASSUME NEW c, IsEntry(c), c.codec \in ArrayCodecs, NEW w, NEW m, Layout(w, c, m), NEW s, NEW d, Became(w, s, d),
         Len(s) > 0
  PROVE  s[1].n = HeaderOf(c)[1].n
<1> DEFINE h == HeaderOf(c)
<1>1. OnlyBytes(h) /\ h \in Seq(Element) /\ Len(h) \in Nat /\ Len(h) > 0
  BY HeaderFacts
<1>2. w \in Seq(Element) /\ s \in Seq(Element) /\ Holds(w, 0, h)
  BY DEF Layout, Became
<1>3. Intact(w, s, 0)
  BY <1>2 DEF Intact
<1> HIDE DEF h
<1>4. Holds(s, 0, h) \/ Ends(s, 0, h)
  BY <1>1, <1>2, <1>3, PassOver
<1>5. ASSUME Ends(s, 0, h) PROVE s[1] = h[1]
  <2>1. \A j \in 1..Len(h) : 0 + j <= Len(s) => s[0 + j] = h[j]
    <3>1. OnlyBytes(h) /\ 0 \in Nat /\ s \in Seq(Element)
      BY <1>1, <1>2
    <3> QED
      BY <1>5, <3>1, BytesLost
  <2>2. 1 \in 1..Len(h) /\ 0 + 1 <= Len(s) /\ 0 + 1 = 1
    BY <1>1, <1>2
  <2> QED
    BY <2>1, <2>2
<1>6. ASSUME Holds(s, 0, h) PROVE s[1] = h[1]
  <2>1. 1 \in 1..Len(h) /\ 0 + 1 = 1
    BY <1>1
  <2> QED
    BY <1>6, <2>1 DEF Holds
<1> QED
  BY <1>4, <1>5, <1>6 DEF h

(* A decoder of the other codec or the other type finds its own number of  *)
(* fields only in a byte with nothing behind it.                           *)
LEMMA OtherStart ==
  ASSUME NEW c, IsEntry(c), NEW w, NEW m, Layout(w, c, m), NEW s, NEW d, Became(w, s, d),
         NEW codec \in ArrayCodecs, NEW shape \in {EventShape, ProfileShape}, ~(codec = c.codec /\ shape = c.shape),
         ReadCount(codec, s, 0).ok, ReadCount(codec, s, 0).value = Len(shape)
  PROVE  ReadCount(codec, s, 0).at \in Nat /\ ReadCount(codec, s, 0).at >= Len(s)
<1>1. w \in Seq(Element) /\ s \in Seq(Element) /\ Len(s) \in Nat /\ Len(w) \in Nat
  BY DEF Layout, Became
<1>2. ReadCount(codec, s, 0) # Failed
  BY DEF Failed
<1>3. Len(s) > 0
  <2>1. ASSUME Len(s) = 0 PROVE ReadCount(codec, s, 0) = Failed
    <3>1. 0 >= Len(s)
      BY <2>1
    <3> QED
      BY <3>1, NothingLeft DEF ReadCount
  <2> QED
    BY <1>1, <1>2, <2>1
<1>4. c.shape \in {EventShape, ProfileShape} /\ c.codec \in {"cbor", "msgpack", "proto"} /\ codec \in {"cbor", "msgpack"}
  BY EntryFacts DEF Codecs, ArrayCodecs
<1>5. Len(EventShape) = 15 /\ Len(ProfileShape) = 6
  BY ShapeFacts
<1>6. CASE c.codec \in ArrayCodecs /\ c.codec = codec
  <2>1. shape # c.shape
    BY <1>6
  <2>2. Len(shape) # Len(c.shape)
    <3>1. \/ shape = EventShape /\ c.shape = ProfileShape
          \/ shape = ProfileShape /\ c.shape = EventShape
      BY <1>4, <2>1, Zenon
    <3>2. \/ Len(shape) = 15 /\ Len(c.shape) = 6
          \/ Len(shape) = 6 /\ Len(c.shape) = 15
      BY <1>5, <3>1, Zenon
    <3>3. 15 # 6
      OBVIOUS
    <3> QED
      BY <3>2, <3>3, Zenon
  <2>3. ReadCount(codec, s, 0) = Ok(Len(c.shape), m[1])
    BY <1>2, <1>6, OwnStart
  <2>4. ReadCount(codec, s, 0).value = Len(c.shape)
    BY <2>3 DEF Ok
  <2> QED
    BY <2>2, <2>4
<1>7. CASE c.codec \in ArrayCodecs /\ c.codec # codec
  <2>1. s[1].n = HeaderOf(c)[1].n
    BY <1>3, <1>7, FirstByte
  <2>2. CASE c.codec = "cbor"
    <3>1. HeaderOf(c)[1].n = 128 + Len(c.shape) /\ codec = "msgpack"
      BY <1>4, <1>7, <2>2, HeaderFacts
    <3>2. s[1].n \in {128 + 6, 128 + 15}
      BY <1>4, <1>5, <2>1, <3>1, ZenonT(60)
    <3> QED
      BY <1>1, <1>2, <1>3, <3>1, <3>2, OtherHeader
  <2>3. CASE c.codec = "msgpack"
    <3>1. HeaderOf(c)[1].n = 220 /\ codec = "cbor"
      BY <1>4, <1>7, <2>3, HeaderFacts
    <3> QED
      BY <1>1, <1>2, <1>3, <2>1, <3>1, OtherHeader
  <2> QED
    BY <1>7, <2>2, <2>3 DEF ArrayCodecs
<1>8. CASE c.codec = "proto"
  <2>1. CASE Len(w) > 0
    <3>1. w[1].n < 128 /\ w[1].n \in Nat /\ s[1].n \in Nat
      <4>1. w[1] \in Element /\ s[1] \in Element
        BY <1>1, <1>3, <2>1
      <4> QED
        BY <1>8, <2>1, <4>1 DEF Layout, Element
    <3>2. s[1] = w[1] \/ Short(s, 1, w[1])
      <4>1. 1 \in 1..Len(s) /\ 1 \in 1..Len(w)
        BY <1>1, <1>3, <2>1
      <4> QED
        BY <4>1 DEF Became, Frayed
    <3>3. s[1].n < 128
      BY <3>1, <3>2 DEF Short
    <3> QED
      BY <1>1, <1>2, <1>3, <1>4, <3>3, OtherHeader
  <2>2. CASE Len(w) = 0
    <3>1. Len(s) <= 1
      <4>1. Frayed(w, s) => Len(s) <= Len(w)
        BY DEF Frayed
      <4>2. Len(s) = Len(w) \/ Frayed(w, s) \/ Len(s) = Len(w) + 1
        BY Zenon DEF Became
      <4> DEFINE p == Len(s)
                 q == Len(w)
      <4>3. p \in Nat /\ q = 0 /\ (p = q \/ p <= q \/ p = q + 1)
        BY <1>1, <2>2, <4>1, <4>2, Zenon
      <4> HIDE DEF p, q
      <4>4. p <= 1
        BY <4>3
      <4> QED
        BY <4>4 DEF p
    <3>2. ReadCount(codec, s, 0).at \in Nat /\ ReadCount(codec, s, 0).at >= 1
      BY <1>1, CountTakes
    <3> QED
      BY <1>1, <3>1, <3>2
  <2> QED
    BY <1>1, <2>1, <2>2
<1> QED
  BY <1>4, <1>6, <1>7, <1>8 DEF ArrayCodecs

-----------------------------------------------------------------------------
(* One step of an array decoder.                                           *)
LEMMA PlaceFacts ==
  ASSUME NEW c, IsEntry(c), NEW w, NEW m, Layout(w, c, m), Len(m) = ItemsOf(c) + 1
  PROVE  /\ w \in Seq(Element) /\ ItemsOf(c) \in Nat /\ m \in Seq(Nat)
         /\ m[ItemsOf(c) + 1] = Len(w)
         /\ \A i \in 1..(ItemsOf(c) + 1) : m[i] \in Nat
         /\ \A i \in 1..ItemsOf(c) : /\ i + 1 \in 1..(ItemsOf(c) + 1)
                                     /\ m[i + 1] = m[i] + Len(Encoded(c, i)) /\ Holds(w, m[i], Encoded(c, i))
<1>1. ItemsOf(c) \in Nat
  BY EntryFacts
<1>2. w \in Seq(Element) /\ m \in Seq(Nat) /\ m[ItemsOf(c) + 1] = Len(w)
  BY DEF Layout
<1>3. ASSUME NEW i \in 1..ItemsOf(c)
      PROVE  m[i + 1] = m[i] + Len(Encoded(c, i)) /\ Holds(w, m[i], Encoded(c, i))
  <2>1. i \in 1..(Len(m) - 1)
    BY <1>1
  <2> QED
    BY <2>1 DEF Layout
<1>4. ASSUME NEW i \in 1..(ItemsOf(c) + 1) PROVE m[i] \in Nat
  BY <1>1, <1>2
<1> QED
  BY <1>1, <1>2, <1>3, <1>4

(* What an array decoder holds after i - 1 items, and whether it asks for  *)
(* another.                                                                *)
LEMMA GetsFacts ==
  ASSUME NEW c, IsEntry(c), NEW i \in 1..(ItemsOf(c) + 1)
  PROVE  /\ Len(Gets(c, i)) = i - 1
         /\ Wanted(c.shape, Gets(c, i)) > i - 1 <=> i <= ItemsOf(c)
         /\ i <= ItemsOf(c) => Append(Gets(c, i), Reads(KindOf(c, i), ItemOf(c, i))) = Gets(c, i + 1)
<1> DEFINE g == Gets(c, i)
           G(k) == Reads(KindOf(c, k), ItemOf(c, k))
           n == ItemsOf(c)
<1>1. n \in Nat /\ Len(c.shape) \in Nat /\ n >= Len(c.shape)
  BY EntryFacts
<1>2. g = [k \in 1..(i - 1) |-> G(k)] /\ i - 1 \in Nat
  BY <1>1 DEF Gets
<1>3. Len(g) = i - 1 /\ \A k \in 1..(i - 1) : g[k] = G(k)
  <2> HIDE DEF G, g
  <2> QED
    BY <1>2
<1>4. Wanted(c.shape, g) > i - 1 <=> i <= n
  <2> HIDE DEF g
  <2>1. CASE c.shape = EventShape /\ i - 1 >= 15
    <3>1. g[15] = Len(c.value[15])
      <4>1. 15 \in 1..(i - 1)
        BY <1>1, <2>1
      <4>2. g[15] = G(15)
        BY <1>3, <4>1
      <4>3. KindOf(c, 15) = "texts" /\ ItemOf(c, 15) = c.value[15]
        BY <2>1, ShapeFacts DEF KindOf, ItemOf, ItemKind, Item
      <4> QED
        BY <4>2, <4>3 DEF Reads
    <3>2. n = 15 + Len(c.value[15]) /\ Len(c.shape) = 15
      BY <2>1, EntryFacts, ShapeFacts
    <3>3. Wanted(c.shape, g) = n
      BY <1>3, <2>1, <3>1, <3>2 DEF Wanted
    <3> QED
      BY <1>1, <3>3
  <2>2. CASE ~(c.shape = EventShape /\ i - 1 >= 15)
    <3>1. Wanted(c.shape, g) = Len(c.shape)
      BY <1>1, <1>3, <2>2 DEF Wanted
    <3>2. CASE c.shape = EventShape
      <4>1. Len(c.shape) = 15
        BY <3>2, ShapeFacts
      <4> QED
        BY <1>1, <2>2, <3>1, <3>2, <4>1
    <3>3. CASE c.shape = ProfileShape
      <4>1. Len(c.shape) = 6 /\ n = 6
        BY <3>3, ShapeFacts, EntryFacts
      <4> QED
        BY <1>1, <3>1, <4>1
    <3> QED
      BY <3>2, <3>3, EntryFacts
  <2> QED
    BY <2>1, <2>2
<1>5. ASSUME i <= n PROVE Append(g, G(i)) = Gets(c, i + 1)
  <2>1. (i + 1) - 1 = i /\ i \in Nat
    BY <1>1
  <2>2. Gets(c, i + 1) = [k \in 1..i |-> G(k)]
    BY <2>1 DEF Gets
  <2>3. Append(g, G(i)) = [k \in 1..i |-> G(k)]
    <3> DEFINE S == {G(k) : k \in 1..i}
               t == [k \in 1..i |-> G(k)]
    <3>1. \A k \in 1..i : G(k) \in S /\ (k \in 1..(i - 1) \/ k = i)
      BY <2>1
    <3>2. \A k \in 1..(i - 1) : k \in 1..i
      BY <2>1
    <3>3. G(i) \in S
      BY <2>1, <3>1
    <3> HIDE DEF S, G, g
    <3>4. t \in Seq(S) /\ Len(t) = i /\ \A k \in 1..i : t[k] = G(k)
      BY <2>1, <3>1
    <3>5. g \in Seq(S)
      BY <1>2, <3>1, <3>2
    <3>6. Append(g, G(i)) \in Seq(S) /\ Len(Append(g, G(i))) = i
      BY <1>3, <2>1, <3>3, <3>5
    <3>7. ASSUME NEW k \in 1..i PROVE Append(g, G(i))[k] = t[k]
      <4>1. CASE k \in 1..(i - 1)
        BY <1>3, <3>3, <3>4, <3>5, <4>1
      <4>2. CASE k = i
        BY <1>3, <2>1, <3>3, <3>4, <3>5, <4>2
      <4> QED
        BY <3>1, <4>1, <4>2, Zenon
    <3> HIDE DEF t
    <3>8. Append(g, G(i)) = t
      BY <3>4, <3>6, <3>7, SameSequence
    <3> QED
      BY <3>8 DEF t
  <2> QED
    BY <2>2, <2>3
<1> QED
  BY <1>3, <1>4, <1>5

(* An array decoder at the place of item i reads that item, or finds the   *)
(* raw value cut short.                                                    *)
LEMMA ArrayGoesOn ==
  ASSUME NEW c, IsEntry(c), c.codec \in ArrayCodecs, NEW w, NEW m, Layout(w, c, m), Len(m) = ItemsOf(c) + 1,
         NEW s, NEW d, Became(w, s, d), NEW i \in 1..ItemsOf(c), Intact(w, s, m[i])
  PROVE  LET q == ReadItem(c.codec, KindOf(c, i), s, m[i]) IN
         \/ q = Ok(Reads(KindOf(c, i), ItemOf(c, i)), m[i + 1]) /\ Intact(w, s, m[i + 1])
         \/ q = Failed /\ d = "cut"
<1> DEFINE q == ReadItem(c.codec, KindOf(c, i), s, m[i])
           e == Encoded(c, i)
           x == Reads(KindOf(c, i), ItemOf(c, i))
<1>1. /\ w \in Seq(Element) /\ m[i] \in Nat
      /\ m[i + 1] = m[i] + Len(e) /\ Holds(w, m[i], e)
  BY PlaceFacts
<1>2. s \in Seq(Element)
  BY DEF Became
<1>3. /\ e \in Seq(Element)
      /\ Holds(s, m[i], e) => q = Ok(x, m[i] + Len(e))
      /\ Ends(s, m[i], e) => q = Failed
  BY <1>1, <1>2, EncodedArray
<1> HIDE DEF e, q, x
<1>4. \/ Holds(s, m[i], e) /\ Intact(w, s, m[i] + Len(e))
      \/ Ends(s, m[i], e) /\ d = "cut"
  BY <1>1, <1>3, PassOver
<1>5. \/ q = Ok(x, m[i + 1]) /\ Intact(w, s, m[i + 1])
      \/ q = Failed /\ d = "cut"
  BY <1>1, <1>3, <1>4
<1> QED
  BY <1>5 DEF q, x

(* All items of a value, put into its fields, are the value.               *)
LEMMA AssembledIs ==
  ASSUME NEW c, IsEntry(c)
  PROVE  Assembled(c.shape, Gets(c, ItemsOf(c) + 1)) = c.value
<1> DEFINE n == ItemsOf(c)
           l == Len(c.shape)
           got == Gets(c, n + 1)
           F(f) == IF c.shape[f] = "texts" THEN SubSeq(got, l + 1, Len(got)) ELSE got[f]
<1>1. n \in Nat /\ l \in Nat /\ n >= l /\ n + 1 - 1 = n /\ n + 1 \in 1..(n + 1)
  BY EntryFacts
<1>2. Len(got) = n
  BY <1>1, GetsFacts
<1>3. \A k \in 1..n : got[k] = Reads(KindOf(c, k), ItemOf(c, k))
  BY <1>1 DEF Gets
<1> DEFINE G(k) == Reads(KindOf(c, k), ItemOf(c, k))
           S == {G(k) : k \in 1..n}
<1>4. got \in Seq(S)
  <2>1. got = [k \in 1..n |-> G(k)]
    BY <1>1 DEF Gets
  <2>2. \A k \in 1..n : G(k) \in S
    OBVIOUS
  <2> HIDE DEF G, S, got
  <2> QED
    BY <1>1, <2>1, <2>2
<1> HIDE DEF got, G, S
<1>5. ASSUME NEW f \in 1..l, c.shape[f] # "texts" PROVE got[f] = c.value[f]
  <2>1. f \in 1..n /\ KindOf(c, f) = c.shape[f] /\ ItemOf(c, f) = c.value[f]
    BY <1>1 DEF KindOf, ItemOf, ItemKind, Item
  <2> QED
    BY <1>3, <1>5, <2>1 DEF Reads
<1>6. ASSUME NEW f \in 1..l, c.shape[f] = "texts" PROVE SubSeq(got, l + 1, Len(got)) = c.value[f]
  <2>1. c.shape = EventShape /\ f = 15 /\ l = 15
    <3>1. CASE c.shape = ProfileShape
      BY <1>6, <3>1, ShapeFacts
    <3>2. CASE c.shape = EventShape
      BY <1>6, <3>2, ShapeFacts
    <3> QED
      BY <3>1, <3>2, EntryFacts
  <2> DEFINE rules == c.value[15]
             t == SubSeq(got, 16, n)
  <2>2. rules \in Seq(Texts) /\ n = 15 + Len(rules)
    BY <2>1, EntryFacts
  <2>3. ASSUME NEW k \in 16..n PROVE got[k] = rules[k - 15] /\ got[k] \in Texts
    <3>1. k \in 1..n /\ KindOf(c, k) = "text" /\ ItemOf(c, k) = rules[k - 15]
      BY <2>1 DEF KindOf, ItemOf, ItemKind, Item
    <3>2. k - 15 \in 1..Len(rules)
      BY <1>1, <2>2
    <3>3. got[k] = rules[k - 15]
      BY <1>3, <3>1 DEF Reads
    <3> QED
      BY <2>2, <3>2, <3>3
  <2> HIDE DEF rules
  <2>4. /\ t \in Seq(Texts) /\ Len(t) = n - 16 + 1
        /\ \A k \in 1..(n - 16 + 1) : t[k] = got[16 + k - 1]
    <3>1. \A k \in 16..n : got[k] \in Texts
      BY <2>3
    <3>2. 16 \in 1..(Len(got) + 1) /\ n \in (16 - 1)..Len(got)
      BY <1>1, <1>2, <2>1
    <3> QED
      BY <1>4, <3>1, <3>2, SubSequence
  <2>5. Len(t) = Len(rules)
    BY <2>2, <2>4
  <2>6. ASSUME NEW k \in 1..Len(t) PROVE t[k] = rules[k]
    <3>1. k \in 1..(n - 16 + 1) /\ 16 + k - 1 = 15 + k /\ 15 + k \in 16..n /\ 15 + k - 15 = k
      BY <2>2, <2>5
    <3> QED
      BY <2>3, <2>4, <3>1
  <2> HIDE DEF t
  <2>7. t = rules
    BY <2>2, <2>4, <2>5, <2>6, SameSequence
  <2> QED
    BY <1>2, <2>1, <2>7 DEF t, rules
<1>7. \A f \in 1..l : F(f) = c.value[f]
  BY <1>5, <1>6, Zenon
<1>8. Assembled(c.shape, got) = [f \in 1..l |-> F(f)]
  BY DEF Assembled
<1>9. c.value = [f \in 1..l |-> c.value[f]]
  BY EntryFacts DEF HasFields
<1> HIDE DEF F, l
<1> QED
  BY <1>7, <1>8, <1>9, Zenon DEF got

-----------------------------------------------------------------------------
(* The encoders and what happens to the store.                             *)
LEMMA HoldsMore ==
  ASSUME NEW w \in Seq(Element), NEW d \in Seq(Element), NEW at \in Nat, NEW e, Len(e) \in Nat, Holds(w, at, e)
  PROVE  Holds(w \o d, at, e)
<1>1. Len(w \o d) = Len(w) + Len(d) /\ Len(w) \in Nat /\ Len(d) \in Nat
  OBVIOUS
<1>2. \A j \in 1..Len(w) : (w \o d)[j] = w[j]
  OBVIOUS
<1>3. ASSUME NEW j \in 1..Len(e) PROVE (w \o d)[at + j] = e[j]
  <2>1. at + j \in 1..Len(w) /\ w[at + j] = e[j]
    BY <1>1 DEF Holds
  <2> QED
    BY <1>2, <2>1
<1>4. at + Len(e) <= Len(w)
  BY DEF Holds
<1> QED
  BY <1>1, <1>3, <1>4 DEF Holds

(* What was appended last lies at the end.                                 *)
LEMMA HoldsLast ==
  ASSUME NEW w \in Seq(Element), NEW e \in Seq(Element)
  PROVE  Holds(w \o e, Len(w), e)
<1>1. Len(w \o e) = Len(w) + Len(e) /\ Len(w) \in Nat /\ Len(e) \in Nat
  OBVIOUS
<1>2. \A j \in 1..Len(e) : (w \o e)[Len(w) + j] = e[j]
  OBVIOUS
<1> QED
  BY <1>1, <1>2 DEF Holds

(* An appended item consists of elements; in Protobuf it starts with a     *)
(* key.                                                                    *)
LEMMA EncodedIs ==
  ASSUME NEW c, IsEntry(c), NEW i \in 1..ItemsOf(c)
  PROVE  /\ Encoded(c, i) \in Seq(Element)
         /\ c.codec = "proto" /\ Len(Encoded(c, i)) > 0 => Encoded(c, i)[1].n < 128
<1>1. <<>> \in Seq(Element) /\ 0 \in Nat
  OBVIOUS
<1>2. CASE c.codec \in ArrayCodecs
  BY <1>1, <1>2, EncodedArray, Zenon DEF ArrayCodecs
<1>3. CASE c.codec = "proto"
  BY <1>1, <1>3, EncodedProto, Zenon
<1> QED
  BY <1>2, <1>3, EntryFacts

(* The header alone is the layout before the first item.                   *)
LEMMA LayoutBegun ==
  ASSUME NEW c, IsEntry(c)
  PROVE  Layout(HeaderOf(c), c, <<Len(HeaderOf(c))>>)
<1> DEFINE h == HeaderOf(c)
           n == Len(h)
           m == <<n>>
<1>1. h \in Seq(Element) /\ n \in Nat /\ (c.codec = "proto" => h = <<>>)
  BY HeaderFacts
<1>2. ItemsOf(c) \in Nat
  BY EntryFacts
<1>3. Holds(h, 0, h)
  BY <1>1 DEF Holds
<1>4. c.codec = "proto" => ~(Len(h) > 0)
  <2>1. ~(Len(<<>>) > 0)
    OBVIOUS
  <2> QED
    BY <1>1, <2>1
<1> HIDE DEF h
<1>5. m \in Seq(Nat) /\ Len(m) = 1 /\ m[1] = n
  BY <1>1
<1>6. Len(m) \in 1..(ItemsOf(c) + 1) /\ ~\E i \in 1..(Len(m) - 1) : TRUE
  BY <1>2, <1>5
<1> HIDE DEF m
<1>7. Layout(h, c, m)
  BY <1>1, <1>3, <1>4, <1>5, <1>6 DEF Layout, h
<1> QED
  BY <1>7 DEF m, h

Grows(c, w, m, v, l) == v = w \o Encoded(c, Len(m)) /\ l = Append(m, Len(v))

(* Appending an item extends the layout by that item.                      *)
LEMMA LayoutGrown ==
  ASSUME NEW c, IsEntry(c), NEW w, NEW m, Layout(w, c, m), Len(m) <= ItemsOf(c),
         NEW v, NEW l, Grows(c, w, m, v, l)
  PROVE  Layout(v, c, l) /\ Len(l) = Len(m) + 1
<1> DEFINE k == Len(m)
           e == Encoded(c, k)
           n == ItemsOf(c)
<1>1. /\ w \in Seq(Element) /\ m \in Seq(Nat) /\ k \in 1..(n + 1)
      /\ m[1] = Len(HeaderOf(c)) /\ Holds(w, 0, HeaderOf(c))
      /\ \A i \in 1..(k - 1) : m[i + 1] = m[i] + Len(Encoded(c, i)) /\ Holds(w, m[i], Encoded(c, i))
      /\ m[k] = Len(w)
      /\ c.codec = "proto" /\ Len(w) > 0 => w[1].n < 128
  BY DEF Layout
<1>2. n \in Nat /\ k \in 1..n
  BY <1>1, EntryFacts
<1>3. e \in Seq(Element) /\ Len(e) \in Nat /\ (c.codec = "proto" /\ Len(e) > 0 => e[1].n < 128)
  BY <1>2, EncodedIs
<1>4. HeaderOf(c) \in Seq(Element) /\ Len(HeaderOf(c)) \in Nat
  BY HeaderFacts
<1>5. \A i \in 1..(k - 1) : i \in 1..n /\ Encoded(c, i) \in Seq(Element) /\ Len(Encoded(c, i)) \in Nat
  <2>1. ASSUME NEW i \in 1..(k - 1) PROVE i \in 1..n
    BY <1>2
  <2> QED
    BY <2>1, EncodedIs
<1> HIDE DEF e
<1>6. v = w \o e
  BY DEF e, Grows
<1>7. v \in Seq(Element) /\ Len(v) = Len(w) + Len(e) /\ Len(w) \in Nat /\ Len(v) \in Nat
  BY <1>1, <1>3, <1>6
<1>8. l \in Seq(Nat) /\ Len(l) = k + 1 /\ l[k + 1] = Len(v) /\ \A i \in 1..k : l[i] = m[i]
  <2>1. l = Append(m, Len(v))
    BY DEF Grows
  <2> QED
    BY <1>1, <1>7, <2>1
<1>9. Holds(v, 0, HeaderOf(c))
  BY <1>1, <1>3, <1>4, <1>6, HoldsMore
<1>10. ASSUME NEW i \in 1..(Len(l) - 1)
       PROVE  l[i + 1] = l[i] + Len(Encoded(c, i)) /\ Holds(v, l[i], Encoded(c, i))
  <2>1. CASE i = k
    <3>1. l[i] = Len(w) /\ l[i + 1] = Len(v)
      BY <1>1, <1>2, <1>8, <2>1
    <3> QED
      BY <1>1, <1>3, <1>6, <1>7, <2>1, <3>1, HoldsLast DEF e
  <2>2. CASE i \in 1..(k - 1)
    <3>1. i \in 1..k /\ i + 1 \in 1..k
      <4>1. k \in Nat
        BY <1>2
      <4> HIDE DEF k
      <4> QED
        BY <2>2, <4>1
    <3>2. m \in Seq(Nat) /\ Len(m) = k
      BY <1>1
    <3>3. m[i] \in Nat
      BY <3>1, <3>2
    <3>4. l[i] = m[i] /\ l[i + 1] = m[i + 1]
      BY <1>8, <3>1
    <3>5. Holds(v, m[i], Encoded(c, i))
      BY <1>1, <1>3, <1>5, <1>6, <2>2, <3>3, HoldsMore
    <3> QED
      BY <1>1, <2>2, <3>4, <3>5
  <2> QED
    BY <1>2, <1>8, <2>1, <2>2
<1>11. ASSUME c.codec = "proto", Len(v) > 0 PROVE v[1].n < 128
  <2>1. CASE Len(w) > 0
    <3>1. v[1] = w[1]
      BY <1>1, <1>3, <1>6, <2>1, FirstOfBoth
    <3> QED
      BY <1>1, <1>11, <2>1, <3>1
  <2>2. CASE Len(w) = 0
    <3>1. \A j \in 1..Len(e) : v[Len(w) + j] = e[j]
      BY <1>1, <1>3, <1>6
    <3>2. Len(e) > 0 /\ 1 \in 1..Len(e) /\ Len(w) + 1 = 1
      BY <1>3, <1>7, <1>11, <2>2
    <3>3. v[1] = e[1]
      BY <3>1, <3>2
    <3> QED
      BY <1>3, <1>11, <3>2, <3>3
  <2>3. Len(w) > 0 \/ Len(w) = 0
    BY <1>7
  <2> QED
    BY <2>1, <2>2, <2>3, ZenonT(60)
<1>12. l[1] = Len(HeaderOf(c)) /\ Len(l) \in 1..(n + 1)
  BY <1>1, <1>2, <1>8
<1> QED
  BY <1>7, <1>8, <1>9, <1>10, <1>11, <1>12 DEF Layout

(* A raw value that lost whole elements is cut short.                      *)
LEMMA CutIs ==
  ASSUME NEW w \in Seq(Element), NEW n \in 0..(Len(w) - 1), NEW s, s = SubSeq(w, 1, n)
  PROVE  Became(w, s, "cut")
<1>1. s \in Seq(Element) /\ Len(s) = n /\ \A j \in 1..n : s[j] = w[j]
  <2>1. \A i \in 1..n : w[i] \in Element
    OBVIOUS
  <2>2. /\ SubSeq(w, 1, n) \in Seq(Element) /\ Len(SubSeq(w, 1, n)) = n - 1 + 1
        /\ \A i \in 1..(n - 1 + 1) : SubSeq(w, 1, n)[i] = w[1 + i - 1]
    <3>1. 1 \in 1..(Len(w) + 1) /\ n \in (1 - 1)..Len(w)
      OBVIOUS
    <3> QED
      BY <2>1, <3>1, SubSequence
  <2> QED
    BY <2>2
<1> QED
  BY <1>1 DEF Became, Frayed

(* So is one that ends within a text.                                      *)
LEMMA CutTextIs ==
  ASSUME NEW w \in Seq(Element), NEW n \in 1..Len(w), w[n].text # None, NEW k \in Nat \ {0}, w[n].n > k,
         NEW s, s = [SubSeq(w, 1, n) EXCEPT ![n].n = @ - k]
  PROVE  Became(w, s, "cut")
<1> DEFINE t == SubSeq(w, 1, n)
           x == [t[n] EXCEPT !.n = @ - k]
<1>1. t \in Seq(Element) /\ Len(t) = n /\ \A j \in 1..n : t[j] = w[j]
  <2>1. \A i \in 1..n : w[i] \in Element
    OBVIOUS
  <2>2. /\ SubSeq(w, 1, n) \in Seq(Element) /\ Len(SubSeq(w, 1, n)) = n - 1 + 1
        /\ \A i \in 1..(n - 1 + 1) : SubSeq(w, 1, n)[i] = w[1 + i - 1]
    <3>1. 1 \in 1..(Len(w) + 1) /\ n \in (1 - 1)..Len(w)
      OBVIOUS
    <3> QED
      BY <2>1, <3>1, SubSequence
  <2> QED
    BY <2>2
<1>2. s = [t EXCEPT ![n] = x]
  OBVIOUS
<1>3. x \in Element /\ x.n < w[n].n
  <2>1. t[n] = w[n] /\ w[n] \in Element
    BY <1>1
  <2>2. x.n = w[n].n - k /\ x.text = w[n].text /\ w[n].n \in Nat /\ w[n].text \in Names \cup {None}
    BY <2>1 DEF Element
  <2>3. x = [text |-> w[n].text, n |-> w[n].n - k]
    BY <2>1 DEF Element
  <2> HIDE DEF x
  <2> QED
    BY <2>2, <2>3 DEF Element
<1> HIDE DEF t, x
<1>4. s \in Seq(Element) /\ Len(s) = n /\ \A j \in 1..n : s[j] = IF j = n THEN x ELSE t[j]
  <2>1. x \in Element /\ n \in 1..Len(t)
    BY <1>1, <1>3
  <2> QED
    <3> DEFINE y == [t EXCEPT ![n] = x]
    <3>1. y \in Seq(Element) /\ Len(y) = Len(t) /\ \A j \in 1..Len(t) : y[j] = IF j = n THEN x ELSE t[j]
      <4>1. t \in Seq(Element)
        BY <1>1
      <4>2. y \in Seq(Element)
        BY <2>1, <4>1
      <4>3. Len(y) = Len(t)
        BY <2>1, <4>1
      <4>4. \A j \in 1..Len(t) : y[j] = IF j = n THEN x ELSE t[j]
        BY <2>1, <4>1
      <4> QED
        BY <4>2, <4>3, <4>4
    <3>2. s = y
      BY <1>2, Zenon
    <3> HIDE DEF y
    <3> QED
      BY <1>1, <3>1, <3>2, Zenon
<1>5. s[n] = x /\ \A j \in 1..n : j # n => s[j] = w[j]
  BY <1>1, <1>4
<1>6. Short(s, n, w[n])
  BY <1>3, <1>4, <1>5, Zenon DEF Short
<1>7. Frayed(w, s)
  <2>1. Len(s) <= Len(w) /\ (Len(s) = Len(w) => Len(w) > 0 /\ n = Len(w))
    BY <1>4
  <2>2. \A j \in 1..Len(s) : s[j] = w[j] \/ Short(s, j, w[j])
    BY <1>4, <1>5, <1>6, Zenon
  <2> QED
    BY <1>4, <1>6, <2>1, <2>2, Zenon DEF Frayed
<1> QED
  BY <1>4, <1>7, Zenon DEF Became

(* A raw value with a byte behind it has been extended.                    *)
LEMMA ExtendIs ==
  ASSUME NEW w \in Seq(Element), NEW b \in ExtraBytes, NEW s, s = Append(w, Byte(b))
  PROVE  Became(w, s, "extended")
<1>1. Byte(b) \in Element
  BY CodecAssumption, ByteRangeFacts DEF Byte, Element
<1> DEFINE x == Byte(b)
<1> HIDE DEF x
<1>2. x \in Element /\ s = Append(w, x)
  BY <1>1 DEF x
<1>3. s \in Seq(Element) /\ Len(s) = Len(w) + 1 /\ \A j \in 1..Len(w) : s[j] = w[j]
  BY <1>2
<1> QED
  BY <1>3 DEF Became

-----------------------------------------------------------------------------
(* The steps.                                                              *)
LEMMA NotLoaded ==
  ASSUME stage' # "loaded"
  PROVE  AsPromised'
BY DEF AsPromised, RoundTrip, DamageNoticed, CutEventIsPrefix, Loaded

(* An error breaks no promise, unless the value was whole and its own      *)
(* decoder read it.                                                        *)
LEMMA LoadFails ==
  ASSUME result' = Failed, ~(damage' = "none" /\ ByItsOwn')
  PROVE  AsPromised'
<1>1. ~Failed.ok
  BY DEF Failed
<1>2. ~(result').ok
  BY <1>1
<1> QED
  BY <1>2, Zenon DEF AsPromised, RoundTrip, DamageNoticed, CutEventIsPrefix, Loaded

(* As long as nothing is read.                                             *)
LEMMA KeepsLayout ==
  ASSUME NEW w, IsEntry(entry'), Layout(w, entry', marks'), Became(w, raw', damage'),
         \/ stage' = "writing" /\ damage' = "none" /\ Len(marks') <= ItemsOf(entry')
         \/ stage' = "stored" /\ Len(marks') = ItemsOf(entry') + 1
  PROVE  Inv'
<1>1. AsPromised'
  BY NotLoaded
<1>2. InStore(w)'
  BY DEF InStore
<1> QED
  BY <1>1, <1>2 DEF Inv

(* A decoder that goes on, and one that returns.                           *)
LEMMA KeepsReading ==
  ASSUME NEW w, IsEntry(entry'), Layout(w, entry', marks'), Became(w, raw', damage'),
         Len(marks') = ItemsOf(entry') + 1, stage' = "reading", ReaderAt(w, entry', marks', raw', reader')
  PROVE  Inv'
<1>1. AsPromised'
  BY NotLoaded
<1>2. InStore(w)'
  BY DEF InStore
<1> QED
  BY <1>1, <1>2 DEF Inv

(* When a decoder returns, only the promises remain to be kept.            *)
LEMMA Returns ==
  ASSUME NEW w, IsEntry(entry'), Layout(w, entry', marks'), Became(w, raw', damage'),
         Len(marks') = ItemsOf(entry') + 1, stage' = "loaded", AsPromised'
  PROVE  Inv'
<1>1. InStore(w)'
  BY DEF InStore
<1> QED
  BY <1>1 DEF Inv

(* The invariant holds before anything is stored.                          *)
LEMMA InvInit ==
  ASSUME Init
  PROVE  Inv
BY DEF Init, Inv, AsPromised, RoundTrip, DamageNoticed, CutEventIsPrefix, Loaded

(* Marshal starts with the header.                                         *)
LEMMA InvBegin ==
  ASSUME Inv, stage = "new", NEW codec, NEW shape, NEW value, Begin(codec, shape, value),
         IsEntry([codec |-> codec, shape |-> shape, value |-> value])
  PROVE  Inv'
<1> DEFINE c == [codec |-> codec, shape |-> shape, value |-> value]
           w == HeaderOf(c)
<1>1. /\ entry' = c /\ raw' = AppendHeader(codec, shape) /\ marks' = <<Len(raw')>>
      /\ stage' = "writing" /\ damage' = "none"
  BY DEF Begin, Inv
<1>2. AppendHeader(codec, shape) = w
  BY DEF HeaderOf
<1> HIDE DEF c, w
<1>3. IsEntry(c)
  BY DEF c
<1>4. raw' = w /\ marks' = <<Len(w)>>
  BY <1>1, <1>2
<1>5. Layout(w, c, <<Len(w)>>)
  BY <1>3, LayoutBegun DEF w
<1>6. Became(w, w, "none")
  BY <1>5 DEF Layout, Became
<1>7. 1 <= ItemsOf(c) /\ Len(<<Len(w)>>) = 1
  BY <1>3, EntryFacts
<1>8. IsEntry(entry') /\ Layout(w, entry', marks') /\ Became(w, raw', damage') /\ Len(marks') <= ItemsOf(entry')
  BY <1>1, <1>3, <1>4, <1>5, <1>6, <1>7
<1> QED
  BY <1>1, <1>8, KeepsLayout

(* Marshal of an event.                                                    *)
LEMMA InvStoreEvent ==
  ASSUME Inv, NEW codec \in Codecs, NEW event \in Events, StoreEvent(codec, event)
  PROVE  Inv'
<1>1. IsEntry([codec |-> codec, shape |-> EventShape, value |-> event])
  BY DEF IsEntry
<1> QED
  BY <1>1, InvBegin DEF StoreEvent

(* Marshal of a profile, which may be refused.                             *)
LEMMA InvStoreProfile ==
  ASSUME Inv, NEW codec \in ArrayCodecs, NEW profile \in Profiles, StoreProfile(codec, profile)
  PROVE  Inv'
<1>1. CASE ValidateParticipantProfileCache(profile)
  <2>1. IsEntry([codec |-> codec, shape |-> ProfileShape, value |-> profile])
    BY DEF IsEntry, Codecs
  <2> QED
    BY <1>1, <2>1, InvBegin DEF StoreProfile
<1>2. CASE ~ValidateParticipantProfileCache(profile)
  <2>1. stage' = "refused"
    BY <1>2 DEF StoreProfile
  <2>2. AsPromised'
    BY <2>1, NotLoaded
  <2> QED
    BY <2>1, <2>2 DEF Inv
<1> QED
  BY <1>1, <1>2

(* Marshal appends the next item.                                          *)
LEMMA InvAppendNext ==
  ASSUME Inv, AppendNext
  PROVE  Inv'
<1> DEFINE n == ItemsOf(entry)
<1>1. stage = "writing" /\ damage = "none" /\ IsEntry(entry) /\ Len(marks) <= n
  BY DEF Inv, AppendNext
<1>2. PICK w : Layout(w, entry, marks) /\ Became(w, raw, damage)
  BY <1>1 DEF Inv, InStore
<1>3. raw = w
  BY <1>1, <1>2 DEF Became
<1>4. /\ raw' = w \o Encoded(entry, Len(marks)) /\ marks' = Append(marks, Len(raw'))
      /\ stage' = (IF Len(marks) = n THEN "stored" ELSE "writing") /\ entry' = entry /\ damage' = "none"
  BY <1>1, <1>3 DEF AppendNext, Encoded, ItemsOf
<1>5. PICK v : v = raw'
  OBVIOUS
<1>6. Layout(v, entry, marks') /\ Len(marks') = Len(marks) + 1
  <2>1. Grows(entry, w, marks, v, marks')
    BY <1>4, <1>5 DEF Grows
  <2>2. IsEntry(entry) /\ Layout(w, entry, marks) /\ Len(marks) <= ItemsOf(entry)
    BY <1>1, <1>2
  <2> QED
    BY <2>1, <2>2, LayoutGrown
<1>7. Became(v, raw', damage')
  BY <1>4, <1>5, <1>6 DEF Layout, Became
<1>8. Len(marks) \in Nat /\ n \in Nat
  BY <1>1, <1>2, EntryFacts DEF Layout
<1>9. \/ stage' = "writing" /\ Len(marks') <= n
      \/ stage' = "stored" /\ Len(marks') = n + 1
  BY <1>1, <1>4, <1>6, <1>8
<1> HIDE DEF n
<1>10. IsEntry(entry') /\ Layout(v, entry', marks') /\ ItemsOf(entry') = n
  BY <1>1, <1>4, <1>6 DEF n
<1> QED
  BY <1>4, <1>7, <1>9, <1>10, KeepsLayout

(* The store loses the end of the bytes, or finds one behind them.         *)
LEMMA InvDamage ==
  ASSUME Inv, Damage
  PROVE  Inv'
<1>1. /\ stage = "stored" /\ damage = "none" /\ IsEntry(entry) /\ Len(marks) = ItemsOf(entry) + 1
      /\ stage' = "stored" /\ entry' = entry /\ marks' = marks
  BY DEF Inv, Damage
<1>2. PICK w : Layout(w, entry, marks) /\ Became(w, raw, damage)
  BY <1>1 DEF Inv, InStore
<1>3. raw = w /\ w \in Seq(Element)
  BY <1>1, <1>2 DEF Became
<1>4. Became(w, raw', damage')
  <2>1. CASE \E n \in 0..(Len(raw) - 1) : Cut(n)
    BY <1>3, <2>1, CutIs, Zenon DEF Cut
  <2>2. CASE \E n \in 1..Len(raw), loss \in Losses : CutText(n, loss)
    <3>1. PICK n \in 1..Len(raw), loss \in Losses : CutText(n, loss)
      BY <2>2
    <3>2. loss \in Nat \ {0}
      BY <3>1, CodecAssumption
    <3>3. /\ raw[n].text # None /\ raw[n].n > loss /\ damage' = "cut"
          /\ raw' = [SubSeq(raw, 1, n) EXCEPT ![n].n = @ - loss]
      BY <3>1, Zenon DEF CutText
    <3> QED
      BY <1>3, <3>1, <3>2, <3>3, CutTextIs
  <2>3. CASE \E b \in ExtraBytes : Extend(b)
    BY <1>3, <2>3, ExtendIs, Zenon DEF Extend
  <2> QED
    BY <2>1, <2>2, <2>3 DEF Damage
<1> QED
  BY <1>1, <1>2, <1>4, KeepsLayout

(* The items of an array.  A decoder with another's bytes has no item to   *)
(* read; one with its own reads what was written or finds the end cut off. *)
LEMMA InvReadNextItem ==
  ASSUME Inv, ReadNextItem
  PROVE  Inv'
<1> DEFINE r == ReadItem(reader.codec, ItemKind(reader.shape, Len(reader.got) + 1), raw, reader.at)
           c == entry
           n == ItemsOf(entry)
<1>1. /\ stage = "reading" /\ IsEntry(entry) /\ Len(marks) = n + 1
      /\ entry' = entry /\ marks' = marks /\ raw' = raw /\ damage' = damage /\ reader.codec \in ArrayCodecs
  BY DEF Inv, ReadNextItem
<1>2. PICK w : Layout(w, entry, marks) /\ Became(w, raw, damage) /\ ReaderAt(w, entry, marks, raw, reader)
  BY <1>1 DEF Inv, InStore
<1>3. /\ Len(reader.got) < Wanted(reader.shape, reader.got) /\ r.ok =>
           reader' = [reader EXCEPT !.at = r.at, !.got = Append(reader.got, r.value)] /\ stage' = "reading"
      /\ Len(reader.got) < Wanted(reader.shape, reader.got) /\ ~r.ok =>
           result' = Failed /\ stage' = "loaded" /\ reader' = reader
      /\ ~(Len(reader.got) < Wanted(reader.shape, reader.got)) =>
           /\ result' = (IF AtEnd(raw, reader.at) THEN Ok(Assembled(reader.shape, reader.got), reader.at) ELSE Failed)
           /\ stage' = "loaded" /\ reader' = reader
  BY <1>1 DEF ReadNextItem, GoOn, Return
<1> HIDE DEF r
<1>4. IsEntry(entry') /\ Layout(w, entry', marks') /\ Became(w, raw', damage') /\ Len(marks') = ItemsOf(entry') + 1
  BY <1>1, <1>2
<1>5. /\ reader = [codec |-> reader.codec, shape |-> reader.shape, at |-> reader.at, got |-> reader.got]
      /\ ArrayAt(w, entry, marks, raw, reader) \/ Astray(entry, raw, reader)
  <2>1. reader.codec # "proto"
    BY <1>1 DEF ArrayCodecs
  <2> QED
    BY <1>2, <2>1 DEF ReaderAt, ProtoAt
<1>6. CASE Astray(entry, raw, reader)
  <2>1. /\ ~(reader.codec = entry.codec /\ reader.shape = entry.shape) /\ reader.at >= Len(raw)
        /\ reader.got = <<>> /\ reader.shape \in {EventShape, ProfileShape}
    BY <1>6 DEF Astray
  <2>2. Len(reader.got) = 0 /\ Len(reader.got) + 1 = 1
    BY <2>1
  <2>3. Len(reader.got) < Wanted(reader.shape, reader.got)
    <3>1. Len(reader.shape) \in Nat /\ Len(reader.shape) > 0 /\ ~(Len(reader.got) >= 15)
      <4>1. Len(reader.shape) = 15 \/ Len(reader.shape) = 6
        BY <2>1, ShapeFacts, Zenon
      <4> QED
        BY <2>2, <4>1
    <3>2. Wanted(reader.shape, reader.got) = Len(reader.shape)
      BY <3>1 DEF Wanted
    <3> QED
      BY <2>2, <3>1, <3>2
  <2>4. ItemKind(reader.shape, 1) \in {"text", "int", "texts"}
    <3>1. 1 <= Len(reader.shape) /\ reader.shape[1] \in {"text", "int"}
      <4>1. 1 \in 1..14 /\ 1 \in 1..6 /\ 1 <= 15 /\ 1 <= 6
        OBVIOUS
      <4>2. CASE reader.shape = EventShape
        BY <4>1, <4>2, ShapeFacts
      <4>3. CASE reader.shape = ProfileShape
        BY <4>1, <4>3, ShapeFacts
      <4> QED
        BY <2>1, <4>2, <4>3
    <3> QED
      BY <3>1 DEF ItemKind
  <2>5. r = Failed
    BY <2>1, <2>2, <2>4, NothingLeft DEF r
  <2>6. ~r.ok
    BY <2>5 DEF Failed
  <2>7. result' = Failed /\ stage' = "loaded" /\ reader' = reader
    BY <1>3, <2>3, <2>6
  <2>8. ~ByItsOwn'
    BY <1>1, <2>1, <2>7 DEF ByItsOwn
  <2>9. AsPromised'
    BY <2>7, <2>8, LoadFails
  <2> QED
    BY <1>4, <2>7, <2>9, Returns
<1>7. CASE ArrayAt(w, entry, marks, raw, reader)
  <2>1. reader.codec = entry.codec /\ reader.shape = entry.shape
    BY <1>7 DEF ArrayAt
  <2>2. PICK i \in 1..(n + 1) : reader.at = marks[i] /\ Intact(w, raw, marks[i]) /\ reader.got = Gets(entry, i)
    BY <1>7 DEF ArrayAt
  <2>3. n \in Nat /\ i \in Nat /\ i <= n + 1
    BY <1>1, <2>2, EntryFacts
  <2>4. /\ Len(reader.got) = i - 1 /\ (Wanted(reader.shape, reader.got) > i - 1 <=> i <= n)
        /\ i <= n => Append(reader.got, Reads(KindOf(entry, i), ItemOf(entry, i))) = Gets(entry, i + 1)
    BY <1>1, <2>1, <2>2, GetsFacts
  <2>5. CASE i <= n
    <3> DEFINE x == Reads(KindOf(entry, i), ItemOf(entry, i))
    <3> HIDE DEF x
    <3>1. Len(reader.got) < Wanted(reader.shape, reader.got) /\ i \in 1..n /\ Len(reader.got) + 1 = i
      BY <2>2, <2>3, <2>4, <2>5
    <3>2. r = ReadItem(entry.codec, KindOf(entry, i), raw, marks[i])
      BY <2>1, <2>2, <3>1 DEF r, KindOf
    <3>3. \/ r = Ok(x, marks[i + 1]) /\ Intact(w, raw, marks[i + 1])
          \/ r = Failed /\ damage = "cut"
      <4>1. IsEntry(entry) /\ entry.codec \in ArrayCodecs /\ Len(marks) = ItemsOf(entry) + 1 /\ i \in 1..ItemsOf(entry)
        BY <1>1, <2>1, <3>1
      <4>2. Layout(w, entry, marks) /\ Became(w, raw, damage) /\ Intact(w, raw, marks[i])
        BY <1>2, <2>2
      <4>3. LET q == ReadItem(entry.codec, KindOf(entry, i), raw, marks[i]) IN
            \/ q = Ok(Reads(KindOf(entry, i), ItemOf(entry, i)), marks[i + 1]) /\ Intact(w, raw, marks[i + 1])
            \/ q = Failed /\ damage = "cut"
        BY <4>1, <4>2, ArrayGoesOn
      <4> QED
        BY <3>2, <4>3, Zenon DEF x
    <3>4. CASE r = Ok(x, marks[i + 1]) /\ Intact(w, raw, marks[i + 1])
      <4>1. r.ok /\ r.value = x /\ r.at = marks[i + 1]
        BY <3>4 DEF Ok
      <4>2. reader' = [reader EXCEPT !.at = r.at, !.got = Append(reader.got, r.value)] /\ stage' = "reading"
        BY <1>3, <3>1, <4>1
      <4>3. /\ (reader').codec = reader.codec /\ (reader').shape = reader.shape
            /\ (reader').at = marks[i + 1] /\ (reader').got = Gets(entry, i + 1)
            /\ reader' = [codec |-> (reader').codec, shape |-> (reader').shape,
                          at |-> (reader').at, got |-> (reader').got]
        <5>1. Append(reader.got, r.value) = Gets(entry, i + 1)
          BY <2>4, <2>5, <4>1 DEF x
        <5> QED
          BY <1>5, <4>1, <4>2, <5>1, Zenon
      <4>4. i + 1 \in 1..(n + 1)
        BY <2>3, <2>5
      <4>5. ArrayAt(w, entry', marks', raw', reader')
        BY <1>1, <2>1, <3>4, <4>3, <4>4 DEF ArrayAt
      <4> QED
        BY <1>4, <4>2, <4>3, <4>5, KeepsReading, Zenon DEF ReaderAt
    <3>5. CASE r = Failed /\ damage = "cut"
      <4>1. ~r.ok
        BY <3>5 DEF Failed
      <4>2. result' = Failed /\ stage' = "loaded"
        BY <1>3, <3>1, <4>1
      <4>3. AsPromised'
        BY <1>1, <3>5, <4>2, LoadFails
      <4> QED
        BY <1>4, <4>2, <4>3, Returns
    <3> QED
      BY <3>3, <3>4, <3>5
  <2>6. CASE i = n + 1
    <3>1. ~(Len(reader.got) < Wanted(reader.shape, reader.got))
      BY <2>3, <2>4, <2>6
    <3>2. /\ result' = (IF AtEnd(raw, reader.at) THEN Ok(Assembled(reader.shape, reader.got), reader.at) ELSE Failed)
          /\ stage' = "loaded" /\ reader' = reader
      BY <1>3, <3>1
    <3>3. marks[i] = Len(w) /\ w \in Seq(Element)
      BY <1>1, <1>2, <2>6, PlaceFacts
    <3>4. \/ damage = "none" /\ Len(raw) = Len(w)
          \/ damage = "extended" /\ Len(raw) = Len(w) + 1
      BY <1>2, <2>2, <3>3, AllThere
    <3>5. CASE damage = "none" /\ Len(raw) = Len(w)
      <4>1. AtEnd(raw, reader.at)
        BY <2>2, <3>3, <3>5 DEF AtEnd
      <4>2. Assembled(reader.shape, reader.got) = entry.value
        BY <1>1, <2>1, <2>2, <2>6, AssembledIs
      <4>3. (result').ok /\ (result').value = entry.value
        BY <3>2, <4>1, <4>2 DEF Ok
      <4>4. entry.codec # "proto" /\ damage' = "none" /\ (damage' # "extended") /\ ByItsOwn' /\ (reader').codec # "proto"
        BY <1>1, <2>1, <3>2, <3>5 DEF ArrayCodecs, ByItsOwn
      <4>5. AsPromised'
        BY <1>1, <4>3, <4>4, Zenon DEF AsPromised, RoundTrip, DamageNoticed, CutEventIsPrefix, Loaded
      <4> QED
        BY <1>4, <3>2, <4>5, Returns
    <3>6. CASE damage = "extended" /\ Len(raw) = Len(w) + 1
      <4>1. ~AtEnd(raw, reader.at)
        <5>1. Len(w) \in Nat
          BY <3>3
        <5> QED
          BY <2>2, <3>3, <3>6, <5>1 DEF AtEnd
      <4>2. result' = Failed
        BY <3>2, <4>1
      <4>3. AsPromised'
        BY <1>1, <3>6, <4>2, LoadFails
      <4> QED
        BY <1>4, <3>2, <4>3, Returns
    <3> QED
      BY <3>4, <3>5, <3>6
  <2> QED
    BY <2>3, <2>5, <2>6
<1> QED
  BY <1>5, <1>6, <1>7

(* A step that changes nothing.                                            *)
LEMMA InvUnchanged ==
  ASSUME Inv, UNCHANGED vars
  PROVE  Inv'
<1>1. /\ stage' = stage /\ entry' = entry /\ damage' = damage /\ raw' = raw
      /\ marks' = marks /\ reader' = reader /\ result' = result
  BY DEF vars
<1>2. AsPromised'
  BY <1>1 DEF Inv, AsPromised, RoundTrip, DamageNoticed, CutEventIsPrefix, Loaded, ByItsOwn
<1>3. ASSUME NEW w, InStore(w) PROVE InStore(w)'
  BY <1>1, <1>3 DEF InStore
<1> QED
  BY <1>1, <1>2, <1>3 DEF Inv

-----------------------------------------------------------------------------
(* The fraud rules Protobuf keeps.  What the proofs need to know of counts *)
(* and of finite sets is their hypothesis Counting: it is proved at the    *)
(* end, from a library whose theorems the provers would otherwise have to  *)
(* carry through every step before.                                        *)
RanksCount ==
  \A rules : \A i \in Nat :
    /\ Rank(rules, i) \in Nat /\ Rank(rules, 0) = 0
    /\ rules[i + 1].n = 0 => Rank(rules, i + 1) = Rank(rules, i)
    /\ rules[i + 1].n # 0 => Rank(rules, i + 1) = Rank(rules, i) + 1
    /\ i > 0 /\ rules[i].n # 0 => Rank(rules, i) > 0
    /\ \A k \in 0..i : Rank(rules, k) <= Rank(rules, i)

HaveLargest ==
  \A n \in Nat : \A P \in SUBSET (1..n) : P # {} => \E i \in P : \A j \in P : j <= i

Counting == RanksCount /\ HaveLargest

(* One more rule: dropped if it is empty, else the next of those kept.     *)
LEMMA KeptMore ==
  ASSUME Counting, NEW got \in Seq(Texts), NEW rules, NEW m \in Nat, Kept(got, rules, m)
  PROVE  /\ rules[m + 1].n = 0 => Kept(got, rules, m + 1)
         /\ rules[m + 1].n # 0 => Kept(Append(got, rules[m + 1]), rules, m + 1)
<1>1. Len(got) = Rank(rules, m) /\ \A i \in 1..m : rules[i].n # 0 => got[Rank(rules, i)] = rules[i]
  BY DEF Kept
<1>2. \A i \in 1..(m + 1) : i \in 1..m \/ i = m + 1
  OBVIOUS
<1>3. Rank(rules, m) \in Nat
  BY DEF Counting, RanksCount
<1>4. ASSUME rules[m + 1].n = 0 PROVE Kept(got, rules, m + 1)
  <2>1. Rank(rules, m + 1) = Rank(rules, m)
    BY <1>4 DEF Counting, RanksCount
  <2> QED
    BY <1>1, <1>2, <1>4, <2>1 DEF Kept
<1>5. ASSUME rules[m + 1].n # 0 PROVE Kept(Append(got, rules[m + 1]), rules, m + 1)
  <2> DEFINE x == rules[m + 1]
             more == Append(got, x)
  <2>1. Rank(rules, m + 1) = Rank(rules, m) + 1
    BY <1>5 DEF Counting, RanksCount
  <2>2. Len(more) = Rank(rules, m + 1) /\ more[Rank(rules, m + 1)] = x
    BY <1>1, <2>1
  <2>3. ASSUME NEW i \in 1..m, rules[i].n # 0 PROVE more[Rank(rules, i)] = rules[i]
    <3>1. Rank(rules, i) \in Nat /\ Rank(rules, i) > 0
      BY <2>3 DEF Counting, RanksCount
    <3>2. Rank(rules, i) <= Rank(rules, m)
      <4>1. i \in 0..m
        OBVIOUS
      <4> QED
        BY <4>1 DEF Counting, RanksCount
    <3>3. Rank(rules, i) \in 1..Len(got)
      BY <1>1, <1>3, <3>1, <3>2
    <3>4. more[Rank(rules, i)] = got[Rank(rules, i)]
      BY <3>3
    <3> QED
      BY <1>1, <2>3, <3>4
  <2> HIDE DEF more
  <2>4. \A i \in 1..(m + 1) : rules[i].n # 0 => more[Rank(rules, i)] = rules[i]
    BY <1>2, <2>2, <2>3
  <2> QED
    BY <2>2, <2>4, Zenon DEF Kept, more
<1> QED
  BY <1>4, <1>5

(* One more field: set, or the default already.                            *)
LEMMA UpToField ==
  ASSUME NEW event, NEW got, HasFields(got, 15), NEW i \in 1..14, IsUpTo(i - 1, event, got)
  PROVE  /\ event[i] = EmptyEvent[i] => IsUpTo(i, event, got)
         /\ \A more : Sets(more, got, i, event[i]) =>
              IsUpTo(i, event, more) /\ HasFields(more, 15) /\ more[15] = got[15]
<1>1. \A f \in 1..14 : got[f] = IF f <= i - 1 THEN event[f] ELSE EmptyEvent[f]
  BY DEF IsUpTo
<1>2. Kept(got[15], event[15], 0)
  <2>1. ~(i - 1 > 15)
    OBVIOUS
  <2> QED
    BY <2>1 DEF IsUpTo
<1>3. ~(i > 15)
  OBVIOUS
<1>4. ASSUME event[i] = EmptyEvent[i] PROVE IsUpTo(i, event, got)
  <2>1. ASSUME NEW f \in 1..14 PROVE got[f] = IF f <= i THEN event[f] ELSE EmptyEvent[f]
    <3>1. f <= i <=> f <= i - 1 \/ f = i
      OBVIOUS
    <3> QED
      BY <1>1, <1>4, <3>1
  <2> QED
    BY <1>2, <1>3, <2>1 DEF IsUpTo
<1> DEFINE more == [got EXCEPT ![i] = event[i]]
<1>5. /\ more = [f \in 1..15 |-> IF f = i THEN event[i] ELSE got[f]]
  BY DEF HasFields
<1>6. HasFields(more, 15) /\ more[15] = got[15] /\ \A f \in 1..14 : more[f] = IF f = i THEN event[i] ELSE got[f]
  BY <1>5 DEF HasFields
<1> HIDE DEF more
<1>7. ASSUME NEW f \in 1..14 PROVE more[f] = IF f <= i THEN event[f] ELSE EmptyEvent[f]
  <2>1. f <= i <=> f <= i - 1 \/ f = i
    OBVIOUS
  <2> QED
    BY <1>1, <1>6, <2>1
<1>8. IsUpTo(i, event, more)
  BY <1>2, <1>3, <1>6, <1>7 DEF IsUpTo
<1> QED
  BY <1>4, <1>6, <1>8, Zenon DEF more, Sets

(* The number of rules is not written by Protobuf.                         *)
LEMMA UpToCount ==
  ASSUME NEW event, NEW got, IsUpTo(14, event, got)
  PROVE  IsUpTo(15, event, got)
<1>1. ~(14 > 15) /\ ~(15 > 15) /\ \A f \in 1..14 : f <= 14 /\ f <= 15
  OBVIOUS
<1> QED
  BY <1>1 DEF IsUpTo

(* One more rule, as UpToField for a field.                                *)
LEMMA UpToRule ==
  ASSUME Counting, NEW event, NEW got, HasFields(got, 15), got[15] \in Seq(Texts), NEW i \in Nat, i > 15,
         event[15][i - 15] \in Texts, IsUpTo(i - 1, event, got)
  PROVE  LET x == event[15][i - 15]
             more == [got EXCEPT ![15] = Append(@, x)] IN
         /\ x.n = 0 => IsUpTo(i, event, got)
         /\ x.n # 0 => IsUpTo(i, event, more)
         /\ HasFields(more, 15) /\ more[15] \in Seq(Texts)
<1> DEFINE x == event[15][i - 15]
           more == [got EXCEPT ![15] = Append(@, x)]
           m == i - 16
<1>1. m \in Nat /\ m + 1 = i - 15
  OBVIOUS
<1>2. (IF i - 1 > 15 THEN i - 1 - 15 ELSE 0) = m /\ (IF i > 15 THEN i - 15 ELSE 0) = m + 1
  OBVIOUS
<1>3. \A f \in 1..14 : f <= i /\ f <= i - 1
  OBVIOUS
<1>4. \A f \in 1..14 : got[f] = event[f]
  BY <1>3 DEF IsUpTo
<1>5. Kept(got[15], event[15], m)
  BY <1>2 DEF IsUpTo
<1>6. x = event[15][m + 1]
  BY <1>1
<1> HIDE DEF m
<1>7. /\ x.n = 0 => Kept(got[15], event[15], m + 1)
      /\ x.n # 0 => Kept(Append(got[15], x), event[15], m + 1)
  BY <1>1, <1>5, <1>6, KeptMore
<1> HIDE DEF x
<1>8. more = [f \in 1..15 |-> IF f = 15 THEN Append(got[15], x) ELSE got[f]]
  BY Zenon DEF HasFields
<1>9. x \in Texts
  BY DEF x
<1>10. HasFields(more, 15) /\ more[15] = Append(got[15], x) /\ \A f \in 1..14 : more[f] = got[f]
  <2> DEFINE y == Append(got[15], x)
             d == [f \in 1..15 |-> IF f = 15 THEN y ELSE got[f]]
  <2> HIDE DEF y
  <2>1. HasFields(d, 15) /\ d[15] = y /\ \A f \in 1..14 : d[f] = got[f]
    BY DEF HasFields
  <2> QED
    BY <1>8, <2>1 DEF y
<1> HIDE DEF more
<1>11. more[15] \in Seq(Texts)
  BY <1>9, <1>10
<1>12. x.n = 0 => IsUpTo(i, event, got)
  BY <1>2, <1>3, <1>4, <1>7 DEF IsUpTo
<1>13. x.n # 0 => IsUpTo(i, event, more)
  BY <1>2, <1>3, <1>4, <1>7, <1>10 DEF IsUpTo
<1> QED
  BY <1>10, <1>11, <1>12, <1>13 DEF x, more

(* With the first i - 1 items in hand, the Protobuf decoder takes item i,  *)
(* needs not, or refuses it.                                               *)
LEMMA ProtoStep ==
  ASSUME Counting, NEW c, IsEntry(c), c.codec = "proto", NEW i \in 1..ItemsOf(c), NEW s \in Seq(Element), NEW at \in Nat,
         NEW got, HasFields(got, 15), got[15] \in Seq(Texts), IsUpTo(i - 1, c.value, got)
  PROVE  LET e == Encoded(c, i) IN
         /\ Len(e) = 0 => IsUpTo(i, c.value, got)
         /\ Len(e) > 0 /\ Ends(s, at, e) => ReadProtoField(got, s, at) = Failed
         /\ Len(e) > 0 /\ Holds(s, at, e) =>
              \E more : /\ HasFields(more, 15) /\ more[15] \in Seq(Texts) /\ IsUpTo(i, c.value, more)
                        /\ ReadProtoField(got, s, at) = Ok(more, at + Len(e))
<1> DEFINE e == Encoded(c, i)
           x == ItemOf(c, i)
           f == IF i <= 15 THEN i ELSE 15
           wire == IF KindOf(c, i) = "text" THEN 2 ELSE 0
           more == SetField(got, f, wire, x)
<1>1. /\ e \in Seq(Element)
      /\ \/ /\ Len(e) = 0
            /\ (KindOf(c, i) = "text" /\ x = Empty) \/ (KindOf(c, i) = "int" /\ x = Zero) \/ i = 15
         \/ /\ Len(e) > 0 /\ i # 15
            /\ (KindOf(c, i) = "text" /\ x.n # 0) \/ KindOf(c, i) = "int"
            /\ Ends(s, at, e) => ReadProtoField(got, s, at) = Failed
            /\ Holds(s, at, e) => ReadProtoField(got, s, at) = Ok(more, at + Len(e))
  BY EncodedProto, ZenonT(60)
<1>2. c.shape = EventShape /\ Len(EventShape) = 15 /\ \A g \in 1..14 : EventShape[g] \in {"text", "int"}
  <2>1. c.shape = EventShape
    BY EntryFacts DEF ArrayCodecs
  <2> QED
    BY <2>1, ShapeFacts
<1>3. Len(e) \in Nat
  BY <1>1
<1> HIDE DEF e
<1>4. CASE i \in 1..14
  <2>1. KindOf(c, i) = EventShape[i] /\ x = c.value[i] /\ f = i
    BY <1>2, <1>4 DEF KindOf, ItemOf, ItemKind, Item
  <2>2. ASSUME Len(e) = 0 PROVE IsUpTo(i, c.value, got)
    <3>1. (KindOf(c, i) = "text" /\ x = Empty) \/ (KindOf(c, i) = "int" /\ x = Zero)
      <4>1. ~(Len(e) > 0) /\ i # 15
        BY <1>4, <2>2
      <4> QED
        BY <1>1, <4>1, Zenon
    <3>2. x = EmptyEvent[i]
      BY <1>4, <2>1, <3>1, EmptyFields, ZenonT(60)
    <3> QED
      BY <1>4, <2>1, <3>2, UpToField, Zenon
  <2>3. more = [got EXCEPT ![i] = c.value[i]]
    <3>1. EventShape[i] \in {"text", "int"} /\ i \in 1..15
      BY <1>2, <1>4
    <3>2. CASE EventShape[i] = "text"
      <4>1. wire = 2
        BY <2>1, <3>2
      <4>2. SetField(got, i, 2, c.value[i]) = [got EXCEPT ![i] = c.value[i]]
        BY <3>1, <3>2, SetFieldFacts
      <4> HIDE DEF f, wire, x
      <4> QED
        BY <2>1, <4>1, <4>2, Zenon
    <3>3. CASE EventShape[i] = "int"
      <4>1. wire = 0
        BY <2>1, <3>3
      <4>2. SetField(got, i, 0, c.value[i]) = [got EXCEPT ![i] = c.value[i]]
        BY <3>1, <3>3, SetFieldFacts
      <4> HIDE DEF f, wire, x
      <4> QED
        BY <2>1, <4>1, <4>2, Zenon
    <3> QED
      BY <3>1, <3>2, <3>3
  <2>4. IsUpTo(i, c.value, more) /\ HasFields(more, 15) /\ more[15] \in Seq(Texts)
    <3>1. i \in 1..14 /\ Sets(more, got, i, c.value[i])
      BY <1>4, <2>3 DEF Sets
    <3> HIDE DEF more
    <3>2. IsUpTo(i, c.value, more) /\ HasFields(more, 15) /\ more[15] = got[15]
      BY <3>1, UpToField
    <3> QED
      BY <3>2
  <2> HIDE DEF more
  <2> QED
    BY <1>1, <2>2, <2>4 DEF e
<1>5. CASE i = 15
  <2>1. IsUpTo(14, c.value, got)
    BY <1>5
  <2>2. IsUpTo(15, c.value, got)
    BY <2>1, UpToCount
  <2>3. Len(e) = 0
    BY <1>1, <1>5
  <2> QED
    BY <1>5, <2>2, <2>3 DEF e
<1>6. CASE i > 15
  <2>1. /\ KindOf(c, i) = "text" /\ x = c.value[15][i - 15] /\ f = 15
    BY <1>2, <1>6 DEF KindOf, ItemOf, ItemKind, Item
  <2>2. x \in Texts /\ wire = 2
    BY <2>1, EntryFacts DEF IsOf
  <2>3. more = [got EXCEPT ![15] = Append(@, x)]
    <3>1. 15 \in 1..15
      OBVIOUS
    <3>2. SetField(got, 15, 2, x) = [got EXCEPT ![15] = Append(@, x)]
      BY <3>1, SetFieldFacts
    <3> HIDE DEF f, wire, x
    <3> QED
      BY <2>1, <2>2, <3>2, Zenon
  <2> HIDE DEF x, more
  <2>4. Len(e) = 0 => x.n = 0
    <3>1. Len(e) = 0 => ~(Len(e) > 0) /\ i # 15
      BY <1>6
    <3>2. Len(e) = 0 => x = Empty
      BY <1>1, <2>1, <3>1, Zenon
    <3> QED
      BY <3>2 DEF Empty
  <2>5. Len(e) > 0 => x.n # 0
    <3>1. Len(e) > 0 => Len(e) # 0
      OBVIOUS
    <3> QED
      BY <1>1, <2>1, <3>1, Zenon
  <2>6. /\ x.n = 0 => IsUpTo(i, c.value, got)
        /\ x.n # 0 => IsUpTo(i, c.value, [got EXCEPT ![15] = Append(@, x)])
        /\ HasFields([got EXCEPT ![15] = Append(@, x)], 15)
        /\ [got EXCEPT ![15] = Append(@, x)][15] \in Seq(Texts)
    <3>1. i \in Nat /\ i > 15 /\ c.value[15][i - 15] \in Texts
      BY <1>6, <2>1, <2>2
    <3> QED
      BY <2>1, <3>1, UpToRule, ZenonT(60)
  <2>7. Len(e) = 0 => IsUpTo(i, c.value, got)
    BY <2>4, <2>6
  <2>8. Len(e) > 0 => IsUpTo(i, c.value, more) /\ HasFields(more, 15) /\ more[15] \in Seq(Texts)
    BY <2>3, <2>5, <2>6
  <2> QED
    BY <1>1, <2>7, <2>8 DEF e
<1> QED
  BY <1>4, <1>5, <1>6

(* The Protobuf decoder stands before an item that was written, or at the  *)
(* end of all.                                                             *)
LEMMA LastPlace ==
  ASSUME Counting, NEW c, IsEntry(c), c.codec = "proto", NEW w, NEW m, Layout(w, c, m), Len(m) = ItemsOf(c) + 1,
         NEW s \in Seq(Element), NEW r, ProtoAt(w, c, m, s, r)
  PROVE  \E i \in 1..(ItemsOf(c) + 1) :
           /\ r.at = m[i] /\ Intact(w, s, m[i]) /\ IsUpTo(i - 1, c.value, r.got)
           /\ i \in 1..ItemsOf(c) => Len(Encoded(c, i)) > 0
<1> DEFINE n == ItemsOf(c)
           At(i) == r.at = m[i] /\ Intact(w, s, m[i]) /\ IsUpTo(i - 1, c.value, r.got)
           P == {i \in 1..(n + 1) : At(i)}
<1>1. n \in Nat
  BY EntryFacts
<1>2. P # {} /\ P \subseteq 1..(n + 1) /\ n + 1 \in Nat
  BY <1>1 DEF ProtoAt
<1>3. PICK i \in P : \A j \in P : j <= i
  <2> HIDE DEF P
  <2> QED
    BY <1>2, ZenonT(60) DEF Counting, HaveLargest
<1>4. i \in 1..(n + 1) /\ At(i)
  OBVIOUS
<1> HIDE DEF P, At
<1>5. ASSUME i \in 1..n, Len(Encoded(c, i)) = 0 PROVE FALSE
  <2>1. m[i + 1] = m[i] + Len(Encoded(c, i)) /\ m \in Seq(Nat)
    <3>1. i \in 1..(Len(m) - 1)
      BY <1>1, <1>5
    <3> QED
      BY <3>1, ZenonT(60) DEF Layout
  <2>2. m[i] \in Nat
    BY <1>1, <1>4, <2>1
  <2>3. m[i + 1] = m[i]
    BY <1>5, <2>1, <2>2
  <2>4. IsUpTo(i, c.value, r.got)
    <3>1. HasFields(r.got, 15) /\ r.got[15] \in Seq(Texts) /\ IsUpTo(i - 1, c.value, r.got)
      BY <1>4, Zenon DEF ProtoAt, At
    <3> QED
      BY <1>5, <2>2, <3>1, ProtoStep, Zenon
  <2>5. i + 1 \in 1..(n + 1) /\ (i + 1) - 1 = i
    BY <1>1, <1>5
  <2>6. At(i + 1)
    <3>1. r.at = m[i + 1] /\ Intact(w, s, m[i + 1])
      BY <1>4, <2>3, Zenon DEF At
    <3>2. IsUpTo((i + 1) - 1, c.value, r.got)
      BY <2>4, <2>5, Zenon
    <3> QED
      BY <3>1, <3>2, Zenon DEF At
  <2>7. i + 1 \in P
    BY <2>5, <2>6, Zenon DEF P
  <2>8. i + 1 <= i
    BY <1>3, <2>7, Zenon
  <2> QED
    BY <1>5, <2>8
<1>6. i \in 1..n => Len(Encoded(c, i)) \in Nat
  <2>1. i \in 1..n => Encoded(c, i) \in Seq(Element)
    BY EncodedProto, ZenonT(60)
  <2> QED
    BY <2>1
<1>7. i \in 1..n => Len(Encoded(c, i)) > 0
  BY <1>5, <1>6
<1> QED
  BY <1>4, <1>7, Zenon DEF At

(* From there it reads on to the place behind that item, or finds damage.  *)
LEMMA ProtoGoesOn ==
  ASSUME Counting, NEW c, IsEntry(c), c.codec = "proto", NEW w, NEW m, Layout(w, c, m), Len(m) = ItemsOf(c) + 1,
         NEW s, NEW d, Became(w, s, d), NEW r, ProtoAt(w, c, m, s, r), r.at < Len(s)
  PROVE  LET q == ReadProtoField(r.got, s, r.at) IN
         \/ q.ok /\ \A t : t.codec = r.codec /\ t.shape = r.shape /\ t.at = q.at /\ t.got = q.value =>
                      ProtoAt(w, c, m, s, t)
         \/ q = Failed /\ d # "none"
<1> DEFINE q == ReadProtoField(r.got, s, r.at)
           n == ItemsOf(c)
<1>1. s \in Seq(Element) /\ Len(s) \in Nat
  BY DEF Became
<1>2. PICK i \in 1..(n + 1) :
        /\ r.at = m[i] /\ Intact(w, s, m[i]) /\ IsUpTo(i - 1, c.value, r.got)
        /\ i \in 1..n => Len(Encoded(c, i)) > 0
  BY <1>1, LastPlace, Zenon
<1>3. /\ w \in Seq(Element) /\ n \in Nat /\ m[n + 1] = Len(w) /\ m[i] \in Nat
      /\ i \in 1..n => /\ i + 1 \in 1..(n + 1) /\ (i + 1) - 1 = i
                       /\ m[i + 1] = m[i] + Len(Encoded(c, i)) /\ Holds(w, m[i], Encoded(c, i))
  <2>1. i \in 1..n => (i + 1) - 1 = i
    OBVIOUS
  <2> QED
    BY <2>1, PlaceFacts, Zenon
<1>4. r.codec = "proto" /\ r.shape = c.shape /\ c.shape = EventShape /\ HasFields(r.got, 15) /\ r.got[15] \in Seq(Texts)
  BY ZenonT(60) DEF ProtoAt
<1>5. CASE i = n + 1
  <2>1. Intact(w, s, Len(w)) /\ r.at = Len(w) /\ Len(w) \in Nat
    <3>1. m[i] = Len(w)
      BY <1>3, <1>5, Zenon
    <3>2. Len(w) \in Nat
      BY <1>3
    <3> QED
      BY <1>2, <3>1, <3>2, Zenon
  <2>2. d = "extended" /\ Len(s) = Len(w) + 1
    <3>1. \/ d = "none" /\ Len(s) = Len(w)
          \/ d = "extended" /\ Len(s) = Len(w) + 1
      BY <1>3, <2>1, AllThere
    <3> QED
      BY <1>1, <2>1, <3>1
  <2>3. q = Failed
    BY <1>1, <2>1, <2>2, ExtraField
  <2>4. d # "none"
    BY <2>2
  <2> QED
    BY <2>3, <2>4, Zenon
<1>6. CASE i \in 1..n
  <2> DEFINE e == Encoded(c, i)
  <2>1. e \in Seq(Element) /\ Len(e) > 0
    BY <1>1, <1>2, <1>6, EncodedProto, Zenon
  <2>2. /\ Ends(s, m[i], e) => q = Failed
        /\ Holds(s, m[i], e) =>
             \E more : /\ HasFields(more, 15) /\ more[15] \in Seq(Texts) /\ IsUpTo(i, c.value, more)
                       /\ q = Ok(more, m[i] + Len(e))
    <3>1. /\ Len(e) > 0 /\ Ends(s, m[i], e) => ReadProtoField(r.got, s, m[i]) = Failed
          /\ Len(e) > 0 /\ Holds(s, m[i], e) =>
               \E more : /\ HasFields(more, 15) /\ more[15] \in Seq(Texts) /\ IsUpTo(i, c.value, more)
                         /\ ReadProtoField(r.got, s, m[i]) = Ok(more, m[i] + Len(e))
      <4>1. i \in 1..ItemsOf(c) /\ m[i] \in Nat /\ s \in Seq(Element) /\ IsUpTo(i - 1, c.value, r.got)
        BY <1>1, <1>2, <1>3, <1>6, Zenon
      <4>2. HasFields(r.got, 15) /\ r.got[15] \in Seq(Texts)
        BY <1>4, Zenon
      <4> QED
        BY <4>1, <4>2, ProtoStep, ZenonT(60)
    <3> QED
      BY <1>2, <2>1, <3>1, ZenonT(60)
  <2> HIDE DEF e, q
  <2>3. Holds(w, m[i], e) /\ m[i + 1] = m[i] + Len(e)
    BY <1>3, <1>6 DEF e
  <2>4. \/ Holds(s, m[i], e) /\ Intact(w, s, m[i + 1])
        \/ Ends(s, m[i], e) /\ d = "cut"
    BY <1>2, <1>3, <2>1, <2>3, PassOver
  <2>5. ASSUME Holds(s, m[i], e), Intact(w, s, m[i + 1])
        PROVE  q.ok /\ \A t : t.codec = r.codec /\ t.shape = r.shape /\ t.at = q.at /\ t.got = q.value =>
                      ProtoAt(w, c, m, s, t)
    <3>1. PICK more : /\ HasFields(more, 15) /\ more[15] \in Seq(Texts) /\ IsUpTo(i, c.value, more)
                      /\ q = Ok(more, m[i + 1])
      BY <2>2, <2>3, <2>5
    <3>2. q.ok /\ q.value = more /\ q.at = m[i + 1]
      BY <3>1 DEF Ok
    <3>3. ASSUME NEW t, t.codec = r.codec /\ t.shape = r.shape /\ t.at = q.at /\ t.got = q.value
          PROVE  ProtoAt(w, c, m, s, t)
      <4>1. i + 1 \in 1..(n + 1) /\ t.at = m[i + 1] /\ Intact(w, s, m[i + 1]) /\ IsUpTo((i + 1) - 1, c.value, t.got)
        BY <1>3, <1>6, <2>5, <3>1, <3>2, <3>3, ZenonT(60)
      <4> QED
        <5>1. /\ t.codec = "proto" /\ t.shape = c.shape /\ c.shape = EventShape
              /\ HasFields(t.got, 15) /\ t.got[15] \in Seq(Texts)
          BY <1>4, <3>1, <3>2, <3>3, Zenon
        <5>2. \E j \in 1..(n + 1) : t.at = m[j] /\ Intact(w, s, m[j]) /\ IsUpTo(j - 1, c.value, t.got)
          BY <4>1, Zenon
        <5> QED
          BY <5>1, <5>2, Zenon DEF ProtoAt
    <3> QED
      BY <3>2, <3>3, Zenon
  <2>6. ASSUME Ends(s, m[i], e), d = "cut" PROVE q = Failed /\ d # "none"
    BY <2>2, <2>6
  <2> QED
    BY <2>4, <2>5, <2>6, Zenon DEF q
<1>7. i = n + 1 \/ i \in 1..n
  BY <1>3
<1> QED
  BY <1>5, <1>6, <1>7, Zenon

(* When no byte is left, it has the whole event, or the event up to where  *)
(* it was cut.                                                             *)
LEMMA ProtoStops ==
  ASSUME Counting, NEW c, IsEntry(c), c.codec = "proto", NEW w, NEW m, Layout(w, c, m), Len(m) = ItemsOf(c) + 1,
         NEW s, NEW d, Became(w, s, d), NEW r, ProtoAt(w, c, m, s, r), ~(r.at < Len(s))
  PROVE  /\ d # "extended"
         /\ d = "none" => IsUpTo(ItemsOf(c), c.value, r.got)
         /\ \E k \in 0..ItemsOf(c) : IsUpTo(k, c.value, r.got)
<1> DEFINE n == ItemsOf(c)
<1>1. s \in Seq(Element) /\ Len(s) \in Nat
  BY DEF Became
<1>2. PICK i \in 1..(n + 1) :
        /\ r.at = m[i] /\ Intact(w, s, m[i]) /\ IsUpTo(i - 1, c.value, r.got)
        /\ i \in 1..n => Len(Encoded(c, i)) > 0
  BY <1>1, LastPlace, Zenon
<1>3. /\ w \in Seq(Element) /\ n \in Nat /\ m[n + 1] = Len(w) /\ m[i] \in Nat
      /\ i \in 1..n => m[i + 1] = m[i] + Len(Encoded(c, i)) /\ Holds(w, m[i], Encoded(c, i))
  BY PlaceFacts, Zenon
<1>4. m[i] = Len(s) /\ m[i] <= Len(w) /\ Len(w) \in Nat
  <2>1. m[i] \in Nat /\ m[i] <= Len(w) /\ m[i] <= Len(s) /\ ~(m[i] < Len(s))
    BY <1>2, <1>3, Zenon DEF Intact
  <2>2. Len(w) \in Nat
    BY <1>3
  <2> QED
    BY <1>1, <2>1, <2>2
<1>5. d # "extended"
  BY <1>1, <1>4 DEF Became
<1>6. ASSUME d = "none" PROVE IsUpTo(n, c.value, r.got)
  <2>1. m[i] = Len(w)
    BY <1>4, <1>6 DEF Became
  <2>2. i \in 1..n => m[i] + Len(Encoded(c, i)) <= Len(w)
    BY <1>3 DEF Holds
  <2>3. i \in 1..n => Encoded(c, i) \in Seq(Element)
    BY <1>1, EncodedProto, Zenon
  <2>4. ~(i \in 1..n)
    BY <1>2, <1>4, <2>1, <2>2, <2>3
  <2>5. i - 1 = n
    BY <1>3, <2>4
  <2> QED
    BY <1>2, <2>5
<1>7. i - 1 \in 0..n
  BY <1>3
<1> QED
  BY <1>2, <1>5, <1>6, <1>7

(* A Protobuf decoder begins with the event without fields.                *)
LEMMA EmptyIsUpTo ==
  ASSUME Counting, NEW event
  PROVE  HasFields(EmptyEvent, 15) /\ EmptyEvent[15] = <<>> /\ IsUpTo(0, event, EmptyEvent)
<1>1. Len(EventShape) = 15 /\ EventShape[15] = "texts" /\ 15 \in 1..15
  BY ShapeFacts
<1>2. EmptyEvent[15] = <<>>
  <2>1. EmptyEvent[15] = CASE EventShape[15] = "text" -> Empty [] EventShape[15] = "int" -> Zero [] OTHER -> <<>>
    BY <1>1 DEF EmptyEvent
  <2> QED
    BY <1>1, <2>1
<1>3. HasFields(EmptyEvent, 15)
  BY <1>1 DEF HasFields, EmptyEvent
<1>4. Rank(event[15], 0) = 0
  BY DEF Counting, RanksCount
<1>5. Kept(<<>>, event[15], 0)
  BY <1>4 DEF Kept
<1>6. \A f \in 1..14 : ~(f <= 0)
  OBVIOUS
<1> QED
  BY <1>2, <1>3, <1>5, <1>6 DEF IsUpTo

(* Unmarshal starts.                                                       *)
LEMMA InvLoad ==
  ASSUME Counting, Inv, NEW codec \in Codecs, NEW shape \in {EventShape, ProfileShape}, Load(codec, shape)
  PROVE  Inv'
<1> DEFINE count == ReadCount(codec, raw, 0)
<1>1. /\ stage = "stored" /\ IsEntry(entry) /\ Len(marks) = ItemsOf(entry) + 1
      /\ entry' = entry /\ marks' = marks /\ raw' = raw /\ damage' = damage
  BY DEF Inv, Load
<1>2. PICK w : Layout(w, entry, marks) /\ Became(w, raw, damage)
  BY <1>1 DEF Inv, InStore
<1>3. /\ codec = "proto" => entry.codec = "proto" /\ shape = EventShape
      /\ reader' = [codec |-> codec, shape |-> shape, at |-> IF codec = "proto" THEN 0 ELSE count.at,
                    got |-> IF codec = "proto" THEN EmptyEvent ELSE <<>>]
      /\ IF codec = "proto" \/ (count.ok /\ count.value = Len(shape))
         THEN stage' = "reading" ELSE result' = Failed /\ stage' = "loaded"
  BY DEF Load, Return
<1> HIDE DEF count
<1>4. IsEntry(entry') /\ Layout(w, entry', marks') /\ Became(w, raw', damage') /\ Len(marks') = ItemsOf(entry') + 1
  BY <1>1, <1>2
<1>5. /\ w \in Seq(Element) /\ marks[1] \in Nat /\ ItemsOf(entry) \in Nat /\ 1 \in 1..(ItemsOf(entry) + 1)
      /\ marks[1] = Len(HeaderOf(entry))
  <2>1. w \in Seq(Element) /\ marks \in Seq(Nat) /\ marks[1] = Len(HeaderOf(entry))
    BY <1>2 DEF Layout
  <2>2. ItemsOf(entry) \in Nat /\ Len(HeaderOf(entry)) \in Nat
    BY <1>1, EntryFacts, HeaderFacts
  <2> QED
    BY <2>1, <2>2
<1>6. CASE codec = "proto"
  <2>1. /\ (reader').codec = "proto" /\ (reader').shape = EventShape /\ (reader').at = 0
        /\ (reader').got = EmptyEvent /\ entry.codec = "proto" /\ stage' = "reading"
        /\ reader' = [codec |-> (reader').codec, shape |-> (reader').shape, at |-> (reader').at, got |-> (reader').got]
    BY <1>3, <1>6
  <2>2. entry.shape = EventShape /\ marks[1] = 0
    <3>1. "proto" \notin ArrayCodecs /\ Len(<<>>) = 0
      BY DEF ArrayCodecs
    <3> QED
      BY <1>1, <1>5, <2>1, <3>1, EntryFacts, HeaderFacts
  <2>3. Intact(w, raw, 0)
    <3>1. raw \in Seq(Element)
      BY <1>2 DEF Became
    <3> QED
      BY <1>5, <3>1 DEF Intact
  <2>4. <<>> \in Seq(Texts) /\ 1 - 1 = 0
    OBVIOUS
  <2>5. IsUpTo(1 - 1, entry.value, EmptyEvent) /\ HasFields(EmptyEvent, 15) /\ EmptyEvent[15] \in Seq(Texts)
    BY <2>4, EmptyIsUpTo, Zenon
  <2>6. ProtoAt(w, entry', marks', raw', reader')
    BY <1>1, <1>5, <2>1, <2>2, <2>3, <2>5 DEF ProtoAt
  <2> QED
    BY <1>4, <2>1, <2>6, KeepsReading DEF ReaderAt
<1>7. CASE codec \in ArrayCodecs
  <2>1. codec # "proto"
    BY <1>7 DEF ArrayCodecs
  <2>2. /\ (reader').codec = codec /\ (reader').shape = shape /\ (reader').at = count.at /\ (reader').got = <<>>
        /\ reader' = [codec |-> (reader').codec, shape |-> (reader').shape, at |-> (reader').at, got |-> (reader').got]
    BY <1>3, <2>1
  <2>3. CASE codec = entry.codec /\ shape = entry.shape
    <3>1. \/ count = Ok(Len(shape), marks[1]) /\ Intact(w, raw, marks[1])
          \/ count = Failed /\ damage = "cut"
      BY <1>1, <1>2, <1>7, <2>3, OwnStart DEF count
    <3>2. CASE count = Ok(Len(shape), marks[1]) /\ Intact(w, raw, marks[1])
      <4>1. count.ok /\ count.value = Len(shape) /\ count.at = marks[1]
        BY <3>2 DEF Ok
      <4>2. stage' = "reading"
        BY <1>3, <4>1
      <4>3. Gets(entry, 1) = <<>>
        <5>1. 1..(1 - 1) = {}
          OBVIOUS
        <5> QED
          BY <5>1 DEF Gets
      <4>4. ArrayAt(w, entry', marks', raw', reader')
        BY <1>1, <1>5, <1>7, <2>2, <2>3, <3>2, <4>1, <4>3 DEF ArrayAt
      <4> QED
        BY <1>4, <2>2, <4>2, <4>4, KeepsReading DEF ReaderAt
    <3>3. CASE count = Failed /\ damage = "cut"
      <4>1. ~count.ok
        BY <3>3 DEF Failed
      <4>2. stage' = "loaded" /\ result' = Failed
        BY <1>3, <2>1, <4>1
      <4>3. AsPromised'
        BY <1>1, <3>3, <4>2, LoadFails
      <4> QED
        BY <1>4, <4>2, <4>3, Returns
    <3> QED
      BY <3>1, <3>2, <3>3
  <2>4. CASE ~(codec = entry.codec /\ shape = entry.shape)
    <3>1. CASE count.ok /\ count.value = Len(shape)
      <4>1. count.at \in Nat /\ count.at >= Len(raw)
        BY <1>1, <1>2, <1>7, <2>4, <3>1, OtherStart DEF count
      <4>2. Astray(entry', raw', reader')
        BY <1>1, <1>7, <2>2, <2>4, <4>1 DEF Astray
      <4>3. stage' = "reading"
        BY <1>3, <3>1
      <4> QED
        BY <1>4, <2>2, <4>2, <4>3, KeepsReading DEF ReaderAt
    <3>2. CASE ~(count.ok /\ count.value = Len(shape))
      <4>1. stage' = "loaded" /\ result' = Failed
        BY <1>3, <2>1, <3>2
      <4>2. ~ByItsOwn'
        BY <1>1, <2>2, <2>4 DEF ByItsOwn
      <4>3. AsPromised'
        BY <4>1, <4>2, LoadFails
      <4> QED
        BY <1>4, <4>1, <4>3, Returns
    <3> QED
      BY <3>1, <3>2
  <2> QED
    BY <2>3, <2>4
<1> QED
  BY <1>6, <1>7 DEF Codecs

(* Unmarshal of Protobuf reads the next field, or returns.                 *)
LEMMA InvReadNextProtoField ==
  ASSUME Counting, Inv, ReadNextProtoField
  PROVE  Inv'
<1> DEFINE r == ReadProtoField(reader.got, raw, reader.at)
           n == ItemsOf(entry)
<1>1. /\ stage = "reading" /\ IsEntry(entry) /\ Len(marks) = n + 1
      /\ entry' = entry /\ marks' = marks /\ raw' = raw /\ damage' = damage /\ reader.codec = "proto"
  BY DEF Inv, ReadNextProtoField
<1>2. PICK w : Layout(w, entry, marks) /\ Became(w, raw, damage) /\ ReaderAt(w, entry, marks, raw, reader)
  BY <1>1 DEF Inv, InStore
<1>3. /\ reader.at < Len(raw) /\ r.ok =>
           reader' = [reader EXCEPT !.at = r.at, !.got = r.value] /\ stage' = "reading"
      /\ reader.at < Len(raw) /\ ~r.ok => result' = Failed /\ stage' = "loaded"
      /\ ~(reader.at < Len(raw)) => /\ result' = Ok(reader.got, reader.at)
                                    /\ stage' = "loaded" /\ reader' = reader
  BY <1>1 DEF ReadNextProtoField, GoOn, Return
<1> HIDE DEF r
<1>4. IsEntry(entry') /\ Layout(w, entry', marks') /\ Became(w, raw', damage') /\ Len(marks') = ItemsOf(entry') + 1
  BY <1>1, <1>2
<1>5. /\ reader = [codec |-> reader.codec, shape |-> reader.shape, at |-> reader.at, got |-> reader.got]
      /\ ProtoAt(w, entry, marks, raw, reader)
  <2>1. "proto" \notin ArrayCodecs
    BY DEF ArrayCodecs
  <2> QED
    BY <1>1, <1>2, <2>1 DEF ReaderAt, ArrayAt, Astray
<1>6. entry.codec = "proto"
  BY <1>5 DEF ProtoAt
<1>7. CASE reader.at < Len(raw)
  <2>1. \/ r.ok /\ \A t : t.codec = reader.codec /\ t.shape = reader.shape /\ t.at = r.at /\ t.got = r.value =>
                     ProtoAt(w, entry, marks, raw, t)
        \/ r = Failed /\ damage # "none"
    BY <1>1, <1>2, <1>5, <1>6, <1>7, ProtoGoesOn DEF r
  <2>2. CASE r.ok
    <3>1. reader' = [reader EXCEPT !.at = r.at, !.got = r.value] /\ stage' = "reading"
      BY <1>3, <1>7, <2>2
    <3>2. /\ (reader').codec = reader.codec /\ (reader').shape = reader.shape
          /\ (reader').at = r.at /\ (reader').got = r.value
          /\ reader' = [codec |-> (reader').codec, shape |-> (reader').shape,
                        at |-> (reader').at, got |-> (reader').got]
      BY <1>5, <3>1, Zenon
    <3>3. \A t : t.codec = reader.codec /\ t.shape = reader.shape /\ t.at = r.at /\ t.got = r.value =>
            ProtoAt(w, entry, marks, raw, t)
      <4>1. ~Failed.ok
        BY DEF Failed
      <4> QED
        BY <2>1, <2>2, <4>1
    <3>4. ProtoAt(w, entry, marks, raw, reader')
      BY <3>2, <3>3
    <3>5. ProtoAt(w, entry', marks', raw', reader')
      BY <1>1, <3>4
    <3> QED
      BY <1>4, <3>1, <3>2, <3>5, KeepsReading DEF ReaderAt
  <2>3. CASE ~r.ok
    <3>1. damage # "none"
      BY <2>1, <2>3
    <3>2. result' = Failed /\ stage' = "loaded"
      BY <1>3, <1>7, <2>3
    <3>3. AsPromised'
      BY <1>1, <3>1, <3>2, LoadFails
    <3> QED
      BY <1>4, <3>2, <3>3, Returns
  <2> QED
    BY <2>2, <2>3
<1>8. CASE ~(reader.at < Len(raw))
  <2>1. /\ damage # "extended" /\ (damage = "none" => IsUpTo(n, entry.value, reader.got))
        /\ \E k \in 0..n : IsUpTo(k, entry.value, reader.got)
    BY <1>1, <1>2, <1>5, <1>6, <1>8, ProtoStops
  <2>2. result' = Ok(reader.got, reader.at) /\ stage' = "loaded" /\ reader' = reader
    BY <1>3, <1>8
  <2>3. (result').ok /\ (result').value = reader.got
    BY <2>2 DEF Ok
  <2>4. "proto" \notin ArrayCodecs
    BY DEF ArrayCodecs
  <2>5. RoundTrip'
    BY <1>1, <1>6, <2>1, <2>3 DEF RoundTrip, ItemsOf
  <2>6. DamageNoticed'
    BY <1>1, <2>1, <2>2, <2>4 DEF DamageNoticed
  <2>7. CutEventIsPrefix'
    BY <1>1, <2>1, <2>3 DEF CutEventIsPrefix, ItemsOf
  <2> QED
    BY <1>4, <2>2, <2>5, <2>6, <2>7, Returns DEF AsPromised
<1> QED
  BY <1>7, <1>8

-----------------------------------------------------------------------------
(* Counting, from the theorems on finite sets and on well-founded orders.  *)
INSTANCE FiniteSetTheorems

(* How the number of kept rules grows with the rules gone through.         *)
LEMMA RankFacts ==
  ASSUME NEW rules, NEW i \in Nat
  PROVE  /\ Rank(rules, i) \in Nat /\ Rank(rules, 0) = 0
         /\ rules[i + 1].n = 0 => Rank(rules, i + 1) = Rank(rules, i)
         /\ rules[i + 1].n # 0 => Rank(rules, i + 1) = Rank(rules, i) + 1
         /\ i > 0 /\ rules[i].n # 0 => Rank(rules, i) > 0
         /\ \A k \in 0..i : Rank(rules, k) <= Rank(rules, i)
<1> DEFINE R(k) == {j \in 1..k : rules[j].n # 0}
<1>1. \A k \in Nat : IsFiniteSet(R(k))
  <2>1. \A k \in Nat : IsFiniteSet(1..k) /\ R(k) \subseteq 1..k
    BY FS_Interval
  <2> QED
    BY <2>1, FS_Subset
<1>2. \A k : Rank(rules, k) = Cardinality(R(k))
  BY DEF Rank
<1>3. Rank(rules, i) \in Nat
  BY <1>1, <1>2, FS_CardinalityType, Zenon
<1>4. Rank(rules, 0) = 0
  <2>1. R(0) = {}
    OBVIOUS
  <2> QED
    BY <1>2, <2>1, FS_EmptySet
<1>5. rules[i + 1].n = 0 => Rank(rules, i + 1) = Rank(rules, i)
  <2>1. rules[i + 1].n = 0 => R(i + 1) = R(i)
    OBVIOUS
  <2> QED
    BY <1>2, <2>1, Zenon
<1>6. ASSUME rules[i + 1].n # 0 PROVE Rank(rules, i + 1) = Rank(rules, i) + 1
  <2>1. R(i + 1) = R(i) \cup {i + 1} /\ i + 1 \notin R(i)
    BY <1>6
  <2>2. IsFiniteSet(R(i))
    BY <1>1
  <2> HIDE DEF R
  <2>3. Cardinality(R(i) \cup {i + 1}) = Cardinality(R(i)) + 1
    BY <2>1, <2>2, FS_AddElement
  <2> QED
    BY <1>2, <2>1, <2>3
<1>7. ASSUME i > 0, rules[i].n # 0 PROVE Rank(rules, i) > 0
  <2>1. i \in R(i)
    BY <1>7
  <2>2. IsFiniteSet(R(i))
    BY <1>1
  <2> HIDE DEF R
  <2>3. Cardinality(R(i)) # 0
    BY <2>1, <2>2, FS_EmptySet
  <2> QED
    BY <1>2, <1>3, <2>3
<1>8. ASSUME NEW k \in 0..i PROVE Rank(rules, k) <= Rank(rules, i)
  <2>1. R(k) \subseteq R(i)
    OBVIOUS
  <2>2. IsFiniteSet(R(i))
    BY <1>1
  <2> HIDE DEF R
  <2> QED
    BY <1>2, <2>1, <2>2, FS_Subset
<1> QED
  BY <1>3, <1>4, <1>5, <1>6, <1>7, <1>8

Before == {p \in Nat \X Nat : p[1] < p[2]}

(* A set of numbers up to n that is not empty has a largest one.           *)
LEMMA Largest ==
  ASSUME NEW n \in Nat, NEW P, P \subseteq 1..n, P # {}
  PROVE  \E i \in P : \A j \in P : j <= i
<1> DEFINE Q == {n - i : i \in P}
<1>1. Q \subseteq Nat /\ Q # {}
  <2>1. ASSUME NEW i \in P PROVE n - i \in Nat
    <3>1. i \in 1..n
      OBVIOUS
    <3> QED
      BY <3>1
  <2> QED
    BY <2>1, Zenon
<1>2. IsWellFoundedOn(Before, Nat)
  BY NatLessThanWellFounded DEF Before, OpToRel
<1> HIDE DEF Q
<1>3. PICK x \in Q : \A y \in Q : <<y, x>> \notin Before
  BY <1>1, <1>2, WFMin, Zenon
<1>4. PICK i \in P : x = n - i
  BY DEF Q
<1>5. ASSUME NEW j \in P PROVE j <= i
  <2> DEFINE y == n - j
             p == <<y, x>>
  <2>1. y \in Q
    BY DEF Q
  <2>2. y \in Nat /\ x \in Nat /\ i \in Nat /\ j \in Nat
    BY <1>1, <2>1
  <2>3. p \notin Before
    BY <1>3, <2>1
  <2>4. p \in Nat \X Nat /\ p[1] = y /\ p[2] = x
    BY <2>2
  <2> HIDE DEF p
  <2>5. ~(y < x)
    BY <2>3, <2>4 DEF Before
  <2> QED
    BY <1>4, <2>2, <2>5
<1> QED
  BY <1>5

(* What the proofs above took for granted of counts holds.                 *)
LEMMA CountingHolds == Counting
<1>1. RanksCount
  BY RankFacts DEF RanksCount
<1>2. HaveLargest
  BY Largest, ZenonT(60) DEF HaveLargest
<1> QED
  BY <1>1, <1>2 DEF Counting

-----------------------------------------------------------------------------
(* Every byte of the store is one the encoder appended, in the order of    *)
(* the items, or damage at its end; and a decoder stands between two items *)
(* with exactly the ones before in hand, or finds nothing at all to read.  *)
THEOREM StoreLayout == Spec => []Inv
<1>1. Init => Inv
  BY InvInit
<1>2. Inv /\ [Next]_vars => Inv'
  <2> SUFFICES ASSUME Inv, [Next]_vars PROVE Inv'
    OBVIOUS
  <2>1. CASE \E codec \in Codecs, event \in Events : StoreEvent(codec, event)
    BY <2>1, InvStoreEvent
  <2>2. CASE \E codec \in ArrayCodecs, profile \in Profiles : StoreProfile(codec, profile)
    BY <2>2, InvStoreProfile
  <2>3. CASE AppendNext
    BY <2>3, InvAppendNext
  <2>4. CASE Damage
    BY <2>4, InvDamage
  <2>5. CASE \E codec \in Codecs, shape \in {EventShape, ProfileShape} : Load(codec, shape)
    BY <2>5, CountingHolds, InvLoad
  <2>6. CASE ReadNextItem
    BY <2>6, InvReadNextItem
  <2>7. CASE ReadNextProtoField
    BY <2>7, CountingHolds, InvReadNextProtoField
  <2>8. CASE UNCHANGED vars
    BY <2>8, InvUnchanged
  <2> QED
    BY <2>1, <2>2, <2>3, <2>4, <2>5, <2>6, <2>7, <2>8 DEF Next
<1> QED
  BY <1>1, <1>2, PTL DEF Spec

(* Whatever event or profile is stored by one of the codecs, with texts    *)
(* and rules of any names and any lengths below 65,536 and integers of any *)
(* 64 bits, its own decoder gives back: Unmarshal(Marshal(v)) = v.         *)
THEOREM ValuesRestored == Spec => []RoundTrip
<1>1. Inv => RoundTrip
  BY DEF Inv, AsPromised
<1> QED
  BY <1>1, StoreLayout, PTL

(* The array decoders return an error for every value that was cut short   *)
(* at any byte, has any byte behind it, or belongs to the other codec or   *)
(* the other type; Protobuf for every value with a byte behind it.         *)
THEOREM DamageDetected == Spec => []DamageNoticed
<1>1. Inv => DamageNoticed
  BY DEF Inv, AsPromised
<1> QED
  BY <1>1, StoreLayout, PTL

(* What Protobuf's Unmarshal makes of an event cut short anywhere is an    *)
(* error or the event up to one of its items.                              *)
THEOREM CutEventsArePrefixes == Spec => []CutEventIsPrefix
<1>1. Inv => CutEventIsPrefix
  BY DEF Inv, AsPromised
<1> QED
  BY <1>1, StoreLayout, PTL
=============================================================================

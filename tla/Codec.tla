------------------------------- MODULE Codec -------------------------------
(***************************************************************************)
(* The binary codecs of internal/codec: payment events as Protobuf wire,   *)
(* MsgPack and CBOR, and participant profiles for a cache as MsgPack and   *)
(* CBOR.  A value is stored once, may lose its end or gain a byte in the   *)
(* store, and is loaded by one of the decoders.                            *)
(*                                                                         *)
(* A value is the sequence of its fields in the order of the code.  A text *)
(* is a name and its length in bytes, an integer its 64 bits as 8 bytes,   *)
(* most significant first, so that int64 and uint64 are the same.  A raw   *)
(* value is a sequence of bytes and, for the bytes of a text, the text     *)
(* itself, or what is left of it.  A decoder that comes upon a text where  *)
(* it expects a byte would read characters nothing is known about: none    *)
(* does so in the cases considered here.                                   *)
(*                                                                         *)
(* The encoders append and the decoders read one item a step, as the code  *)
(* does: the fields and, behind the number of fraud rules, the rules.      *)
(***************************************************************************)
EXTENDS Integers, Sequences, FiniteSets

CONSTANTS None,
          Names,          \* what texts consist of
          Events,         \* payment events that are stored
          Profiles,       \* participant profiles
          ExtraBytes,     \* bytes found behind a value
          Losses          \* how many bytes a text may lose

VARIABLES stage,      \* new, writing, stored or refused, reading, loaded
          entry,      \* what is stored: [codec, shape, value]
          damage,     \* none, cut or extended
          raw,        \* the bytes in the store
          marks,      \* history: marks[i], the length of raw before item i was appended
          reader,     \* the decoder: its codec and type, the bytes read, the values got
          result      \* what it returned

vars == <<stage, entry, damage, raw, marks, reader, result>>

EventShape ==
  <<"text", "text", "text", "text", "text", "text", "int", "int",
    "text", "text", "text", "text", "text", "int", "texts">>
ProfileShape == <<"text", "text", "text", "int", "int", "int">>

ArrayCodecs == {"msgpack", "cbor"}
Codecs == ArrayCodecs \cup {"proto"}

-----------------------------------------------------------------------------
Byte(b) == [text |-> None, n |-> b]
Bytes(s) == [i \in 1..Len(s) |-> Byte(s[i])]
Empty == [text |-> None, n |-> 0]

(* The bytes of a head, then those of the text.                            *)
Chars(t) == IF t.n = 0 THEN <<>> ELSE <<t>>

Uint64(n) == <<0, 0, 0, 0, (n \div 16777216) % 256, (n \div 65536) % 256, (n \div 256) % 256, n % 256>>
Nat32(v) == 16777216 * v[5] + 65536 * v[6] + 256 * v[7] + v[8]
Zero == Uint64(0)
Fits(v, k) == \A i \in 1..(8 - k) : v[i] = 0
Power2 == <<1, 2, 4, 8, 16, 32, 64, 128>>

(* MsgPack has 16 bits for the length of a text and the number of rules.   *)
Texts == {Empty} \cup {t \in [text : Names, n : Nat] : 0 < t.n /\ t.n < 65536}
ByteRange == 0..255
Integers64 == [1..8 -> ByteRange]
Kinds == [text |-> Texts, int |-> Integers64]

HasShape(value, shape) ==
  /\ value = [f \in 1..Len(shape) |-> value[f]]
  /\ \A f \in 1..Len(shape) :
       IF shape[f] = "texts" THEN value[f] \in Seq(Texts) /\ Len(value[f]) < 65536
       ELSE value[f] \in Kinds[shape[f]]

ASSUME CodecAssumption ==
  /\ None \notin Names
  /\ \A event \in Events : HasShape(event, EventShape)
  /\ \A profile \in Profiles : HasShape(profile, ProfileShape)
  /\ ExtraBytes \subseteq ByteRange /\ Losses \subseteq Nat \ {0}

-----------------------------------------------------------------------------
(* What a read at a place of s returns: a value and the place behind it,   *)
(* or an error.                                                            *)
Ok(value, at) == [ok |-> TRUE, value |-> value, at |-> at]
Failed == [ok |-> FALSE, value |-> None, at |-> 0]

(* A deliberately wrong form of ReadChars.                                 *)
ReadWhatIsLeft(s, at, length) ==
  IF length = 0 THEN Ok(Empty, at) ELSE IF at < Len(s) THEN Ok(s[at + 1], at + 1) ELSE Failed

ReadChars(s, at, length) ==
  IF length = 0 THEN Ok(Empty, at)
  ELSE IF at < Len(s) /\ s[at + 1].n >= length THEN Ok(s[at + 1], at + 1)
  ELSE Failed

-----------------------------------------------------------------------------
(* cbor.go.  A head is a byte and, from 24 on, 1, 2, 4 or 8 more.          *)
Width(v) ==
  IF Fits(v, 1) THEN IF v[8] < 24 THEN 0 ELSE 1
  ELSE IF Fits(v, 2) THEN 2 ELSE IF Fits(v, 4) THEN 4 ELSE 8

Additional(v) ==
  CASE Width(v) = 0 -> v[8] [] Width(v) = 1 -> 24 [] Width(v) = 2 -> 25
    [] Width(v) = 4 -> 26 [] Width(v) = 8 -> 27

AppendCBORMajor(major, v) ==
  [i \in 1..(1 + Width(v)) |->
     Byte(IF i = 1 THEN 32 * major + Additional(v) ELSE v[7 - Width(v) + i])]

HeadWidth(additional) ==
  CASE additional = 24 -> 1 [] additional = 25 -> 2 [] additional = 26 -> 4
    [] additional = 27 -> 8 [] OTHER -> 0

ReadHead(major, s, at) ==
  LET additional == s[at + 1].n % 32
      width == HeadWidth(additional) IN
  IF at >= Len(s) THEN Failed
  ELSE IF additional > 27 \/ s[at + 1].n \div 32 # major THEN Failed
  ELSE IF at + 1 + width > Len(s) THEN Failed
  ELSE IF additional < 24 THEN Ok(Uint64(additional), at + 1)
  ELSE Ok([i \in 1..8 |-> IF i > 8 - width THEN s[at + i - 7 + width].n ELSE 0], at + 1 + width)

ReadCBORText(s, at) ==
  LET r == ReadHead(3, s, at) IN IF r.ok THEN ReadChars(s, r.at, Nat32(r.value)) ELSE Failed

ReadCBORCount(s, at) ==
  LET r == ReadHead(4, s, at) IN IF r.ok THEN Ok(Nat32(r.value), r.at) ELSE Failed

AppendCBOR(kind, x) ==
  CASE kind = "text"  -> AppendCBORMajor(3, Uint64(x.n)) \o Chars(x)
    [] kind = "int"   -> AppendCBORMajor(0, x)
    [] kind = "texts" -> AppendCBORMajor(4, Uint64(Len(x)))

ReadCBOR(kind, s, at) ==
  CASE kind = "text"  -> ReadCBORText(s, at)
    [] kind = "int"   -> ReadHead(0, s, at)
    [] kind = "texts" -> ReadCBORCount(s, at)

-----------------------------------------------------------------------------
(* msgpack.go.  A deliberately wrong form, and the right one.              *)
FixstrTo32(t) ==
  IF t.n <= 32 THEN Bytes(<<160 + t.n>>) \o Chars(t)
  ELSE Bytes(<<218, t.n \div 256, t.n % 256>>) \o Chars(t)

AppendMsgPackString(t) ==
  IF t.n <= 31 THEN Bytes(<<160 + t.n>>) \o Chars(t)
  ELSE Bytes(<<218, (t.n \div 256) % 256, t.n % 256>>) \o Chars(t)

AppendMsgPackInt64(v) ==
  IF Fits(v, 1) /\ v[8] <= 127 THEN Bytes(<<v[8]>>)
  ELSE [i \in 1..9 |-> Byte(IF i = 1 THEN 211 ELSE v[i - 1])]

AppendMsgPackCount(n) ==
  IF n <= 15 THEN Bytes(<<144 + n>>) ELSE Bytes(<<220, (n \div 256) % 256, n % 256>>)

(* A length in the prefix byte, counted from `fix' on, or in two more.     *)
ReadMsgPackLength(s, at, fix, most, prefix16) ==
  IF at >= Len(s) THEN Failed
  ELSE IF s[at + 1].n \in fix..(fix + most) THEN Ok(s[at + 1].n - fix, at + 1)
  ELSE IF s[at + 1].n = prefix16 /\ at + 3 <= Len(s)
       THEN Ok(256 * s[at + 2].n + s[at + 3].n, at + 3)
  ELSE Failed

ReadMsgPackCount(s, at) == ReadMsgPackLength(s, at, 144, 15, 220)

ReadMsgPackString(s, at) ==
  LET r == ReadMsgPackLength(s, at, 160, 31, 218) IN
  IF r.ok THEN ReadChars(s, r.at, r.value) ELSE Failed

ReadMsgPackInt64(s, at) ==
  IF at >= Len(s) THEN Failed
  ELSE IF s[at + 1].n <= 127 THEN Ok(Uint64(s[at + 1].n), at + 1)
  ELSE IF s[at + 1].n = 211 /\ at + 9 <= Len(s) THEN Ok([i \in 1..8 |-> s[at + 1 + i].n], at + 9)
  ELSE Failed

AppendMsgPack(kind, x) ==
  CASE kind = "text"  -> AppendMsgPackString(x)
    [] kind = "int"   -> AppendMsgPackInt64(x)
    [] kind = "texts" -> AppendMsgPackCount(Len(x))

ReadMsgPack(kind, s, at) ==
  CASE kind = "text"  -> ReadMsgPackString(s, at)
    [] kind = "int"   -> ReadMsgPackInt64(s, at)
    [] kind = "texts" -> ReadMsgPackCount(s, at)

-----------------------------------------------------------------------------
(* proto_wire.go.  A varint holds 7 bits a byte, the lowest ones first.    *)
Octet(v, b) == IF b < 8 THEN v[8 - b] ELSE 0
Group(v, i) ==
  ((Octet(v, (7 * i) \div 8) + 256 * Octet(v, (7 * i) \div 8 + 1)) \div Power2[1 + ((7 * i) % 8)]) % 128

LastGroup(v) ==
  CHOOSE i \in 0..9 : /\ i = 0 \/ Group(v, i) # 0
                      /\ \A j \in (i + 1)..9 : Group(v, j) = 0

AppendProtoVarintRaw(v) ==
  [i \in 1..(LastGroup(v) + 1) |-> Byte(Group(v, i - 1) + (IF i <= LastGroup(v) THEN 128 ELSE 0))]

(* Ten bytes at most, the last below 128; what exceeds 64 bits is dropped. *)
VarintEnds(s, at) == {i \in 1..10 : at + i <= Len(s) /\ s[at + i].n < 128}
VarintLength(s, at) == CHOOSE n \in VarintEnds(s, at) : \A i \in VarintEnds(s, at) : n <= i
Septet(s, at, g) == IF g < VarintLength(s, at) THEN s[at + g + 1].n % 128 ELSE 0

ReadProtoVarint(s, at) ==
  IF VarintEnds(s, at) = {} THEN Failed
  ELSE Ok([i \in 1..8 |->
             LET bit == 8 * (8 - i)
                 low == bit \div 7 IN
             ((Septet(s, at, low) + 128 * Septet(s, at, low + 1)) \div Power2[1 + (bit % 7)]) % 256],
          at + VarintLength(s, at))

ReadProtoString(s, at) ==
  LET length == ReadProtoVarint(s, at) IN
  IF length.ok THEN ReadChars(s, length.at, Nat32(length.value)) ELSE Failed

(* Empty texts and zeros are left out, and there is no number of rules.    *)
AppendProtoString(field, t) ==
  IF t.n = 0 THEN <<>>
  ELSE AppendProtoVarintRaw(Uint64(8 * field + 2)) \o AppendProtoVarintRaw(Uint64(t.n)) \o Chars(t)
AppendProtoVarint(field, v) ==
  IF v = Zero THEN <<>> ELSE AppendProtoVarintRaw(Uint64(8 * field)) \o AppendProtoVarintRaw(v)

AppendProto(field, kind, x) ==
  CASE kind = "text"  -> AppendProtoString(field, x)
    [] kind = "int"   -> AppendProtoVarint(field, x)
    [] kind = "texts" -> <<>>

EmptyEvent ==
  [f \in 1..Len(EventShape) |->
     CASE EventShape[f] = "text" -> Empty [] EventShape[f] = "int" -> Zero [] OTHER -> <<>>]

(* Sets a field; one the event lacks, or of another wire type, is skipped. *)
SetField(event, f, wire, x) ==
  LET kind == IF f \in 1..Len(EventShape) THEN EventShape[f] ELSE "none" IN
  IF <<wire, kind>> \in {<<0, "int">>, <<2, "text">>} THEN [event EXCEPT ![f] = x]
  ELSE IF wire = 2 /\ kind = "texts" THEN [event EXCEPT ![f] = Append(@, x)]
  ELSE event

(* One pass of the loop in Unmarshal: a key and the field behind it.       *)
ReadProtoField(event, s, at) ==
  LET key == ReadProtoVarint(s, at)
      wire == key.value[8] % 8
      field == IF wire = 0 THEN ReadProtoVarint(s, key.at) ELSE ReadProtoString(s, key.at) IN
  IF ~key.ok THEN Failed
  ELSE IF wire \notin {0, 2} THEN Failed
  ELSE IF ~field.ok THEN Failed
  ELSE Ok(SetField(event, Nat32(key.value) \div 8, wire, field.value), field.at)

-----------------------------------------------------------------------------
(* The items of a value: its fields, the last one of an event only as the  *)
(* number of the fraud rules, and then the rules.                          *)
Items(shape, value) == Len(shape) + (IF shape = EventShape THEN Len(value[15]) ELSE 0)
ItemKind(shape, i) == IF i <= Len(shape) THEN shape[i] ELSE "text"
Item(shape, value, i) == IF i <= Len(shape) THEN value[i] ELSE value[Len(shape)][i - Len(shape)]

AppendItem(codec, shape, value, i) ==
  LET kind == ItemKind(shape, i)
      x == Item(shape, value, i) IN
  CASE codec = "cbor"    -> AppendCBOR(kind, x)
    [] codec = "msgpack" -> AppendMsgPack(kind, x)
    [] codec = "proto"   -> AppendProto(IF i <= Len(shape) THEN i ELSE Len(shape), kind, x)

AppendHeader(codec, shape) ==
  CASE codec = "cbor"    -> AppendCBORMajor(4, Uint64(Len(shape)))
    [] codec = "msgpack" -> Bytes(<<220, 0, Len(shape)>>)
    [] codec = "proto"   -> <<>>

ReadItem(codec, kind, s, at) ==
  IF codec = "cbor" THEN ReadCBOR(kind, s, at) ELSE ReadMsgPack(kind, s, at)
ReadCount(codec, s, at) == ReadItem(codec, "texts", s, at)

(* How many items an array decoder reads, given what it has got: as many   *)
(* rules as it was told.                                                   *)
Wanted(shape, got) ==
  Len(shape) + (IF shape = EventShape /\ Len(got) >= 15 THEN got[15] ELSE 0)

Assembled(shape, got) ==
  [f \in 1..Len(shape) |-> IF shape[f] = "texts" THEN SubSeq(got, Len(shape) + 1, Len(got)) ELSE got[f]]

(* Bytes left over are an error; a deliberately wrong form first.          *)
AnyEnd(s, at) == TRUE
AtEnd(s, at) == at = Len(s)

-----------------------------------------------------------------------------
(* validateParticipantProfileCache: receiver, bank, name, risk, resolved   *)
(* and expiry.                                                             *)
Negative(v) == v[1] >= 128
Less(v, w) ==
  IF Negative(v) # Negative(w) THEN Negative(v)
  ELSE \E i \in 1..8 : v[i] < w[i] /\ \A j \in 1..(i - 1) : v[j] = w[j]

ValidateParticipantProfileCache(p) ==
  /\ p[1].n > 0 /\ p[2].n > 0
  /\ ~Negative(p[4]) /\ ~Negative(p[5])
  /\ Less(Zero, p[6]) /\ Less(p[5], p[6])

-----------------------------------------------------------------------------
Init ==
  /\ stage = "new" /\ damage = "none"
  /\ entry = None /\ raw = <<>> /\ marks = <<>>
  /\ reader = None /\ result = None

Begin(codec, shape, value) ==
  /\ entry' = [codec |-> codec, shape |-> shape, value |-> value]
  /\ raw' = AppendHeader(codec, shape)
  /\ marks' = <<Len(raw')>>
  /\ stage' = "writing"
  /\ UNCHANGED <<damage, reader, result>>

StoreEvent(codec, event) == stage = "new" /\ Begin(codec, EventShape, event)

StoreProfile(codec, profile) ==
  /\ stage = "new"
  /\ IF ValidateParticipantProfileCache(profile) THEN Begin(codec, ProfileShape, profile)
     ELSE stage' = "refused" /\ UNCHANGED <<entry, damage, raw, marks, reader, result>>

AppendNext ==
  /\ stage = "writing"
  /\ raw' = raw \o AppendItem(entry.codec, entry.shape, entry.value, Len(marks))
  /\ marks' = Append(marks, Len(raw'))
  /\ stage' = IF Len(marks) = Items(entry.shape, entry.value) THEN "stored" ELSE "writing"
  /\ UNCHANGED <<entry, damage, reader, result>>

(* The end is lost, from an element on or from within a text; or a byte is *)
(* found behind it.                                                        *)
Cut(n) ==
  /\ raw' = SubSeq(raw, 1, n) /\ damage' = "cut"
CutText(n, loss) ==
  /\ raw[n].text # None /\ raw[n].n > loss
  /\ raw' = [SubSeq(raw, 1, n) EXCEPT ![n].n = @ - loss] /\ damage' = "cut"
Extend(b) ==
  /\ raw' = Append(raw, Byte(b)) /\ damage' = "extended"

Damage ==
  /\ stage = "stored" /\ damage = "none"
  /\ \/ \E n \in 0..(Len(raw) - 1) : Cut(n)
     \/ \E n \in 1..Len(raw), loss \in Losses : CutText(n, loss)
     \/ \E b \in ExtraBytes : Extend(b)
  /\ UNCHANGED <<stage, entry, marks, reader, result>>

Return(r) == result' = r /\ stage' = "loaded"

(* A decoder starts: those of arrays with the number of fields.  What      *)
(* Protobuf makes of another codec's bytes depends on the characters of    *)
(* its texts and is left out.                                              *)
Load(codec, shape) ==
  LET count == ReadCount(codec, raw, 0)
      start == IF codec = "proto" THEN 0 ELSE count.at IN
  /\ stage = "stored"
  /\ codec = "proto" => entry.codec = "proto" /\ shape = EventShape
  /\ reader' = [codec |-> codec, shape |-> shape, at |-> start,
                got |-> IF codec = "proto" THEN EmptyEvent ELSE <<>>]
  /\ IF codec = "proto" \/ (count.ok /\ count.value = Len(shape))
     THEN stage' = "reading" /\ UNCHANGED result
     ELSE Return(Failed)
  /\ UNCHANGED <<entry, damage, raw, marks>>

(* The decoder goes on with what r is, or returns the error.               *)
GoOn(r, got) ==
  IF r.ok THEN reader' = [reader EXCEPT !.at = r.at, !.got = got] /\ UNCHANGED <<stage, result>>
  ELSE Return(Failed) /\ UNCHANGED reader

ReadNextItem ==
  LET got == reader.got
      r == ReadItem(reader.codec, ItemKind(reader.shape, Len(got) + 1), raw, reader.at) IN
  /\ stage = "reading" /\ reader.codec \in ArrayCodecs
  /\ IF Len(got) < Wanted(reader.shape, got) THEN GoOn(r, Append(got, r.value))
     ELSE /\ Return(IF AtEnd(raw, reader.at) THEN Ok(Assembled(reader.shape, got), reader.at) ELSE Failed)
          /\ UNCHANGED reader
  /\ UNCHANGED <<entry, damage, raw, marks>>

ReadNextProtoField ==
  LET r == ReadProtoField(reader.got, raw, reader.at) IN
  /\ stage = "reading" /\ reader.codec = "proto"
  /\ IF reader.at < Len(raw) THEN GoOn(r, r.value)
     ELSE Return(Ok(reader.got, reader.at)) /\ UNCHANGED reader
  /\ UNCHANGED <<entry, damage, raw, marks>>

Next ==
  \/ \E codec \in Codecs, event \in Events : StoreEvent(codec, event)
  \/ \E codec \in ArrayCodecs, profile \in Profiles : StoreProfile(codec, profile)
  \/ AppendNext
  \/ Damage
  \/ \E codec \in Codecs, shape \in {EventShape, ProfileShape} : Load(codec, shape)
  \/ ReadNextItem
  \/ ReadNextProtoField

Spec == Init /\ [][Next]_vars

-----------------------------------------------------------------------------
Loaded == stage = "loaded"
ByItsOwn == reader.codec = entry.codec /\ reader.shape = entry.shape

(* The rules Protobuf keeps of the first m: those that are not empty, each *)
(* in its place among them.                                                *)
Rank(rules, i) == Cardinality({j \in 1..i : rules[j].n # 0})
Kept(got, rules, m) ==
  /\ Len(got) = Rank(rules, m)
  /\ \A i \in 1..m : rules[i].n # 0 => got[Rank(rules, i)] = rules[i]

(* What Protobuf makes of the first m items of an event.                   *)
IsUpTo(m, event, got) ==
  /\ \A f \in 1..14 : got[f] = IF f <= m THEN event[f] ELSE EmptyEvent[f]
  /\ Kept(got[15], event[15], IF m > 15 THEN m - 15 ELSE 0)

(* Every value whose texts are shorter than 65,536 bytes comes back as it  *)
(* was, for every sign and size of its integers, at every length at which  *)
(* an encoding changes its form; only Protobuf drops empty fraud rules.    *)
RoundTrip ==
  Loaded /\ damage = "none" /\ ByItsOwn =>
    /\ result.ok
    /\ IF entry.codec = "proto" THEN IsUpTo(Items(entry.shape, entry.value), entry.value, result.value)
       ELSE result.value = entry.value

(* No value is mistaken for another: the array codecs refuse every value   *)
(* that lost its end or gained a byte, and what the other codec wrote or   *)
(* was written for the other type; Protobuf refuses the extra byte.        *)
DamageNoticed ==
  /\ Loaded /\ reader.codec \in ArrayCodecs /\ ~(damage = "none" /\ ByItsOwn) => ~result.ok
  /\ Loaded /\ damage = "extended" => ~result.ok

(* Protobuf cannot notice a loss at the end of a field, but what it then   *)
(* returns is the event up to there and its defaults from there on: never  *)
(* a shortened text or a wrong number.                                     *)
CutEventIsPrefix ==
  Loaded /\ reader.codec = "proto" /\ result.ok =>
    \E m \in 0..Items(entry.shape, entry.value) : IsUpTo(m, entry.value, result.value)
=============================================================================

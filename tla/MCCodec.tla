------------------------------ MODULE MCCodec ------------------------------
(* Codec for TLC: a plain event and a plain profile, and what they become  *)
(* when one field, or two neighbours, take the lengths and numbers at      *)
(* which an encoding changes its form.                                     *)
EXTENDS Codec

Word(n) == IF n = 0 THEN Empty ELSE [text |-> "word", n |-> n]

Lengths == {0, 1, 23, 24, 31, 32, 127, 128, 255, 256, 65535}

Numbers ==
  {Uint64(n) : n \in {0, 23, 24, 127, 128, 255, 256, 65535, 65536, 2147483647}}
    \cup {<<0, 0, 0, 0, 255, 255, 255, 255>>, <<0, 0, 0, 1, 0, 0, 0, 0>>,
          <<127, 255, 255, 255, 255, 255, 255, 255>>,
          <<128, 0, 0, 0, 0, 0, 0, 0>>, <<255, 255, 255, 255, 255, 255, 255, 255>>}

Words(n) == [i \in 1..n |-> Word(IF i = 2 THEN 0 ELSE i)]

Of(kind) ==
  CASE kind = "text"  -> {Word(n) : n \in Lengths}
    [] kind = "int"   -> Numbers
    [] kind = "texts" -> {Words(n) : n \in {0, 1, 3, 15, 16, 24}}

Plain(shape) ==
  [f \in 1..Len(shape) |->
     CASE shape[f] = "text" -> Word(5) [] shape[f] = "int" -> Uint64(40 + f) [] OTHER -> Words(1)]

Variants(shape, f) == {[Plain(shape) EXCEPT ![f] = x] : x \in Of(shape[f])}

EventSet ==
  UNION {Variants(EventShape, f) : f \in {1, 8, 13, 14, 15}}
    \cup {[EmptyEvent EXCEPT ![15] = Words(n)] : n \in {0, 2}}

ProfileSet ==
  UNION {Variants(ProfileShape, f) : f \in 1..6}
    \cup {[Plain(ProfileShape) EXCEPT ![5] = x, ![6] = y] : x, y \in Numbers}
=============================================================================

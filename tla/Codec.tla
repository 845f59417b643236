------------------------------- MODULE Codec --------------------------------
(***************************************************************************)
(* Writing SSZ values (serialize of every shape), and what reading and     *)
(* writing promise each other.                                             *)
(***************************************************************************)
EXTENDS Reader

CONSTANTS
  Values(_),  \* values of a type
  Overflow    \* what a composite too large for its offsets is written as

ASSUME OverflowAssumption == Overflow \notin Seq(Nat)

---------------------------------------------------------------------------
(* Numbers, little-endian. *)

ToBytes(number, width) ==
  [k \in 1..width |-> (number \div pow2[BitsPerByte * (k - 1)]) % pow2[BitsPerByte]]

(* Bits fill a byte from its low end, and what is left of the last is clear. *)
PackBits(bits) ==
  LET bit(b) == IF b \in DOMAIN bits THEN bits[b] ELSE 0
      byte(k) == Spelled([b \in 1..BitsPerByte |-> bit((k - 1) * BitsPerByte + b)], 2)
  IN  [k \in 1..CeilDiv(Len(bits), BitsPerByte) |-> byte(k)]

---------------------------------------------------------------------------
(* Writing. *)

(* The whole of a composite answers to the ceiling, its last body included. *)
Sized(bytes) == IF Oversized(Len(bytes)) THEN Overflow ELSE bytes

(* Slots, then bodies: a part is written in its slot where its type has a   *)
(* width, and leaves there the offset of its body where it has none.       *)
Laid(types, leading, parts) ==
  LET n == Len(parts)
      bodies == [k \in 1..n |-> IF IsFixed(types[k]) THEN <<>> ELSE parts[k]]
      offset(k) == leading + Len(FlattenSeq(SubSeq(bodies, 1, k - 1)))
      slot(k) == IF IsFixed(types[k]) THEN parts[k] ELSE ToBytes(offset(k), OffsetWidth)
  IN  FlattenSeq([k \in 1..n |-> slot(k)]) \o FlattenSeq(bodies)

WrittenParts(types, leading, parts) ==
  IF \E k \in DOMAIN parts : parts[k] = Overflow THEN Overflow
  ELSE Sized(Laid(types, leading, parts))

(* What a value is written as, given what each of its parts is. *)
Written(v, serialized) ==
  CASE v.type.shape = "basic" -> ToBytes(v.data, v.type.size)
    [] v.type.shape = "boolean" -> <<v.data>>
    [] v.type.shape \in {"byte_vector", "byte_list"} -> Sized(v.data)
    [] v.type.shape = "bit_vector" -> PackBits(v.data)
    [] v.type.shape = "bit_list" -> PackBits(Append(v.data, 1))
    [] v.type.shape = "union" ->
         LET option == serialized[v.data.value]
         IN  IF option = Overflow THEN Overflow ELSE <<v.data.selector>> \o option
    [] IsStruct(v.type) ->
         WrittenParts(v.type.fields, LeadingWidth(v.type),
                      [f \in DOMAIN v.data |-> serialized[v.data[f]]])
    [] IsSequence(v.type) ->
         WrittenParts([k \in DOMAIN v.data |-> v.type.element], Len(v.data) * OffsetWidth,
                      [k \in DOMAIN v.data |-> serialized[v.data[k]]])

(* A value and its parts, from the innermost out. *)
Serializations(v, depth) ==
  LET serialized[n \in 0..depth] ==
        [u \in Nested(v)[depth - n] |-> Written(u, IF n = 0 THEN <<>> ELSE serialized[n - 1])]
  IN  serialized

Serialize(v) == Serializations(v, Deepest)[Deepest][v]

---------------------------------------------------------------------------
(* Properties. *)

(* One value has one encoding: whatever is accepted is just what the value   *)
(* read from it is written as.  Every offset and padding rule of the        *)
(* decoders is there for this (collections.py:474, container.py:230,        *)
(* bitfields.py:222, bitfields.py:521).                                    *)
Canonical ==
  Accepted => Serialize(outcome.value) = SubSeq(stream, 1, position)

written == [T \in Types |-> {[value |-> v, bytes |-> Serialize(v)] : v \in Values(T)}]

(* Whatever is written is read, and back to the same value, for every value *)
(* that fits its offsets.                                                  *)
WhatIsWrittenIsRead ==
  outcome # Pending /\ whole =>
    \A pair \in written[request.type] :
      pair.bytes = stream => outcome = Value(pair.value)
============================================================================

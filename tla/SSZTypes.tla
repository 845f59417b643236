------------------------------ MODULE SSZTypes ------------------------------
(***************************************************************************)
(* SSZ types, as what their classes declare (src/ssz/uint.py, boolean.py,  *)
(* byte_arrays.py, bitfields.py, collections.py, container.py, union.py).  *)
(*                                                                         *)
(* Fields are known by their ordinal, and an option by its selector.       *)
(***************************************************************************)
EXTENDS Naturals

CONSTANTS
  Unlimited,    \* the capacity of a shape that declares none
  BitsPerByte

Basic(size) == [shape |-> "basic", size |-> size]
Boolean == [shape |-> "boolean"]
ByteVector(length) == [shape |-> "byte_vector", length |-> length]
ByteList(limit) == [shape |-> "byte_list", limit |-> limit]
BitVector(length) == [shape |-> "bit_vector", length |-> length]
BitList(limit) == [shape |-> "bit_list", limit |-> limit]
ProgressiveBitList == [shape |-> "progressive_bit_list"]
Vector(type, length) == [shape |-> "vector", element |-> type, length |-> length]
List(type, limit) == [shape |-> "list", element |-> type, limit |-> limit]
ProgressiveList(type) ==
  [shape |-> "progressive_list", element |-> type, limit |-> Unlimited]
Container(fields) == [shape |-> "container", fields |-> fields]
ProgressiveContainer(active, fields) ==
  [shape |-> "progressive_container", active |-> active, fields |-> fields]
CompatibleUnion(options) == [shape |-> "union", options |-> options]

IsSequence(type) == type.shape \in {"vector", "list", "progressive_list"}
IsList(type) == type.shape \in {"list", "progressive_list"}
IsBytes(type) == type.shape \in {"byte_vector", "byte_list"}
IsBits(type) == type.shape \in {"bit_vector", "bit_list", "progressive_bit_list"}
IsStruct(type) == type.shape \in {"container", "progressive_container"}
IsProgressive(type) ==
  type.shape \in {"progressive_list", "progressive_bit_list", "progressive_container"}

CeilDiv(x, y) == (x + y - 1) \div y
============================================================================

------------------------------ MODULE MCPaths -------------------------------
(* Small instances of Paths: types that nest each shape in another, with    *)
(* chunks of two units.                                                    *)
EXTENDS Paths

Zero == Chunk(<<>>)
Small == Basic(1)
Whole == Basic(2)

Bounded == {
  Container(<<Small, List(Small, 3), Vector(Small, 3)>>),
  List(Container(<<Small, Whole>>), 3),
  List(Small, 5),
  Vector(List(Whole, 2), 2) }

(* Bits and bytes, past a chunk of each. *)
Packed == {
  Container(<<BitVector(5), Boolean, ByteVector(3)>>),
  BitList(5),
  ProgressiveBitList,
  Container(<<ByteList(3), List(Boolean, 2)>>) }

Progressive == {
  ProgressiveContainer(<<0, 1, 0, 1>>, <<ProgressiveList(Small), Small>>),
  ProgressiveList(Container(<<Small>>)),
  ProgressiveContainer(<<1, 0, 1, 1>>, <<Small, ProgressiveList(Small), Small>>),
  CompatibleUnion([s \in {1, 3} |-> IF s = 1 THEN ProgressiveList(Small)
                                    ELSE ProgressiveContainer(<<0, 1>>, <<Small>>)]) }

(* Options that agree on every position they share, one longer than the other. *)
Options == {
  CompatibleUnion([s \in {1, 2} |-> IF s = 1 THEN ProgressiveContainer(<<1, 1>>, <<Small, Small>>)
                                    ELSE ProgressiveContainer(<<1>>, <<Small>>)]) }

SmallTypes == Bounded \cup Packed \cup Progressive
============================================================================

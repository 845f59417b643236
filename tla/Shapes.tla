------------------------------- MODULE Shapes -------------------------------
(***************************************************************************)
(* SSZ types and values, and how a value merkleizes (src/ssz/layout.py,    *)
(* src/ssz/roots.py, src/ssz/mixins.py): its leaves, the shape of the tree *)
(* over them, and the word mixed in.                                       *)
(*                                                                         *)
(* A type is a record with its shape and parameters, a value one with its  *)
(* type and data: the units of a byte array, the bits of a bitfield, the    *)
(* element values of anything else.                                        *)
(***************************************************************************)
EXTENDS MerkleTree, Gindex, SSZTypes

CONSTANTS
  ChunkUnits,   \* the units of data a chunk holds
  NoMixin,      \* the word of a shape that mixes none in
  Gap           \* what a vacant layout position carries

IsBasic(type) == type.shape \in {"basic", "boolean"}
Width(type) == IF type.shape = "boolean" THEN 1 ELSE type.size
BitsPerChunk == ChunkUnits * BitsPerByte

---------------------------------------------------------------------------
(* Packing. *)

Chunk(units) == <<[u \in 1..ChunkUnits |-> IF u \in DOMAIN units THEN units[u] ELSE 0]>>
IsChunk(node) == Len(node) = 1

(* Little-endian: a small number is its own first unit. *)
Units(v) == [u \in 1..Width(v.type) |-> IF u = 1 THEN v.data ELSE 0]

(* Units laid end to end, and cut into chunks; only the last is padded. *)
Pack(units) ==
  [c \in 1..CeilDiv(Len(units), ChunkUnits) |->
     Chunk(Slice(units, (c - 1) * ChunkUnits, c * ChunkUnits))]

PackElements(elements, size) ==
  Pack([u \in 1..(size * Len(elements)) |->
          Units(elements[((u - 1) \div size) + 1])[((u - 1) % size) + 1]])

(* Bits are counted from the low end of a number. *)
NumberOf(bits) ==
  LET upTo[p \in 0..Len(bits)] == IF p = 0 THEN 0 ELSE upTo[p - 1] + bits[p] * 2^(p - 1)
  IN  upTo[Len(bits)]

PackBits(bits) ==
  Pack([u \in 1..CeilDiv(Len(bits), BitsPerByte) |->
          NumberOf(Slice(bits, (u - 1) * BitsPerByte, u * BitsPerByte))])

(* Fault: the word mixed in carries no number. *)
WordOfNothing(number) == Chunk(<<>>)

Word(number) == Chunk(<<number>>)

ActiveFieldsWord(active) == Word(NumberOf(active))

---------------------------------------------------------------------------
(* Layouts. *)

Packing(chunks, limit, mixin) ==
  [nested |-> FALSE, leaves |-> chunks, limit |-> limit, mixin |-> mixin]
Nesting(values, limit, mixin) ==
  [nested |-> TRUE, leaves |-> values, limit |-> limit, mixin |-> mixin]

(* The nth field sits at the nth set position. *)
FieldAt(active, p) == Cardinality({q \in 1..p : active[q] = 1})

(* Chunks a bounded sequence of a given capacity may fill. *)
ChunkLimit(type, capacity) ==
  IF IsBasic(type.element) THEN CeilDiv(capacity * Width(type.element), ChunkUnits) ELSE capacity

SequenceLayout(v, limit, mixin) ==
  IF IsBasic(v.type.element)
    THEN Packing(PackElements(v.data, Width(v.type.element)), limit, mixin)
    ELSE Nesting(v.data, limit, mixin)

Layout(v) ==
  LET T == v.type
      count == Word(Len(v.data))
  IN  CASE IsBasic(T) -> Packing(Pack(Units(v)), CeilDiv(Width(T), ChunkUnits), NoMixin)
        [] T.shape = "byte_vector" -> Packing(Pack(v.data), CeilDiv(T.length, ChunkUnits), NoMixin)
        [] T.shape = "byte_list" -> Packing(Pack(v.data), CeilDiv(T.limit, ChunkUnits), count)
        [] T.shape = "bit_vector" ->
             Packing(PackBits(v.data), CeilDiv(T.length, BitsPerChunk), NoMixin)
        [] T.shape = "bit_list" ->
             Packing(PackBits(v.data), CeilDiv(T.limit, BitsPerChunk), count)
        [] T.shape = "progressive_bit_list" -> Packing(PackBits(v.data), Unlimited, count)
        [] T.shape = "vector" -> SequenceLayout(v, ChunkLimit(T, T.length), NoMixin)
        [] T.shape = "list" -> SequenceLayout(v, ChunkLimit(T, T.limit), count)
        [] T.shape = "progressive_list" -> SequenceLayout(v, Unlimited, count)
        [] T.shape = "container" -> Nesting(v.data, Len(T.fields), NoMixin)
        [] T.shape = "progressive_container" ->
             Nesting([p \in DOMAIN T.active |->
                        IF T.active[p] = 1 THEN v.data[FieldAt(T.active, p)] ELSE Gap],
                     Unlimited, ActiveFieldsWord(T.active))
        [] T.shape = "union" -> Nesting(<<v.data.value>>, 1, Word(v.data.selector))

---------------------------------------------------------------------------
(* Rooting. *)

RECURSIVE ProgressiveRoot(_, _)
ProgressiveRoot(chunks, capacity) ==
  IF chunks = <<>> THEN ZeroChunk
  ELSE Pair(PaddedRoot(Slice(chunks, 0, capacity), capacity),
            ProgressiveRoot(Slice(chunks, capacity, Len(chunks)), 4 * capacity))

RECURSIVE HashTreeRoot(_), LayoutChunks(_, _, _)

(* The leaves in a half-open range, as chunks: what nests is rooted here. *)
LayoutChunks(layout, start, stop) ==
  LET leaves == Slice(layout.leaves, start, stop)
  IN  IF layout.nested
        THEN [i \in DOMAIN leaves |->
                IF leaves[i] = Gap THEN ZeroChunk ELSE HashTreeRoot(leaves[i])]
        ELSE leaves

HashTreeRoot(v) ==
  LET layout == Layout(v)
      chunks == LayoutChunks(layout, 0, Len(layout.leaves))
      contents == IF layout.limit = Unlimited THEN ProgressiveRoot(chunks, 1)
                  ELSE PaddedRoot(chunks, NextPow2(layout.limit))
  IN  IF layout.mixin = NoMixin THEN contents ELSE Pair(contents, layout.mixin)
============================================================================

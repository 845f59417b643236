----------------------------- MODULE PathIndex ------------------------------
(***************************************************************************)
(* The generalized index of a path (src/ssz/paths.py), worked out from a    *)
(* type alone.  A step is a position, a field by its ordinal, an option by  *)
(* its selector, or the word mixed in.                                     *)
(***************************************************************************)
EXTENDS Shapes

CONSTANT Refused   \* an error raised

At(n) == [kind |-> "at", number |-> n]
TheWord == [kind |-> "word", number |-> 0]

---------------------------------------------------------------------------
(* Paths. *)

ItemLength(type) == IF IsBasic(type) THEN Width(type) ELSE ChunkUnits

ChunkCount(type) ==
  CASE IsBasic(type) \/ type.shape = "union" -> 1
    [] type.shape = "bit_vector" -> CeilDiv(type.length, BitsPerChunk)
    [] type.shape = "bit_list" -> CeilDiv(type.limit, BitsPerChunk)
    [] type.shape = "byte_vector" -> CeilDiv(type.length, ChunkUnits)
    [] type.shape = "byte_list" -> CeilDiv(type.limit, ChunkUnits)
    [] type.shape = "vector" -> CeilDiv(type.length * ItemLength(type.element), ChunkUnits)
    [] type.shape = "list" -> CeilDiv(type.limit * ItemLength(type.element), ChunkUnits)
    [] type.shape = "container" -> Len(type.fields)

(* A position a bounded sequence declares is addressable, filled or not. *)
Declares(type, n) ==
  CASE type.shape \in {"vector", "byte_vector", "bit_vector"} -> 0 <= n /\ n < type.length
    [] type.shape \in {"list", "byte_list", "bit_list"} -> 0 <= n /\ n < type.limit
    [] type.shape \in {"progressive_list", "progressive_bit_list"} -> 0 <= n
    [] type.shape \in {"container", "progressive_container"} -> n + 1 \in DOMAIN type.fields
    [] type.shape = "union" -> n \in DOMAIN type.options

ElementType(type, n) ==
  IF IsSequence(type) THEN type.element
  ELSE IF IsBits(type) THEN Boolean
  ELSE IF IsBytes(type) THEN Basic(1)
  ELSE IF type.shape = "union" THEN type.options[n]
  ELSE type.fields[n + 1]

(* Fault: a field placed by its ordinal, gaps or no gaps. *)
FieldPositionByOrdinal(active, n) == n

(* Where a field of a progressive container sits, vacancies skipped. *)
FieldPosition(active, n) ==
  CHOOSE p \in 0..(Len(active) - 1) : active[p + 1] = 1 /\ FieldAt(active, p + 1) = n + 1

(* The chunk an element is in, and the units it takes there: none, for a bit. *)
ChunkPosition(type, n) ==
  IF IsBits(type) THEN [chunk |-> n \div BitsPerChunk, start |-> 0, stop |-> 0]
  ELSE IF IsSequence(type) \/ IsBytes(type)
    THEN LET width == ItemLength(ElementType(type, n))
             first == (n * width) % ChunkUnits
         IN  [chunk |-> (n * width) \div ChunkUnits, start |-> first, stop |-> first + width]
    ELSE [chunk |-> IF type.shape = "progressive_container" THEN FieldPosition(type.active, n)
                    ELSE n,
          start |-> 0, stop |-> ItemLength(ElementType(type, n))]

HasWord(type) ==
  \/ IsList(type)
  \/ type.shape \in {"byte_list", "bit_list", "progressive_bit_list",
                     "progressive_container", "union"}

RECURSIVE IndexUnder(_, _, _)
IndexUnder(index, type, steps) ==
  IF steps = <<>> THEN index
  ELSE
    LET step == Head(steps)
        chunk == ChunkPosition(type, step.number).chunk
        onward(node) == IndexUnder(node, ElementType(type, step.number), Tail(steps))
    IN  IF IsBasic(type) THEN Refused
        ELSE IF step.kind = "word"
          THEN IF HasWord(type) /\ Len(steps) = 1 THEN Child(index, TRUE) ELSE Refused
        ELSE IF ~ Declares(type, step.number) THEN Refused
        ELSE IF type.shape = "union" THEN onward(Child(index, FALSE))
        ELSE IF IsProgressive(type) THEN onward(Concat(index, ProgressiveChunk(chunk)))
        ELSE onward(Concat(IF HasWord(type) THEN Child(index, FALSE) ELSE index,
                           NextPow2(ChunkCount(type)) + chunk))

GeneralizedIndex(type, steps) == IndexUnder(1, type, steps)
============================================================================

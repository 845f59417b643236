------------------------------ MODULE MCCodec -------------------------------
(* Small instances of Codec: bytes of two bits and offsets of two bytes, so  *)
(* that a composite of sixteen bytes is too large.                         *)
EXTENDS Codec, Widths

ByteValues == 0..(pow2[BitsPerByte] - 1)

Small == Basic(1)
Whole == Basic(2)
Blob == ByteList(2)

Leaves == {Whole, Boolean, ByteVector(2), Blob, BitVector(3), BitList(3), BitList(Unlimited)}

Uniform == {
  Vector(Boolean, 2), List(Whole, 1), ProgressiveList(Boolean), Vector(BitVector(3), 2),
  Container(<<Small, Boolean>>), List(Container(<<Small, Boolean>>), 2) }

Tabled == {
  Vector(Blob, 2), List(Blob, 2), ProgressiveList(ByteList(1)),
  Container(<<Boolean, Blob>>),
  ProgressiveContainer(<<1, 0, 1>>, <<List(Whole, 1), BitList(1)>>),
  Container(<<List(Whole, 1), Boolean, List(Boolean, 1)>>) }

Deep == {
  CompatibleUnion([s \in {1, 3} |-> IF s = 1 THEN Boolean ELSE List(Whole, 1)]),
  List(CompatibleUnion([s \in {1, 2} |-> Blob]), 1),
  List(List(ByteList(1), 1), 2),
  Container(<<Container(<<Small, List(Boolean, 1)>>)>>) }

(* At the ceiling, which a selector is not counted against. *)
Large == {
  ByteList(17), ByteVector(15), ByteVector(16), Vector(Small, 16), ProgressiveList(Whole),
  ProgressiveList(ByteList(16)), Container(<<ByteList(16)>>),
  CompatibleUnion([s \in {1, 2} |-> ByteList(17)]) }

Read == Leaves \cup Uniform \cup Tabled \cup Deep

RECURSIVE Closed(_)
Closed(types) ==
  LET wider == types \cup UNION {PartTypes(T) : T \in types}
  IN  IF wider = types THEN types ELSE Closed(wider)

SmallTypes == Closed(Read \cup Large)
SmallSizes == DeclaredSizes
SmallStarts == DeclaredStarts

---------------------------------------------------------------------------
(* Every value of a type, where a type without a limit is given one of three. *)

Counts(T) == 0..(IF T.limit = Unlimited THEN 3 ELSE T.limit)
SeqsOf(S, counts) == UNION {[1..n -> S] : n \in counts}

RECURSIVE ValuesOf(_)
ValuesOf(T) ==
  {[type |-> T, data |-> data] : data \in
     CASE T.shape = "basic" -> 0..(pow2[BitsPerByte * T.size] - 1)
       [] T.shape = "boolean" -> {0, 1}
       [] T.shape = "byte_vector" -> [1..T.length -> ByteValues]
       [] T.shape = "byte_list" -> SeqsOf(ByteValues, Counts(T))
       [] T.shape = "bit_vector" -> [1..T.length -> {0, 1}]
       [] T.shape = "bit_list" -> SeqsOf({0, 1}, Counts(T))
       [] T.shape = "vector" -> [1..T.length -> ValuesOf(T.element)]
       [] IsList(T) -> SeqsOf(ValuesOf(T.element), Counts(T))
       [] IsStruct(T) ->
            {fields \in [1..Len(T.fields) -> UNION {ValuesOf(T.fields[f]) : f \in DOMAIN T.fields}] :
               \A f \in DOMAIN T.fields : fields[f].type = T.fields[f]}
       [] T.shape = "union" ->
            UNION {{[selector |-> s, value |-> v] : v \in ValuesOf(T.options[s])} :
                     s \in DOMAIN T.options}}

Full(n) == [k \in 1..n |-> 1]
LargeValues ==
  {[type |-> ByteList(17), data |-> Full(n)] : n \in 14..17}
    \cup {[type |-> ProgressiveList(ByteList(16)),
           data |-> <<[type |-> ByteList(16), data |-> Full(n)]>>] : n \in 12..15}
    \cup {[type |-> CompatibleUnion([s \in {1, 2} |-> ByteList(17)]),
           data |-> [selector |-> 2, value |-> [type |-> ByteList(17), data |-> Full(n)]]] :
            n \in 14..17}

SmallValues(T) ==
  IF T \in Large THEN {v \in LargeValues : v.type = T} ELSE IF T \in Read THEN ValuesOf(T) ELSE {}

---------------------------------------------------------------------------
(* Streams. *)

(* Every stream of a few bytes, where a part may be without the largest byte. *)
Short(T) ==
  IF T \in Leaves THEN SeqsOf(ByteValues, 0..3)
  ELSE IF T \in Uniform THEN SeqsOf(ByteValues, 0..4)
  ELSE SeqsOf(ByteValues \ {pow2[BitsPerByte] - 1}, 0..6)

(* Bytes enough to meet the ceiling, led by what a table, a selector or a   *)
(* number would be.                                                        *)
Long == {[k \in 1..n |-> IF k = 1 THEN lead ELSE 0] : n \in 13..18, lead \in 0..2}

AnyStreams(T) == IF T \in Large THEN Long ELSE IF T \in Read THEN Short(T) ELSE {}
WrittenStreams(T) == {Serialize(v) : v \in SmallValues(T)} \ {Overflow}
SmallStreams(T) == UNION {AnyStreams(T), WrittenStreams(T)}

---------------------------------------------------------------------------
(* Scopes: the whole stream; and, of streams without the largest byte,     *)
(* those it is short of, or goes on past, and one of less than nothing.    *)

IsPlain(bytes) == \A k \in DOMAIN bytes : bytes[k] < pow2[BitsPerByte] - 1

SmallScopes(bytes) ==
  {Len(bytes)} \cup IF IsPlain(bytes) THEN {-1, Len(bytes) - 1, Len(bytes) + 1} ELSE {}
=============================================================================

------------------------------- MODULE Reader -------------------------------
(***************************************************************************)
(* Reading an SSZ value off a stream of bytes, within a budget: the scope  *)
(* (deserialize of every shape, decode_bytes in src/ssz/ssz_base.py, the   *)
(* offset table in src/ssz/offsets.py).                                    *)
(*                                                                         *)
(* A call in progress is a frame, and calls nest.  Nothing tells a caller  *)
(* how much a part consumed: the next part is read from wherever the last  *)
(* one stopped, and that this is where its offset says is for the          *)
(* properties to show.                                                     *)
(***************************************************************************)
EXTENDS SSZTypes, Powers, Sequences, SequencesExt

CONSTANTS
  Types,         \* the types read, and those of their parts
  Varies,        \* the width of a type that has none
  fixedSize,     \* the width of every value of each type, or Varies
  slotStart,     \* where each slot of a struct starts, and where the last ends
  OffsetWidth,   \* the bytes an offset takes
  Streams(_),    \* the streams a type is read from
  Scopes(_),     \* the budgets a stream is read within
  Missing,       \* a part not read yet
  Deepest        \* bound: how deep the types nest

VARIABLES
  request,
  position,   \* the bytes read so far
  frames,     \* the calls in progress, the outermost first
  outcome     \* a value, or the refusal of one

NoFault == "none"
Pending == [answer |-> "pending"]
Refused(fault) == [answer |-> "refused", fault |-> fault]
Value(value) == [answer |-> "value", value |-> value]

vars == <<request, position, frames, outcome>>

---------------------------------------------------------------------------
(* Widths, settled as each class is declared. *)

IsFixed(T) == fixedSize[T] # Varies

SlotWidth(T) == IF IsFixed(T) THEN fixedSize[T] ELSE OffsetWidth
LeadingWidth(T) == slotStart[T][Len(T.fields) + 1]

FixedSize(T) ==
  CASE T.shape = "basic" -> T.size
    [] T.shape = "boolean" -> 1
    [] T.shape = "byte_vector" -> T.length
    [] T.shape = "bit_vector" -> CeilDiv(T.length, BitsPerByte)
    [] T.shape = "vector" ->
         IF IsFixed(T.element) THEN fixedSize[T.element] * T.length ELSE Varies
    [] IsStruct(T) ->
         IF \A f \in DOMAIN T.fields : IsFixed(T.fields[f]) THEN LeadingWidth(T) ELSE Varies
    [] OTHER -> Varies

PartTypes(T) ==
  CASE IsSequence(T) -> {T.element}
    [] IsStruct(T) -> Range(T.fields)
    [] T.shape = "union" -> {T.options[s] : s \in DOMAIN T.options}
    [] OTHER -> {}

(* Every shape a declaration may name spans at least one byte. *)
ASSUME WidthsAssumption ==
  /\ Varies \notin Nat
  /\ \A T \in Types :
       /\ PartTypes(T) \subseteq Types
       /\ fixedSize[T] = FixedSize(T)
       /\ IsFixed(T) => fixedSize[T] \in Nat \ {0}
       /\ T.shape = "basic" => T.size \in Nat
       /\ T.shape \in {"vector", "byte_vector", "bit_vector"} => T.length \in Nat \ {0}
       /\ IsList(T) \/ T.shape \in {"byte_list", "bit_list"} => T.limit \in {Unlimited} \cup Nat
       /\ IsStruct(T) =>
            /\ T.fields \in Seq(Types)
            /\ slotStart[T] \in [1..(Len(T.fields) + 1) -> Nat]
            /\ slotStart[T][1] = 0
            /\ \A f \in DOMAIN T.fields :
                 slotStart[T][f + 1] = slotStart[T][f] + SlotWidth(T.fields[f])

(* The types, their parts, the parts of those and so on.  A class is declared *)
(* of classes that are, so this comes to an end.                           *)
TypeLevels ==
  LET level[n \in 0..(Deepest + 1)] ==
        IF n = 0 THEN Types ELSE UNION {PartTypes(T) : T \in level[n - 1]}
  IN  level

ASSUME NestingAssumption == Deepest \in Nat /\ TypeLevels[Deepest + 1] = {}

ASSUME BytesAssumption ==
  /\ BitsPerByte \in Nat \ {0} /\ OffsetWidth \in Nat \ {0}
  /\ \A T \in Types : \A bytes \in Streams(T) :
       bytes \in Seq(0..(pow2[BitsPerByte] - 1)) /\ Scopes(bytes) \subseteq Int

---------------------------------------------------------------------------
(* Numbers, their least digit first. *)

Spelled(digits, base) ==
  LET count == Len(digits)
      top[k \in 0..count] ==
        IF k = 0 THEN 0 ELSE digits[count + 1 - k] + base * top[k - 1]
  IN  top[count]

FromBytes(bytes) == Spelled(bytes, pow2[BitsPerByte])

---------------------------------------------------------------------------
(* The stream. *)

stream == request.stream
Available == Len(stream) - position

(* decode_bytes: a scope of the whole stream, which is then to be used up.  *)
whole == request.scope = Len(stream)

(* A read is short when the stream is, and of everything when it is of a    *)
(* negative count.                                                         *)
Taken(n) == IF 0 <= n /\ n <= Available THEN n ELSE Available
Bytes(n) == SubSeq(stream, position + 1, position + n)

Offset(k) == FromBytes(SubSeq(stream, position + (k - 1) * OffsetWidth + 1,
                                      position + k * OffsetWidth))
Offsets(count) == [k \in 1..count |-> Offset(k)]

Bits(bytes) ==
  [b \in 1..(BitsPerByte * Len(bytes)) |->
     (bytes[((b - 1) \div BitsPerByte) + 1] \div pow2[(b - 1) % BitsPerByte]) % 2]

(* The highest bit that is set, where one is. *)
Delimiter(bits) ==
  CHOOSE b \in DOMAIN bits : bits[b] = 1 /\ \A c \in DOMAIN bits : c > b => bits[c] = 0

---------------------------------------------------------------------------
(* What a scope alone is refused for, before a byte is read. *)

(* Fault: a full list is over its limit. *)
ExceedsWhenFull(T, count) == T.limit # Unlimited /\ count >= T.limit

Exceeds(T, count) == T.limit # Unlimited /\ count > T.limit
Oversized(scope) == scope >= pow2[BitsPerByte * OffsetWidth]

(* Fault: a list rounds its budget down to whole elements. *)
ListScopeFaultRounded(T, scope) ==
  IF scope < 0 THEN "SCOPE_NEGATIVE"
  ELSE IF scope = 0 THEN NoFault
  ELSE IF ~ IsFixed(T.element)
    THEN IF scope < OffsetWidth THEN "SCOPE_TOO_SMALL" ELSE NoFault
  ELSE IF Exceeds(T, scope \div fixedSize[T.element]) THEN "LIMIT"
  ELSE NoFault

ListScopeFault(T, scope) ==
  IF scope < 0 THEN "SCOPE_NEGATIVE"
  ELSE IF scope = 0 THEN NoFault
  ELSE IF ~ IsFixed(T.element)
    THEN IF scope < OffsetWidth THEN "SCOPE_TOO_SMALL" ELSE NoFault
  ELSE IF scope % fixedSize[T.element] # 0 THEN "SCOPE_UNDIVIDED"
  ELSE IF Exceeds(T, scope \div fixedSize[T.element]) THEN "LIMIT"
  ELSE NoFault

ByteListScopeFault(T, scope) ==
  IF scope < 0 THEN "SCOPE_NEGATIVE" ELSE IF Exceeds(T, scope) THEN "LIMIT" ELSE NoFault

(* Fault: a budget may be wider than the value. *)
FixedScopeFaultShort(T, scope) == IF scope < fixedSize[T] THEN "SCOPE" ELSE NoFault

FixedScopeFault(T, scope) == IF scope # fixedSize[T] THEN "SCOPE" ELSE NoFault

(* What stands before the first body: a table, or the slots of a struct. *)
Leading(T) == IF IsStruct(T) THEN LeadingWidth(T) ELSE T.length * OffsetWidth

CompositeScopeFault(T, scope) ==
  IF Oversized(scope) THEN "OFFSET_OVERFLOW"
  ELSE IF IsFixed(T) THEN FixedScopeFault(T, scope)
  ELSE IF IsList(T) THEN ListScopeFault(T, scope)
  ELSE IF T.shape = "byte_list" THEN ByteListScopeFault(T, scope)
  ELSE IF scope < Leading(T) THEN "SCOPE_TOO_SMALL" ELSE NoFault

(* The option under a selector answers to its own ceiling. *)
ScopeFault(T, scope) ==
  CASE T.shape \in {"basic", "boolean", "bit_vector"} -> FixedScopeFault(T, scope)
    [] T.shape = "bit_list" -> NoFault
    [] T.shape = "union" -> IF scope < 1 THEN "NO_SELECTOR" ELSE NoFault
    [] OTHER -> CompositeScopeFault(T, scope)

---------------------------------------------------------------------------
(* What the bytes are refused for. *)

IsLeaf(T) ==
  T.shape \in {"basic", "boolean", "byte_vector", "byte_list", "bit_vector", "bit_list"}

(* Fault: zero bytes may follow the delimiter. *)
BitListFaultPadded(T, bits) ==
  IF bits = <<>> THEN "EMPTY_ENCODING"
  ELSE IF \A b \in DOMAIN bits : bits[b] = 0 THEN "NO_DELIMITER"
  ELSE IF Exceeds(T, Delimiter(bits) - 1) THEN "LIMIT"
  ELSE NoFault

BitListFault(T, bits) ==
  IF bits = <<>> THEN "EMPTY_ENCODING"
  ELSE IF \A b \in DOMAIN bits : bits[b] = 0 THEN "NO_DELIMITER"
  ELSE IF Delimiter(bits) + BitsPerByte <= Len(bits) THEN "TRAILING_ZEROS"
  ELSE IF Exceeds(T, Delimiter(bits) - 1) THEN "LIMIT"
  ELSE NoFault

LeafFault(T, scope) ==
  IF Taken(scope) # scope THEN "TRUNCATED"
  ELSE CASE T.shape = "boolean" ->
              IF FromBytes(Bytes(scope)) > 1 THEN "NOT_A_BIT" ELSE NoFault
         [] T.shape = "bit_vector" ->
              IF \E b \in DOMAIN Bits(Bytes(scope)) : b > T.length /\ Bits(Bytes(scope))[b] = 1
                THEN "PADDING_BITS" ELSE NoFault
         [] T.shape = "bit_list" -> BitListFault(T, Bits(Bytes(scope)))
         [] OTHER -> NoFault

LeafData(T, bytes) ==
  CASE T.shape \in {"basic", "boolean"} -> FromBytes(bytes)
    [] T.shape \in {"byte_vector", "byte_list"} -> bytes
    [] T.shape = "bit_vector" -> SubSeq(Bits(bytes), 1, T.length)
    [] T.shape = "bit_list" -> SubSeq(Bits(bytes), 1, Delimiter(Bits(bytes)) - 1)

(* Each body ends where the next begins, and the last with the scope. *)
SpansFault(offsets, scope) ==
  IF \E k \in 1..(Len(offsets) - 1) : offsets[k + 1] < offsets[k] THEN "OFFSET_UNORDERED"
  ELSE IF scope < Last(offsets) THEN "OFFSET_PAST_SCOPE"
  ELSE NoFault

(* Fault: the first body may stand anywhere. *)
FirstOffsetUnchecked(offsets, expected, scope) == SpansFault(offsets, scope)

FirstOffsetFault(offsets, expected, scope) ==
  IF offsets[1] # expected THEN "FIRST_OFFSET" ELSE SpansFault(offsets, scope)

VectorTableFault(T, scope) ==
  IF Available < T.length * OffsetWidth THEN "TRUNCATED"
  ELSE FirstOffsetFault(Offsets(T.length), T.length * OffsetWidth, scope)

(* Fault: the count a table gives is held to no limit. *)
ListHeadFaultUnlimited(T, scope) ==
  IF Available < OffsetWidth THEN "TRUNCATED"
  ELSE IF Offset(1) < OffsetWidth THEN "OFFSET_BELOW_TABLE"
  ELSE IF Offset(1) % OffsetWidth # 0 THEN "OFFSET_UNALIGNED"
  ELSE IF Offset(1) > scope THEN "OFFSET_PAST_SCOPE"
  ELSE NoFault

(* A list's table is as wide as its first offset says. *)
ListHeadFault(T, scope) ==
  IF Available < OffsetWidth THEN "TRUNCATED"
  ELSE IF Offset(1) < OffsetWidth THEN "OFFSET_BELOW_TABLE"
  ELSE IF Offset(1) % OffsetWidth # 0 THEN "OFFSET_UNALIGNED"
  ELSE IF Offset(1) > scope THEN "OFFSET_PAST_SCOPE"
  ELSE IF Exceeds(T, Offset(1) \div OffsetWidth) THEN "LIMIT"
  ELSE NoFault

ListTableFault(first, scope) ==
  LET rest == first - OffsetWidth
  IN  IF Available < rest THEN "TRUNCATED"
      ELSE SpansFault(<<first>> \o Offsets(rest \div OffsetWidth), scope)

---------------------------------------------------------------------------
(* Calls. *)

Called(T, scope, at) ==
  [type |-> T, scope |-> scope, start |-> at, stage |-> "called",
   option |-> 0, offsets |-> <<>>, variable_fields |-> <<>>, parts |-> <<>>, next |-> 1]

current == Last(frames)
Type == current.type

Unread(count) == [p \in 1..count |-> Missing]

(* A refusal unwinds every call. *)
Refuse(fault, at) ==
  /\ outcome' = Refused(fault)
  /\ frames' = <<>>
  /\ position' = at

(* Which part a call is at: the fields of no fixed width come last. *)
Reading(frame) ==
  IF frame.stage = "bodies" /\ IsStruct(frame.type) THEN frame.variable_fields[frame.next]
  ELSE frame.next

(* Fault: the next part is never moved on to. *)
FilledInPlace(frame, value) == [frame EXCEPT !.parts[Reading(frame)] = value]

Filled(frame, value) ==
  [frame EXCEPT !.parts[Reading(frame)] = value, !.next = @ + 1]

(* Only the outermost call, and only where the input was to be used up, asks *)
(* what is left of it.                                                     *)
Return(data, at) ==
  LET value == [type |-> Type, data |-> data]
      callers == Front(frames)
  IN  /\ position' = at
      /\ frames' = IF callers = <<>> THEN <<>>
                   ELSE [callers EXCEPT ![Len(callers)] = Filled(@, value)]
      /\ outcome' = IF callers # <<>> THEN outcome
                    ELSE IF whole /\ at < Len(stream) THEN Refused("TRAILING_BYTES")
                    ELSE Value(value)

Continue(frame, at) ==
  /\ frames' = Append(Front(frames), frame)
  /\ position' = at
  /\ UNCHANGED outcome

Either(fault, consumed, step) ==
  IF fault # NoFault THEN Refuse(fault, consumed) ELSE step

At(stage) == frames # <<>> /\ current.stage = stage /\ UNCHANGED request
Entered == At("called") /\ ScopeFault(Type, current.scope) = NoFault
---------------------------------------------------------------------------
Init ==
  /\ \E type \in Types : \E bytes \in Streams(type) : \E scope \in Scopes(bytes) :
       request = [type |-> type, stream |-> bytes, scope |-> scope]
  /\ position = 0
  /\ frames = <<Called(request.type, request.scope, 0)>>
  /\ outcome = Pending

RefuseScope ==
  /\ At("called")
  /\ ScopeFault(Type, current.scope) # NoFault
  /\ Refuse(ScopeFault(Type, current.scope), position)

ReadLeaf ==
  /\ Entered /\ IsLeaf(Type)
  /\ Either(LeafFault(Type, current.scope), position + Taken(current.scope),
            Return(LeafData(Type, Bytes(current.scope)), position + current.scope))

(* Elements of one width need no table: the scope divides among them. *)
OpenUniform ==
  /\ Entered /\ IsSequence(Type)
  /\ IsFixed(Type.element) \/ current.scope = 0
  /\ LET width == fixedSize[Type.element]
         count == IF current.scope = 0 THEN 0 ELSE current.scope \div width
     IN  Continue([current EXCEPT !.stage = "bodies", !.parts = Unread(count),
                                  !.offsets = [e \in 1..count |-> (e - 1) * width]],
                  position)

OpenVector ==
  /\ Entered /\ Type.shape = "vector" /\ ~ IsFixed(Type.element)
  /\ LET width == Type.length * OffsetWidth
     IN  Either(VectorTableFault(Type, current.scope), position + Taken(width),
                Continue([current EXCEPT !.stage = "bodies", !.parts = Unread(Type.length),
                                         !.offsets = Offsets(Type.length)],
                         position + width))

OpenList ==
  /\ Entered /\ IsList(Type) /\ ~ IsFixed(Type.element) /\ current.scope > 0
  /\ Either(ListHeadFault(Type, current.scope), position + Taken(OffsetWidth),
            Continue([current EXCEPT !.stage = "table", !.offsets = Offsets(1)],
                     position + OffsetWidth))

ReadTable ==
  /\ At("table")
  /\ LET first == current.offsets[1]
         count == first \div OffsetWidth
         width == first - OffsetWidth
     IN  Either(ListTableFault(first, current.scope), position + Taken(width),
                Continue([current EXCEPT !.stage = "bodies", !.parts = Unread(count),
                                         !.offsets = @ \o Offsets(count - 1)],
                         position + width))

OpenStruct ==
  /\ Entered /\ IsStruct(Type)
  /\ Continue([current EXCEPT !.stage = "slots", !.parts = Unread(Len(Type.fields))], position)

(* A field of no fixed width leaves an offset in its slot. *)
ReadSlot ==
  /\ At("slots") /\ current.next <= Len(Type.fields) /\ ~ IsFixed(Type.fields[current.next])
  /\ Either(IF Available < OffsetWidth THEN "TRUNCATED" ELSE NoFault,
            position + Taken(OffsetWidth),
            Continue([current EXCEPT !.offsets = Append(@, Offset(1)),
                                     !.variable_fields = Append(@, current.next), !.next = @ + 1],
                     position + OffsetWidth))

SettleSlots ==
  /\ At("slots") /\ current.next > Len(Type.fields) /\ current.offsets # <<>>
  /\ Either(FirstOffsetFault(current.offsets, LeadingWidth(Type), current.scope), position,
            Continue([current EXCEPT !.stage = "bodies", !.next = 1], position))

OpenUnion ==
  /\ Entered /\ Type.shape = "union"
  /\ LET selector == FromBytes(Bytes(1))
     IN  Either(IF Available < 1 THEN "TRUNCATED"
                ELSE IF selector \notin DOMAIN Type.options THEN "UNKNOWN_SELECTOR"
                ELSE NoFault,
                position + Taken(1),
                Continue([current EXCEPT !.stage = "bodies", !.option = selector,
                                         !.offsets = <<1>>, !.parts = Unread(1)],
                         position + 1))

ReadField ==
  /\ At("slots") /\ current.next <= Len(Type.fields) /\ IsFixed(Type.fields[current.next])
  /\ LET type == Type.fields[current.next]
     IN  frames' = Append(frames, Called(type, fixedSize[type], position))
  /\ UNCHANGED <<position, outcome>>

PartType(frame, p) ==
  CASE IsSequence(frame.type) -> frame.type.element
    [] IsStruct(frame.type) -> frame.type.fields[p]
    [] OTHER -> frame.type.options[frame.option]

Bounds(frame) == Append(frame.offsets, frame.scope)
Span(frame, k) == Bounds(frame)[k + 1] - Bounds(frame)[k]

ReadBody ==
  /\ At("bodies") /\ current.next <= Len(current.offsets)
  /\ frames' = Append(frames, Called(PartType(current, Reading(current)),
                                     Span(current, current.next), position))
  /\ UNCHANGED <<position, outcome>>

Built(frame) ==
  IF frame.type.shape = "union"
    THEN [selector |-> frame.option, value |-> frame.parts[1]]
    ELSE frame.parts

(* Every part is read, and nothing is asked of where the last one stopped. *)
Close ==
  /\ \/ At("bodies") /\ current.next > Len(current.offsets)
     \/ At("slots") /\ current.next > Len(Type.fields) /\ current.offsets = <<>>
  /\ Return(Built(current), position)

Next ==
  \/ RefuseScope \/ ReadLeaf \/ OpenUniform \/ OpenVector \/ OpenList \/ ReadTable
  \/ OpenStruct \/ ReadSlot \/ ReadField \/ SettleSlots \/ OpenUnion \/ ReadBody \/ Close

Spec == Init /\ [][Next]_vars /\ WF_vars(Next)

---------------------------------------------------------------------------
(* Values. *)

PartsOf(v) ==
  CASE v.type.shape = "union" -> {v.data.value}
    [] IsSequence(v.type) \/ IsStruct(v.type) -> Range(v.data)
    [] OTHER -> {}

(* The parts of a value, and theirs, by how deep they are. *)
Nested(v) ==
  LET level[n \in 0..Deepest] ==
        IF n = 0 THEN {v} ELSE UNION {PartsOf(u) : u \in level[n - 1]}
  IN  level

(* What the constructor of a type asks of what it is given. *)
Constructible(v) ==
  LET T == v.type
  IN  CASE T.shape = "basic" -> v.data \in 0..(pow2[BitsPerByte * T.size] - 1)
        [] T.shape = "boolean" -> v.data \in {0, 1}
        [] T.shape \in {"byte_vector", "bit_vector"} -> Len(v.data) = T.length
        [] T.shape \in {"byte_list", "bit_list"} -> ~ Exceeds(T, Len(v.data))
        [] T.shape = "union" ->
             /\ v.data.selector \in DOMAIN T.options
             /\ v.data.value.type = T.options[v.data.selector]
        [] IsStruct(T) ->
             /\ Len(v.data) = Len(T.fields)
             /\ \A f \in DOMAIN v.data : v.data[f].type = T.fields[f]
        [] IsSequence(T) ->
             /\ IF T.shape = "vector" THEN Len(v.data) = T.length ELSE ~ Exceeds(T, Len(v.data))
             /\ \A k \in DOMAIN v.data : v.data[k].type = T.element

Legal(v) == \A n \in 0..Deepest : \A u \in Nested(v)[n] : Constructible(u)

Accepted == outcome.answer = "value"

---------------------------------------------------------------------------
(* Properties. *)

(* A sequence is built past its validators (collections.py:306), and is     *)
(* still one they would have let through, at every depth.                  *)
WhatIsReadIsLegal == Accepted => Legal(outcome.value) /\ outcome.value.type = request.type

(* Where the part a call is at was begun. *)
PartStart(k) == IF k = Len(frames) THEN position ELSE frames[k + 1].start

(* No part reads what lies past the bytes it was given, which are a         *)
(* sibling's (container.py:205), and a value uses up all of its own.       *)
KeepsToItsScope ==
  /\ \A k \in DOMAIN frames :
       frames[k].scope >= 0 => position <= frames[k].start + frames[k].scope
  /\ outcome.answer = "value" => position = request.scope

(* A part is read from wherever the one before it stopped (collections.py:296), *)
(* and that is always where its offset says, or its slot.                  *)
PartsStandAtTheirOffsets ==
  \A k \in DOMAIN frames :
    /\ frames[k].stage = "bodies" =>
         PartStart(k) = frames[k].start + Bounds(frames[k])[frames[k].next]
    /\ frames[k].stage = "slots" =>
         PartStart(k) = frames[k].start + slotStart[frames[k].type][frames[k].next]

(* A whole input is a budget of its own length, so a stream is never found   *)
(* short, or with anything left (packages/testing/src/ssz_testing/          *)
(* fixtures_readme.md:316).                                                *)
WholeInputsNeverRunShort ==
  whole =>
    outcome \notin {Refused(fault) : fault \in {"TRUNCATED", "TRAILING_BYTES", "SCOPE_NEGATIVE"}}

(* Every call is answered. *)
Answered == <>(outcome # Pending)
============================================================================

---------------------------- MODULE ReaderProofs ----------------------------
(***************************************************************************)
(* That no part is read from another's bytes (KeepsToItsScope), that every *)
(* part is read from where its offset says (PartsStandAtTheirOffsets),     *)
(* that a whole input is never found short (WholeInputsNeverRunShort), and *)
(* that what is read is legal (WhatIsReadIsLegal): for any types, streams  *)
(* and scopes, however deep the types nest.                                *)
(***************************************************************************)
EXTENDS Reader, GindexProofs

(* Where a call that is not waiting for a part has read to. *)
Reached(frame) ==
  CASE frame.stage = "bodies" -> frame.start + Bounds(frame)[frame.next]
    [] frame.stage = "slots" -> frame.start + slotStart[frame.type][frame.next]
    [] frame.stage = "table" -> frame.start + OffsetWidth
    [] OTHER -> frame.start

End(frame) == frame.start + frame.scope

FrameFields ==
  {"type", "scope", "start", "stage", "option", "offsets", "variable_fields", "parts", "next"}

IsFrame(frame) ==
  /\ frame = [field \in FrameFields |-> frame[field]]
  /\ frame.type \in Types /\ frame.scope \in Int /\ frame.start \in Nat
  /\ frame.offsets \in Seq(Nat)

JustCalled(frame) ==
  /\ frame.stage = "called"
  /\ frame.next = 1 /\ frame.offsets = <<>> /\ frame.variable_fields = <<>>

(* A list's first offset is read, and is a table's width. *)
InTable(frame) ==
  /\ frame.stage = "table"
  /\ IsList(frame.type)
  /\ frame.next = 1 /\ Len(frame.offsets) = 1
  /\ OffsetWidth <= frame.offsets[1] /\ frame.offsets[1] <= frame.scope
  /\ frame.offsets[1] % OffsetWidth = 0

(* The slots before the next are read, and the struct's fit its scope. *)
InSlots(frame) ==
  /\ frame.stage = "slots"
  /\ IsStruct(frame.type)
  /\ frame.next \in 1..(Len(frame.type.fields) + 1)
  /\ LeadingWidth(frame.type) <= frame.scope
  /\ IsFixed(frame.type) => frame.scope = LeadingWidth(frame.type)
  /\ frame.offsets = <<>> => \A f \in 1..(frame.next - 1) : IsFixed(frame.type.fields[f])
  /\ frame.variable_fields \in Seq(DOMAIN frame.type.fields)
  /\ Len(frame.variable_fields) = Len(frame.offsets)

(* The offsets rise to the scope, and stand for a part each. *)
InBodies(frame) ==
  /\ frame.stage = "bodies"
  /\ frame.scope >= 0
  /\ frame.next \in 1..(Len(frame.offsets) + 1)
  /\ \A k \in 1..Len(frame.offsets) : Bounds(frame)[k] <= Bounds(frame)[k + 1]
  /\ \/ IsSequence(frame.type)
     \/ /\ IsStruct(frame.type)
        /\ frame.variable_fields \in Seq(DOMAIN frame.type.fields)
        /\ Len(frame.variable_fields) = Len(frame.offsets)
     \/ /\ frame.type.shape = "union"
        /\ frame.option \in DOMAIN frame.type.options

FrameStands(frame) ==
  /\ IsFrame(frame)
  /\ JustCalled(frame) \/ InTable(frame) \/ InSlots(frame) \/ InBodies(frame)

(* A call waits for a part that was given its slot or its span. *)
Calls(caller, part) ==
  /\ part.start = Reached(caller)
  /\ \/ /\ caller.stage = "slots"
        /\ caller.next <= Len(caller.type.fields)
        /\ IsFixed(caller.type.fields[caller.next])
        /\ part.scope = fixedSize[caller.type.fields[caller.next]]
     \/ /\ caller.stage = "bodies"
        /\ caller.next <= Len(caller.offsets)
        /\ part.scope = Span(caller, caller.next)

IsStack(s) == s \in Seq(ToSet(s))

FramesStand == IsStack(frames) /\ \A k \in DOMAIN frames : FrameStands(frames[k])

CallsMeet == \A k \in 1..(Len(frames) - 1) : Calls(frames[k], frames[k + 1])

(* A part's scope lies in the scopes of all the calls that wait for it. *)
ScopesNest ==
  \A j, k \in DOMAIN frames :
    j < k => frames[k].scope >= 0 /\ End(frames[k]) <= End(frames[j])

TopReached ==
  frames # <<>> =>
    /\ position = Reached(current)
    /\ frames[1].scope = request.scope /\ frames[1].start = 0

RequestStands ==
  /\ request.type \in Types
  /\ request.stream \in Streams(request.type)
  /\ request.scope \in Scopes(request.stream)

OutcomeStands ==
  /\ frames # <<>> => outcome = Pending
  /\ outcome.answer = "value" => position = request.scope
  /\ WholeInputsNeverRunShort

IInv ==
  RequestStands /\ FramesStand /\ CallsMeet /\ ScopesNest /\ TopReached /\ OutcomeStands

---------------------------------------------------------------------------
(* Arithmetic. *)

LEMMA Multiples ==
  ASSUME NEW w \in Nat, NEW k \in Nat, NEW n \in Nat
  PROVE  /\ k * w \in Nat
         /\ k >= 1 => (k - 1) * w + w = k * w /\ (k - 1) * w \in Nat
         /\ (k + 1) * w = k * w + w
         /\ k <= n => k * w <= n * w
OBVIOUS

LEMMA Products ==
  ASSUME NEW w \in Nat \ {0}, NEW k \in Nat \ {0}
  PROVE  k * w \in Nat \ {0}
OBVIOUS

LEMMA OffsetsAreWide == OffsetWidth \in Nat \ {0}
BY BytesAssumption

LEMMA Quotients ==
  ASSUME NEW w \in Nat \ {0}, NEW x \in Nat
  PROVE  /\ x \div w \in Nat
         /\ x = (x \div w) * w + (x % w)
         /\ x >= w => (x - w) \div w = (x \div w) - 1 /\ x \div w >= 1
OBVIOUS

(* What rises from each place to the next rises from any to any later. *)
LEMMA Rises ==
  ASSUME NEW n \in Nat, NEW s, \A k \in 1..n : s[k] \in Int,
         \A k \in 1..(n - 1) : s[k] <= s[k + 1],
         NEW i \in 1..n, NEW j \in i..n
  PROVE  s[i] <= s[j]
<1> DEFINE below == {k \in i..n : s[k] < s[i]}
<1>1. SUFFICES ASSUME below # {}
               PROVE  FALSE
  BY <1>1
<1>2. below \in SUBSET Nat
  OBVIOUS
<1>3. PICK k \in below : \A y \in below : k <= y
  BY <1>1, <1>2, Least
<1>4. k \in i..n /\ s[k] < s[i] /\ k # i
  OBVIOUS
<1>5. k - 1 \in i..n /\ k - 1 \in 1..(n - 1) /\ ~ (k - 1 \in below)
  BY <1>3, <1>4
<1>6. s[k - 1] <= s[(k - 1) + 1]
  BY <1>5
<1>7. s[k - 1] >= s[i]
  BY <1>4, <1>5
<1>. QED
  BY <1>4, <1>5, <1>6, <1>7

---------------------------------------------------------------------------
(* Stacks. *)

LEMMA Pushed ==
  ASSUME NEW s, IsStack(s), NEW e
  PROVE  /\ IsStack(Append(s, e))
         /\ Len(s) \in Nat /\ Len(Append(s, e)) = Len(s) + 1
         /\ DOMAIN s = 1..Len(s) /\ DOMAIN Append(s, e) = 1..(Len(s) + 1)
         /\ \A i \in 1..Len(s) : Append(s, e)[i] = s[i]
         /\ Append(s, e)[Len(s) + 1] = e
         /\ Append(s, e) # <<>>
<1> DEFINE S == ToSet(s) \cup {e}
<1>1. s \in Seq(S) /\ e \in S
  BY SeqMonotonic DEF IsStack
<1> HIDE DEF S
<1>2. /\ Append(s, e) \in Seq(S)
      /\ Append(s, e) # <<>>
      /\ Len(Append(s, e)) = Len(s) + 1
      /\ \A i \in 1..Len(s) : Append(s, e)[i] = s[i]
      /\ Append(s, e)[Len(s) + 1] = e
  BY <1>1, AppendProperties
<1>3. Append(s, e) \in Seq(ToSet(Append(s, e)))
  BY <1>2 DEF ToSet
<1>. QED
  BY <1>1, <1>2, <1>3 DEF IsStack

LEMMA Popped ==
  ASSUME NEW s, IsStack(s), s # <<>>
  PROVE  /\ IsStack(Front(s))
         /\ Len(s) \in Nat \ {0} /\ Len(Front(s)) = Len(s) - 1
         /\ DOMAIN s = 1..Len(s) /\ DOMAIN Front(s) = 1..(Len(s) - 1)
         /\ \A i \in 1..(Len(s) - 1) : Front(s)[i] = s[i]
         /\ Last(s) = s[Len(s)]
         /\ Front(s) = <<>> <=> Len(s) = 1
<1>1. s \in Seq(ToSet(s)) /\ Len(s) \in Nat \ {0}
  BY DEF IsStack
<1>2. /\ Front(s) \in Seq(ToSet(s))
      /\ Len(Front(s)) = Len(s) - 1
      /\ \A i \in 1..(Len(s) - 1) : Front(s)[i] = s[i]
  <2> DEFINE n == Len(s) - 1
  <2>1. n \in Nat /\ \A i \in 1..n : s[i] \in ToSet(s)
    BY <1>1 DEF ToSet
  <2>2. Front(s) = SubSeq(s, 1, n)
    BY DEF Front
  <2> HIDE DEF n
  <2>3. /\ SubSeq(s, 1, n) \in Seq(ToSet(s))
        /\ Len(SubSeq(s, 1, n)) = IF 1 <= n THEN n - 1 + 1 ELSE 0
        /\ \A i \in 1..(n - 1 + 1) : SubSeq(s, 1, n)[i] = s[1 + i - 1]
    BY <2>1, SubSeqProperties
  <2>4. Len(SubSeq(s, 1, n)) = n /\ \A i \in 1..n : SubSeq(s, 1, n)[i] = s[i]
    BY <2>1, <2>3
  <2>. QED
    BY <2>2, <2>3, <2>4 DEF n
<1>3. Front(s) \in Seq(ToSet(Front(s)))
  BY <1>2 DEF ToSet
<1>. QED
  BY <1>1, <1>2, <1>3 DEF IsStack, Last

LEMMA Replaced ==
  ASSUME NEW s, IsStack(s), NEW i \in 1..Len(s), NEW e
  PROVE  /\ IsStack([s EXCEPT ![i] = e])
         /\ Len([s EXCEPT ![i] = e]) = Len(s)
         /\ DOMAIN [s EXCEPT ![i] = e] = 1..Len(s)
         /\ \A j \in 1..Len(s) : [s EXCEPT ![i] = e][j] = IF j = i THEN e ELSE s[j]
<1> DEFINE S == ToSet(s) \cup {e}
<1>1. s \in Seq(S) /\ e \in S
  BY SeqMonotonic DEF IsStack
<1> HIDE DEF S
<1>2. /\ [s EXCEPT ![i] = e] \in Seq(S)
      /\ Len([s EXCEPT ![i] = e]) = Len(s)
      /\ \A j \in 1..Len(s) : [s EXCEPT ![i] = e][j] = IF j = i THEN e ELSE s[j]
  BY <1>1, ExceptSeq
<1>3. ASSUME NEW t \in Seq(S)
      PROVE  t \in Seq(ToSet(t))
  BY DEF ToSet
<1>4. IsStack([s EXCEPT ![i] = e])
  BY <1>2, <1>3 DEF IsStack
<1>5. DOMAIN [s EXCEPT ![i] = e] = 1..Len(s)
  BY <1>1
<1>. QED
  BY <1>2, <1>4, <1>5

---------------------------------------------------------------------------
(* Widths and scopes. *)

LEMMA Parts ==
  ASSUME NEW T \in Types
  PROVE  /\ IsSequence(T) => T.element \in Types
         /\ IsStruct(T) =>
              /\ T.fields \in Seq(Types) /\ Len(T.fields) \in Nat
              /\ DOMAIN T.fields = 1..Len(T.fields)
              /\ \A f \in 1..Len(T.fields) : T.fields[f] \in Types
         /\ T.shape = "union" => \A s \in DOMAIN T.options : T.options[s] \in Types
<1>1. PartTypes(T) \subseteq Types
  BY WidthsAssumption
<1>2. IsSequence(T) => PartTypes(T) = {T.element}
  BY DEF PartTypes, IsSequence, IsStruct
<1>3. T.shape = "union" => PartTypes(T) = {T.options[s] : s \in DOMAIN T.options}
  BY DEF PartTypes, IsSequence, IsStruct
<1>4. IsStruct(T) => T.fields \in Seq(Types)
  BY WidthsAssumption
<1>. QED
  BY <1>1, <1>2, <1>3, <1>4

(* The slots of a struct follow one another. *)
LEMMA Slots ==
  ASSUME NEW T \in Types, IsStruct(T)
  PROVE  /\ LeadingWidth(T) \in Nat
         /\ slotStart[T][1] = 0
         /\ \A f \in 1..(Len(T.fields) + 1) :
              slotStart[T][f] \in Nat /\ slotStart[T][f] <= LeadingWidth(T)
         /\ \A f \in 1..Len(T.fields) :
              slotStart[T][f + 1] = slotStart[T][f] + SlotWidth(T.fields[f])
<1> DEFINE n == Len(T.fields) + 1
<1>1. /\ Len(T.fields) \in Nat /\ n \in Nat /\ DOMAIN T.fields = 1..(n - 1)
      /\ \A f \in 1..(n - 1) : T.fields[f] \in Types
  BY Parts
<1>2. /\ slotStart[T] \in [1..n -> Nat] /\ slotStart[T][1] = 0
      /\ \A f \in 1..(n - 1) : slotStart[T][f + 1] = slotStart[T][f] + SlotWidth(T.fields[f])
  BY <1>1, WidthsAssumption
<1>3. \A f \in 1..(n - 1) : SlotWidth(T.fields[f]) \in Nat
  BY <1>1, WidthsAssumption, BytesAssumption DEF SlotWidth
<1>4. \A f \in 1..(n - 1) : slotStart[T][f] <= slotStart[T][f + 1]
  <2>1. ASSUME NEW f \in 1..(n - 1)
        PROVE  slotStart[T][f] <= slotStart[T][f + 1]
    <3>1. f \in 1..n
      BY <1>1
    <3> HIDE DEF n
    <3>2. slotStart[T][f] \in Nat /\ SlotWidth(T.fields[f]) \in Nat
      BY <1>2, <1>3, <3>1
    <3>3. slotStart[T][f + 1] = slotStart[T][f] + SlotWidth(T.fields[f])
      BY <1>2
    <3>. QED
      BY <3>2, <3>3
  <2>. QED
    BY <2>1
<1>5. \A f \in 1..n : slotStart[T][f] \in Nat
  BY <1>2
<1> HIDE DEF n
<1>6. ASSUME NEW f \in 1..n
      PROVE  slotStart[T][f] <= slotStart[T][n]
  <2>1. n \in f..n /\ \A k \in 1..n : slotStart[T][k] \in Int
    BY <1>1, <1>5
  <2>. QED
    BY <1>1, <1>4, <2>1, Rises
<1>7. LeadingWidth(T) = slotStart[T][n] /\ n \in 1..n
  BY <1>1 DEF LeadingWidth, n
<1>. QED
  BY <1>1, <1>2, <1>5, <1>6, <1>7 DEF n

(* A struct that is let in has room for its slots, and a struct of a width   *)
(* for nothing else.                                                       *)
LEMMA StructScope ==
  ASSUME NEW T \in Types, IsStruct(T), NEW scope \in Int, ScopeFault(T, scope) = NoFault
  PROVE  /\ LeadingWidth(T) <= scope
         /\ IsFixed(T) => scope = LeadingWidth(T)
<1>1. LeadingWidth(T) \in Nat
  BY Slots
<1>2. IsFixed(T) => fixedSize[T] = LeadingWidth(T)
  <2>1. FixedSize(T) =
          IF \A f \in DOMAIN T.fields : IsFixed(T.fields[f]) THEN LeadingWidth(T) ELSE Varies
    BY DEF FixedSize, IsStruct
  <2>. QED
    BY <2>1, WidthsAssumption DEF IsFixed
<1>3. CompositeScopeFault(T, scope) = NoFault
  BY DEF ScopeFault, IsStruct
<1>4. CASE IsFixed(T)
  BY <1>1, <1>2, <1>3, <1>4 DEF CompositeScopeFault, FixedScopeFault, NoFault, Oversized, IsFixed
<1>5. CASE ~ IsFixed(T)
  BY <1>1, <1>3, <1>5 DEF CompositeScopeFault, Leading, IsStruct, IsList, NoFault, Oversized, IsFixed
<1>. QED
  BY <1>4, <1>5

(* A struct whose fields all have a width has one. *)
LEMMA FixedStruct ==
  ASSUME NEW T \in Types, IsStruct(T), \A f \in 1..Len(T.fields) : IsFixed(T.fields[f])
  PROVE  IsFixed(T)
<1>1. DOMAIN T.fields = 1..Len(T.fields)
  BY Parts
<1>2. FixedSize(T) = LeadingWidth(T)
  BY <1>1 DEF FixedSize, IsStruct
<1>. QED
  BY <1>2, Slots, WidthsAssumption DEF IsFixed

(* Elements of one width divide the scope among them. *)
LEMMA UniformScope ==
  ASSUME NEW T \in Types, IsSequence(T), NEW scope \in Int, ScopeFault(T, scope) = NoFault,
         IsFixed(T.element)
  PROVE  /\ scope \in Nat
         /\ fixedSize[T.element] \in Nat \ {0}
         /\ scope = (scope \div fixedSize[T.element]) * fixedSize[T.element]
<1> DEFINE width == fixedSize[T.element]
<1>1. width \in Nat \ {0}
  BY Parts, WidthsAssumption
<1>2. CompositeScopeFault(T, scope) = NoFault
  BY DEF ScopeFault, IsSequence
<1>3. CASE T.shape = "vector"
  <2>1. T.length \in Nat \ {0}
    BY <1>3, WidthsAssumption
  <2>2. FixedSize(T) = width * T.length
    BY <1>3 DEF FixedSize, IsStruct
  <2>3. width * T.length \in Nat
    BY <1>1, <2>1
  <2>4. IsFixed(T) /\ fixedSize[T] = width * T.length
    BY <2>2, <2>3, WidthsAssumption DEF IsFixed
  <2>5. scope = width * T.length
    BY <1>2, <2>4 DEF CompositeScopeFault, FixedScopeFault, NoFault
  <2> HIDE DEF width
  <2>6. (width * T.length) \div width = T.length
    BY <1>1, <2>1
  <2>7. scope = T.length * width
    BY <1>1, <2>1, <2>5
  <2>. QED
    BY <1>1, <2>3, <2>5, <2>6, <2>7 DEF width
<1>4. CASE IsList(T)
  <2>1. ~ IsFixed(T)
    BY <1>4, WidthsAssumption DEF IsFixed, FixedSize, IsList, IsStruct
  <2>2. ListScopeFault(T, scope) = NoFault
    BY <1>2, <1>4, <2>1 DEF CompositeScopeFault, NoFault
  <2>3. scope >= 0 /\ (scope = 0 \/ scope % width = 0)
    BY <2>2 DEF ListScopeFault, NoFault, Exceeds, IsFixed
  <2> HIDE DEF width
  <2>4. scope = 0 => scope % width = 0
    BY <1>1
  <2>5. scope = (scope \div width) * width + (scope % width)
    BY <1>1, <2>3, Quotients
  <2>6. (scope \div width) * width \in Int
    BY <1>1, <2>3
  <2>. QED
    BY <1>1, <2>3, <2>4, <2>5, <2>6 DEF width
<1>. QED
  BY <1>3, <1>4 DEF IsSequence, IsList

(* A sequence whose elements have no width has room for its table. *)
LEMMA TableScope ==
  ASSUME NEW T \in Types, IsSequence(T), NEW scope \in Int, ScopeFault(T, scope) = NoFault,
         ~ IsFixed(T.element)
  PROVE  /\ T.shape = "vector" =>
              T.length \in Nat \ {0} /\ T.length * OffsetWidth <= scope /\ scope # 0
         /\ IsList(T) => scope >= 0 /\ (scope > 0 => OffsetWidth <= scope)
<1>1. CompositeScopeFault(T, scope) = NoFault
  BY DEF ScopeFault, IsSequence
<1>2. ~ IsFixed(T)
  BY WidthsAssumption DEF IsFixed, FixedSize, IsSequence, IsStruct
<1>3. CASE T.shape = "vector"
  <2>1. T.length \in Nat \ {0} /\ T.length * OffsetWidth \in Nat \ {0}
    BY <1>3, WidthsAssumption, OffsetsAreWide, Products
  <2>2. T.length * OffsetWidth <= scope
    BY <1>1, <1>2, <1>3, <2>1 DEF CompositeScopeFault, Leading, IsStruct, IsList, NoFault, Oversized, IsFixed
  <2>. QED
    BY <1>3, <2>1, <2>2 DEF IsList
<1>4. CASE IsList(T)
  BY <1>1, <1>2, <1>4, OffsetsAreWide DEF CompositeScopeFault, ListScopeFault, NoFault, IsList, Oversized, IsFixed, Exceeds
<1>. QED
  BY <1>3, <1>4 DEF IsSequence, IsList

(* No scope is refused as a stream would be, nor one of any bytes as one of  *)
(* less than none.                                                         *)
LEMMA ScopeFaults ==
  ASSUME NEW T \in Types, NEW scope \in Int
  PROVE  /\ ScopeFault(T, scope) \notin {"TRUNCATED", "TRAILING_BYTES"}
         /\ scope >= 0 => ScopeFault(T, scope) # "SCOPE_NEGATIVE"
BY DEF ScopeFault, CompositeScopeFault, ListScopeFault, ByteListScopeFault, FixedScopeFault, NoFault

---------------------------------------------------------------------------
(* Frames. *)

LEMMA BoundsAre ==
  ASSUME NEW frame, frame.offsets \in Seq(Nat), frame.scope \in Int
  PROVE  /\ Len(frame.offsets) \in Nat
         /\ \A k \in 1..Len(frame.offsets) :
              Bounds(frame)[k] = frame.offsets[k] /\ frame.offsets[k] \in Nat
         /\ Bounds(frame)[Len(frame.offsets) + 1] = frame.scope
         /\ \A k \in 1..(Len(frame.offsets) + 1) : Bounds(frame)[k] \in Int
<1>1. frame.offsets \in Seq(Int)
  BY SeqMonotonic
<1>2. /\ \A k \in 1..Len(frame.offsets) :
           Append(frame.offsets, frame.scope)[k] = frame.offsets[k]
      /\ Append(frame.offsets, frame.scope)[Len(frame.offsets) + 1] = frame.scope
  BY <1>1, AppendProperties
<1>3. Len(frame.offsets) \in Nat /\ \A k \in 1..Len(frame.offsets) : frame.offsets[k] \in Nat
  OBVIOUS
<1>4. \A k \in 1..(Len(frame.offsets) + 1) :
        k \in 1..Len(frame.offsets) \/ k = Len(frame.offsets) + 1
  BY <1>3
<1>. QED
  BY <1>2, <1>3, <1>4 DEF Bounds

LEMMA EndIsNumber ==
  ASSUME NEW frame, FrameStands(frame)
  PROVE  frame.start \in Nat /\ frame.scope \in Int /\ End(frame) \in Int
<1>1. frame.start \in Nat /\ frame.scope \in Int
  BY DEF FrameStands, IsFrame
<1>. QED
  BY <1>1 DEF End

LEMMA FirstBound ==
  ASSUME NEW frame, frame.offsets \in Seq(Nat), frame.offsets # <<>>, frame.scope \in Int
  PROVE  Bounds(frame)[1] = frame.offsets[1]
<1>1. 1 \in 1..Len(frame.offsets)
  OBVIOUS
<1>. QED
  BY <1>1, BoundsAre

(* No body starts past the scope. *)
LEMMA BoundsEnd ==
  ASSUME NEW frame, frame.offsets \in Seq(Nat), frame.scope \in Int,
         \A k \in 1..Len(frame.offsets) : Bounds(frame)[k] <= Bounds(frame)[k + 1],
         NEW k \in 1..(Len(frame.offsets) + 1)
  PROVE  Bounds(frame)[k] <= frame.scope
<1> DEFINE n == Len(frame.offsets) + 1
<1> DEFINE s == Bounds(frame)
<1>1. n \in Nat /\ s[n] = frame.scope /\ \A j \in 1..n : s[j] \in Int
  BY BoundsAre
<1>2. \A j \in 1..(n - 1) : s[j] <= s[j + 1]
  BY <1>1, BoundsAre
<1>3. k \in 1..n /\ n \in k..n
  BY <1>1
<1> HIDE DEF n, s
<1>4. s[k] <= s[n]
  BY <1>1, <1>2, <1>3, Rises
<1>. QED
  BY <1>1, <1>4 DEF s

(* What a table is held to makes its bodies follow one another. *)
LEMMA SpansStand ==
  ASSUME NEW frame, frame.offsets \in Seq(Nat), frame.offsets # <<>>, frame.scope \in Int,
         SpansFault(frame.offsets, frame.scope) = NoFault
  PROVE  \A k \in 1..Len(frame.offsets) : Bounds(frame)[k] <= Bounds(frame)[k + 1]
<1> DEFINE n == Len(frame.offsets)
<1>1. n \in Nat \ {0} /\ \A k \in 1..n : frame.offsets[k] \in Nat
  OBVIOUS
<1>2. /\ \A k \in 1..(n - 1) : ~ (frame.offsets[k + 1] < frame.offsets[k])
      /\ ~ (frame.scope < frame.offsets[n])
  BY DEF SpansFault, NoFault, Last
<1>3. /\ \A k \in 1..n : Bounds(frame)[k] = frame.offsets[k]
      /\ Bounds(frame)[n + 1] = frame.scope
  BY BoundsAre
<1> HIDE DEF n
<1>4. ASSUME NEW k \in 1..n
      PROVE  Bounds(frame)[k] <= Bounds(frame)[k + 1]
  <2>1. CASE k = n
    BY <1>1, <1>2, <1>3, <2>1
  <2>2. CASE k # n
    <3>1. k \in 1..(n - 1) /\ k + 1 \in 1..n
      BY <1>1, <2>2
    <3>2. frame.offsets[k] \in Nat /\ frame.offsets[k + 1] \in Nat
      BY <1>1, <3>1
    <3>3. ~ (frame.offsets[k + 1] < frame.offsets[k])
      BY <1>2, <3>1
    <3>4. frame.offsets[k] <= frame.offsets[k + 1]
      BY <3>2, <3>3
    <3>. QED
      BY <1>3, <3>1, <3>4
  <2>. QED
    BY <2>1, <2>2
<1>. QED
  BY <1>4 DEF n

(* A call has read no further than its scope. *)
LEMMA ReachedIsInside ==
  ASSUME NEW frame, FrameStands(frame), frame.scope >= 0
  PROVE  Reached(frame) \in Nat /\ Reached(frame) <= End(frame)
<1>1. frame.start \in Nat /\ frame.scope \in Nat /\ frame.offsets \in Seq(Nat) /\ frame.type \in Types
  BY DEF FrameStands, IsFrame
<1>2. CASE JustCalled(frame)
  BY <1>1, <1>2 DEF JustCalled, Reached, End
<1>3. CASE InTable(frame)
  <2>1. frame.offsets[1] \in Nat
    BY <1>1, <1>3 DEF InTable
  <2>. QED
    BY <1>1, <1>3, <2>1, OffsetsAreWide DEF InTable, Reached, End
<1>4. CASE InSlots(frame)
  <2>1. /\ slotStart[frame.type][frame.next] \in Nat
        /\ slotStart[frame.type][frame.next] <= LeadingWidth(frame.type)
        /\ LeadingWidth(frame.type) \in Nat
    BY <1>1, <1>4, Slots DEF InSlots
  <2>2. Reached(frame) = frame.start + slotStart[frame.type][frame.next]
    BY <1>4 DEF InSlots, Reached
  <2>3. LeadingWidth(frame.type) <= frame.scope
    BY <1>4 DEF InSlots
  <2>. QED
    BY <1>1, <2>1, <2>2, <2>3 DEF End
<1>5. CASE InBodies(frame)
  <2>1. Bounds(frame)[frame.next] \in Nat
    <3>1. CASE frame.next \in 1..Len(frame.offsets)
      BY <1>1, <3>1, BoundsAre
    <3>2. CASE frame.next = Len(frame.offsets) + 1
      BY <1>1, <3>2, BoundsAre
    <3>. QED
      BY <1>1, <1>5, <3>1, <3>2, BoundsAre DEF InBodies
  <2>2. Bounds(frame)[frame.next] <= frame.scope
    BY <1>1, <1>5, BoundsEnd DEF InBodies
  <2>3. Reached(frame) = frame.start + Bounds(frame)[frame.next]
    BY <1>5 DEF InBodies, Reached
  <2>. QED
    BY <1>1, <2>1, <2>2, <2>3 DEF End
<1>. QED
  BY <1>2, <1>3, <1>4, <1>5 DEF FrameStands

(* A part that is filled moves its call on to where the part ends. *)
LEMMA FilledStands ==
  ASSUME NEW caller, FrameStands(caller), NEW part, Calls(caller, part), NEW value
  PROVE  /\ FrameStands(Filled(caller, value))
         /\ Reached(Filled(caller, value)) = End(part)
         /\ Filled(caller, value).scope = caller.scope
         /\ Filled(caller, value).start = caller.start
<1> DEFINE filled == Filled(caller, value)
<1>1. IsFrame(caller) /\ caller.stage \in {"slots", "bodies"} /\ caller.next \in Nat
  <2>1. IsFrame(caller) /\ caller.stage \in {"slots", "bodies"}
    BY DEF FrameStands, Calls
  <2>2. InSlots(caller) \/ InBodies(caller)
    BY <2>1 DEF FrameStands, JustCalled, InTable
  <2>. QED
    BY <2>1, <2>2 DEF InSlots, InBodies
<1>2. DOMAIN caller = FrameFields
  BY <1>1 DEF IsFrame
<1>3. /\ filled = [field \in FrameFields |-> filled[field]]
      /\ filled.next = caller.next + 1
      /\ filled.type = caller.type /\ filled.scope = caller.scope /\ filled.start = caller.start
      /\ filled.stage = caller.stage /\ filled.option = caller.option
      /\ filled.offsets = caller.offsets /\ filled.variable_fields = caller.variable_fields
  BY <1>2 DEF Filled, FrameFields
<1>4. Bounds(filled) = Bounds(caller)
  BY <1>3 DEF Bounds
<1> HIDE DEF filled
<1>5. IsFrame(filled)
  BY <1>1, <1>3 DEF IsFrame
<1>6. caller.start \in Nat /\ caller.scope \in Int /\ caller.offsets \in Seq(Nat) /\ caller.type \in Types
  BY <1>1 DEF IsFrame
<1>7. CASE caller.stage = "slots"
  <2>1. /\ InSlots(caller)
        /\ caller.next \in 1..Len(caller.type.fields) /\ Len(caller.type.fields) \in Nat
        /\ IsFixed(caller.type.fields[caller.next])
        /\ part.scope = fixedSize[caller.type.fields[caller.next]]
        /\ part.start = caller.start + slotStart[caller.type][caller.next]
    BY <1>6, <1>7, Parts DEF FrameStands, Calls, JustCalled, InTable, InSlots, InBodies, Reached
  <2>2. InSlots(filled)
    <3>1. filled.next \in 1..(Len(caller.type.fields) + 1)
      BY <1>3, <2>1
    <3>2. ASSUME caller.offsets = <<>>, NEW f \in 1..(filled.next - 1)
          PROVE  IsFixed(caller.type.fields[f])
      <4>1. f \in 1..(caller.next - 1) \/ f = caller.next
        BY <1>3, <2>1
      <4>. QED
        BY <2>1, <3>2, <4>1 DEF InSlots
    <3>. QED
      BY <1>3, <2>1, <3>1, <3>2 DEF InSlots
  <2>3. Reached(filled) = filled.start + slotStart[filled.type][filled.next]
    BY <2>2 DEF InSlots, Reached
  <2>4. /\ slotStart[caller.type][caller.next + 1] =
             slotStart[caller.type][caller.next] + SlotWidth(caller.type.fields[caller.next])
        /\ slotStart[caller.type][caller.next] \in Nat
    BY <1>6, <2>1, Slots DEF InSlots
  <2>5. SlotWidth(caller.type.fields[caller.next]) = part.scope /\ part.scope \in Nat
    <3>1. caller.type.fields[caller.next] \in Types
      BY <1>6, <2>1, Parts DEF InSlots
    <3>2. fixedSize[caller.type.fields[caller.next]] \in Nat
      BY <2>1, <3>1, WidthsAssumption
    <3>. QED
      BY <2>1, <3>2 DEF SlotWidth
  <2>6. Reached(filled) = part.start + part.scope
    <3>1. Reached(filled) = caller.start + slotStart[caller.type][caller.next + 1]
      BY <1>3, <2>3
    <3>. QED
      BY <1>6, <2>1, <2>4, <2>5, <3>1
  <2>. QED
    BY <1>3, <1>5, <2>2, <2>6 DEF FrameStands, End, filled
<1>8. CASE caller.stage = "bodies"
  <2>1. /\ InBodies(caller)
        /\ caller.next \in 1..Len(caller.offsets) /\ Len(caller.offsets) \in Nat
        /\ part.scope = Bounds(caller)[caller.next + 1] - Bounds(caller)[caller.next]
        /\ part.start = caller.start + Bounds(caller)[caller.next]
    BY <1>6, <1>8 DEF FrameStands, Calls, JustCalled, InTable, InSlots, InBodies, Reached, Span
  <2>2. InBodies(filled)
    BY <1>3, <1>4, <2>1 DEF InBodies
  <2>3. Reached(filled) = caller.start + Bounds(caller)[caller.next + 1]
    BY <1>3, <1>4, <2>2 DEF InBodies, Reached
  <2>4. Bounds(caller)[caller.next] \in Int /\ Bounds(caller)[caller.next + 1] \in Int
    <3>1. caller.next \in 1..(Len(caller.offsets) + 1) /\ caller.next + 1 \in 1..(Len(caller.offsets) + 1)
      BY <2>1
    <3>. QED
      BY <1>6, <3>1, BoundsAre
  <2>5. Reached(filled) = part.start + part.scope
    BY <1>6, <2>1, <2>3, <2>4
  <2>. QED
    BY <1>3, <1>5, <2>2, <2>5 DEF FrameStands, End, filled
<1>. QED
  BY <1>1, <1>7, <1>8

---------------------------------------------------------------------------
(* The steps a call may take, whatever the shape. *)

Forbidden == {"TRUNCATED", "TRAILING_BYTES", "SCOPE_NEGATIVE"}

LEMMA StackAt ==
  ASSUME IInv, frames # <<>>
  PROVE  /\ Len(frames) \in Nat \ {0} /\ DOMAIN frames = 1..Len(frames)
         /\ current = frames[Len(frames)] /\ FrameStands(current)
         /\ current.start \in Nat /\ current.scope \in Int /\ current.offsets \in Seq(Nat)
         /\ current.type \in Types
         /\ position = Reached(current)
         /\ frames[1].scope = request.scope /\ frames[1].start = 0 /\ FrameStands(frames[1])
<1>1. IsStack(frames) /\ \A k \in DOMAIN frames : FrameStands(frames[k])
  BY DEF IInv, FramesStand
<1>2. /\ Len(frames) \in Nat \ {0} /\ DOMAIN frames = 1..Len(frames)
      /\ current = frames[Len(frames)]
  BY <1>1, Popped DEF current
<1>3. FrameStands(current) /\ FrameStands(frames[1])
  BY <1>1, <1>2
<1>. QED
  BY <1>2, <1>3 DEF IInv, TopReached, FrameStands, IsFrame

(* A refusal unwinds the stack. *)
LEMMA RefuseKeeps ==
  ASSUME IInv, NEW fault, NEW at, Refuse(fault, at), UNCHANGED request,
         whole => fault \notin Forbidden
  PROVE  IInv'
<1>1. frames' = <<>> /\ outcome' = [answer |-> "refused", fault |-> fault]
  BY DEF Refuse, Refused
<1>2. DOMAIN frames' = {} /\ Len(frames') = 0
  BY <1>1
<1>3. FramesStand' /\ CallsMeet' /\ ScopesNest' /\ TopReached'
  <2>1. <<>> \in Seq(ToSet(<<>>))
    OBVIOUS
  <2>. QED
    BY <1>1, <1>2, <2>1 DEF FramesStand, IsStack, CallsMeet, ScopesNest, TopReached
<1>4. RequestStands'
  BY DEF IInv, RequestStands
<1>5. WholeInputsNeverRunShort'
  <2>1. ASSUME NEW f, outcome' = Refused(f)
        PROVE  f = fault
    BY <1>1, <2>1 DEF Refused
  <2>2. whole' <=> whole
    BY DEF whole, stream
  <2>. QED
    BY <2>1, <2>2 DEF WholeInputsNeverRunShort, Forbidden, Refused
<1>. QED
  BY <1>1, <1>3, <1>4, <1>5 DEF IInv, OutcomeStands

(* A call reads on. *)
LEMMA ContinueKeeps ==
  ASSUME IInv, frames # <<>>, NEW frame, NEW at, Continue(frame, at), UNCHANGED request,
         FrameStands(frame), Reached(frame) = at,
         frame.scope = current.scope, frame.start = current.start
  PROVE  IInv'
<1> DEFINE n == Len(frames)
<1>1. n \in Nat \ {0} /\ current = frames[n] /\ DOMAIN frames = 1..n
  BY StackAt
<1>2. /\ frames' = Append(Front(frames), frame) /\ position' = at
      /\ UNCHANGED <<request, outcome>>
  BY DEF Continue
<1>3. /\ IsStack(Front(frames)) /\ Len(Front(frames)) = n - 1
      /\ \A i \in 1..(n - 1) : Front(frames)[i] = frames[i]
  BY Popped DEF IInv, FramesStand
<1>4. /\ IsStack(frames') /\ Len(frames') = n /\ DOMAIN frames' = 1..n /\ frames' # <<>>
      /\ \A i \in 1..(n - 1) : frames'[i] = frames[i]
      /\ frames'[n] = frame
  <2> HIDE DEF n
  <2>. QED
    BY <1>1, <1>2, <1>3, Pushed
<1> HIDE DEF n
<1>5. \A i \in 1..n : frames'[i].scope = frames[i].scope /\ frames'[i].start = frames[i].start
  BY <1>1, <1>4
<1>6. FramesStand'
  <2>1. \A i \in 1..n : FrameStands(frames'[i])
    BY <1>1, <1>4 DEF IInv, FramesStand
  <2>. QED
    BY <1>4, <2>1 DEF FramesStand, FrameStands, IsFrame, JustCalled, InTable, InSlots, InBodies, IsStack
<1>7. CallsMeet'
  <2>1. ASSUME NEW k \in 1..(n - 1)
        PROVE  Calls(frames'[k], frames'[k + 1])
    <3>1. Calls(frames[k], frames[k + 1]) /\ k \in 1..n /\ k + 1 \in 1..n
      BY <1>1 DEF IInv, CallsMeet, n
    <3>2. frames'[k] = frames[k]
      BY <1>1, <1>4
    <3>. QED
      BY <1>5, <3>1, <3>2 DEF Calls
  <2>. QED
    BY <1>4, <2>1 DEF CallsMeet, Calls, Reached, Span, Bounds
<1>8. ScopesNest'
  <2>1. \A j, k \in 1..n : j < k => frames'[k].scope >= 0 /\ End(frames'[k]) <= End(frames'[j])
    BY <1>1, <1>5 DEF IInv, ScopesNest, End
  <2>. QED
    BY <1>4, <2>1 DEF ScopesNest, End
<1>9. TopReached'
  <2>1. Last(frames') = frame /\ 1 \in 1..n
    BY <1>1, <1>4 DEF Last
  <2>2. frames'[1].scope = request.scope /\ frames'[1].start = 0
    BY <1>5, <2>1, StackAt
  <2>3. position' = Reached(Last(frames'))
    BY <1>2, <2>1
  <2>. QED
    BY <1>2, <2>2, <2>3 DEF TopReached, current, Reached, Bounds
<1>10. RequestStands' /\ OutcomeStands'
  BY <1>2 DEF IInv, RequestStands, OutcomeStands, WholeInputsNeverRunShort, whole, stream, Pending, Refused
<1>. QED
  BY <1>6, <1>7, <1>8, <1>9, <1>10 DEF IInv

LEMMA JustCalledStands ==
  ASSUME NEW T \in Types, NEW scope \in Int, NEW at \in Nat
  PROVE  /\ FrameStands(Called(T, scope, at))
         /\ Called(T, scope, at).scope = scope /\ Called(T, scope, at).start = at
         /\ Reached(Called(T, scope, at)) = at
<1> DEFINE part == Called(T, scope, at)
<1>1. /\ part = [field \in FrameFields |-> part[field]]
      /\ part.type = T /\ part.scope = scope /\ part.start = at /\ part.stage = "called"
      /\ part.next = 1 /\ part.offsets = <<>> /\ part.variable_fields = <<>>
  BY DEF Called, FrameFields
<1> HIDE DEF part
<1>2. IsFrame(part)
  <2>1. <<>> \in Seq(Nat)
    OBVIOUS
  <2>. QED
    BY <1>1, <2>1 DEF IsFrame
<1>3. JustCalled(part) /\ Reached(part) = at
  BY <1>1 DEF JustCalled, Reached
<1>. QED
  BY <1>1, <1>2, <1>3 DEF FrameStands, part

(* A call reads a part by a call of its own. *)
LEMMA CallKeeps ==
  ASSUME IInv, frames # <<>>, NEW T \in Types, NEW scope \in Nat,
         frames' = Append(frames, Called(T, scope, position)),
         UNCHANGED <<request, position, outcome>>,
         Calls(current, Called(T, scope, position)),
         position + scope <= End(current), position \in Nat
  PROVE  IInv'
<1> DEFINE n == Len(frames)
<1> DEFINE part == Called(T, scope, position)
<1>1. n \in Nat \ {0} /\ current = frames[n] /\ DOMAIN frames = 1..n
  BY StackAt
<1>2. /\ FrameStands(part) /\ part.scope = scope /\ part.start = position
      /\ Reached(part) = position
  BY JustCalledStands
<1>3. /\ IsStack(frames') /\ Len(frames') = n + 1 /\ DOMAIN frames' = 1..(n + 1)
      /\ frames' # <<>>
      /\ \A i \in 1..n : frames'[i] = frames[i]
      /\ frames'[n + 1] = part
  BY Pushed DEF IInv, FramesStand
<1> HIDE DEF n, part
<1>4. FramesStand'
  <2>1. \A i \in 1..n : FrameStands(frames'[i])
    BY <1>1, <1>3 DEF IInv, FramesStand
  <2>2. \A i \in 1..(n + 1) : i \in 1..n \/ i = n + 1
    BY <1>1
  <2>3. \A i \in 1..(n + 1) : FrameStands(frames'[i])
    BY <1>2, <1>3, <2>1, <2>2
  <2>. QED
    BY <1>3, <2>3 DEF FramesStand, FrameStands, IsFrame, JustCalled, InTable, InSlots, InBodies, IsStack
<1>5. CallsMeet'
  <2>1. ASSUME NEW k \in 1..n
        PROVE  Calls(frames'[k], frames'[k + 1])
    <3>1. CASE k = n
      BY <1>1, <1>3, <3>1 DEF part
    <3>2. CASE k # n
      <4>1. k \in 1..(n - 1) /\ k + 1 \in 1..n
        BY <1>1, <3>2
      <4>2. Calls(frames[k], frames[k + 1])
        BY <4>1 DEF IInv, CallsMeet, n
      <4>. QED
        BY <1>3, <4>1, <4>2
    <3>. QED
      BY <3>1, <3>2
  <2>2. Len(frames') - 1 = n
    BY <1>1, <1>3
  <2>. QED
    BY <2>1, <2>2 DEF CallsMeet, Calls, Reached, Span, Bounds
<1>6. ScopesNest'
  <2>1. ASSUME NEW j \in 1..(n + 1), NEW k \in 1..(n + 1), j < k
        PROVE  frames'[k].scope >= 0 /\ End(frames'[k]) <= End(frames'[j])
    <3>1. j \in 1..n
      BY <1>1, <2>1
    <3>2. CASE k \in 1..n
      BY <1>1, <1>3, <2>1, <3>1, <3>2 DEF IInv, ScopesNest
    <3>3. CASE k = n + 1
      <4>1. End(current) <= End(frames[j])
        <5>1. CASE j = n
          <6>1. End(frames[n]) \in Int
            BY <1>1, StackAt DEF End
          <6>. QED
            BY <1>1, <5>1, <6>1
        <5>2. CASE j # n
          BY <1>1, <3>1, <5>2 DEF IInv, ScopesNest
        <5>. QED
          BY <5>1, <5>2
      <4>2. End(part) = position + scope
        BY <1>2 DEF End
      <4>3. End(current) \in Int /\ End(frames[j]) \in Int
        <5>1. FrameStands(frames[j]) /\ FrameStands(current)
          BY <1>1, <3>1, StackAt DEF IInv, FramesStand
        <5>. QED
          BY <5>1, EndIsNumber
      <4>4. End(part) <= End(frames[j])
        BY <4>1, <4>2, <4>3
      <4>. QED
        BY <1>2, <1>3, <3>1, <3>3, <4>4
    <3>. QED
      BY <1>1, <3>2, <3>3
  <2>. QED
    BY <1>3, <2>1 DEF ScopesNest, End
<1>7. TopReached'
  <2>1. Last(frames') = part /\ 1 \in 1..n
    BY <1>1, <1>3 DEF Last
  <2>2. frames'[1].scope = request.scope /\ frames'[1].start = 0
    BY <1>3, <2>1, StackAt
  <2>3. position' = Reached(Last(frames'))
    BY <1>2, <2>1
  <2>. QED
    BY <2>2, <2>3 DEF TopReached, current, Reached, Bounds
<1>8. RequestStands' /\ OutcomeStands'
  BY <1>3 DEF IInv, RequestStands, OutcomeStands, WholeInputsNeverRunShort, whole, stream, Pending, Refused
<1>. QED
  BY <1>4, <1>5, <1>6, <1>7, <1>8 DEF IInv

(* A call that is done has used up its scope, and its caller goes on there. *)
LEMMA ReturnKeeps ==
  ASSUME IInv, frames # <<>>, NEW data, NEW at, Return(data, at), UNCHANGED request,
         at = End(current), current.scope >= 0
  PROVE  IInv'
<1> DEFINE n == Len(frames)
<1> DEFINE value == [type |-> Type, data |-> data]
<1> DEFINE callers == Front(frames)
<1>1. n \in Nat \ {0} /\ current = frames[n] /\ DOMAIN frames = 1..n
  BY StackAt
<1>2. /\ IsStack(callers) /\ Len(callers) = n - 1 /\ (callers = <<>> <=> n = 1)
      /\ \A i \in 1..(n - 1) : callers[i] = frames[i]
  BY Popped DEF IInv, FramesStand
<1>3. /\ position' = at
      /\ frames' = IF callers = <<>> THEN <<>>
                   ELSE [callers EXCEPT ![Len(callers)] = Filled(callers[Len(callers)], value)]
      /\ outcome' = IF callers # <<>> THEN outcome
                    ELSE IF whole /\ at < Len(stream) THEN Refused("TRAILING_BYTES")
                    ELSE Value(value)
  BY DEF Return
<1>4. RequestStands'
  BY DEF IInv, RequestStands
<1>5. CASE n = 1
  <2>1. frames' = <<>> /\ callers = <<>>
    BY <1>2, <1>3, <1>5
  <2>2. DOMAIN frames' = {} /\ Len(frames') = 0
    BY <2>1
  <2>3. FramesStand' /\ CallsMeet' /\ ScopesNest' /\ TopReached'
    <3>1. <<>> \in Seq(ToSet(<<>>))
      OBVIOUS
    <3>. QED
      BY <2>1, <2>2, <3>1 DEF FramesStand, IsStack, CallsMeet, ScopesNest, TopReached
  <2>4. at = request.scope /\ request.scope \in Int
    BY <1>1, <1>5, StackAt DEF End
  <2>5. ~ (whole /\ at < Len(stream))
    BY <2>4 DEF whole
  <2>6. outcome' = [answer |-> "value", value |-> value]
    BY <1>3, <2>1, <2>5 DEF Value
  <2>7. WholeInputsNeverRunShort'
    <3>1. \A fault : outcome' # [answer |-> "refused", fault |-> fault]
      BY <2>6
    <3>. QED
      BY <3>1 DEF WholeInputsNeverRunShort, Refused
  <2>8. OutcomeStands'
    BY <1>3, <2>1, <2>4, <2>7 DEF OutcomeStands
  <2>. QED
    BY <1>4, <2>3, <2>8 DEF IInv
<1>6. CASE n # 1
  <2> DEFINE m == n - 1
  <2> DEFINE caller == frames[m]
  <2>1. m \in 1..n /\ m \in Nat \ {0} /\ m + 1 = n /\ m \in 1..m
    BY <1>1, <1>6
  <2>2. Calls(caller, current) /\ FrameStands(caller)
    BY <1>1, <2>1 DEF IInv, CallsMeet, FramesStand
  <2>3. callers # <<>> /\ Len(callers) = m /\ callers[m] = caller
    BY <1>2, <1>6, <2>1
  <2>4. frames' = [callers EXCEPT ![m] = Filled(caller, value)] /\ outcome' = outcome
    BY <1>3, <2>3
  <2>5. /\ IsStack(frames') /\ Len(frames') = m /\ DOMAIN frames' = 1..m
        /\ \A i \in 1..m : frames'[i] = IF i = m THEN Filled(caller, value) ELSE frames[i]
    <3> HIDE DEF m, caller, callers, value
    <3>1. \A i \in 1..m : callers[i] = frames[i]
      BY <1>2, <2>1 DEF m
    <3>2. IsStack(callers) /\ m \in 1..Len(callers)
      BY <1>2, <2>1, <2>3
    <3>3. /\ IsStack(frames') /\ Len(frames') = Len(callers) /\ DOMAIN frames' = 1..Len(callers)
          /\ \A i \in 1..Len(callers) :
               frames'[i] = IF i = m THEN Filled(caller, value) ELSE callers[i]
      BY <2>4, <3>2, Replaced
    <3>. QED
      BY <2>3, <3>1, <3>3
  <2> HIDE DEF value
  <2>6. /\ FrameStands(Filled(caller, value)) /\ Reached(Filled(caller, value)) = at
        /\ Filled(caller, value).scope = caller.scope
        /\ Filled(caller, value).start = caller.start
    BY <2>2, FilledStands
  <2> HIDE DEF callers, n
  <2>7. \A i \in 1..m : frames'[i].scope = frames[i].scope /\ frames'[i].start = frames[i].start
    BY <2>5, <2>6
  <2>8. FramesStand'
    <3>1. \A i \in 1..m : i \in 1..n
      BY <1>1
    <3>2. \A i \in 1..m : FrameStands(frames'[i])
      BY <1>1, <2>5, <2>6, <3>1 DEF IInv, FramesStand
    <3>. QED
      BY <2>5, <3>2 DEF FramesStand, FrameStands, IsFrame, JustCalled, InTable, InSlots, InBodies, IsStack
  <2>9. CallsMeet'
    <3>1. ASSUME NEW k \in 1..(m - 1)
          PROVE  Calls(frames'[k], frames'[k + 1])
      <4>1. k \in 1..(n - 1) /\ k \in 1..m /\ k + 1 \in 1..m /\ k # m
        BY <1>1, <2>1
      <4>2. Calls(frames[k], frames[k + 1])
        BY <4>1 DEF IInv, CallsMeet, n
      <4>3. frames'[k] = frames[k]
        BY <2>5, <4>1
      <4>4. frames'[k + 1].scope = frames[k + 1].scope /\ frames'[k + 1].start = frames[k + 1].start
        BY <2>7, <4>1
      <4>. QED
        BY <4>2, <4>3, <4>4 DEF Calls
    <3>. QED
      BY <2>5, <3>1 DEF CallsMeet, Calls, Reached, Span, Bounds
  <2>10. ScopesNest'
    <3>1. \A i \in 1..m : i \in 1..n
      BY <1>1
    <3>2. \A j, k \in 1..m : j < k => frames'[k].scope >= 0 /\ End(frames'[k]) <= End(frames'[j])
      BY <1>1, <2>7, <3>1 DEF IInv, ScopesNest, End
    <3>. QED
      BY <2>5, <3>2 DEF ScopesNest, End
  <2>11. TopReached'
    <3>1. Last(frames') = Filled(caller, value) /\ 1 \in 1..m
      BY <2>1, <2>5 DEF Last
    <3>2. frames'[1].scope = request.scope /\ frames'[1].start = 0
      BY <2>7, <3>1, StackAt
    <3>3. position' = Reached(Last(frames'))
      BY <1>3, <2>6, <3>1
    <3>. QED
      BY <3>2, <3>3 DEF TopReached, current, Reached, Bounds
  <2>12. OutcomeStands'
    BY <2>4 DEF IInv, OutcomeStands, WholeInputsNeverRunShort, whole, stream, Pending, Refused
  <2>. QED
    BY <1>4, <2>8, <2>9, <2>10, <2>11, <2>12 DEF IInv
<1>. QED
  BY <1>5, <1>6

---------------------------------------------------------------------------
(* Numbers. *)

Octets == 0..(pow2[BitsPerByte] - 1)

LEMMA PowerOf ==
  ASSUME NEW k \in Nat
  PROVE  pow2[k] \in Nat \ {0}
BY Powers

LEMMA NatTimes ==
  ASSUME NEW a \in Nat, NEW b \in Nat
  PROVE  a * b \in Nat
OBVIOUS

LEMMA BytesHaveBits == BitsPerByte \in Nat \ {0} /\ pow2[BitsPerByte] \in Nat \ {0}
<1>1. BitsPerByte \in Nat \ {0}
  BY BytesAssumption
<1>. QED
  BY <1>1, PowerOf

(* A number is spelled from its greatest digit down. *)
Spells(top, digits, base) ==
  /\ top[0] = 0
  /\ \A k \in 1..Len(digits) : top[k] = digits[Len(digits) + 1 - k] + base * top[k - 1]
  /\ \A k \in 0..Len(digits) : top[k] \in Nat
  /\ Spelled(digits, base) = top[Len(digits)]

LEMMA SpelledIs ==
  ASSUME NEW base \in Nat, NEW digits \in Seq(Nat)
  PROVE  \E top : Spells(top, digits, base)
<1> DEFINE n == Len(digits)
           step == [k \in 1..n |-> [x \in Nat |-> digits[n + 1 - k] + base * x]]
<1>1. n \in Nat /\ \A k \in 1..n : n + 1 - k \in 1..n /\ digits[n + 1 - k] \in Nat
  <2>1. n \in Nat
    OBVIOUS
  <2>2. ASSUME NEW k \in 1..n
        PROVE  n + 1 - k \in 1..n
    BY <2>1
  <2>. QED
    BY <2>1, <2>2
<1> HIDE DEF n
<1>2. n \in Nat /\ \A k \in 1..n : step[k] \in [Nat -> Nat]
  BY <1>1
<1> HIDE DEF step
<1>3. PICK f : Climbs(f, n, Nat, 0, step)
  BY <1>2, StepsTaken
<1>4. f = [k \in 0..n |-> IF k = 0 THEN 0 ELSE digits[n + 1 - k] + base * f[k - 1]]
  <2>1. ASSUME NEW k \in 0..n
        PROVE  (IF k = 0 THEN 0 ELSE step[k][f[k - 1]]) =
                 (IF k = 0 THEN 0 ELSE digits[n + 1 - k] + base * f[k - 1])
    <3>1. k # 0 => k \in 1..n /\ k - 1 \in 0..n
      BY <1>1
    <3>2. k # 0 => f[k - 1] \in Nat
      BY <1>3, <3>1 DEF Climbs
    <3>. QED
      BY <3>1, <3>2 DEF step
  <2>. QED
    BY <1>3, <2>1 DEF Climbs
<1> DEFINE top == CHOOSE g : g = [k \in 0..n |-> IF k = 0 THEN 0 ELSE digits[n + 1 - k] + base * g[k - 1]]
<1>5. top = [k \in 0..n |-> IF k = 0 THEN 0 ELSE digits[n + 1 - k] + base * top[k - 1]]
  BY <1>4
<1>6. Spelled(digits, base) = top[n]
  BY DEF Spelled, n
<1> HIDE DEF top
<1>7. top[0] = 0 /\ \A k \in 1..n : top[k] = digits[n + 1 - k] + base * top[k - 1]
  <2>1. 0 \in 0..n /\ \A k \in 1..n : k \in 0..n /\ k # 0
    BY <1>1
  <2>2. \A k \in 0..n : top[k] = IF k = 0 THEN 0 ELSE digits[n + 1 - k] + base * top[k - 1]
    BY <1>5
  <2>. QED
    BY <2>1, <2>2
<1> DEFINE S == {k \in Nat : k <= n => top[k] \in Nat}
<1>8. 0 \in S
  BY <1>7
<1>9. ASSUME NEW k \in Nat, k \in S
      PROVE  k + 1 \in S
  <2>1. ASSUME k + 1 <= n
        PROVE  top[k + 1] \in Nat
    <3>1. k + 1 \in 1..n /\ (k + 1) - 1 = k /\ k <= n
      BY <1>1, <2>1
    <3>2. top[k + 1] = digits[n + 1 - (k + 1)] + base * top[k] /\ top[k] \in Nat
      BY <1>7, <1>9, <3>1
    <3>3. digits[n + 1 - (k + 1)] \in Nat
      BY <1>1, <3>1
    <3>4. base * top[k] \in Nat
      BY <3>2, NatTimes
    <3> DEFINE low == digits[n + 1 - (k + 1)]
               rest == base * top[k]
    <3>5. top[k + 1] = low + rest /\ low \in Nat /\ rest \in Nat
      BY <3>2, <3>3, <3>4, Zenon
    <3> HIDE DEF low, rest
    <3>. QED
      BY <3>5
  <2>. QED
    BY <2>1
<1>10. Nat \subseteq S
  <2> HIDE DEF S
  <2>. QED
    BY <1>8, <1>9, FromZeroUp
<1>11. \A k \in 0..n : top[k] \in Nat
  <2>1. \A k \in 0..n : k \in Nat /\ k <= n
    BY <1>1
  <2>. QED
    BY <1>10, <2>1
<1>12. Spells(top, digits, base)
  BY <1>6, <1>7, <1>11 DEF Spells, n
<1>. QED
  BY <1>12

(* So many digits spell a number of as many bits. *)
LEMMA DigitsFit ==
  ASSUME NEW b \in Nat \ {0}, NEW p \in Nat \ {0}, NEW d \in 0..(b - 1), NEW x \in 0..(p - 1)
  PROVE  d + b * x \in 0..(b * p - 1)
<1>1. x <= p - 1 /\ b * x <= b * (p - 1) /\ b * x \in Nat
  BY MoreTimes
<1>2. b * (p - 1) = b * p - b /\ b * p \in Nat
  OBVIOUS
<1>. QED
  BY <1>1, <1>2

LEMMA BytesSpell ==
  ASSUME NEW bytes \in Seq(Octets)
  PROVE  FromBytes(bytes) \in 0..(pow2[BitsPerByte * Len(bytes)] - 1)
<1> DEFINE n == Len(bytes)
           base == pow2[BitsPerByte]
<1>1. n \in Nat /\ BitsPerByte \in Nat \ {0} /\ base \in Nat \ {0}
  BY BytesHaveBits
<1>2. bytes \in Seq(Nat) /\ \A i \in 1..n : bytes[i] \in 0..(base - 1)
  <2>1. Octets \subseteq Nat
    BY DEF Octets
  <2>2. bytes \in Seq(Nat)
    BY <2>1, SeqMonotonic
  <2>3. \A i \in 1..n : bytes[i] \in Octets
    OBVIOUS
  <2>. QED
    BY <2>2, <2>3 DEF Octets
<1>3. PICK top : Spells(top, bytes, base)
  BY <1>1, <1>2, SpelledIs
<1>4. /\ top[0] = 0 /\ Spelled(bytes, base) = top[n]
      /\ \A k \in 1..n : top[k] = bytes[n + 1 - k] + base * top[k - 1]
  BY <1>3 DEF Spells
<1>5. FromBytes(bytes) = top[n]
  BY <1>4 DEF FromBytes
<1> DEFINE S == {k \in Nat : k <= n => top[k] \in 0..(pow2[BitsPerByte * k] - 1)}
<1> HIDE DEF n, base
<1>6. 0 \in S
  <2>1. BitsPerByte * 0 = 0
    BY <1>1
  <2>2. pow2[0] = 1
    BY Powers
  <2>3. 0 \in 0..(1 - 1)
    OBVIOUS
  <2>. QED
    BY <1>4, <2>1, <2>2, <2>3
<1>7. ASSUME NEW k \in Nat, k \in S
      PROVE  k + 1 \in S
  <2>1. ASSUME k + 1 <= n
        PROVE  top[k + 1] \in 0..(pow2[BitsPerByte * (k + 1)] - 1)
    <3>1. /\ k + 1 \in 1..n /\ (k + 1) - 1 = k /\ k <= n
          /\ n + 1 - (k + 1) \in 1..n
      BY <1>1, <2>1
    <3>2. top[k + 1] = bytes[n + 1 - (k + 1)] + base * top[k]
      BY <1>4, <3>1
    <3>3. BitsPerByte * (k + 1) = BitsPerByte + BitsPerByte * k /\ BitsPerByte * k \in Nat
      BY <1>1
    <3>4. /\ pow2[BitsPerByte * (k + 1)] = base * pow2[BitsPerByte * k]
          /\ pow2[BitsPerByte * k] \in Nat \ {0}
      BY <1>1, <3>3, PowersMultiply, PowerOf DEF base
    <3>5. top[k] \in 0..(pow2[BitsPerByte * k] - 1)
      BY <1>7, <3>1
    <3>. QED
      BY <1>1, <1>2, <3>1, <3>2, <3>4, <3>5, DigitsFit
  <2>. QED
    BY <2>1
<1>8. Nat \subseteq S
  <2> HIDE DEF S
  <2>. QED
    BY <1>6, <1>7, FromZeroUp
<1>9. top[n] \in 0..(pow2[BitsPerByte * n] - 1)
  <2>1. n \in Nat /\ n <= n
    BY <1>1
  <2>. QED
    BY <1>8, <2>1
<1>. QED
  BY <1>5, <1>9 DEF n

---------------------------------------------------------------------------
(* The stream. *)

LEMMA StreamStands ==
  ASSUME IInv
  PROVE  /\ Len(stream) \in Nat /\ request.scope \in Int /\ stream \in Seq(Octets)
         /\ \A i \in 0..Len(stream), n \in Nat : i + n <= Len(stream) =>
              FromBytes(SubSeq(stream, i + 1, i + n)) \in 0..(pow2[BitsPerByte * n] - 1)
<1>1. stream \in Seq(Octets) /\ request.scope \in Int
  BY BytesAssumption DEF IInv, RequestStands, stream, Octets
<1>2. Len(stream) \in Nat
  BY <1>1
<1>3. ASSUME NEW i \in 0..Len(stream), NEW n \in Nat, i + n <= Len(stream)
      PROVE  FromBytes(SubSeq(stream, i + 1, i + n)) \in 0..(pow2[BitsPerByte * n] - 1)
  <2>1. i + 1 \in Nat /\ i + n \in Nat /\ \A j \in (i + 1)..(i + n) : j \in 1..Len(stream)
    BY <1>2, <1>3
  <2>2. \A j \in (i + 1)..(i + n) : stream[j] \in Octets
    BY <1>1, <2>1
  <2>3. /\ SubSeq(stream, i + 1, i + n) \in Seq(Octets)
        /\ Len(SubSeq(stream, i + 1, i + n)) =
             IF i + 1 <= i + n THEN (i + n) - (i + 1) + 1 ELSE 0
    BY <2>1, <2>2, SubSeqProperties
  <2>4. (IF i + 1 <= i + n THEN (i + n) - (i + 1) + 1 ELSE 0) = n
    BY <1>2
  <2>. QED
    BY <2>3, <2>4, BytesSpell
<1>. QED
  BY <1>1, <1>2, <1>3

LEMMA Positioned ==
  ASSUME IInv, frames # <<>>
  PROVE  /\ position \in Nat
         /\ ~ JustCalled(current) => current.scope >= 0
         /\ JustCalled(current) => position = current.start
<1>1. CASE JustCalled(current)
  BY <1>1, StackAt DEF JustCalled, Reached
<1>2. CASE ~ JustCalled(current)
  <2>1. current.scope >= 0
    <3>1. CASE InTable(current)
      <4>1. current.offsets[1] \in Nat
        BY <3>1, StackAt DEF InTable
      <4>. QED
        BY <3>1, <4>1, StackAt DEF InTable
    <3>2. CASE InSlots(current)
      <4>1. LeadingWidth(current.type) \in Nat
        BY <3>2, StackAt, Slots DEF InSlots
      <4>. QED
        BY <3>2, <4>1, StackAt DEF InSlots
    <3>3. CASE InBodies(current)
      BY <3>3 DEF InBodies
    <3>. QED
      BY <1>2, <3>1, <3>2, <3>3, StackAt DEF FrameStands
  <2>. QED
    BY <1>2, <2>1, StackAt, ReachedIsInside
<1>. QED
  BY <1>1, <1>2

(* Only the outermost scope may be of less than nothing. *)
LEMMA ScopeOrOutermost ==
  ASSUME IInv, frames # <<>>
  PROVE  /\ End(current) <= End(frames[1]) /\ End(frames[1]) = request.scope
         /\ current.scope >= 0 \/ current.start = 0
         /\ whole => current.scope >= 0
<1>1. /\ Len(frames) \in Nat \ {0} /\ DOMAIN frames = 1..Len(frames)
      /\ current = frames[Len(frames)]
      /\ current.scope \in Int /\ request.scope \in Int
      /\ frames[1].scope = request.scope /\ frames[1].start = 0
  BY StackAt, StreamStands
<1>2. End(frames[1]) = request.scope
  BY <1>1 DEF End
<1>3. CASE Len(frames) = 1
  <2>1. End(current) <= End(frames[1])
    BY <1>1, <1>2, <1>3
  <2>2. whole => current.scope >= 0
    BY <1>1, <1>3, StreamStands DEF whole
  <2>. QED
    BY <1>1, <1>2, <1>3, <2>1, <2>2
<1>4. CASE Len(frames) # 1
  <2>1. 1 \in DOMAIN frames /\ Len(frames) \in DOMAIN frames /\ 1 < Len(frames)
    BY <1>1, <1>4
  <2>2. current.scope >= 0 /\ End(current) <= End(frames[1])
    BY <1>1, <2>1 DEF IInv, ScopesNest
  <2>. QED
    BY <1>2, <2>2
<1>. QED
  BY <1>3, <1>4

(* What a scope has room for is there, where the input is whole. *)
LEMMA RoomLeft ==
  ASSUME IInv, frames # <<>>, whole, NEW n \in Nat, position + n <= End(current)
  PROVE  n <= Available /\ Taken(n) = n
<1>1. End(current) <= Len(stream)
  BY ScopeOrOutermost DEF whole
<1>2. End(current) \in Int /\ position \in Nat /\ Len(stream) \in Nat
  BY StackAt, Positioned, StreamStands DEF End
<1>. QED
  BY <1>1, <1>2 DEF Available, Taken

LEMMA OffsetIsNumber ==
  ASSUME IInv, frames # <<>>, NEW k \in Nat \ {0}, k * OffsetWidth <= Available
  PROVE  Offset(k) \in Nat
<1> DEFINE i == position + (k - 1) * OffsetWidth
<1>1. position \in Nat /\ Len(stream) \in Nat /\ OffsetWidth \in Nat
  BY Positioned, StreamStands, OffsetsAreWide
<1>2. (k - 1) * OffsetWidth \in Nat /\ (k - 1) * OffsetWidth + OffsetWidth = k * OffsetWidth
      /\ k * OffsetWidth \in Nat
  BY <1>1, Multiples
<1>3. i \in Nat /\ i + OffsetWidth = position + k * OffsetWidth
  BY <1>1, <1>2
<1>4. position + k * OffsetWidth <= Len(stream)
  BY <1>1, <1>2 DEF Available
<1>5. i \in 0..Len(stream) /\ i + OffsetWidth <= Len(stream)
  BY <1>1, <1>3, <1>4
<1>6. Offset(k) = FromBytes(SubSeq(stream, i + 1, i + OffsetWidth))
  BY <1>3 DEF Offset
<1>7. OffsetWidth \in Nat /\ BitsPerByte * OffsetWidth \in Nat
  BY <1>1, BytesHaveBits
<1> HIDE DEF i
<1>8. Offset(k) \in 0..(pow2[BitsPerByte * OffsetWidth] - 1)
  BY <1>5, <1>6, <1>7, StreamStands
<1>. QED
  BY <1>8

(* The offsets of a table, where all of it is there. *)
LEMMA TableOfOffsets ==
  ASSUME IInv, frames # <<>>, NEW n \in Nat, n * OffsetWidth <= Available
  PROVE  /\ Offsets(n) \in Seq(Nat) /\ Len(Offsets(n)) = n
         /\ \A k \in 1..n : Offsets(n)[k] = Offset(k)
<1>1. ASSUME NEW k \in 1..n
      PROVE  Offset(k) \in Nat
  <2>1. OffsetWidth \in Nat /\ Available \in Int
    BY OffsetsAreWide, Positioned, StreamStands DEF Available
  <2>2. k * OffsetWidth <= n * OffsetWidth /\ k * OffsetWidth \in Nat /\ n * OffsetWidth \in Nat
    BY <2>1, Multiples
  <2>3. k \in Nat \ {0} /\ k * OffsetWidth <= Available
    BY <2>1, <2>2
  <2>. QED
    BY <2>3, OffsetIsNumber
<1>. QED
  BY <1>1 DEF Offsets

---------------------------------------------------------------------------
(* The steps of each shape. *)

LEMMA AtCalled ==
  ASSUME IInv, At("called")
  PROVE  /\ frames # <<>> /\ UNCHANGED request
         /\ JustCalled(current) /\ position = current.start
         /\ Type = current.type /\ IsFrame(current)
<1>1. frames # <<>> /\ current.stage = "called" /\ UNCHANGED request
  BY DEF At
<1>2. FrameStands(current)
  BY <1>1, StackAt
<1>3. JustCalled(current) /\ IsFrame(current)
  BY <1>1, <1>2 DEF FrameStands, InTable, InSlots, InBodies
<1>. QED
  BY <1>1, <1>3, Positioned DEF Type

LEMMA RefuseScopeKeeps ==
  ASSUME IInv, RefuseScope
  PROVE  IInv'
<1>1. frames # <<>> /\ UNCHANGED request /\ Refuse(ScopeFault(Type, current.scope), position)
      /\ Type = current.type
  BY AtCalled DEF RefuseScope
<1>2. whole => ScopeFault(Type, current.scope) \notin Forbidden
  BY <1>1, StackAt, ScopeOrOutermost, ScopeFaults DEF Forbidden
<1>. QED
  BY <1>1, <1>2, RefuseKeeps

(* A leaf takes all of its scope or is refused. *)
LEMMA ReadLeafKeeps ==
  ASSUME IInv, ReadLeaf
  PROVE  IInv'
<1> DEFINE fault == LeafFault(Type, current.scope)
<1>1. /\ frames # <<>> /\ UNCHANGED request /\ JustCalled(current) /\ position = current.start
      /\ current.scope \in Int /\ position \in Nat
  BY AtCalled, StackAt, Positioned DEF ReadLeaf, Entered
<1>2. IF fault # NoFault THEN Refuse(fault, position + Taken(current.scope))
      ELSE Return(LeafData(Type, Bytes(current.scope)), position + current.scope)
  BY DEF ReadLeaf, Either
<1>3. CASE fault # NoFault
  <2>1. Taken(current.scope) = current.scope => fault \notin Forbidden
    BY DEF LeafFault, BitListFault, Forbidden, NoFault
  <2>2. whole => Taken(current.scope) = current.scope
    <3>1. ASSUME whole
          PROVE  Taken(current.scope) = current.scope
      <4>1. current.scope \in Nat
        BY <1>1, <3>1, ScopeOrOutermost
      <4>2. position + current.scope <= End(current)
        BY <1>1 DEF End
      <4>. QED
        BY <1>1, <3>1, <4>1, <4>2, RoomLeft
    <3>. QED
      BY <3>1
  <2> HIDE DEF fault
  <2>. QED
    BY <1>1, <1>2, <1>3, <2>1, <2>2, RefuseKeeps
<1>4. CASE fault = NoFault
  <2>1. Taken(current.scope) = current.scope
    BY <1>4 DEF LeafFault, NoFault
  <2>2. current.scope >= 0
    <3>1. CASE current.start = 0
      BY <1>1, <2>1, <3>1, StreamStands DEF Taken, Available
    <3>. QED
      BY <1>1, <3>1, ScopeOrOutermost
  <2>3. position + current.scope = End(current)
    BY <1>1 DEF End
  <2>4. Return(LeafData(Type, Bytes(current.scope)), position + current.scope)
    BY <1>2, <1>4
  <2>. QED
    BY <1>1, <2>2, <2>3, <2>4, ReturnKeeps
<1>. QED
  BY <1>3, <1>4

(* A frame that is given its bodies, before the first is read. *)
LEMMA BodiesStand ==
  ASSUME NEW opened, IsFrame(opened), opened.stage = "bodies", opened.next = 1,
         opened.scope >= 0,
         \A k \in 1..Len(opened.offsets) : Bounds(opened)[k] <= Bounds(opened)[k + 1],
         \/ IsSequence(opened.type)
         \/ /\ IsStruct(opened.type)
            /\ opened.variable_fields \in Seq(DOMAIN opened.type.fields)
            /\ Len(opened.variable_fields) = Len(opened.offsets)
         \/ /\ opened.type.shape = "union"
            /\ opened.option \in DOMAIN opened.type.options
  PROVE  /\ FrameStands(opened)
         /\ Reached(opened) = opened.start + Bounds(opened)[1]
<1>1. Len(opened.offsets) \in Nat
  BY DEF IsFrame
<1>2. InBodies(opened)
  BY <1>1 DEF InBodies
<1>3. Reached(opened) = opened.start + Bounds(opened)[1]
  BY DEF Reached
<1>. QED
  BY <1>2, <1>3 DEF FrameStands

LEMMA OpenUniformKeeps ==
  ASSUME IInv, OpenUniform
  PROVE  IInv'
<1> DEFINE width == fixedSize[Type.element]
<1> DEFINE count == IF current.scope = 0 THEN 0 ELSE current.scope \div width
<1> DEFINE offsets == [e \in 1..count |-> (e - 1) * width]
<1> DEFINE opened ==
      [current EXCEPT !.stage = "bodies", !.parts = Unread(count), !.offsets = offsets]
<1>1. /\ frames # <<>> /\ UNCHANGED request /\ JustCalled(current) /\ position = current.start
      /\ Type = current.type /\ IsFrame(current) /\ IsSequence(Type)
      /\ ScopeFault(Type, current.scope) = NoFault
      /\ IsFixed(Type.element) \/ current.scope = 0
      /\ Continue(opened, position)
  BY AtCalled DEF OpenUniform, Entered
<1>2. Type \in Types /\ current.scope \in Int /\ position \in Nat
  BY <1>1, StackAt, Positioned
<1>3. /\ current.scope \in Nat /\ count \in Nat
      /\ offsets \in Seq(Nat) /\ Len(offsets) = count
      /\ \A k \in 1..count : Append(offsets, current.scope)[k] = (k - 1) * width
      /\ Append(offsets, current.scope)[count + 1] = current.scope
      /\ count > 0 => width \in Nat /\ current.scope = count * width
  <2>1. CASE current.scope = 0
    <3>1. count = 0
      BY <2>1
    <3> HIDE DEF count, width
    <3>2. offsets = <<>>
      BY <3>1
    <3> HIDE DEF offsets
    <3>. QED
      BY <2>1, <3>1, <3>2
  <2>2. CASE current.scope # 0
    <3>1. /\ current.scope \in Nat /\ width \in Nat \ {0}
          /\ current.scope = (current.scope \div width) * width
      BY <1>1, <1>2, <2>2, UniformScope
    <3>2. count = current.scope \div width /\ count \in Nat
      BY <2>2, <3>1, Quotients
    <3> HIDE DEF count, width
    <3>3. \A k \in 1..count : (k - 1) * width \in Nat
      BY <3>1, <3>2, Multiples
    <3>4. offsets \in Seq(Nat) /\ Len(offsets) = count /\ \A k \in 1..count : offsets[k] = (k - 1) * width
      <4>1. offsets \in [1..count -> Nat] /\ \A k \in 1..count : offsets[k] = (k - 1) * width
        BY <3>3
      <4> HIDE DEF offsets
      <4>. QED
        BY <3>2, <4>1
    <3> HIDE DEF offsets
    <3>5. /\ \A k \in 1..count : Append(offsets, current.scope)[k] = offsets[k]
          /\ Append(offsets, current.scope)[count + 1] = current.scope
      BY <3>1, <3>4, AppendProperties
    <3>. QED
      BY <3>1, <3>2, <3>4, <3>5
  <2>. QED
    BY <2>1, <2>2
<1>4. /\ opened = [field \in FrameFields |-> opened[field]]
      /\ opened.type = Type /\ opened.scope = current.scope /\ opened.start = current.start
      /\ opened.next = 1 /\ opened.stage = "bodies" /\ opened.offsets = offsets
  <2>1. DOMAIN current = FrameFields
    BY <1>1 DEF IsFrame
  <2>. QED
    BY <1>1, <2>1 DEF FrameFields, JustCalled
<1>5. Bounds(opened) = Append(offsets, current.scope)
  BY <1>4 DEF Bounds
<1> HIDE DEF count, width, offsets
<1>6. \A k \in 1..Len(offsets) : Bounds(opened)[k] <= Bounds(opened)[k + 1]
  <2>1. ASSUME NEW k \in 1..count
        PROVE  Append(offsets, current.scope)[k] <= Append(offsets, current.scope)[k + 1]
    <3>1. width \in Nat /\ k \in Nat \ {0} /\ current.scope = count * width
      BY <1>3
    <3>2. (k - 1) * width + width = k * width /\ (k - 1) * width \in Nat /\ k * width \in Nat
      BY <3>1, Multiples
    <3>3. CASE k = count
      BY <1>3, <3>1, <3>2, <3>3
    <3>4. CASE k # count
      <4>1. k + 1 \in 1..count /\ (k + 1) - 1 = k
        BY <1>3, <3>4
      <4>2. Append(offsets, current.scope)[k + 1] = k * width
        BY <1>3, <4>1
      <4>. QED
        BY <1>3, <3>1, <3>2, <4>2
    <3>. QED
      BY <3>3, <3>4
  <2>. QED
    BY <1>3, <1>5, <2>1
<1>7. Bounds(opened)[1] = 0
  <2>1. CASE count = 0
    <3>1. current.scope = 0
      <4>1. CASE current.scope # 0
        <5>1. /\ width \in Nat \ {0} /\ current.scope = (current.scope \div width) * width
          BY <1>1, <1>2, <4>1, UniformScope DEF width
        <5>2. current.scope \div width = 0
          BY <2>1, <4>1 DEF count
        <5>. QED
          BY <4>1, <5>1, <5>2
      <4>. QED
        BY <4>1
    <3>. QED
      BY <1>3, <1>5, <2>1, <3>1
  <2>2. CASE count # 0
    <3>1. 1 \in 1..count /\ (1 - 1) * width = 0
      BY <1>3, <2>2
    <3>. QED
      BY <1>3, <1>5, <3>1
  <2>. QED
    BY <2>1, <2>2
<1> HIDE DEF opened
<1>8. FrameStands(opened) /\ Reached(opened) = opened.start + Bounds(opened)[1]
  <2>1. IsFrame(opened)
    BY <1>1, <1>3, <1>4 DEF IsFrame
  <2>. QED
    BY <1>1, <1>3, <1>4, <1>6, <2>1, BodiesStand
<1>9. Reached(opened) = position
  BY <1>1, <1>2, <1>4, <1>7, <1>8
<1>. QED
  BY <1>1, <1>4, <1>8, <1>9, ContinueKeeps

(* The table of a vector is as wide as its length says. *)
LEMMA OpenVectorKeeps ==
  ASSUME IInv, OpenVector
  PROVE  IInv'
<1> DEFINE n == Type.length
<1> DEFINE width == n * OffsetWidth
<1> DEFINE fault == VectorTableFault(Type, current.scope)
<1> DEFINE opened ==
      [current EXCEPT !.stage = "bodies", !.parts = Unread(n), !.offsets = Offsets(n)]
<1>1. /\ frames # <<>> /\ UNCHANGED request /\ JustCalled(current) /\ position = current.start
      /\ Type = current.type /\ IsFrame(current) /\ Type.shape = "vector"
      /\ ScopeFault(Type, current.scope) = NoFault /\ ~ IsFixed(Type.element)
      /\ IF fault # NoFault THEN Refuse(fault, position + Taken(width))
         ELSE Continue(opened, position + width)
  BY AtCalled DEF OpenVector, Entered, Either
<1>2. Type \in Types /\ current.scope \in Int /\ position \in Nat
  BY <1>1, StackAt, Positioned
<1>3. n \in Nat \ {0} /\ width \in Nat /\ width <= current.scope /\ IsSequence(Type)
  <2>1. IsSequence(Type)
    BY <1>1 DEF IsSequence
  <2>2. n \in Nat \ {0} /\ width <= current.scope
    BY <1>1, <1>2, <2>1, TableScope
  <2> HIDE DEF n
  <2>3. width \in Nat
    BY <2>2, OffsetsAreWide, Products
  <2>. QED
    BY <2>1, <2>2, <2>3
<1>4. whole => width <= Available
  <2>1. position + width <= End(current)
    BY <1>1, <1>2, <1>3 DEF End
  <2> HIDE DEF width
  <2>. QED
    BY <1>1, <1>3, <2>1, RoomLeft
<1>5. CASE fault # NoFault
  <2>1. width <= Available => fault \notin Forbidden
    <3>1. width \in Nat /\ Available \in Int
      BY <1>1, <1>3, Positioned, StreamStands DEF Available
    <3>. QED
      BY <3>1 DEF VectorTableFault, FirstOffsetFault, SpansFault, Forbidden, NoFault
  <2> HIDE DEF fault, opened, width
  <2>. QED
    BY <1>1, <1>4, <1>5, <2>1, RefuseKeeps
<1>6. CASE fault = NoFault
  <2>1. width <= Available /\ Offsets(n)[1] = width /\ SpansFault(Offsets(n), current.scope) = NoFault
    <3>1. width \in Nat /\ Available \in Int
      BY <1>1, <1>3, Positioned, StreamStands DEF Available
    <3>. QED
      BY <1>6, <3>1 DEF VectorTableFault, FirstOffsetFault, NoFault
  <2>2. Offsets(n) \in Seq(Nat) /\ Len(Offsets(n)) = n
    <3> HIDE DEF n
    <3>. QED
      BY <1>1, <1>3, <2>1, TableOfOffsets
  <2>3. /\ opened = [field \in FrameFields |-> opened[field]]
        /\ opened.type = Type /\ opened.scope = current.scope /\ opened.start = current.start
        /\ opened.next = 1 /\ opened.stage = "bodies" /\ opened.offsets = Offsets(n)
    <3>1. DOMAIN current = FrameFields
      BY <1>1 DEF IsFrame
    <3>. QED
      BY <1>1, <3>1 DEF FrameFields, JustCalled
  <2>4. Continue(opened, position + width)
    BY <1>1, <1>6
  <2> HIDE DEF opened, n, fault
  <2>5. IsFrame(opened)
    BY <1>1, <2>2, <2>3 DEF IsFrame
  <2>6. opened.offsets # <<>>
    BY <1>3, <2>2, <2>3
  <2>7. \A k \in 1..Len(opened.offsets) : Bounds(opened)[k] <= Bounds(opened)[k + 1]
    BY <1>2, <2>1, <2>2, <2>3, <2>6, SpansStand
  <2>8. FrameStands(opened) /\ Reached(opened) = opened.start + Bounds(opened)[1]
    <3>1. opened.scope >= 0 /\ IsSequence(opened.type)
      BY <1>2, <1>3, <2>3
    <3>. QED
      BY <2>3, <2>5, <2>7, <3>1, BodiesStand
  <2>9. Bounds(opened)[1] = width
    BY <2>1, <2>3, <2>5, <2>6, FirstBound DEF IsFrame
  <2>10. Reached(opened) = position + width
    BY <1>1, <2>3, <2>8, <2>9
  <2>. QED
    BY <1>1, <2>3, <2>4, <2>8, <2>10, ContinueKeeps
<1>. QED
  BY <1>5, <1>6

(* A list's first offset says how wide its table is. *)
LEMMA OpenListKeeps ==
  ASSUME IInv, OpenList
  PROVE  IInv'
<1> DEFINE fault == ListHeadFault(Type, current.scope)
<1> DEFINE opened == [current EXCEPT !.stage = "table", !.offsets = Offsets(1)]
<1>1. /\ frames # <<>> /\ UNCHANGED request /\ JustCalled(current) /\ position = current.start
      /\ Type = current.type /\ IsFrame(current) /\ IsList(Type)
      /\ ScopeFault(Type, current.scope) = NoFault /\ ~ IsFixed(Type.element)
      /\ current.scope > 0
      /\ IF fault # NoFault THEN Refuse(fault, position + Taken(OffsetWidth))
         ELSE Continue(opened, position + OffsetWidth)
  BY AtCalled DEF OpenList, Entered, Either
<1>2. /\ Type \in Types /\ current.scope \in Int /\ position \in Nat
      /\ OffsetWidth \in Nat \ {0} /\ Available \in Int
  BY <1>1, StackAt, Positioned, StreamStands, OffsetsAreWide DEF Available
<1>3. OffsetWidth <= current.scope
  <2>1. IsSequence(Type)
    BY <1>1 DEF IsSequence, IsList
  <2>. QED
    BY <1>1, <1>2, <2>1, TableScope
<1>4. whole => OffsetWidth <= Available
  <2>1. position + OffsetWidth <= End(current)
    BY <1>1, <1>2, <1>3 DEF End
  <2>. QED
    BY <1>1, <1>2, <2>1, RoomLeft
<1>5. CASE fault # NoFault
  <2>1. OffsetWidth <= Available => fault \notin Forbidden
    BY <1>2 DEF ListHeadFault, Forbidden, NoFault, Exceeds
  <2> HIDE DEF fault, opened
  <2>. QED
    BY <1>1, <1>4, <1>5, <2>1, RefuseKeeps
<1>6. CASE fault = NoFault
  <2>1. OffsetWidth <= Available
    BY <1>2, <1>6 DEF ListHeadFault, NoFault
  <2>2. Offset(1) \in Nat /\ Offsets(1) \in Seq(Nat) /\ Len(Offsets(1)) = 1 /\ Offsets(1)[1] = Offset(1)
    <3>1. 1 * OffsetWidth <= Available /\ 1 \in Nat \ {0} /\ 1 \in Nat
      BY <1>2, <2>1
    <3>2. Offset(1) \in Nat
      BY <1>1, <3>1, OffsetIsNumber
    <3>3. Offsets(1) \in Seq(Nat) /\ Len(Offsets(1)) = 1 /\ \A k \in 1..1 : Offsets(1)[k] = Offset(k)
      BY <1>1, <3>1, TableOfOffsets
    <3>. QED
      BY <3>2, <3>3
  <2>3. /\ OffsetWidth <= Offset(1) /\ Offset(1) <= current.scope
        /\ Offset(1) % OffsetWidth = 0
    BY <1>2, <1>6, <2>1, <2>2 DEF ListHeadFault, NoFault, Exceeds
  <2>4. /\ opened = [field \in FrameFields |-> opened[field]]
        /\ opened.type = Type /\ opened.scope = current.scope /\ opened.start = current.start
        /\ opened.next = 1 /\ opened.stage = "table" /\ opened.offsets = Offsets(1)
    <3>1. DOMAIN current = FrameFields
      BY <1>1 DEF IsFrame
    <3>. QED
      BY <1>1, <3>1 DEF FrameFields, JustCalled
  <2>5. Continue(opened, position + OffsetWidth)
    BY <1>1, <1>6
  <2> HIDE DEF opened, fault
  <2>6. IsFrame(opened)
    BY <1>1, <2>2, <2>4 DEF IsFrame
  <2>7. InTable(opened)
    BY <1>1, <2>2, <2>3, <2>4 DEF InTable
  <2>8. Reached(opened) = position + OffsetWidth
    BY <1>1, <2>4 DEF Reached
  <2>. QED
    BY <1>1, <2>4, <2>5, <2>6, <2>7, <2>8, ContinueKeeps DEF FrameStands
<1>. QED
  BY <1>5, <1>6

(* The rest of a list's table follows the offset that measures it. *)
LEMMA ReadTableKeeps ==
  ASSUME IInv, ReadTable
  PROVE  IInv'
<1> DEFINE first == current.offsets[1]
<1> DEFINE count == first \div OffsetWidth
<1> DEFINE width == first - OffsetWidth
<1> DEFINE rest == Offsets(count - 1)
<1> DEFINE fault == ListTableFault(first, current.scope)
<1> DEFINE opened == [current EXCEPT !.stage = "bodies", !.parts = Unread(count),
                                     !.offsets = current.offsets \o rest]
<1>1. /\ frames # <<>> /\ UNCHANGED request /\ current.stage = "table"
      /\ IF fault # NoFault THEN Refuse(fault, position + Taken(width))
         ELSE Continue(opened, position + width)
  BY DEF ReadTable, At, Either
<1>2. /\ InTable(current) /\ IsFrame(current) /\ ~ JustCalled(current)
      /\ position = current.start + OffsetWidth
  BY <1>1, StackAt DEF FrameStands, JustCalled, InTable, InSlots, InBodies, Reached
<1>3. /\ current.type \in Types /\ current.scope \in Int /\ current.start \in Nat /\ position \in Nat
      /\ OffsetWidth \in Nat \ {0} /\ Available \in Int
      /\ current.offsets \in Seq(Nat) /\ Len(current.offsets) = 1 /\ first \in Nat
  <2>1. current.offsets \in Seq(Nat) /\ Len(current.offsets) = 1
    BY <1>1, <1>2, StackAt DEF InTable
  <2>2. first \in Nat
    BY <2>1
  <2>. QED
    BY <1>1, <2>1, <2>2, StackAt, Positioned, StreamStands, OffsetsAreWide DEF Available
<1>4. /\ OffsetWidth <= first /\ first <= current.scope /\ first % OffsetWidth = 0
  BY <1>2 DEF InTable
<1> HIDE DEF first
<1>5. /\ count \in Nat \ {0} /\ count - 1 \in Nat /\ first = count * OffsetWidth
      /\ width \in Nat /\ width \div OffsetWidth = count - 1 /\ width = (count - 1) * OffsetWidth
  <2>1. /\ count \in Nat /\ first = count * OffsetWidth + (first % OffsetWidth)
        /\ width \div OffsetWidth = count - 1 /\ count >= 1
    BY <1>3, <1>4, Quotients
  <2> HIDE DEF count
  <2>2. (count - 1) * OffsetWidth + OffsetWidth = count * OffsetWidth /\ (count - 1) * OffsetWidth \in Nat
        /\ count * OffsetWidth \in Nat
    BY <1>3, <2>1, Multiples
  <2>3. first = count * OffsetWidth
    BY <1>4, <2>1, <2>2
  <2>4. width = (count - 1) * OffsetWidth /\ width \in Nat
    BY <1>3, <2>2, <2>3
  <2>. QED
    BY <2>1, <2>3, <2>4
<1>6. whole => width <= Available
  <2>1. first <= current.scope
    BY <1>4
  <2>2. End(current) = current.start + current.scope /\ position + width = current.start + first
    BY <1>2, <1>3 DEF End
  <2>3. position + width <= End(current)
    BY <1>3, <2>1, <2>2
  <2> HIDE DEF width
  <2>. QED
    BY <1>1, <1>5, <2>3, RoomLeft
<1>7. fault = IF Available < width THEN "TRUNCATED" ELSE SpansFault(<<first>> \o rest, current.scope)
  BY <1>5 DEF ListTableFault
<1>8. CASE fault # NoFault
  <2> HIDE DEF width
  <2>1. width <= Available => fault \notin Forbidden
    BY <1>3, <1>5, <1>7 DEF SpansFault, Forbidden, NoFault
  <2> HIDE DEF fault, opened
  <2>. QED
    BY <1>1, <1>6, <1>8, <2>1, RefuseKeeps
<1>9. CASE fault = NoFault
  <2>1. width <= Available /\ SpansFault(<<first>> \o rest, current.scope) = NoFault
    <3> HIDE DEF width
    <3>. QED
      BY <1>3, <1>5, <1>7, <1>9 DEF NoFault
  <2>2. rest \in Seq(Nat) /\ Len(rest) = count - 1
    <3> DEFINE n == count - 1
    <3>1. n \in Nat /\ n * OffsetWidth <= Available
      BY <1>5, <2>1
    <3> HIDE DEF n
    <3>2. Offsets(n) \in Seq(Nat) /\ Len(Offsets(n)) = n
      BY <1>1, <3>1, TableOfOffsets
    <3>. QED
      BY <3>2 DEF n
  <2>3. current.offsets = <<first>>
    BY <1>3 DEF first
  <2> HIDE DEF rest
  <2>4. /\ <<first>> \o rest \in Seq(Nat) /\ Len(<<first>> \o rest) = count
        /\ (<<first>> \o rest)[1] = first
    <3>1. <<first>> \in Seq(Nat) /\ Len(<<first>>) = 1 /\ <<first>>[1] = first
      BY <1>3
    <3> HIDE DEF count
    <3>. QED
      BY <1>5, <2>2, <3>1, ConcatProperties
  <2>5. /\ opened = [field \in FrameFields |-> opened[field]]
        /\ opened.type = current.type /\ opened.scope = current.scope
        /\ opened.start = current.start
        /\ opened.next = current.next /\ opened.stage = "bodies"
        /\ opened.offsets = <<first>> \o rest
    <3>1. DOMAIN current = FrameFields
      BY <1>2 DEF IsFrame
    <3>. QED
      BY <2>3, <3>1 DEF FrameFields
  <2>6. Continue(opened, position + width)
    BY <1>1, <1>9
  <2> HIDE DEF opened, fault, count, width
  <2>7. IsFrame(opened)
    BY <1>3, <2>4, <2>5 DEF IsFrame
  <2>8. opened.offsets # <<>>
    BY <1>5, <2>4, <2>5
  <2>9. \A k \in 1..Len(opened.offsets) : Bounds(opened)[k] <= Bounds(opened)[k + 1]
    BY <1>3, <2>1, <2>4, <2>5, <2>8, SpansStand
  <2>10. FrameStands(opened) /\ Reached(opened) = opened.start + Bounds(opened)[1]
    <3>1. opened.scope >= 0 /\ IsSequence(opened.type) /\ opened.next = 1
      BY <1>2, <1>3, <1>4, <2>5 DEF InTable, IsSequence, IsList
    <3>. QED
      BY <2>5, <2>7, <2>9, <3>1, BodiesStand
  <2>11. Bounds(opened)[1] = first
    BY <2>4, <2>5, <2>7, <2>8, FirstBound DEF IsFrame
  <2>12. Reached(opened) = position + width
    BY <1>2, <1>3, <2>5, <2>10, <2>11 DEF width
  <2>. QED
    BY <1>1, <2>5, <2>6, <2>10, <2>12, ContinueKeeps
<1>. QED
  BY <1>8, <1>9

(* A struct is let in with room for its slots. *)
LEMMA OpenStructKeeps ==
  ASSUME IInv, OpenStruct
  PROVE  IInv'
<1> DEFINE opened == [current EXCEPT !.stage = "slots", !.parts = Unread(Len(Type.fields))]
<1>1. /\ frames # <<>> /\ UNCHANGED request /\ JustCalled(current) /\ position = current.start
      /\ Type = current.type /\ IsFrame(current) /\ IsStruct(Type)
      /\ ScopeFault(Type, current.scope) = NoFault
      /\ Continue(opened, position)
  BY AtCalled DEF OpenStruct, Entered
<1>2. Type \in Types /\ current.scope \in Int /\ position \in Nat
  BY <1>1, StackAt, Positioned
<1>3. /\ opened = [field \in FrameFields |-> opened[field]]
      /\ opened.type = Type /\ opened.scope = current.scope /\ opened.start = current.start
      /\ opened.next = 1 /\ opened.stage = "slots" /\ opened.offsets = <<>>
      /\ opened.variable_fields = <<>>
  <2>1. DOMAIN current = FrameFields
    BY <1>1 DEF IsFrame
  <2>. QED
    BY <1>1, <2>1 DEF FrameFields, JustCalled
<1> HIDE DEF opened
<1>4. IsFrame(opened)
  <2>1. <<>> \in Seq(Nat)
    OBVIOUS
  <2>. QED
    BY <1>1, <1>3, <2>1 DEF IsFrame
<1>5. /\ LeadingWidth(Type) <= current.scope
      /\ IsFixed(Type) => current.scope = LeadingWidth(Type)
  BY <1>1, <1>2, StructScope
<1>6. InSlots(opened)
  <2>1. Len(Type.fields) \in Nat
    BY <1>1, <1>2, Parts
  <2>2. <<>> \in Seq(DOMAIN Type.fields) /\ Len(<<>>) = 0
    OBVIOUS
  <2>3. opened.next \in 1..(Len(Type.fields) + 1) /\ 1..(opened.next - 1) = {}
    BY <1>3, <2>1
  <2>. QED
    BY <1>1, <1>3, <1>5, <2>2, <2>3 DEF InSlots
<1>7. Reached(opened) = position
  BY <1>1, <1>2, <1>3, Slots DEF Reached
<1>. QED
  BY <1>1, <1>3, <1>4, <1>6, <1>7, ContinueKeeps DEF FrameStands

(* What stands of a struct whose slots are being read. *)
LEMMA AtSlots ==
  ASSUME IInv, At("slots")
  PROVE  /\ frames # <<>> /\ UNCHANGED request
         /\ InSlots(current) /\ IsFrame(current) /\ ~ JustCalled(current)
         /\ Type = current.type /\ Type \in Types /\ IsStruct(Type)
         /\ current.scope \in Int /\ current.start \in Nat /\ position \in Nat
         /\ current.offsets \in Seq(Nat) /\ Len(Type.fields) \in Nat
         /\ current.next \in 1..(Len(Type.fields) + 1)
         /\ LeadingWidth(Type) \in Nat /\ LeadingWidth(Type) <= current.scope
         /\ slotStart[Type][current.next] \in Nat
         /\ position = current.start + slotStart[Type][current.next]
         /\ current.next <= Len(Type.fields) =>
              /\ current.next \in 1..Len(Type.fields)
              /\ Type.fields[current.next] \in Types
              /\ slotStart[Type][current.next + 1] =
                   slotStart[Type][current.next] + SlotWidth(Type.fields[current.next])
              /\ slotStart[Type][current.next + 1] <= LeadingWidth(Type)
<1>1. frames # <<>> /\ UNCHANGED request /\ current.stage = "slots"
  BY DEF At
<1>2. InSlots(current) /\ IsFrame(current) /\ ~ JustCalled(current)
  BY <1>1, StackAt DEF FrameStands, JustCalled, InTable, InSlots, InBodies
<1>3. /\ Type = current.type /\ Type \in Types /\ IsStruct(Type)
      /\ current.scope \in Int /\ current.start \in Nat /\ position \in Nat
      /\ current.offsets \in Seq(Nat)
      /\ current.next \in 1..(Len(Type.fields) + 1)
      /\ LeadingWidth(Type) <= current.scope
  BY <1>1, <1>2, StackAt, Positioned DEF Type, InSlots
<1>4. /\ Len(Type.fields) \in Nat
      /\ \A f \in 1..Len(Type.fields) : Type.fields[f] \in Types
  BY <1>3, Parts
<1>5. /\ LeadingWidth(Type) \in Nat /\ slotStart[Type][current.next] \in Nat
      /\ \A f \in 1..(Len(Type.fields) + 1) : slotStart[Type][f] <= LeadingWidth(Type)
      /\ \A f \in 1..Len(Type.fields) :
           slotStart[Type][f + 1] = slotStart[Type][f] + SlotWidth(Type.fields[f])
  BY <1>3, Slots
<1>6. position = current.start + slotStart[Type][current.next]
  BY <1>1, <1>3, StackAt DEF Reached
<1>7. current.next <= Len(Type.fields) =>
        current.next \in 1..Len(Type.fields) /\ current.next + 1 \in 1..(Len(Type.fields) + 1)
  BY <1>3, <1>4
<1>. QED
  BY <1>1, <1>2, <1>3, <1>4, <1>5, <1>6, <1>7

(* A field of no fixed width leaves an offset in its slot. *)
LEMMA ReadSlotKeeps ==
  ASSUME IInv, ReadSlot
  PROVE  IInv'
<1> DEFINE fault == IF Available < OffsetWidth THEN "TRUNCATED" ELSE NoFault
<1> DEFINE opened ==
      [current EXCEPT !.offsets = Append(current.offsets, Offset(1)),
                      !.variable_fields = Append(current.variable_fields, current.next),
                      !.next = current.next + 1]
<1>1. /\ At("slots") /\ current.next <= Len(Type.fields)
      /\ ~ IsFixed(Type.fields[current.next])
      /\ IF fault # NoFault THEN Refuse(fault, position + Taken(OffsetWidth))
         ELSE Continue(opened, position + OffsetWidth)
  BY DEF ReadSlot, Either
<1>2. /\ frames # <<>> /\ UNCHANGED request
      /\ InSlots(current) /\ IsFrame(current)
      /\ Type = current.type /\ Type \in Types
      /\ current.scope \in Int /\ current.start \in Nat /\ position \in Nat
      /\ current.offsets \in Seq(Nat) /\ Len(Type.fields) \in Nat
      /\ LeadingWidth(Type) \in Nat /\ LeadingWidth(Type) <= current.scope
      /\ slotStart[Type][current.next] \in Nat
      /\ position = current.start + slotStart[Type][current.next]
      /\ current.next \in 1..Len(Type.fields)
      /\ slotStart[Type][current.next + 1] =
           slotStart[Type][current.next] + SlotWidth(Type.fields[current.next])
      /\ slotStart[Type][current.next + 1] <= LeadingWidth(Type)
  BY <1>1, AtSlots
<1>3. /\ OffsetWidth \in Nat \ {0} /\ Available \in Int
      /\ SlotWidth(Type.fields[current.next]) = OffsetWidth
  BY <1>1, <1>2, Positioned, StreamStands, OffsetsAreWide DEF Available, SlotWidth
<1>4. /\ position + OffsetWidth = current.start + slotStart[Type][current.next + 1]
      /\ position + OffsetWidth <= End(current)
  <2> DEFINE before == slotStart[Type][current.next]
  <2> DEFINE after == slotStart[Type][current.next + 1]
  <2>1. /\ before \in Nat /\ after = before + OffsetWidth /\ after <= LeadingWidth(Type)
        /\ position = current.start + before
    BY <1>2, <1>3
  <2>2. /\ LeadingWidth(Type) \in Nat /\ LeadingWidth(Type) <= current.scope
        /\ current.scope \in Int /\ current.start \in Nat
    BY <1>2
  <2> HIDE DEF before, after
  <2>3. position + OffsetWidth = current.start + after /\ after <= current.scope
    BY <1>3, <2>1, <2>2
  <2>4. position + OffsetWidth <= End(current)
    BY <1>3, <2>1, <2>2, <2>3 DEF End
  <2>. QED
    BY <2>3, <2>4 DEF after
<1>5. whole => OffsetWidth <= Available
  BY <1>2, <1>3, <1>4, RoomLeft
<1>6. CASE fault # NoFault
  <2>1. OffsetWidth <= Available => fault \notin Forbidden
    BY <1>3 DEF Forbidden, NoFault
  <2> HIDE DEF fault, opened
  <2>. QED
    BY <1>1, <1>2, <1>5, <1>6, <2>1, RefuseKeeps
<1>7. CASE fault = NoFault
  <2>1. 1 * OffsetWidth <= Available /\ 1 \in Nat \ {0}
    BY <1>3, <1>7 DEF NoFault
  <2>2. Offset(1) \in Nat
    BY <1>2, <2>1, OffsetIsNumber
  <2>3. /\ opened = [field \in FrameFields |-> opened[field]]
        /\ opened.type = Type /\ opened.scope = current.scope /\ opened.start = current.start
        /\ opened.next = current.next + 1 /\ opened.stage = "slots"
        /\ opened.offsets = Append(current.offsets, Offset(1))
        /\ opened.variable_fields = Append(current.variable_fields, current.next)
    <3>1. DOMAIN current = FrameFields
      BY <1>2 DEF IsFrame
    <3>. QED
      BY <1>2, <3>1 DEF FrameFields, InSlots
  <2>4. Continue(opened, position + OffsetWidth)
    BY <1>1, <1>7
  <2> HIDE DEF opened, fault
  <2>5. /\ Append(current.offsets, Offset(1)) \in Seq(Nat)
        /\ Len(Append(current.offsets, Offset(1))) = Len(current.offsets) + 1
        /\ Append(current.offsets, Offset(1)) # <<>>
    <3> DEFINE before == current.offsets
               offset == Offset(1)
    <3>1. before \in Seq(Nat) /\ offset \in Nat
      BY <1>2, <2>2
    <3> HIDE DEF before, offset
    <3>2. /\ Append(before, offset) \in Seq(Nat)
          /\ Len(Append(before, offset)) = Len(before) + 1
          /\ Append(before, offset) # <<>>
      BY <3>1, AppendProperties
    <3>. QED
      BY <3>2 DEF before, offset
  <2>6. /\ opened.variable_fields \in Seq(DOMAIN Type.fields)
        /\ Len(opened.variable_fields) = Len(opened.offsets)
    <3>1. DOMAIN Type.fields = 1..Len(Type.fields)
      BY <1>2, Parts DEF InSlots
    <3>2. /\ current.variable_fields \in Seq(DOMAIN Type.fields)
          /\ Len(current.variable_fields) = Len(current.offsets)
          /\ current.next \in DOMAIN Type.fields
      BY <1>2, <3>1 DEF InSlots
    <3>3. /\ Append(current.variable_fields, current.next) \in Seq(DOMAIN Type.fields)
          /\ Len(Append(current.variable_fields, current.next)) = Len(current.variable_fields) + 1
      <4> DEFINE fields == DOMAIN Type.fields
      <4> DEFINE before == current.variable_fields
      <4>1. before \in Seq(fields) /\ current.next \in fields
        BY <3>2
      <4> HIDE DEF fields, before
      <4>2. /\ Append(before, current.next) \in Seq(fields)
            /\ Len(Append(before, current.next)) = Len(before) + 1
        BY <4>1, AppendProperties
      <4>. QED
        BY <4>2 DEF fields, before
    <3>. QED
      BY <2>3, <2>5, <3>2, <3>3
  <2>7. IsFrame(opened)
    BY <1>2, <2>3, <2>5 DEF IsFrame
  <2>8. InSlots(opened)
    <3>1. opened.next \in 1..(Len(Type.fields) + 1)
      <4>1. current.next \in 1..Len(Type.fields) /\ Len(Type.fields) \in Nat
        BY <1>2
      <4>. QED
        BY <2>3, <4>1
    <3>. QED
      BY <1>2, <2>3, <2>5, <2>6, <3>1 DEF InSlots
  <2>9. Reached(opened) = position + OffsetWidth
    <3>1. Reached(opened) = current.start + slotStart[Type][current.next + 1]
      BY <2>3 DEF Reached
    <3>. QED
      BY <1>4, <3>1
  <2>. QED
    BY <1>2, <2>3, <2>4, <2>7, <2>8, <2>9, ContinueKeeps DEF FrameStands
<1>. QED
  BY <1>6, <1>7

(* A struct's offsets are settled once its slots are read. *)
LEMMA SettleSlotsKeeps ==
  ASSUME IInv, SettleSlots
  PROVE  IInv'
<1> DEFINE fault == FirstOffsetFault(current.offsets, LeadingWidth(Type), current.scope)
<1> DEFINE opened == [current EXCEPT !.stage = "bodies", !.next = 1]
<1>1. /\ At("slots") /\ current.next > Len(Type.fields) /\ current.offsets # <<>>
      /\ IF fault # NoFault THEN Refuse(fault, position) ELSE Continue(opened, position)
  BY DEF SettleSlots, Either
<1>2. /\ frames # <<>> /\ UNCHANGED request
      /\ InSlots(current) /\ IsFrame(current)
      /\ Type = current.type /\ Type \in Types /\ IsStruct(Type)
      /\ current.scope \in Int /\ current.start \in Nat /\ position \in Nat
      /\ current.offsets \in Seq(Nat) /\ Len(Type.fields) \in Nat
      /\ LeadingWidth(Type) \in Nat /\ LeadingWidth(Type) <= current.scope
      /\ position = current.start + slotStart[Type][current.next]
      /\ current.next \in 1..(Len(Type.fields) + 1)
  BY <1>1, AtSlots
<1>3. position = current.start + LeadingWidth(Type)
  <2>1. current.next = Len(Type.fields) + 1
    BY <1>1, <1>2
  <2>. QED
    BY <1>2, <2>1 DEF LeadingWidth
<1>4. CASE fault # NoFault
  <2>1. fault \notin Forbidden
    BY DEF FirstOffsetFault, SpansFault, Forbidden, NoFault
  <2> HIDE DEF fault, opened
  <2>. QED
    BY <1>1, <1>2, <1>4, <2>1, RefuseKeeps
<1>5. CASE fault = NoFault
  <2>1. /\ current.offsets[1] = LeadingWidth(Type)
        /\ SpansFault(current.offsets, current.scope) = NoFault
    BY <1>5 DEF FirstOffsetFault, NoFault
  <2>2. /\ opened = [field \in FrameFields |-> opened[field]]
        /\ opened.type = Type /\ opened.scope = current.scope /\ opened.start = current.start
        /\ opened.next = 1 /\ opened.stage = "bodies"
        /\ opened.offsets = current.offsets
        /\ opened.variable_fields = current.variable_fields
    <3>1. DOMAIN current = FrameFields
      BY <1>2 DEF IsFrame
    <3>. QED
      BY <1>2, <3>1 DEF FrameFields
  <2>3. Continue(opened, position)
    BY <1>1, <1>5
  <2> HIDE DEF opened, fault
  <2>4. IsFrame(opened)
    BY <1>2, <2>2 DEF IsFrame
  <2>5. \A k \in 1..Len(opened.offsets) : Bounds(opened)[k] <= Bounds(opened)[k + 1]
    BY <1>1, <1>2, <2>1, <2>2, SpansStand
  <2>6. FrameStands(opened) /\ Reached(opened) = opened.start + Bounds(opened)[1]
    <3>1. opened.scope >= 0
      BY <1>2, <2>2
    <3>2. /\ IsStruct(opened.type)
          /\ opened.variable_fields \in Seq(DOMAIN opened.type.fields)
          /\ Len(opened.variable_fields) = Len(opened.offsets)
      BY <1>2, <2>2 DEF InSlots
    <3>. QED
      BY <2>2, <2>4, <2>5, <3>1, <3>2, BodiesStand
  <2>7. Bounds(opened)[1] = LeadingWidth(Type)
    BY <1>1, <2>1, <2>2, <2>4, FirstBound DEF IsFrame
  <2>8. Reached(opened) = position
    BY <1>3, <2>2, <2>6, <2>7
  <2>. QED
    BY <1>2, <2>2, <2>3, <2>6, <2>8, ContinueKeeps
<1>. QED
  BY <1>4, <1>5

LEMMA Only ==
  /\ 1 \in 1..1 /\ 1 + 1 = 2
  /\ \A k \in 1..1 : k = 1 /\ k + 1 = 2
OBVIOUS

(* A union's selector is its first byte, and its option has the rest. *)
LEMMA OpenUnionKeeps ==
  ASSUME IInv, OpenUnion
  PROVE  IInv'
<1> DEFINE selector == FromBytes(Bytes(1))
<1> DEFINE fault ==
      IF Available < 1 THEN "TRUNCATED"
      ELSE IF selector \notin DOMAIN Type.options THEN "UNKNOWN_SELECTOR"
      ELSE NoFault
<1> DEFINE opened ==
      [current EXCEPT !.stage = "bodies", !.option = selector, !.offsets = <<1>>,
                      !.parts = Unread(1)]
<1>1. /\ frames # <<>> /\ UNCHANGED request /\ JustCalled(current) /\ position = current.start
      /\ Type = current.type /\ IsFrame(current) /\ Type.shape = "union"
      /\ ScopeFault(Type, current.scope) = NoFault
      /\ IF fault # NoFault THEN Refuse(fault, position + Taken(1))
         ELSE Continue(opened, position + 1)
  BY AtCalled DEF OpenUnion, Entered, Either
<1>2. /\ current.scope \in Int /\ position \in Nat /\ Available \in Int
      /\ current.scope >= 1
  <2>1. current.scope \in Int /\ position \in Nat /\ Available \in Int
    BY <1>1, StackAt, Positioned, StreamStands DEF Available
  <2>2. ~ (current.scope < 1)
    BY <1>1 DEF ScopeFault, NoFault
  <2>. QED
    BY <2>1, <2>2
<1> HIDE DEF selector
<1>3. whole => 1 <= Available
  <2>1. position + 1 <= End(current)
    BY <1>1, <1>2 DEF End
  <2>. QED
    BY <1>1, <2>1, RoomLeft
<1>4. CASE fault # NoFault
  <2>1. 1 <= Available => fault \notin Forbidden
    BY <1>2 DEF Forbidden, NoFault
  <2> HIDE DEF fault, opened
  <2>. QED
    BY <1>1, <1>3, <1>4, <2>1, RefuseKeeps
<1>5. CASE fault = NoFault
  <2>1. selector \in DOMAIN Type.options
    BY <1>5 DEF NoFault
  <2>2. /\ opened = [field \in FrameFields |-> opened[field]]
        /\ opened.type = Type /\ opened.scope = current.scope /\ opened.start = current.start
        /\ opened.next = 1 /\ opened.stage = "bodies" /\ opened.offsets = <<1>>
        /\ opened.option = selector
    <3>1. DOMAIN current = FrameFields
      BY <1>1 DEF IsFrame
    <3>. QED
      BY <1>1, <3>1 DEF FrameFields, JustCalled
  <2>3. Continue(opened, position + 1)
    BY <1>1, <1>5
  <2> HIDE DEF opened, fault
  <2>4. opened.offsets \in Seq(Nat) /\ Len(opened.offsets) = 1 /\ opened.offsets[1] = 1
    <3>1. <<1>> \in Seq(Nat) /\ Len(<<1>>) = 1 /\ <<1>>[1] = 1
      OBVIOUS
    <3> DEFINE one == <<1>>
    <3>2. one \in Seq(Nat) /\ Len(one) = 1 /\ one[1] = 1 /\ opened.offsets = one
      BY <2>2, <3>1
    <3> HIDE DEF one
    <3>. QED
      BY <3>2
  <2>5. IsFrame(opened)
    BY <1>1, <2>2, <2>4 DEF IsFrame
  <2>6. Bounds(opened)[1] = 1 /\ Bounds(opened)[2] = opened.scope
    <3>1. opened.scope \in Int
      BY <1>2, <2>2
    <3>2. /\ \A k \in 1..Len(opened.offsets) : Bounds(opened)[k] = opened.offsets[k]
          /\ Bounds(opened)[Len(opened.offsets) + 1] = opened.scope
      BY <2>4, <3>1, BoundsAre
    <3>. QED
      BY <2>4, <3>2, Only
  <2>7. \A k \in 1..Len(opened.offsets) : Bounds(opened)[k] <= Bounds(opened)[k + 1]
    BY <1>2, <2>2, <2>4, <2>6, Only
  <2>8. FrameStands(opened) /\ Reached(opened) = opened.start + Bounds(opened)[1]
    <3>1. opened.scope >= 0
      BY <1>2, <2>2
    <3>. QED
      BY <1>1, <2>1, <2>2, <2>5, <2>7, <3>1, BodiesStand
  <2>9. Reached(opened) = position + 1
    BY <1>1, <2>2, <2>6, <2>8
  <2>. QED
    BY <1>1, <2>2, <2>3, <2>8, <2>9, ContinueKeeps
<1>. QED
  BY <1>4, <1>5

(* A field that has a width is read in its slot. *)
LEMMA ReadFieldKeeps ==
  ASSUME IInv, ReadField
  PROVE  IInv'
<1> DEFINE type == Type.fields[current.next]
<1> DEFINE width == fixedSize[type]
<1> DEFINE part == Called(type, width, position)
<1>1. /\ At("slots") /\ current.next <= Len(Type.fields) /\ IsFixed(type)
      /\ frames' = Append(frames, part)
      /\ UNCHANGED <<position, outcome>>
  BY DEF ReadField
<1>2. /\ frames # <<>> /\ UNCHANGED request /\ InSlots(current)
      /\ Type = current.type /\ Type \in Types
      /\ current.scope \in Int /\ current.start \in Nat /\ position \in Nat
      /\ LeadingWidth(Type) \in Nat /\ LeadingWidth(Type) <= current.scope
      /\ slotStart[Type][current.next] \in Nat
      /\ position = current.start + slotStart[Type][current.next]
      /\ type \in Types
      /\ slotStart[Type][current.next + 1] = slotStart[Type][current.next] + SlotWidth(type)
      /\ slotStart[Type][current.next + 1] <= LeadingWidth(Type)
  BY <1>1, AtSlots
<1>3. width \in Nat /\ SlotWidth(type) = width
  BY <1>1, <1>2, WidthsAssumption DEF SlotWidth
<1>4. position + width <= End(current)
  <2> DEFINE before == slotStart[Type][current.next]
  <2> DEFINE after == slotStart[Type][current.next + 1]
  <2>1. /\ before \in Nat /\ after = before + width /\ after <= LeadingWidth(Type)
        /\ position = current.start + before
    BY <1>2, <1>3
  <2>2. /\ LeadingWidth(Type) \in Nat /\ LeadingWidth(Type) <= current.scope
        /\ current.scope \in Int /\ current.start \in Nat
    BY <1>2
  <2> HIDE DEF before, after, width
  <2>3. position + width = current.start + after /\ after <= current.scope
    BY <1>3, <2>1, <2>2
  <2>. QED
    BY <1>3, <2>1, <2>2, <2>3 DEF End
<1>5. Calls(current, part)
  <2>1. part.scope = width /\ part.start = position
    BY DEF Called
  <2>2. current.stage = "slots" /\ position = Reached(current)
    BY <1>2, StackAt DEF InSlots
  <2> HIDE DEF part
  <2>. QED
    BY <1>1, <1>2, <2>1, <2>2 DEF Calls
<1> HIDE DEF type, width
<1>. QED
  BY <1>1, <1>2, <1>3, <1>4, <1>5, CallKeeps

(* What stands of a call whose bodies are being read. *)
LEMMA AtBodies ==
  ASSUME IInv, At("bodies")
  PROVE  /\ frames # <<>> /\ UNCHANGED request
         /\ InBodies(current) /\ Type = current.type /\ Type \in Types
         /\ current.scope \in Int /\ current.start \in Nat /\ position \in Nat
         /\ current.offsets \in Seq(Nat) /\ Len(current.offsets) \in Nat
         /\ position = current.start + Bounds(current)[current.next]
<1>1. frames # <<>> /\ UNCHANGED request /\ current.stage = "bodies"
  BY DEF At
<1>2. InBodies(current)
  BY <1>1, StackAt DEF FrameStands, JustCalled, InTable, InSlots, InBodies
<1>3. position = current.start + Bounds(current)[current.next]
  BY <1>1, StackAt DEF Reached
<1>4. Len(current.offsets) \in Nat
  BY <1>1, StackAt
<1>. QED
  BY <1>1, <1>2, <1>3, <1>4, StackAt, Positioned DEF Type

(* A body is read within its span. *)
LEMMA ReadBodyKeeps ==
  ASSUME IInv, ReadBody
  PROVE  IInv'
<1> DEFINE type == PartType(current, Reading(current))
<1> DEFINE span == Span(current, current.next)
<1> DEFINE part == Called(type, span, position)
<1>1. /\ At("bodies") /\ current.next <= Len(current.offsets)
      /\ frames' = Append(frames, part)
      /\ UNCHANGED <<position, outcome>>
  BY DEF ReadBody
<1>2. /\ frames # <<>> /\ UNCHANGED request
      /\ InBodies(current) /\ Type = current.type /\ Type \in Types
      /\ current.scope \in Int /\ current.start \in Nat /\ position \in Nat
      /\ current.offsets \in Seq(Nat) /\ Len(current.offsets) \in Nat
      /\ position = current.start + Bounds(current)[current.next]
  BY <1>1, AtBodies
<1>3. /\ current.next \in 1..Len(current.offsets)
      /\ current.next \in 1..(Len(current.offsets) + 1)
      /\ current.next + 1 \in 1..(Len(current.offsets) + 1)
      /\ current.stage = "bodies"
      /\ \A k \in 1..Len(current.offsets) : Bounds(current)[k] <= Bounds(current)[k + 1]
  BY <1>1, <1>2 DEF InBodies
<1>4. type \in Types
  <2>1. CASE IsSequence(Type)
    <3>1. type = Type.element
      BY <1>2, <2>1 DEF PartType, IsSequence, IsStruct, IsList
    <3> HIDE DEF type
    <3>. QED
      BY <1>2, <2>1, <3>1, Parts
  <2>2. CASE IsStruct(Type)
    <3>1. /\ current.variable_fields \in Seq(DOMAIN Type.fields)
          /\ current.next \in 1..Len(current.variable_fields)
      BY <1>2, <1>3, <2>2 DEF InBodies, IsStruct, IsSequence, IsList
    <3>2. current.variable_fields[current.next] \in DOMAIN Type.fields
      BY <3>1
    <3>3. Type.fields[current.variable_fields[current.next]] \in Types
      BY <1>2, <2>2, <3>2, Parts
    <3>4. Reading(current) = current.variable_fields[current.next]
      BY <1>2, <1>3, <2>2 DEF Reading
    <3>5. type = Type.fields[Reading(current)]
      BY <1>2, <2>2 DEF PartType, IsStruct, IsSequence, IsList
    <3>. QED
      BY <3>3, <3>4, <3>5
  <2>3. CASE Type.shape = "union"
    <3>1. current.option \in DOMAIN Type.options
      BY <1>2, <2>3 DEF InBodies, IsStruct, IsSequence, IsList
    <3>2. type = Type.options[current.option]
      BY <1>2, <2>3 DEF PartType, IsStruct, IsSequence, IsList
    <3>. QED
      BY <1>2, <2>3, <3>1, <3>2, Parts
  <2>4. IsSequence(Type) \/ IsStruct(Type) \/ Type.shape = "union"
    BY <1>2 DEF InBodies
  <2> HIDE DEF type
  <2>. QED
    BY <2>1, <2>2, <2>3, <2>4
<1>5. span \in Nat /\ position + span <= End(current)
  <2> DEFINE before == Bounds(current)[current.next]
  <2> DEFINE after == Bounds(current)[current.next + 1]
  <2>1. before \in Int /\ after \in Int /\ before <= after
    BY <1>2, <1>3, BoundsAre
  <2>2. after <= current.scope
    BY <1>2, <1>3, BoundsEnd
  <2>3. span = after - before /\ position = current.start + before
    BY <1>2 DEF Span
  <2> HIDE DEF before, after, span
  <2>4. current.scope \in Int /\ current.start \in Nat
    BY <1>2
  <2>5. End(current) = current.start + current.scope
    BY DEF End
  <2>. QED
    BY <2>1, <2>2, <2>3, <2>4, <2>5
<1>6. Calls(current, part)
  <2>1. part.scope = span /\ part.start = position
    BY DEF Called
  <2>2. position = Reached(current)
    BY <1>2, StackAt
  <2> HIDE DEF part
  <2>. QED
    BY <1>1, <1>3, <2>1, <2>2 DEF Calls
<1> HIDE DEF type, span
<1>. QED
  BY <1>1, <1>2, <1>4, <1>5, <1>6, CallKeeps

(* A call that has read its last part has read all of its scope. *)
LEMMA CloseKeeps ==
  ASSUME IInv, Close
  PROVE  IInv'
<1>1. Return(Built(current), position)
  BY DEF Close
<1>2. CASE At("bodies") /\ current.next > Len(current.offsets)
  <2>1. /\ frames # <<>> /\ UNCHANGED request /\ InBodies(current)
        /\ current.scope \in Int /\ current.start \in Nat
        /\ current.offsets \in Seq(Nat) /\ Len(current.offsets) \in Nat
        /\ position = current.start + Bounds(current)[current.next]
    BY <1>2, AtBodies
  <2>2. current.next = Len(current.offsets) + 1 /\ current.scope >= 0
    BY <1>2, <2>1 DEF InBodies
  <2>3. position = End(current)
    BY <2>1, <2>2, BoundsAre DEF End
  <2>. QED
    BY <1>1, <2>1, <2>2, <2>3, ReturnKeeps
<1>3. CASE At("slots") /\ current.next > Len(Type.fields) /\ current.offsets = <<>>
  <2>1. /\ frames # <<>> /\ UNCHANGED request /\ InSlots(current)
        /\ Type = current.type /\ Type \in Types /\ IsStruct(Type)
        /\ current.scope \in Int /\ current.start \in Nat
        /\ Len(Type.fields) \in Nat
        /\ current.next \in 1..(Len(Type.fields) + 1)
        /\ LeadingWidth(Type) \in Nat
        /\ position = current.start + slotStart[Type][current.next]
    BY <1>3, AtSlots
  <2>2. current.next = Len(Type.fields) + 1 /\ current.next - 1 = Len(Type.fields)
    <3>1. /\ Len(Type.fields) \in Nat /\ current.next \in 1..(Len(Type.fields) + 1)
          /\ current.next > Len(Type.fields)
      BY <1>3, <2>1
    <3>. QED
      BY <3>1
  <2>3. \A f \in 1..Len(Type.fields) : IsFixed(Type.fields[f])
    BY <1>3, <2>1, <2>2 DEF InSlots
  <2>4. current.scope = LeadingWidth(Type)
    BY <2>1, <2>3, FixedStruct DEF InSlots
  <2>5. position = End(current)
    BY <2>1, <2>2, <2>4 DEF End, LeadingWidth
  <2>6. current.scope >= 0
    BY <2>1, <2>4
  <2>. QED
    BY <1>1, <2>1, <2>5, <2>6, ReturnKeeps
<1>. QED
  BY <1>2, <1>3 DEF Close

---------------------------------------------------------------------------
(* The theorems. *)

LEMMA InitStands == Init => IInv
<1> SUFFICES ASSUME Init
             PROVE  IInv
  OBVIOUS
<1>1. PICK type \in Types : \E bytes \in Streams(type) : \E scope \in Scopes(bytes) :
               request = [type |-> type, stream |-> bytes, scope |-> scope]
  BY DEF Init
<1>2. /\ position = 0 /\ outcome = Pending
      /\ frames = <<Called(request.type, request.scope, 0)>>
  BY DEF Init
<1>3. RequestStands
  BY <1>1 DEF RequestStands
<1>4. request.type \in Types /\ request.scope \in Int
  BY <1>3, BytesAssumption DEF RequestStands
<1> DEFINE first == Called(request.type, request.scope, 0)
<1>5. /\ FrameStands(first) /\ first.scope = request.scope /\ first.start = 0
      /\ Reached(first) = 0
  BY <1>4, JustCalledStands
<1>6. frames = <<first>>
  BY <1>2
<1> HIDE DEF first
<1>7. /\ frames \in Seq(ToSet(frames)) /\ Len(frames) = 1 /\ DOMAIN frames = 1..1
      /\ frames[1] = first
  BY <1>6 DEF ToSet
<1>8. FramesStand
  BY <1>5, <1>7, Only DEF FramesStand, IsStack
<1>9. CallsMeet
  BY <1>7 DEF CallsMeet
<1>10. ScopesNest
  BY <1>7, Only DEF ScopesNest
<1>11. TopReached
  BY <1>2, <1>5, <1>7 DEF TopReached, current, Last
<1>12. OutcomeStands
  BY <1>2 DEF OutcomeStands, WholeInputsNeverRunShort, Pending, Refused
<1>. QED
  BY <1>3, <1>8, <1>9, <1>10, <1>11, <1>12 DEF IInv

LEMMA StepKeeps == IInv /\ [Next]_vars => IInv'
<1> SUFFICES ASSUME IInv, [Next]_vars
             PROVE  IInv'
  OBVIOUS
<1>1. CASE UNCHANGED vars
  <2>1. UNCHANGED <<request, position, frames, outcome>>
    BY <1>1 DEF vars
  <2>2. RequestStands'
    BY <2>1 DEF IInv, RequestStands
  <2>3. FramesStand'
    BY <2>1 DEF IInv, FramesStand, FrameStands, IsFrame, JustCalled, InTable, InSlots, InBodies,
       IsStack
  <2>4. CallsMeet'
    BY <2>1 DEF IInv, CallsMeet, Calls, Reached, Span, Bounds
  <2>5. ScopesNest'
    BY <2>1 DEF IInv, ScopesNest, End
  <2>6. TopReached'
    BY <2>1 DEF IInv, TopReached, current, Reached, Bounds
  <2>7. OutcomeStands'
    BY <2>1 DEF IInv, OutcomeStands, WholeInputsNeverRunShort, whole, stream
  <2>. QED
    BY <2>2, <2>3, <2>4, <2>5, <2>6, <2>7 DEF IInv
<1>. QED
  BY <1>1, RefuseScopeKeeps, ReadLeafKeeps, OpenUniformKeeps, OpenVectorKeeps, OpenListKeeps,
     ReadTableKeeps, OpenStructKeeps, ReadSlotKeeps, SettleSlotsKeeps, OpenUnionKeeps,
     ReadFieldKeeps, ReadBodyKeeps, CloseKeeps DEF Next

LEMMA Invariance == Spec => []IInv
BY InitStands, StepKeeps, PTL DEF Spec

LEMMA ScopeStands == IInv => KeepsToItsScope
<1> SUFFICES ASSUME IInv
             PROVE  KeepsToItsScope
  OBVIOUS
<1>1. ASSUME NEW k \in DOMAIN frames, frames[k].scope >= 0
      PROVE  position <= frames[k].start + frames[k].scope
  <2>1. frames # <<>>
    BY <1>1
  <2>2. /\ Len(frames) \in Nat \ {0} /\ DOMAIN frames = 1..Len(frames)
        /\ current = frames[Len(frames)] /\ position = Reached(current)
        /\ FrameStands(current)
    BY <2>1, StackAt
  <2>3. FrameStands(frames[k]) /\ End(frames[k]) = frames[k].start + frames[k].scope
    BY <1>1 DEF IInv, FramesStand, End
  <2>4. CASE k = Len(frames)
    BY <1>1, <2>2, <2>3, <2>4, ReachedIsInside
  <2>5. CASE k # Len(frames)
    <3>1. /\ k < Len(frames) /\ Len(frames) \in DOMAIN frames
      BY <1>1, <2>2, <2>5
    <3>2. current.scope >= 0 /\ End(current) <= End(frames[k])
      BY <1>1, <2>2, <3>1 DEF IInv, ScopesNest
    <3>3. position \in Nat /\ position <= End(current)
      BY <2>2, <3>2, ReachedIsInside
    <3>4. End(current) \in Int /\ End(frames[k]) \in Int
      BY <2>2, <2>3, EndIsNumber
    <3>. QED
      BY <2>3, <3>2, <3>3, <3>4
  <2>. QED
    BY <2>4, <2>5
<1>. QED
  BY <1>1 DEF KeepsToItsScope, IInv, OutcomeStands

LEMMA OffsetsStand == IInv => PartsStandAtTheirOffsets
<1> SUFFICES ASSUME IInv, NEW k \in DOMAIN frames
             PROVE  /\ frames[k].stage = "bodies" =>
                         PartStart(k) = frames[k].start + Bounds(frames[k])[frames[k].next]
                    /\ frames[k].stage = "slots" =>
                         PartStart(k) = frames[k].start + slotStart[frames[k].type][frames[k].next]
  BY DEF PartsStandAtTheirOffsets
<1>1. /\ Len(frames) \in Nat \ {0} /\ DOMAIN frames = 1..Len(frames)
      /\ current = frames[Len(frames)] /\ position = Reached(current)
  <2>1. frames # <<>>
    OBVIOUS
  <2>. QED
    BY <2>1, StackAt
<1>2. PartStart(k) = Reached(frames[k])
  <2>1. CASE k = Len(frames)
    BY <1>1, <2>1 DEF PartStart
  <2>2. CASE k # Len(frames)
    <3>1. k \in 1..(Len(frames) - 1)
      BY <1>1, <2>2
    <3>2. Calls(frames[k], frames[k + 1])
      BY <3>1 DEF IInv, CallsMeet
    <3>. QED
      BY <2>2, <3>2 DEF PartStart, Calls
  <2>. QED
    BY <2>1, <2>2
<1>. QED
  BY <1>2 DEF Reached

(* No part reads what lies past the bytes it was given, and a value uses up  *)
(* all of its own (container.py:205, ssz_base.py:336).                     *)
THEOREM ScopeTheorem == Spec => []KeepsToItsScope
BY Invariance, ScopeStands, PTL

(* A part is read from wherever the one before it stopped                    *)
(* (collections.py:296), and that is where its offset says, or its slot.   *)
THEOREM OffsetsTheorem == Spec => []PartsStandAtTheirOffsets
BY Invariance, OffsetsStand, PTL

(* An input that is to be used up is never found short, and never left over: *)
(* decode_bytes never refuses one that got so far (ssz_base.py:336).       *)
THEOREM WholeTheorem == Spec => []WholeInputsNeverRunShort
<1>1. IInv => WholeInputsNeverRunShort
  BY DEF IInv, OutcomeStands
<1>. QED
  BY <1>1, Invariance, PTL

---------------------------------------------------------------------------
(* Values: the parts of a value, and theirs.                               *)

PartsAmong(values) == UNION {PartsOf(u) : u \in values}

LevelledTo(level, v, m) ==
  level = [n \in 0..m |-> IF n = 0 THEN {v} ELSE PartsAmong(level[n - 1])]

LEMMA LevelsUnfold ==
  ASSUME NEW level, NEW v, NEW m \in Nat, LevelledTo(level, v, m)
  PROVE  /\ level[0] = {v}
         /\ \A n \in 1..m : level[n] = PartsAmong(level[n - 1])
<1>1. ASSUME NEW n \in 0..m
      PROVE  level[n] = IF n = 0 THEN {v} ELSE PartsAmong(level[n - 1])
  BY DEF LevelledTo
<1>2. 0 \in 0..m /\ \A n \in 1..m : n \in 0..m /\ n # 0
  OBVIOUS
<1>. QED
  BY <1>1, <1>2

LEMMA LevelsExist ==
  ASSUME NEW v
  PROVE  \E level : LevelledTo(level, v, Deepest)
<1> DEFINE S == {m \in Nat : \E level : LevelledTo(level, v, m)}
<1>1. 0 \in S
  <2> DEFINE level == [n \in 0..0 |-> {v}]
  <2>1. \A n \in 0..0 : n = 0
    OBVIOUS
  <2>2. LevelledTo(level, v, 0)
    BY <2>1 DEF LevelledTo
  <2>. QED
    BY <2>2
<1>2. ASSUME NEW m \in Nat, m \in S
      PROVE  m + 1 \in S
  <2>1. PICK level : LevelledTo(level, v, m)
    BY <1>2
  <2> DEFINE further == [n \in 0..(m + 1) |-> IF n = m + 1 THEN PartsAmong(level[m]) ELSE level[n]]
  <2>2. /\ level[0] = {v}
        /\ \A n \in 1..m : level[n] = PartsAmong(level[n - 1])
    BY <1>2, <2>1, LevelsUnfold
  <2>3. ASSUME NEW n \in 0..(m + 1)
        PROVE  further[n] = IF n = 0 THEN {v} ELSE PartsAmong(further[n - 1])
    <3>1. CASE n = 0
      BY <2>2, <3>1
    <3>2. CASE n \in 1..m
      <4>1. n - 1 \in 0..(m + 1) /\ n - 1 # m + 1 /\ n # m + 1 /\ n # 0
        BY <3>2
      <4>2. further[n - 1] = level[n - 1] /\ further[n] = level[n]
        BY <4>1
      <4> HIDE DEF further
      <4>. QED
        BY <2>2, <3>2, <4>1, <4>2
    <3>3. CASE n = m + 1
      <4>1. n - 1 = m /\ m \in 0..(m + 1) /\ m # m + 1 /\ n # 0
        BY <3>3
      <4>2. further[m] = level[m] /\ further[n] = PartsAmong(level[m])
        BY <3>3, <4>1
      <4> HIDE DEF further
      <4>. QED
        BY <4>1, <4>2
    <3>4. n = 0 \/ n \in 1..m \/ n = m + 1
      OBVIOUS
    <3>. QED
      BY <3>1, <3>2, <3>3, <3>4
  <2>4. further = [n \in 0..(m + 1) |-> further[n]]
    OBVIOUS
  <2> HIDE DEF further
  <2>5. LevelledTo(further, v, m + 1)
    BY <2>3, <2>4 DEF LevelledTo
  <2>. QED
    BY <2>5
<1>3. Nat \subseteq S
  <2> HIDE DEF S
  <2>. QED
    BY <1>1, <1>2, FromZeroUp
<1>. QED
  BY <1>3, NestingAssumption

LEMMA NestedIs ==
  ASSUME NEW v
  PROVE  /\ Nested(v)[0] = {v}
         /\ \A n \in 1..Deepest : Nested(v)[n] = PartsAmong(Nested(v)[n - 1])
<1> DEFINE level ==
      CHOOSE f : f = [n \in 0..Deepest |-> IF n = 0 THEN {v} ELSE PartsAmong(f[n - 1])]
<1>1. level = [n \in 0..Deepest |-> IF n = 0 THEN {v} ELSE PartsAmong(level[n - 1])]
  <2>1. PICK f : LevelledTo(f, v, Deepest)
    BY LevelsExist
  <2>2. f = [n \in 0..Deepest |-> IF n = 0 THEN {v} ELSE PartsAmong(f[n - 1])]
    BY <2>1 DEF LevelledTo
  <2>. QED
    BY <2>2
<1>2. Nested(v) = level
  BY DEF Nested, PartsAmong
<1> HIDE DEF level
<1>3. LevelledTo(Nested(v), v, Deepest)
  BY <1>1, <1>2 DEF LevelledTo
<1>. QED
  BY <1>3, NestingAssumption, LevelsUnfold

(* What is within a value and is not the value is within a part of it. *)
LEMMA NestedInParts ==
  ASSUME NEW v, NEW m \in 1..Deepest, NEW u \in Nested(v)[m]
  PROVE  \E p \in PartsOf(v) : u \in Nested(p)[m - 1]
<1> DEFINE S == {n \in Nat : n + 1 <= Deepest =>
                   \A w \in Nested(v)[n + 1] : \E p \in PartsOf(v) : w \in Nested(p)[n]}
<1>1. 0 \in S
  <2>1. ASSUME 1 <= Deepest, NEW w \in Nested(v)[1]
        PROVE  \E p \in PartsOf(v) : w \in Nested(p)[0]
    <3>1. Nested(v)[1] = PartsAmong({v})
      <4>1. 1 \in 1..Deepest
        BY <2>1, NestingAssumption
      <4>. QED
        BY <4>1, NestedIs
    <3>2. w \in PartsOf(v)
      BY <2>1, <3>1 DEF PartsAmong
    <3>3. w \in Nested(w)[0]
      BY NestedIs
    <3>. QED
      BY <3>2, <3>3
  <2>. QED
    BY <2>1
<1>2. ASSUME NEW n \in Nat, n \in S
      PROVE  n + 1 \in S
  <2>1. ASSUME (n + 1) + 1 <= Deepest, NEW w \in Nested(v)[(n + 1) + 1]
        PROVE  \E p \in PartsOf(v) : w \in Nested(p)[n + 1]
    <3>1. /\ (n + 1) + 1 \in 1..Deepest /\ n + 1 \in 1..Deepest /\ n + 1 <= Deepest
          /\ ((n + 1) + 1) - 1 = n + 1 /\ (n + 1) - 1 = n
      BY <2>1, NestingAssumption
    <3>2. Nested(v)[(n + 1) + 1] = PartsAmong(Nested(v)[n + 1])
      BY <3>1, NestedIs
    <3>3. PICK holder \in Nested(v)[n + 1] : w \in PartsOf(holder)
      BY <2>1, <3>2 DEF PartsAmong
    <3>4. PICK p \in PartsOf(v) : holder \in Nested(p)[n]
      BY <1>2, <3>1
    <3>5. Nested(p)[n + 1] = PartsAmong(Nested(p)[n])
      BY <3>1, NestedIs
    <3>6. w \in Nested(p)[n + 1]
      BY <3>3, <3>4, <3>5 DEF PartsAmong
    <3>. QED
      BY <3>6
  <2>. QED
    BY <2>1
<1>3. Nat \subseteq S
  <2> HIDE DEF S
  <2>. QED
    BY <1>1, <1>2, FromZeroUp
<1>4. m - 1 \in Nat /\ (m - 1) + 1 = m /\ m <= Deepest
  BY NestingAssumption
<1>5. m - 1 \in S
  BY <1>3, <1>4
<1>. QED
  BY <1>4, <1>5

(* A value that was built of legal parts is legal. *)
LEMMA LegalOfParts ==
  ASSUME NEW v, Constructible(v), \A p \in PartsOf(v) : Legal(p)
  PROVE  Legal(v)
<1> SUFFICES ASSUME NEW n \in 0..Deepest, NEW u \in Nested(v)[n]
             PROVE  Constructible(u)
  BY DEF Legal
<1>1. CASE n = 0
  BY <1>1, NestedIs
<1>2. CASE n # 0
  <2>1. n \in 1..Deepest /\ n - 1 \in 0..Deepest
    BY <1>2, NestingAssumption
  <2>2. PICK p \in PartsOf(v) : u \in Nested(p)[n - 1]
    BY <2>1, NestedInParts
  <2>. QED
    BY <2>1, <2>2 DEF Legal
<1>. QED
  BY <1>1, <1>2

---------------------------------------------------------------------------
(* Leaves. *)

LEMMA BytesRead ==
  ASSUME IInv, frames # <<>>, NEW n \in Nat, Taken(n) = n
  PROVE  /\ Bytes(n) \in Seq(Octets) /\ Len(Bytes(n)) = n
         /\ FromBytes(Bytes(n)) \in 0..(pow2[BitsPerByte * n] - 1)
<1>1. stream \in Seq(Octets)
  BY StreamStands
<1>2. position \in Nat /\ Len(stream) \in Nat
  BY Positioned, StreamStands
<1>3. position + n <= Len(stream)
  BY <1>2 DEF Taken, Available
<1>4. position + 1 \in Int /\ position + n \in Int
      /\ \A i \in (position + 1)..(position + n) : i \in 1..Len(stream)
  BY <1>2, <1>3
<1>5. \A i \in (position + 1)..(position + n) : stream[i] \in Octets
  BY <1>1, <1>4
<1>6. /\ SubSeq(stream, position + 1, position + n) \in Seq(Octets)
      /\ Len(SubSeq(stream, position + 1, position + n)) =
           IF position + 1 <= position + n THEN (position + n) - (position + 1) + 1 ELSE 0
  BY <1>4, <1>5, SubSeqProperties
<1>7. (IF position + 1 <= position + n THEN (position + n) - (position + 1) + 1 ELSE 0) = n
  BY <1>2
<1>8. Bytes(n) \in Seq(Octets) /\ Len(Bytes(n)) = n
  BY <1>6, <1>7 DEF Bytes
<1>. QED
  BY <1>8, BytesSpell

LEMMA BitOf ==
  ASSUME NEW x \in Nat, NEW r \in Nat
  PROVE  (x \div pow2[r]) % 2 \in {0, 1}
<1>1. pow2[r] \in Nat \ {0}
  BY Powers
<1>2. x \div pow2[r] \in Nat
  BY <1>1, Quotients
<1>. QED
  BY <1>2

LEMMA BitsAre ==
  ASSUME NEW bytes \in Seq(Octets)
  PROVE  /\ Bits(bytes) \in Seq({0, 1}) /\ Len(Bits(bytes)) = BitsPerByte * Len(bytes)
         /\ DOMAIN Bits(bytes) = 1..(BitsPerByte * Len(bytes))
         /\ BitsPerByte * Len(bytes) \in Nat
<1> DEFINE n == BitsPerByte * Len(bytes)
<1>1. BitsPerByte \in Nat \ {0} /\ Len(bytes) \in Nat
  BY BytesAssumption
<1>2. n \in Nat
  BY <1>1
<1>3. ASSUME NEW b \in 1..n
      PROVE  Bits(bytes)[b] \in {0, 1}
  <2> DEFINE k == ((b - 1) \div BitsPerByte) + 1
             r == (b - 1) % BitsPerByte
  <2>1. k \in 1..Len(bytes)
    <3> DEFINE q == (b - 1) \div BitsPerByte
    <3>1. b - 1 \in Nat /\ b - 1 < n
      BY <1>2
    <3>2. q \in Nat /\ q * BitsPerByte <= b - 1
      BY <1>1, <3>1
    <3>3. q * BitsPerByte < BitsPerByte * Len(bytes)
      BY <1>1, <1>2, <3>1, <3>2
    <3> HIDE DEF q
    <3>4. q < Len(bytes)
      <4>1. SUFFICES ASSUME q >= Len(bytes)
                     PROVE  FALSE
        BY <1>1, <3>2
      <4>2. Len(bytes) * BitsPerByte <= q * BitsPerByte
        BY <1>1, <3>2, <4>1, Multiples
      <4>3. Len(bytes) * BitsPerByte = BitsPerByte * Len(bytes)
        BY <1>1
      <4>. QED
        BY <1>1, <1>2, <3>2, <3>3, <4>2, <4>3
    <3>. QED
      BY <1>1, <3>2, <3>4 DEF q
  <2>2. r \in Nat
    BY <1>1
  <2> HIDE DEF k, r
  <2>3. bytes[k] \in Nat
    <3>1. bytes[k] \in Octets
      BY <2>1
    <3>. QED
      BY <3>1 DEF Octets
  <2>4. (bytes[k] \div pow2[r]) % 2 \in {0, 1}
    BY <2>2, <2>3, BitOf
  <2>. QED
    BY <2>4 DEF Bits, k, r
<1>4. DOMAIN Bits(bytes) = 1..n
  BY DEF Bits
<1>5. Bits(bytes) = [b \in 1..n |-> Bits(bytes)[b]]
  BY DEF Bits
<1> HIDE DEF n
<1>6. Bits(bytes) \in [1..n -> {0, 1}]
  BY <1>3, <1>5
<1>7. Bits(bytes) \in Seq({0, 1}) /\ Len(Bits(bytes)) = n
  BY <1>2, <1>6
<1>. QED
  BY <1>2, <1>4, <1>7 DEF n

(* A start of a sequence is as long as asked. *)
LEMMA StartOf ==
  ASSUME NEW S, NEW s \in Seq(S), NEW n \in Nat, n <= Len(s)
  PROVE  Len(SubSeq(s, 1, n)) = n
<1>1. \A i \in 1..n : s[i] \in S
  BY LenProperties
<1>2. Len(SubSeq(s, 1, n)) = IF 1 <= n THEN n - 1 + 1 ELSE 0
  BY <1>1, SubSeqProperties
<1>. QED
  BY <1>2

LEMMA DelimiterIs ==
  ASSUME NEW bits \in Seq({0, 1}), \E b \in DOMAIN bits : bits[b] # 0
  PROVE  /\ Delimiter(bits) \in 1..Len(bits) /\ bits[Delimiter(bits)] = 1
         /\ \A c \in 1..Len(bits) : c > Delimiter(bits) => bits[c] = 0
<1> DEFINE n == Len(bits)
<1>1. n \in Nat /\ DOMAIN bits = 1..n /\ \A b \in 1..n : bits[b] \in {0, 1}
  OBVIOUS
<1> HIDE DEF n
<1> DEFINE heights == {h \in Nat : h < n /\ bits[n - h] = 1}
<1>2. heights # {} /\ heights \in SUBSET Nat
  <2>1. PICK b \in 1..n : bits[b] # 0
    BY <1>1
  <2>2. n - b \in Nat /\ n - b < n /\ n - (n - b) = b /\ bits[b] = 1
    BY <1>1, <2>1
  <2>3. n - b \in heights
    BY <2>2
  <2>. QED
    BY <2>3
<1>3. PICK h \in heights : \A y \in heights : h <= y
  <2> HIDE DEF heights
  <2>. QED
    BY <1>2, Least
<1>4. h \in Nat /\ h < n /\ bits[n - h] = 1 /\ n - h \in 1..n
  BY <1>1
<1>5. ASSUME NEW c \in 1..n, c > n - h
      PROVE  bits[c] = 0
  <2>1. n - c \in Nat /\ n - c < h /\ n - c < n /\ n - (n - c) = c
    BY <1>1, <1>4, <1>5
  <2>2. n - c \notin heights
    BY <1>3, <1>4, <2>1
  <2>. QED
    BY <1>1, <2>1, <2>2
<1>6. \E b \in DOMAIN bits : bits[b] = 1 /\ \A c \in DOMAIN bits : c > b => bits[c] = 0
  BY <1>1, <1>4, <1>5
<1>7. /\ Delimiter(bits) \in DOMAIN bits /\ bits[Delimiter(bits)] = 1
      /\ \A c \in DOMAIN bits : c > Delimiter(bits) => bits[c] = 0
  BY <1>6 DEF Delimiter
<1>. QED
  BY <1>1, <1>7 DEF n

LEMMA CeilingCovers ==
  ASSUME NEW x \in Nat, NEW y \in Nat \ {0}
  PROVE  CeilDiv(x, y) \in Nat /\ x <= y * CeilDiv(x, y)
<1> DEFINE z == x + y - 1
           q == z \div y
<1>1. z \in Nat
  OBVIOUS
<1> HIDE DEF z
<1>2. q \in Nat /\ z % y \in 0..(y - 1) /\ z = q * y + (z % y)
  <2>1. z % y \in 0..(y - 1)
    BY <1>1
  <2>. QED
    BY <1>1, <2>1, Quotients
<1> HIDE DEF q
<1>3. q * y \in Nat /\ q * y = y * q
  BY <1>2
<1>4. z <= q * y + (y - 1)
  BY <1>1, <1>2, <1>3
<1>5. x <= y * q
  BY <1>3, <1>4 DEF z
<1>. QED
  BY <1>2, <1>5 DEF q, z, CeilDiv

(* A leaf of one width is let in for that width. *)
LEMMA LeafScope ==
  ASSUME NEW T \in Types, NEW scope \in Int, ScopeFault(T, scope) = NoFault
  PROVE  /\ T.shape = "basic" => scope = T.size
         /\ T.shape = "boolean" => scope = 1
         /\ T.shape = "byte_vector" => scope = T.length
         /\ T.shape = "bit_vector" => scope = CeilDiv(T.length, BitsPerByte)
         /\ T.shape = "byte_list" => ~ Exceeds(T, scope)
<1>1. fixedSize[T] = FixedSize(T) /\ Varies \notin Nat
  BY WidthsAssumption
<1>2. CASE T.shape = "basic"
  <2>1. fixedSize[T] = T.size
    BY <1>1, <1>2 DEF FixedSize, IsStruct
  <2>2. FixedScopeFault(T, scope) = NoFault
    BY <1>2 DEF ScopeFault
  <2>. QED
    BY <1>2, <2>1, <2>2 DEF FixedScopeFault, NoFault
<1>3. CASE T.shape = "boolean"
  <2>1. fixedSize[T] = 1
    BY <1>1, <1>3 DEF FixedSize, IsStruct
  <2>2. FixedScopeFault(T, scope) = NoFault
    BY <1>3 DEF ScopeFault
  <2>. QED
    BY <1>3, <2>1, <2>2 DEF FixedScopeFault, NoFault
<1>4. CASE T.shape = "byte_vector"
  <2>1. fixedSize[T] = T.length /\ T.length \in Nat
    BY <1>1, <1>4, WidthsAssumption DEF FixedSize, IsStruct
  <2>2. CompositeScopeFault(T, scope) = NoFault
    BY <1>4 DEF ScopeFault
  <2>3. IsFixed(T)
    BY <1>1, <2>1 DEF IsFixed
  <2>4. FixedScopeFault(T, scope) = NoFault
    BY <2>2, <2>3 DEF CompositeScopeFault, NoFault
  <2>. QED
    BY <1>4, <2>1, <2>4 DEF FixedScopeFault, NoFault
<1>5. CASE T.shape = "bit_vector"
  <2>1. fixedSize[T] = CeilDiv(T.length, BitsPerByte)
    BY <1>1, <1>5 DEF FixedSize, IsStruct
  <2>2. FixedScopeFault(T, scope) = NoFault
    BY <1>5 DEF ScopeFault
  <2>. QED
    BY <1>5, <2>1, <2>2 DEF FixedScopeFault, NoFault
<1>6. CASE T.shape = "byte_list"
  <2>1. ~ IsFixed(T) /\ ~ IsList(T)
    BY <1>1, <1>6 DEF FixedSize, IsFixed, IsList, IsStruct
  <2>2. CompositeScopeFault(T, scope) = NoFault
    BY <1>6 DEF ScopeFault
  <2>3. ByteListScopeFault(T, scope) = NoFault
    BY <1>6, <2>1, <2>2 DEF CompositeScopeFault, NoFault
  <2>. QED
    BY <1>6, <2>3 DEF ByteListScopeFault, NoFault
<1>. QED
  BY <1>2, <1>3, <1>4, <1>5, <1>6

(* A leaf that is read is one its constructor takes. *)
LEMMA LeafLegal ==
  ASSUME IInv, frames # <<>>, IsLeaf(Type), current.scope \in Nat,
         ScopeFault(Type, current.scope) = NoFault, LeafFault(Type, current.scope) = NoFault
  PROVE  Legal([type |-> Type, data |-> LeafData(Type, Bytes(current.scope))])
<1> DEFINE T == Type
           n == current.scope
           bytes == Bytes(n)
           v == [type |-> T, data |-> LeafData(T, bytes)]
<1>1. T \in Types /\ n \in Nat
  BY StackAt DEF Type
<1>2. Taken(n) = n
  BY DEF LeafFault, NoFault
<1>3. /\ bytes \in Seq(Octets) /\ Len(bytes) = n
      /\ FromBytes(bytes) \in 0..(pow2[BitsPerByte * n] - 1)
  BY <1>1, <1>2, BytesRead
<1>4. LeafFault(T, n) = NoFault /\ ScopeFault(T, n) = NoFault
  OBVIOUS
<1>5. v.type = T /\ v.data = LeafData(T, bytes)
  OBVIOUS
<1>6. bytes = Bytes(n) /\ IsLeaf(T)
  OBVIOUS
<1> HIDE DEF T, n, bytes, v
<1>7. /\ T.shape = "basic" => n = T.size
      /\ T.shape = "boolean" => n = 1
      /\ T.shape = "byte_vector" => n = T.length
      /\ T.shape = "bit_vector" => n = CeilDiv(T.length, BitsPerByte)
      /\ T.shape = "byte_list" => ~ Exceeds(T, n)
  BY <1>1, <1>4, LeafScope
<1>8. ASSUME T.shape = "basic"
      PROVE  Constructible(v)
  <2>1. v.data = FromBytes(bytes)
    BY <1>5, <1>8 DEF LeafData
  <2>2. v.data \in 0..(pow2[BitsPerByte * T.size] - 1)
    BY <1>3, <1>7, <1>8, <2>1
  <2>. QED
    BY <1>5, <1>8, <2>2 DEF Constructible, IsStruct, IsSequence
<1>9. ASSUME T.shape = "boolean"
      PROVE  Constructible(v)
  <2>1. BitsPerByte * n \in Nat
    BY <1>1, BytesAssumption
  <2>2. v.data = FromBytes(bytes)
    BY <1>5, <1>9 DEF LeafData
  <2>3. FromBytes(bytes) \in Nat
    BY <1>3, <2>1
  <2>4. ~ (FromBytes(bytes) > 1)
    BY <1>4, <1>6, <1>9 DEF LeafFault, NoFault
  <2>5. v.data \in {0, 1}
    BY <2>2, <2>3, <2>4
  <2>. QED
    BY <1>5, <1>9, <2>5 DEF Constructible, IsStruct, IsSequence
<1>10. ASSUME T.shape = "byte_vector"
      PROVE  Constructible(v)
  <2>1. v.data = bytes
    BY <1>5, <1>10 DEF LeafData
  <2>. QED
    BY <1>3, <1>5, <1>7, <1>10, <2>1 DEF Constructible, IsStruct, IsSequence
<1>11. ASSUME T.shape = "byte_list"
      PROVE  Constructible(v)
  <2>1. v.data = bytes
    BY <1>5, <1>11 DEF LeafData
  <2>2. ~ Exceeds(T, Len(v.data))
    BY <1>3, <1>7, <1>11, <2>1
  <2>. QED
    BY <1>5, <1>11, <2>2 DEF Constructible, IsStruct, IsSequence
<1>12. ASSUME T.shape = "bit_vector"
      PROVE  Constructible(v)
  <2>1. T.length \in Nat /\ BitsPerByte \in Nat \ {0}
    BY <1>1, <1>12, WidthsAssumption, BytesAssumption
  <2>2. T.length <= BitsPerByte * CeilDiv(T.length, BitsPerByte)
    BY <2>1, CeilingCovers
  <2>3. Bits(bytes) \in Seq({0, 1}) /\ Len(Bits(bytes)) = BitsPerByte * Len(bytes)
    BY <1>3, BitsAre
  <2>4. T.length <= Len(Bits(bytes))
    BY <1>3, <1>7, <1>12, <2>2, <2>3
  <2>5. Len(SubSeq(Bits(bytes), 1, T.length)) = T.length
    BY <2>1, <2>3, <2>4, StartOf
  <2>6. v.data = SubSeq(Bits(bytes), 1, T.length)
    BY <1>5, <1>12 DEF LeafData
  <2>. QED
    BY <1>5, <1>12, <2>5, <2>6 DEF Constructible, IsStruct, IsSequence
<1>13. ASSUME T.shape = "bit_list"
      PROVE  Constructible(v)
  <2> DEFINE bits == Bits(bytes)
  <2>1. bits \in Seq({0, 1})
    BY <1>3, BitsAre
  <2>2. BitListFault(T, bits) = NoFault
    BY <1>4, <1>6, <1>13 DEF LeafFault, NoFault
  <2>3. v.data = SubSeq(bits, 1, Delimiter(bits) - 1)
    BY <1>5, <1>13 DEF LeafData
  <2> HIDE DEF bits
  <2>4. /\ \E b \in DOMAIN bits : bits[b] # 0
        /\ ~ Exceeds(T, Delimiter(bits) - 1)
    BY <2>2 DEF BitListFault, NoFault
  <2>5. Delimiter(bits) \in 1..Len(bits) /\ Len(bits) \in Nat
    BY <2>1, <2>4, DelimiterIs
  <2>6. Delimiter(bits) - 1 \in Nat /\ Delimiter(bits) - 1 <= Len(bits)
    BY <2>5
  <2>7. Len(v.data) = Delimiter(bits) - 1
    BY <2>1, <2>3, <2>6, StartOf
  <2>8. ~ Exceeds(T, Len(v.data))
    BY <2>4, <2>7
  <2>. QED
    BY <1>5, <1>13, <2>8 DEF Constructible, IsStruct, IsSequence
<1>14. Constructible(v)
  BY <1>6, <1>8, <1>9, <1>10, <1>11, <1>12, <1>13 DEF IsLeaf
<1>15. PartsOf(v) = {}
  BY <1>5, <1>6 DEF PartsOf, IsLeaf, IsSequence, IsStruct
<1>. QED
  BY <1>14, <1>15, LegalOfParts DEF v, T, n, bytes

---------------------------------------------------------------------------
(* The parts a call has read, each a legal value of the type it is read as. *)

IsOf(value, T) == value.type = T /\ Legal(value)

(* The parts yet to be read: past the slots, the fields of no fixed width.  *)
Waiting(frame) ==
  CASE frame.stage = "slots" ->
         {p \in DOMAIN frame.type.fields :
            p >= frame.next \/ \E k \in DOMAIN frame.variable_fields : frame.variable_fields[k] = p}
    [] frame.stage = "bodies" /\ IsStruct(frame.type) ->
         {frame.variable_fields[k] : k \in frame.next..Len(frame.offsets)}
    [] OTHER -> frame.next..Len(frame.offsets)

(* As many parts as the type allows. *)
CountStands(frame) ==
  LET T == frame.type
      count == Len(frame.parts)
  IN  /\ IsStruct(T) => count = Len(T.fields)
      /\ ~ IsStruct(T) => count = Len(frame.offsets)
      /\ T.shape = "vector" => count = T.length
      /\ IsList(T) => ~ Exceeds(T, count)
      /\ T.shape = "union" => count = 1

ReadSoFar(frame) ==
  /\ frame.stage = "table" => ~ Exceeds(frame.type, frame.offsets[1] \div OffsetWidth)
  /\ frame.stage \in {"slots", "bodies"} =>
       /\ IsStack(frame.parts)
       /\ CountStands(frame)
       /\ \A p \in 1..Len(frame.parts) :
            p \notin Waiting(frame) => IsOf(frame.parts[p], PartType(frame, p))

(* A part is read as what its caller asked for. *)
AskedFor(stack, requested) ==
  /\ stack # <<>> => stack[1].type = requested.type
  /\ \A k \in 1..(Len(stack) - 1) : stack[k + 1].type = PartType(stack[k], Reading(stack[k]))

LInv ==
  /\ \A k \in DOMAIN frames : ReadSoFar(frames[k])
  /\ AskedFor(frames, request)
  /\ WhatIsReadIsLegal

LEMMA RefuseHolds ==
  ASSUME LInv, NEW fault, NEW at, Refuse(fault, at)
  PROVE  LInv'
<1>1. frames' = <<>> /\ outcome'.answer = "refused"
  BY DEF Refuse, Refused
<1>2. DOMAIN frames' = {} /\ Len(frames') - 1 = -1
  BY <1>1
<1>3. AskedFor(frames', request')
  BY <1>1, <1>2 DEF AskedFor
<1>4. WhatIsReadIsLegal'
  BY <1>1 DEF WhatIsReadIsLegal, Accepted
<1>. QED
  BY <1>2, <1>3, <1>4 DEF LInv

(* Nothing is answered while a call is in progress. *)
LEMMA StillPending ==
  ASSUME IInv, frames # <<>>, UNCHANGED outcome
  PROVE  WhatIsReadIsLegal'
BY DEF IInv, OutcomeStands, Pending, WhatIsReadIsLegal, Accepted

LEMMA ContinueHolds ==
  ASSUME IInv, LInv, frames # <<>>, NEW frame, NEW at, Continue(frame, at), UNCHANGED request,
         frame.type = current.type, ReadSoFar(frame)
  PROVE  LInv'
<1> DEFINE n == Len(frames)
<1>1. n \in Nat \ {0} /\ current = frames[n] /\ DOMAIN frames = 1..n
  BY StackAt
<1>2. frames' = Append(Front(frames), frame) /\ UNCHANGED outcome
  BY DEF Continue
<1>3. /\ IsStack(Front(frames)) /\ Len(Front(frames)) = n - 1
      /\ \A i \in 1..(n - 1) : Front(frames)[i] = frames[i]
  BY Popped DEF IInv, FramesStand
<1>4. /\ Len(frames') = n /\ DOMAIN frames' = 1..n
      /\ \A i \in 1..(n - 1) : frames'[i] = frames[i]
      /\ frames'[n] = frame
  <2> HIDE DEF n
  <2>. QED
    BY <1>1, <1>2, <1>3, Pushed
<1>5. Len(frames) - 1 = n - 1
  OBVIOUS
<1> HIDE DEF n
<1>6. 1 \in 1..n /\ \A i \in 1..n : i \in 1..(n - 1) \/ i = n
  BY <1>1
<1>7. \A i \in 1..n : ReadSoFar(frames'[i])
  BY <1>1, <1>4, <1>6 DEF LInv
<1>8. \A i \in 1..n : frames'[i].type = frames[i].type
  BY <1>1, <1>4, <1>6
<1>9. AskedFor(frames', request')
  <2>1. ASSUME NEW k \in 1..(n - 1)
        PROVE  frames'[k + 1].type = PartType(frames'[k], Reading(frames'[k]))
    <3>1. k + 1 \in 1..n
      BY <1>1
    <3>2. frames[k + 1].type = PartType(frames[k], Reading(frames[k]))
      BY <1>5 DEF LInv, AskedFor
    <3>. QED
      BY <1>4, <1>8, <3>1, <3>2
  <2>2. frames'[1].type = request'.type
    BY <1>6, <1>8 DEF LInv, AskedFor
  <2>. QED
    BY <1>4, <2>1, <2>2 DEF AskedFor
<1>. QED
  BY <1>2, <1>4, <1>7, <1>9, StillPending DEF LInv

LEMMA CallHolds ==
  ASSUME IInv, LInv, frames # <<>>, NEW scope, NEW at,
         frames' = Append(frames, Called(PartType(current, Reading(current)), scope, at)),
         UNCHANGED <<request, outcome>>
  PROVE  LInv'
<1> DEFINE n == Len(frames)
           part == Called(PartType(current, Reading(current)), scope, at)
<1>1. n \in Nat \ {0} /\ current = frames[n] /\ DOMAIN frames = 1..n
  BY StackAt
<1>2. part.type = PartType(current, Reading(current)) /\ part.stage = "called"
  BY DEF Called
<1>3. /\ Len(frames') = n + 1 /\ DOMAIN frames' = 1..(n + 1)
      /\ \A i \in 1..n : frames'[i] = frames[i]
      /\ frames'[n + 1] = part
  BY Pushed DEF IInv, FramesStand
<1>0. Len(frames) - 1 = n - 1
  OBVIOUS
<1> HIDE DEF n, part
<1>4. \A i \in 1..(n + 1) : i \in 1..n \/ i = n + 1
  BY <1>1
<1>5. 1 \in 1..n /\ Len(frames') - 1 = n
  BY <1>1, <1>3
<1>6. \A k \in 1..n : k # n => k \in 1..(Len(frames) - 1) /\ k + 1 \in 1..n
  BY <1>0, <1>1
<1>7. \A i \in 1..(n + 1) : ReadSoFar(frames'[i])
  <2>1. ReadSoFar(part)
    BY <1>2 DEF ReadSoFar
  <2>. QED
    BY <1>1, <1>3, <1>4, <2>1 DEF LInv
<1>8. AskedFor(frames', request')
  <2>1. ASSUME NEW k \in 1..n
        PROVE  frames'[k + 1].type = PartType(frames'[k], Reading(frames'[k]))
    <3>1. CASE k = n
      BY <1>1, <1>2, <1>3, <3>1
    <3>2. CASE k # n
      <4>1. k \in 1..(Len(frames) - 1) /\ k + 1 \in 1..n
        BY <1>6, <3>2
      <4>2. frames[k + 1].type = PartType(frames[k], Reading(frames[k]))
        BY <4>1 DEF LInv, AskedFor
      <4>. QED
        BY <1>3, <4>1, <4>2
    <3>. QED
      BY <3>1, <3>2
  <2>2. frames'[1].type = request'.type
    BY <1>3, <1>5 DEF LInv, AskedFor
  <2>. QED
    BY <1>5, <2>1, <2>2 DEF AskedFor
<1>. QED
  BY <1>3, <1>7, <1>8, StillPending DEF LInv

(* A caller is given the part it asked for. *)
LEMMA FilledReads ==
  ASSUME NEW caller, FrameStands(caller), NEW part, Calls(caller, part), ReadSoFar(caller),
         NEW value, IsOf(value, PartType(caller, Reading(caller)))
  PROVE  ReadSoFar(Filled(caller, value)) /\ Filled(caller, value).type = caller.type
<1> DEFINE filled == Filled(caller, value)
           reading == Reading(caller)
<1>1. /\ IsFrame(caller) /\ caller.stage \in {"slots", "bodies"} /\ caller.next \in Nat
      /\ InSlots(caller) \/ InBodies(caller)
  <2>1. IsFrame(caller) /\ caller.stage \in {"slots", "bodies"}
    BY DEF FrameStands, Calls
  <2>2. InSlots(caller) \/ InBodies(caller)
    BY <2>1 DEF FrameStands, JustCalled, InTable
  <2>. QED
    BY <2>1, <2>2 DEF InSlots, InBodies
<1>2. DOMAIN caller = FrameFields /\ caller.type \in Types
  BY <1>1 DEF IsFrame
<1>3. /\ filled.next = caller.next + 1 /\ filled.type = caller.type
      /\ filled.stage = caller.stage /\ filled.option = caller.option
      /\ filled.offsets = caller.offsets /\ filled.variable_fields = caller.variable_fields
      /\ filled.parts = [caller.parts EXCEPT ![reading] = value]
  BY <1>2 DEF Filled, FrameFields
<1>4. /\ IsStack(caller.parts) /\ CountStands(caller)
      /\ \A p \in 1..Len(caller.parts) :
           p \notin Waiting(caller) => IsOf(caller.parts[p], PartType(caller, p))
  BY <1>1 DEF ReadSoFar
<1> HIDE DEF filled
<1>5. reading \in 1..Len(caller.parts) /\ \A p \in Waiting(caller) : p \in Waiting(filled) \/ p = reading
  <2>1. CASE caller.stage = "slots"
    <3>1. /\ reading = caller.next /\ IsStruct(caller.type)
          /\ caller.next <= Len(caller.type.fields)
      BY <1>1, <2>1 DEF Reading, Calls, InSlots, InBodies
    <3>2. Len(caller.type.fields) \in Nat /\ DOMAIN caller.type.fields = 1..Len(caller.type.fields)
      BY <1>2, <3>1, Parts
    <3>3. caller.next \in 1..Len(caller.parts)
      <4>1. caller.next \in 1..(Len(caller.type.fields) + 1)
        BY <1>1, <2>1 DEF InSlots, InBodies
      <4>2. Len(caller.parts) = Len(caller.type.fields)
        BY <1>4, <3>1 DEF CountStands
      <4>. QED
        BY <3>1, <3>2, <4>1, <4>2
    <3> HIDE DEF reading
    <3>4. ASSUME NEW p \in Waiting(caller), p # reading
          PROVE  p \in Waiting(filled)
      <4>1. /\ p \in DOMAIN caller.type.fields
            /\ \/ p >= caller.next
               \/ \E k \in DOMAIN caller.variable_fields : caller.variable_fields[k] = p
        BY <2>1 DEF Waiting
      <4>2. p >= caller.next => p >= filled.next
        BY <1>1, <1>3, <3>1, <3>2, <3>4, <4>1
      <4>. QED
        BY <1>3, <2>1, <4>1, <4>2 DEF Waiting
    <3>. QED
      BY <3>1, <3>3, <3>4
  <2>0. ASSUME caller.stage = "bodies"
        PROVE  /\ InBodies(caller)
               /\ caller.next \in 1..Len(caller.offsets) /\ Len(caller.offsets) \in Nat
    <3>1. InBodies(caller) /\ caller.next <= Len(caller.offsets)
      BY <1>1, <2>0 DEF Calls, InSlots
    <3>2. Len(caller.offsets) \in Nat /\ caller.next \in 1..(Len(caller.offsets) + 1)
      BY <1>1, <3>1 DEF IsFrame, InBodies
    <3>. QED
      BY <3>1, <3>2
  <2>2. CASE caller.stage = "bodies" /\ IsStruct(caller.type)
    <3>0. /\ reading = caller.variable_fields[caller.next]
          /\ caller.next \in 1..Len(caller.offsets) /\ Len(caller.offsets) \in Nat
      BY <2>2, <2>0 DEF Reading
    <3>1. /\ caller.variable_fields \in Seq(DOMAIN caller.type.fields)
          /\ Len(caller.variable_fields) = Len(caller.offsets)
      BY <2>0, <2>2 DEF InBodies, IsStruct, IsSequence
    <3>2. /\ DOMAIN caller.type.fields = 1..Len(caller.type.fields)
          /\ Len(caller.parts) = Len(caller.type.fields)
      BY <1>2, <1>4, <2>2, Parts DEF CountStands
    <3>3. reading \in 1..Len(caller.parts)
      BY <3>0, <3>1, <3>2
    <3> HIDE DEF reading
    <3>4. ASSUME NEW p \in Waiting(caller), p # reading
          PROVE  p \in Waiting(filled)
      <4>1. PICK k \in caller.next..Len(caller.offsets) : p = caller.variable_fields[k]
        BY <2>2 DEF Waiting
      <4>2. k \in (caller.next + 1)..Len(caller.offsets)
        BY <3>0, <3>4, <4>1
      <4>. QED
        BY <1>3, <2>2, <4>1, <4>2 DEF Waiting
    <3>. QED
      BY <3>3, <3>4
  <2>3. CASE caller.stage = "bodies" /\ ~ IsStruct(caller.type)
    <3>1. /\ reading = caller.next
          /\ caller.next \in 1..Len(caller.offsets) /\ Len(caller.offsets) \in Nat
      BY <2>0, <2>3 DEF Reading
    <3>2. Len(caller.parts) = Len(caller.offsets)
      BY <1>4, <2>3 DEF CountStands
    <3> HIDE DEF reading
    <3>3. ASSUME NEW p \in Waiting(caller), p # reading
          PROVE  p \in Waiting(filled)
      <4>1. p \in caller.next..Len(caller.offsets)
        BY <2>3 DEF Waiting
      <4>2. p \in (caller.next + 1)..Len(caller.offsets)
        BY <3>1, <3>3, <4>1
      <4>. QED
        BY <1>3, <2>3, <4>2 DEF Waiting
    <3>. QED
      BY <3>1, <3>2, <3>3
  <2>. QED
    BY <1>1, <2>1, <2>2, <2>3
<1>6. /\ IsStack(filled.parts) /\ Len(filled.parts) = Len(caller.parts)
      /\ \A p \in 1..Len(caller.parts) :
           filled.parts[p] = IF p = reading THEN value ELSE caller.parts[p]
  <2> HIDE DEF reading
  <2>1. IsStack(caller.parts) /\ reading \in 1..Len(caller.parts)
    BY <1>4, <1>5
  <2> DEFINE parts == caller.parts
  <2> HIDE DEF parts
  <2>2. /\ IsStack([parts EXCEPT ![reading] = value])
        /\ Len([parts EXCEPT ![reading] = value]) = Len(parts)
        /\ \A p \in 1..Len(parts) :
             [parts EXCEPT ![reading] = value][p] = IF p = reading THEN value ELSE parts[p]
    BY <2>1, Replaced DEF parts
  <2>. QED
    BY <1>3, <2>2 DEF parts
<1>7. \A p : PartType(filled, p) = PartType(caller, p)
  BY <1>3 DEF PartType
<1>8. CountStands(filled)
  BY <1>3, <1>4, <1>6 DEF CountStands
<1>9. ASSUME NEW p \in 1..Len(filled.parts), p \notin Waiting(filled)
      PROVE  IsOf(filled.parts[p], PartType(filled, p))
  <2>1. CASE p = reading
    BY <1>6, <1>7, <1>9, <2>1
  <2>2. CASE p # reading
    BY <1>4, <1>5, <1>6, <1>7, <1>9, <2>2
  <2>. QED
    BY <2>1, <2>2
<1>10. filled.stage # "table"
  BY <1>1, <1>3
<1>. QED
  BY <1>3, <1>6, <1>8, <1>9, <1>10 DEF ReadSoFar, filled

LEMMA ReturnHolds ==
  ASSUME IInv, LInv, frames # <<>>, NEW data, NEW at, Return(data, at), UNCHANGED request,
         Legal([type |-> Type, data |-> data])
  PROVE  LInv'
<1> DEFINE n == Len(frames)
           value == [type |-> Type, data |-> data]
           callers == Front(frames)
<1>1. n \in Nat \ {0} /\ current = frames[n] /\ DOMAIN frames = 1..n
  BY StackAt
<1>2. /\ IsStack(callers) /\ Len(callers) = n - 1 /\ (callers = <<>> <=> n = 1)
      /\ \A i \in 1..(n - 1) : callers[i] = frames[i]
  BY Popped DEF IInv, FramesStand
<1>3. /\ frames' = IF callers = <<>> THEN <<>>
                   ELSE [callers EXCEPT ![Len(callers)] = Filled(callers[Len(callers)], value)]
      /\ outcome' = IF callers # <<>> THEN outcome
                    ELSE IF whole /\ at < Len(stream) THEN Refused("TRAILING_BYTES")
                    ELSE Value(value)
  BY DEF Return
<1>4. Legal(value) /\ value.type = current.type
  BY DEF Type
<1>5. CASE n = 1
  <2>1. frames' = <<>> /\ callers = <<>>
    BY <1>2, <1>3, <1>5
  <2>2. DOMAIN frames' = {} /\ Len(frames') - 1 = -1
    BY <2>1
  <2>3. AskedFor(frames', request')
    BY <2>1, <2>2 DEF AskedFor
  <2>4. value.type = request.type
    BY <1>1, <1>4, <1>5 DEF LInv, AskedFor
  <2> HIDE DEF value
  <2>5. WhatIsReadIsLegal'
    <3>1. outcome' = [answer |-> "refused", fault |-> "TRAILING_BYTES"]
            \/ outcome' = [answer |-> "value", value |-> value]
      BY <1>3, <2>1 DEF Refused, Value
    <3>. QED
      BY <1>4, <2>4, <3>1 DEF WhatIsReadIsLegal, Accepted
  <2>. QED
    BY <2>2, <2>3, <2>5 DEF LInv
<1>6. CASE n # 1
  <2> DEFINE m == n - 1
             caller == frames[m]
  <2>1. m \in 1..n /\ m \in Nat \ {0} /\ m + 1 = n /\ m \in 1..m /\ m \in 1..(n - 1) /\ 1 \in 1..m
    BY <1>1, <1>6
  <2>2. Calls(caller, current) /\ FrameStands(caller)
    BY <1>1, <2>1 DEF IInv, CallsMeet, FramesStand
  <2>3. ReadSoFar(caller) /\ current.type = PartType(caller, Reading(caller))
    BY <1>1, <2>1 DEF LInv, AskedFor
  <2>4. callers # <<>> /\ Len(callers) = m /\ callers[m] = caller
    BY <1>2, <1>6, <2>1
  <2>5. frames' = [callers EXCEPT ![m] = Filled(caller, value)] /\ outcome' = outcome
    BY <1>3, <2>4
  <2> HIDE DEF value
  <2>6. /\ Len(frames') = m /\ DOMAIN frames' = 1..m
        /\ \A i \in 1..m : frames'[i] = IF i = m THEN Filled(caller, value) ELSE frames[i]
    <3> HIDE DEF m, caller, callers
    <3>1. \A i \in 1..m : callers[i] = frames[i]
      BY <1>2, <2>1 DEF m
    <3>2. IsStack(callers) /\ m \in 1..Len(callers)
      BY <1>2, <2>1, <2>4
    <3>3. /\ Len(frames') = Len(callers) /\ DOMAIN frames' = 1..Len(callers)
          /\ \A i \in 1..Len(callers) :
               frames'[i] = IF i = m THEN Filled(caller, value) ELSE callers[i]
      BY <2>5, <3>2, Replaced
    <3>. QED
      BY <2>4, <3>1, <3>3
  <2>7. IsOf(value, PartType(caller, Reading(caller)))
    BY <1>4, <2>3 DEF IsOf
  <2>8. ReadSoFar(Filled(caller, value)) /\ Filled(caller, value).type = caller.type
    BY <2>2, <2>3, <2>7, FilledReads
  <2>0. Len(frames) - 1 = m
    OBVIOUS
  <2> HIDE DEF callers, n, m
  <2>9. \A i \in 1..m : i \in 1..n /\ (i # m => i \in 1..(m - 1))
    BY <2>1
  <2>10. \A k \in 1..(m - 1) : k \in 1..(Len(frames) - 1) /\ k \in 1..m /\ k # m /\ k + 1 \in 1..m
    BY <2>0, <2>1
  <2>11. \A i \in 1..m : ReadSoFar(frames'[i]) /\ frames'[i].type = frames[i].type
    BY <1>1, <2>6, <2>8, <2>9 DEF LInv
  <2>12. AskedFor(frames', request')
    <3>1. ASSUME NEW k \in 1..(m - 1)
          PROVE  frames'[k + 1].type = PartType(frames'[k], Reading(frames'[k]))
      <4>1. frames[k + 1].type = PartType(frames[k], Reading(frames[k]))
        BY <2>10 DEF LInv, AskedFor
      <4>2. frames'[k] = frames[k] /\ frames'[k + 1].type = frames[k + 1].type
        BY <2>6, <2>10, <2>11
      <4>. QED
        BY <4>1, <4>2
    <3>2. frames'[1].type = request'.type
      BY <2>1, <2>11 DEF LInv, AskedFor
    <3>. QED
      BY <2>6, <3>1, <3>2 DEF AskedFor
  <2>. QED
    BY <2>5, <2>6, <2>11, <2>12, StillPending DEF LInv
<1>. QED
  BY <1>5, <1>6

---------------------------------------------------------------------------
(* What each step reads is as legal as what was read.                      *)

LEMMA TopReads ==
  ASSUME IInv, LInv, frames # <<>>
  PROVE  ReadSoFar(current)
BY StackAt DEF LInv

LEMMA UnreadIs ==
  ASSUME NEW count \in Nat
  PROVE  IsStack(Unread(count)) /\ Len(Unread(count)) = count
<1> DEFINE s == Unread(count)
<1>1. s \in [1..count -> {Missing}]
  BY DEF Unread
<1> HIDE DEF s
<1>2. s \in Seq({Missing}) /\ Len(s) = count
  BY <1>1
<1>3. s \in Seq(ToSet(s))
  BY <1>2 DEF ToSet
<1>. QED
  BY <1>2, <1>3 DEF IsStack, s

(* A call that is given its bodies, and has read none. *)
LEMMA BodiesOpened ==
  ASSUME NEW frame, frame.stage = "bodies", frame.next = 1, ~ IsStruct(frame.type),
         NEW count \in Nat, frame.parts = Unread(count), Len(frame.offsets) = count,
         frame.type.shape = "vector" => count = frame.type.length,
         IsList(frame.type) => ~ Exceeds(frame.type, count),
         frame.type.shape = "union" => count = 1
  PROVE  ReadSoFar(frame)
<1>1. IsStack(frame.parts) /\ Len(frame.parts) = count
  BY UnreadIs
<1>2. CountStands(frame)
  BY <1>1 DEF CountStands
<1>3. \A p \in 1..Len(frame.parts) : p \in Waiting(frame)
  BY <1>1 DEF Waiting
<1>. QED
  BY <1>1, <1>2, <1>3 DEF ReadSoFar

(* A scope that is divided into elements is of as many as the type allows. *)
LEMMA UniformCount ==
  ASSUME NEW T \in Types, IsSequence(T), NEW scope \in Int, ScopeFault(T, scope) = NoFault,
         IsFixed(T.element) \/ scope = 0,
         NEW count, count = IF scope = 0 THEN 0 ELSE scope \div fixedSize[T.element]
  PROVE  /\ count \in Nat
         /\ T.shape = "vector" => count = T.length
         /\ IsList(T) => ~ Exceeds(T, count)
<1>1. CompositeScopeFault(T, scope) = NoFault
  BY DEF ScopeFault, IsSequence
<1>2. count \in Nat
  <2>1. CASE scope = 0
    BY <2>1
  <2>2. CASE scope # 0
    BY <2>2, UniformScope, Quotients
  <2>. QED
    BY <2>1, <2>2
<1>3. ASSUME T.shape = "vector"
      PROVE  count = T.length
  <2>1. T.length \in Nat \ {0}
    BY <1>3, WidthsAssumption
  <2>2. IsFixed(T.element)
    <3>1. ~ IsFixed(T.element) => scope # 0
      BY <1>3, TableScope
    <3>. QED
      BY <3>1
  <2>3. fixedSize[T.element] \in Nat \ {0}
    BY <2>2, Parts, WidthsAssumption
  <2> DEFINE width == fixedSize[T.element]
  <2>4. FixedSize(T) = width * T.length
    BY <1>3, <2>2 DEF FixedSize, IsStruct
  <2>5. width * T.length \in Nat \ {0}
    BY <2>1, <2>3, Products
  <2>6. IsFixed(T) /\ fixedSize[T] = width * T.length
    BY <2>4, <2>5, WidthsAssumption DEF IsFixed
  <2>7. scope = width * T.length
    BY <1>1, <2>6 DEF CompositeScopeFault, FixedScopeFault, NoFault
  <2>8. count = scope \div width
    BY <2>5, <2>7
  <2> HIDE DEF width
  <2>9. (width * T.length) \div width = T.length
    BY <2>1, <2>3 DEF width
  <2>. QED
    BY <2>7, <2>8, <2>9
<1>4. ASSUME IsList(T)
      PROVE  ~ Exceeds(T, count)
  <2>1. ~ IsFixed(T)
    BY <1>4, WidthsAssumption DEF IsFixed, FixedSize, IsList, IsStruct
  <2>2. ListScopeFault(T, scope) = NoFault
    BY <1>1, <1>4, <2>1 DEF CompositeScopeFault, NoFault
  <2>3. CASE scope = 0
    <3>1. T.limit \in {Unlimited} \cup Nat /\ count = 0
      BY <1>4, <2>3, WidthsAssumption
    <3>. QED
      BY <3>1 DEF Exceeds
  <2>4. CASE scope # 0
    BY <2>2, <2>4 DEF ListScopeFault, NoFault
  <2>. QED
    BY <2>3, <2>4
<1>. QED
  BY <1>2, <1>3, <1>4

LEMMA RefuseScopeHolds ==
  ASSUME IInv, LInv, RefuseScope
  PROVE  LInv'
BY RefuseHolds DEF RefuseScope

LEMMA ReadLeafHolds ==
  ASSUME IInv, LInv, ReadLeaf
  PROVE  LInv'
<1> DEFINE fault == LeafFault(Type, current.scope)
<1>1. /\ frames # <<>> /\ UNCHANGED request /\ IsLeaf(Type)
      /\ ScopeFault(Type, current.scope) = NoFault
      /\ current.scope \in Int /\ position = current.start
  BY AtCalled, StackAt DEF ReadLeaf, Entered
<1>2. IF fault # NoFault THEN Refuse(fault, position + Taken(current.scope))
      ELSE Return(LeafData(Type, Bytes(current.scope)), position + current.scope)
  BY DEF ReadLeaf, Either
<1>3. CASE fault # NoFault
  BY <1>2, <1>3, RefuseHolds
<1>4. CASE fault = NoFault
  <2>1. Taken(current.scope) = current.scope
    BY <1>4 DEF LeafFault, NoFault
  <2>2. current.scope \in Nat
    <3>1. CASE current.start = 0
      BY <1>1, <2>1, <3>1, StreamStands DEF Taken, Available
    <3>. QED
      BY <1>1, <3>1, ScopeOrOutermost
  <2>3. Legal([type |-> Type, data |-> LeafData(Type, Bytes(current.scope))])
    BY <1>1, <1>4, <2>2, LeafLegal
  <2>4. Return(LeafData(Type, Bytes(current.scope)), position + current.scope)
    BY <1>2, <1>4
  <2>. QED
    BY <1>1, <2>3, <2>4, ReturnHolds
<1>. QED
  BY <1>3, <1>4

LEMMA OpenUniformHolds ==
  ASSUME IInv, LInv, OpenUniform
  PROVE  LInv'
<1> DEFINE width == fixedSize[Type.element]
           count == IF current.scope = 0 THEN 0 ELSE current.scope \div width
           offsets == [e \in 1..count |-> (e - 1) * width]
           opened ==
             [current EXCEPT !.stage = "bodies", !.parts = Unread(count), !.offsets = offsets]
<1>1. /\ frames # <<>> /\ UNCHANGED request /\ JustCalled(current)
      /\ Type = current.type /\ IsFrame(current) /\ IsSequence(Type)
      /\ ScopeFault(Type, current.scope) = NoFault
      /\ IsFixed(Type.element) \/ current.scope = 0
      /\ Continue(opened, position)
  BY AtCalled DEF OpenUniform, Entered
<1>2. Type \in Types /\ current.scope \in Int
  BY <1>1, StackAt
<1>3. /\ count \in Nat
      /\ Type.shape = "vector" => count = Type.length
      /\ IsList(Type) => ~ Exceeds(Type, count)
  BY <1>1, <1>2, UniformCount
<1>4. DOMAIN current = FrameFields
  BY <1>1 DEF IsFrame
<1>5. /\ opened.type = Type /\ opened.next = 1 /\ opened.stage = "bodies"
      /\ opened.offsets = offsets /\ opened.parts = Unread(count)
  BY <1>1, <1>4 DEF FrameFields, JustCalled
<1> HIDE DEF count, width
<1>6. Len(offsets) = count
  BY <1>3
<1> HIDE DEF offsets, opened
<1>7. Type.shape # "union" /\ ~ IsStruct(Type)
  BY <1>1 DEF IsSequence, IsStruct
<1>8. ReadSoFar(opened)
  BY <1>3, <1>5, <1>6, <1>7, BodiesOpened
<1>. QED
  BY <1>1, <1>5, <1>8, ContinueHolds

LEMMA OpenVectorHolds ==
  ASSUME IInv, LInv, OpenVector
  PROVE  LInv'
<1> DEFINE width == Type.length * OffsetWidth
           fault == VectorTableFault(Type, current.scope)
           offsets == Offsets(Type.length)
           opened == [current EXCEPT !.stage = "bodies", !.parts = Unread(Type.length),
                                     !.offsets = offsets]
<1>1. /\ frames # <<>> /\ UNCHANGED request /\ JustCalled(current)
      /\ Type = current.type /\ IsFrame(current) /\ Type.shape = "vector"
      /\ IF fault # NoFault THEN Refuse(fault, position + Taken(width))
         ELSE Continue(opened, position + width)
  BY AtCalled DEF OpenVector, Entered, Either
<1>2. CASE fault # NoFault
  BY <1>1, <1>2, RefuseHolds
<1>3. CASE fault = NoFault
  <2>1. Type.length \in Nat
    BY <1>1, StackAt, WidthsAssumption
  <2>2. DOMAIN current = FrameFields
    BY <1>1 DEF IsFrame
  <2>3. /\ opened.type = Type /\ opened.next = 1 /\ opened.stage = "bodies"
        /\ opened.offsets = offsets /\ opened.parts = Unread(Type.length)
    BY <1>1, <2>2 DEF FrameFields, JustCalled
  <2>4. Len(offsets) = Type.length
    BY <2>1 DEF Offsets
  <2>5. Continue(opened, position + width)
    BY <1>1, <1>3
  <2> HIDE DEF offsets, opened
  <2>6. ~ IsStruct(Type) /\ ~ IsList(Type)
    BY <1>1 DEF IsStruct, IsList
  <2>7. ReadSoFar(opened)
    BY <1>1, <2>1, <2>3, <2>4, <2>6, BodiesOpened
  <2>. QED
    BY <1>1, <2>3, <2>5, <2>7, ContinueHolds
<1>. QED
  BY <1>2, <1>3

LEMMA OpenListHolds ==
  ASSUME IInv, LInv, OpenList
  PROVE  LInv'
<1> DEFINE fault == ListHeadFault(Type, current.scope)
           opened == [current EXCEPT !.stage = "table", !.offsets = Offsets(1)]
<1>1. /\ frames # <<>> /\ UNCHANGED request /\ Type = current.type /\ IsFrame(current)
      /\ IF fault # NoFault THEN Refuse(fault, position + Taken(OffsetWidth))
         ELSE Continue(opened, position + OffsetWidth)
  BY AtCalled DEF OpenList, Entered, Either
<1>2. CASE fault # NoFault
  BY <1>1, <1>2, RefuseHolds
<1>3. CASE fault = NoFault
  <2>1. DOMAIN current = FrameFields
    BY <1>1 DEF IsFrame
  <2>2. opened.type = Type /\ opened.stage = "table" /\ opened.offsets[1] = Offset(1)
    <3>1. Offsets(1)[1] = Offset(1)
      BY DEF Offsets
    <3>. QED
      BY <1>1, <2>1, <3>1 DEF FrameFields
  <2>3. ~ Exceeds(Type, Offset(1) \div OffsetWidth)
    BY <1>3 DEF ListHeadFault, NoFault
  <2>4. Continue(opened, position + OffsetWidth)
    BY <1>1, <1>3
  <2> HIDE DEF opened
  <2>5. ReadSoFar(opened)
    BY <2>2, <2>3 DEF ReadSoFar
  <2>. QED
    BY <1>1, <2>2, <2>4, <2>5, ContinueHolds
<1>. QED
  BY <1>2, <1>3

LEMMA ReadTableHolds ==
  ASSUME IInv, LInv, ReadTable
  PROVE  LInv'
<1> DEFINE first == current.offsets[1]
           count == first \div OffsetWidth
           width == first - OffsetWidth
           fault == ListTableFault(first, current.scope)
           offsets == current.offsets \o Offsets(count - 1)
           opened == [current EXCEPT !.stage = "bodies", !.parts = Unread(count),
                                     !.offsets = offsets]
<1>1. /\ frames # <<>> /\ UNCHANGED request /\ current.stage = "table"
      /\ IF fault # NoFault THEN Refuse(fault, position + Taken(width))
         ELSE Continue(opened, position + width)
  BY DEF ReadTable, Either, At
<1>2. CASE fault # NoFault
  BY <1>1, <1>2, RefuseHolds
<1>3. CASE fault = NoFault
  <2>1. InTable(current) /\ IsFrame(current) /\ current.offsets \in Seq(Nat)
    BY <1>1, StackAt DEF FrameStands, JustCalled, InTable, InSlots, InBodies
  <2>2. IsList(current.type) /\ ~ Exceeds(current.type, count)
    BY <1>1, <2>1, TopReads DEF InTable, ReadSoFar
  <2>3. DOMAIN current = FrameFields
    BY <2>1 DEF IsFrame
  <2>4. /\ opened.type = current.type /\ opened.next = 1 /\ opened.stage = "bodies"
        /\ opened.offsets = offsets /\ opened.parts = Unread(count)
    BY <2>1, <2>3 DEF FrameFields, InTable
  <2>5. Len(current.offsets) = 1 /\ first \in Nat /\ OffsetWidth \in Nat \ {0} /\ first >= OffsetWidth
    BY <2>1, OffsetsAreWide DEF InTable
  <2>6. Continue(opened, position + width)
    BY <1>1, <1>3
  <2> HIDE DEF first, opened
  <2>7. count \in Nat /\ count >= 1
    BY <2>5, Quotients
  <2> HIDE DEF count
  <2>8. Len(offsets) = count
    <3> DEFINE rest == Offsets(count - 1)
    <3>1. count - 1 \in Nat
      BY <2>7
    <3>2. rest = [k \in 1..(count - 1) |-> rest[k]]
      BY DEF Offsets
    <3> HIDE DEF rest
    <3>3. rest \in Seq({rest[k] : k \in 1..(count - 1)}) /\ Len(rest) = count - 1
      BY <3>1, <3>2
    <3> DEFINE S == Nat \cup {rest[k] : k \in 1..(count - 1)}
               before == current.offsets
    <3>4. before \in Seq(S) /\ rest \in Seq(S) /\ Len(before) = 1
      BY <2>1, <2>5, <3>3, SeqMonotonic
    <3> HIDE DEF S, before
    <3>5. Len(before \o rest) = Len(before) + Len(rest)
      BY <3>4, ConcatProperties
    <3>6. Len(before \o rest) = count
      BY <2>7, <3>3, <3>4, <3>5
    <3>. QED
      BY <3>6 DEF rest, before
  <2> HIDE DEF offsets
  <2>9. ~ IsStruct(current.type) /\ current.type.shape \notin {"vector", "union"}
    BY <2>2 DEF IsStruct, IsList
  <2>10. ReadSoFar(opened)
    BY <2>2, <2>4, <2>7, <2>8, <2>9, BodiesOpened
  <2>. QED
    BY <1>1, <2>4, <2>6, <2>10, ContinueHolds
<1>. QED
  BY <1>2, <1>3

LEMMA OpenStructHolds ==
  ASSUME IInv, LInv, OpenStruct
  PROVE  LInv'
<1> DEFINE opened == [current EXCEPT !.stage = "slots", !.parts = Unread(Len(Type.fields))]
<1>1. /\ frames # <<>> /\ UNCHANGED request /\ JustCalled(current)
      /\ Type = current.type /\ IsFrame(current) /\ IsStruct(Type)
      /\ Continue(opened, position)
  BY AtCalled DEF OpenStruct, Entered
<1>2. Len(Type.fields) \in Nat /\ DOMAIN Type.fields = 1..Len(Type.fields)
  BY <1>1, StackAt, Parts
<1>3. DOMAIN current = FrameFields
  BY <1>1 DEF IsFrame
<1>4. /\ opened.type = Type /\ opened.next = 1 /\ opened.stage = "slots"
      /\ opened.parts = Unread(Len(Type.fields))
  BY <1>1, <1>3 DEF FrameFields, JustCalled
<1> HIDE DEF opened
<1>5. IsStack(opened.parts) /\ Len(opened.parts) = Len(Type.fields)
  BY <1>2, <1>4, UnreadIs
<1>6. CountStands(opened)
  BY <1>1, <1>4, <1>5 DEF CountStands, IsStruct, IsList
<1>7. \A p \in 1..Len(opened.parts) : p \in Waiting(opened)
  BY <1>2, <1>4, <1>5 DEF Waiting
<1>8. ReadSoFar(opened)
  BY <1>4, <1>5, <1>6, <1>7 DEF ReadSoFar
<1>. QED
  BY <1>1, <1>4, <1>8, ContinueHolds

(* What is as it was but for the slots it is at has read what it had. *)
LEMMA StillReads ==
  ASSUME NEW before, ReadSoFar(before), before.stage = "slots", IsStruct(before.type),
         NEW after, after.stage \in {"slots", "bodies"},
         after.type = before.type, after.parts = before.parts,
         \A p \in 1..Len(before.parts) : p \in Waiting(before) => p \in Waiting(after)
  PROVE  ReadSoFar(after)
<1>1. IsStack(after.parts) /\ CountStands(after)
  BY DEF ReadSoFar, CountStands, IsStruct, IsList
<1>2. \A p : PartType(after, p) = PartType(before, p)
  BY DEF PartType, IsStruct, IsSequence
<1>. QED
  BY <1>1, <1>2 DEF ReadSoFar

LEMMA ReadSlotHolds ==
  ASSUME IInv, LInv, ReadSlot
  PROVE  LInv'
<1> DEFINE fault == IF Available < OffsetWidth THEN "TRUNCATED" ELSE NoFault
           opened ==
             [current EXCEPT !.offsets = Append(current.offsets, Offset(1)),
                             !.variable_fields = Append(current.variable_fields, current.next),
                             !.next = current.next + 1]
<1>1. /\ At("slots") /\ current.next <= Len(Type.fields)
      /\ IF fault # NoFault THEN Refuse(fault, position + Taken(OffsetWidth))
         ELSE Continue(opened, position + OffsetWidth)
  BY DEF ReadSlot, Either
<1>2. CASE fault # NoFault
  BY <1>1, <1>2, RefuseHolds
<1>3. CASE fault = NoFault
  <2>1. /\ frames # <<>> /\ UNCHANGED request /\ InSlots(current) /\ IsFrame(current)
        /\ Type = current.type /\ Type \in Types /\ IsStruct(Type)
        /\ current.next \in 1..Len(Type.fields)
    BY <1>1, AtSlots
  <2>2. DOMAIN current = FrameFields
    BY <2>1 DEF IsFrame
  <2>3. /\ opened.type = current.type /\ opened.next = current.next + 1
        /\ opened.stage = "slots" /\ opened.parts = current.parts
        /\ opened.variable_fields = Append(current.variable_fields, current.next)
    BY <2>1, <2>2 DEF FrameFields, InSlots
  <2>4. Continue(opened, position + OffsetWidth)
    BY <1>1, <1>3
  <2> HIDE DEF opened, fault
  <2>5. /\ DOMAIN Type.fields = 1..Len(Type.fields) /\ Len(Type.fields) \in Nat
        /\ current.variable_fields \in Seq(DOMAIN Type.fields)
    BY <2>1, Parts DEF InSlots
  <2> DEFINE fields == DOMAIN Type.fields
             noted == current.variable_fields
             more == Append(noted, current.next)
  <2>6. noted \in Seq(fields) /\ current.next \in fields
    BY <2>1, <2>5
  <2> HIDE DEF fields, noted
  <2>7. /\ \A k \in DOMAIN noted : k \in DOMAIN more /\ more[k] = noted[k]
        /\ \E k \in DOMAIN more : more[k] = current.next
    <3>1. /\ Len(more) = Len(noted) + 1 /\ Len(noted) \in Nat /\ DOMAIN noted = 1..Len(noted)
          /\ more \in Seq(fields)
          /\ \A k \in 1..Len(noted) : more[k] = noted[k]
          /\ more[Len(noted) + 1] = current.next
      BY <2>6, AppendProperties, LenProperties
    <3> HIDE DEF more
    <3>2. DOMAIN more = 1..(Len(noted) + 1)
      BY <3>1, LenProperties
    <3>3. Len(noted) + 1 \in DOMAIN more
      BY <3>1, <3>2
    <3>. QED
      BY <3>1, <3>2, <3>3
  <2>8. opened.variable_fields = more /\ current.variable_fields = noted
    BY <2>3 DEF noted
  <2> HIDE DEF more
  <2>9. ASSUME NEW p \in 1..Len(current.parts), p \in Waiting(current)
        PROVE  p \in Waiting(opened)
    <3>1. current.stage = "slots"
      BY <2>1 DEF InSlots
    <3>2. /\ p \in DOMAIN Type.fields
          /\ p >= current.next \/ \E k \in DOMAIN noted : noted[k] = p
      BY <2>1, <2>8, <2>9, <3>1 DEF Waiting
    <3>3. p >= opened.next \/ \E k \in DOMAIN more : more[k] = p
      <4>1. CASE p >= current.next /\ p # current.next
        BY <2>1, <2>3, <2>5, <3>2, <4>1
      <4>2. CASE p = current.next
        BY <2>7, <4>2
      <4>3. CASE \E k \in DOMAIN noted : noted[k] = p
        BY <2>7, <4>3
      <4>. QED
        BY <3>2, <4>1, <4>2, <4>3
    <3>. QED
      BY <2>1, <2>3, <2>8, <3>2, <3>3 DEF Waiting
  <2>10. ReadSoFar(opened)
    <3>1. ReadSoFar(current) /\ current.stage = "slots"
      BY <2>1, TopReads DEF InSlots
    <3>. QED
      BY <2>1, <2>3, <2>9, <3>1, StillReads
  <2>. QED
    BY <2>1, <2>3, <2>4, <2>10, ContinueHolds
<1>. QED
  BY <1>2, <1>3

LEMMA SettleSlotsHolds ==
  ASSUME IInv, LInv, SettleSlots
  PROVE  LInv'
<1> DEFINE fault == FirstOffsetFault(current.offsets, LeadingWidth(Type), current.scope)
           opened == [current EXCEPT !.stage = "bodies", !.next = 1]
<1>1. /\ At("slots") /\ current.next > Len(Type.fields)
      /\ IF fault # NoFault THEN Refuse(fault, position) ELSE Continue(opened, position)
  BY DEF SettleSlots, Either
<1>2. CASE fault # NoFault
  BY <1>1, <1>2, RefuseHolds
<1>3. CASE fault = NoFault
  <2>1. /\ frames # <<>> /\ UNCHANGED request /\ InSlots(current) /\ IsFrame(current)
        /\ Type = current.type /\ Type \in Types /\ IsStruct(Type)
        /\ current.offsets \in Seq(Nat) /\ Len(Type.fields) \in Nat
        /\ current.next \in 1..(Len(Type.fields) + 1)
    BY <1>1, AtSlots
  <2>2. DOMAIN current = FrameFields
    BY <2>1 DEF IsFrame
  <2>3. /\ opened.type = current.type /\ opened.next = 1 /\ opened.stage = "bodies"
        /\ opened.parts = current.parts /\ opened.offsets = current.offsets
        /\ opened.variable_fields = current.variable_fields
    BY <2>2 DEF FrameFields
  <2>4. Continue(opened, position)
    BY <1>1, <1>3
  <2> HIDE DEF opened, fault
  <2>5. /\ current.stage = "slots" /\ DOMAIN Type.fields = 1..Len(Type.fields)
        /\ current.variable_fields \in Seq(DOMAIN Type.fields)
        /\ Len(current.variable_fields) = Len(current.offsets)
    BY <2>1, Parts DEF InSlots
  <2>6. DOMAIN current.variable_fields = 1..Len(current.offsets)
    BY <2>5
  <2>7. ASSUME NEW p \in 1..Len(current.parts), p \in Waiting(current)
        PROVE  p \in Waiting(opened)
    <3>1. /\ p \in DOMAIN Type.fields
          /\ \/ p >= current.next
             \/ \E k \in DOMAIN current.variable_fields : current.variable_fields[k] = p
      BY <2>1, <2>5, <2>7 DEF Waiting
    <3>2. ~ (p >= current.next)
      BY <1>1, <2>1, <2>5, <3>1
    <3>3. PICK k \in 1..Len(current.offsets) : current.variable_fields[k] = p
      BY <2>6, <3>1, <3>2
    <3>. QED
      BY <2>1, <2>3, <3>3 DEF Waiting
  <2>8. ReadSoFar(opened)
    <3>1. ReadSoFar(current)
      BY <2>1, TopReads
    <3>. QED
      BY <2>1, <2>3, <2>5, <2>7, <3>1, StillReads
  <2>. QED
    BY <2>1, <2>3, <2>4, <2>8, ContinueHolds
<1>. QED
  BY <1>2, <1>3

LEMMA OpenUnionHolds ==
  ASSUME IInv, LInv, OpenUnion
  PROVE  LInv'
<1> DEFINE selector == FromBytes(Bytes(1))
           fault == IF Available < 1 THEN "TRUNCATED"
                    ELSE IF selector \notin DOMAIN Type.options THEN "UNKNOWN_SELECTOR"
                    ELSE NoFault
           opened == [current EXCEPT !.stage = "bodies", !.option = selector, !.offsets = <<1>>,
                                     !.parts = Unread(1)]
<1>1. /\ frames # <<>> /\ UNCHANGED request /\ JustCalled(current)
      /\ Type = current.type /\ IsFrame(current) /\ Type.shape = "union"
      /\ IF fault # NoFault THEN Refuse(fault, position + Taken(1))
         ELSE Continue(opened, position + 1)
  BY AtCalled DEF OpenUnion, Entered, Either
<1>2. CASE fault # NoFault
  BY <1>1, <1>2, RefuseHolds
<1>3. CASE fault = NoFault
  <2>1. DOMAIN current = FrameFields
    BY <1>1 DEF IsFrame
  <2>2. /\ opened.type = Type /\ opened.next = 1 /\ opened.stage = "bodies"
        /\ opened.offsets = <<1>> /\ opened.parts = Unread(1)
    BY <1>1, <2>1 DEF FrameFields, JustCalled
  <2>3. Continue(opened, position + 1)
    BY <1>1, <1>3
  <2> HIDE DEF opened, fault
  <2>4. Len(opened.offsets) = 1
    <3>1. Len(<<1>>) = 1
      OBVIOUS
    <3>. QED
      BY <2>2, <3>1
  <2>5. ~ IsStruct(Type) /\ ~ IsList(Type) /\ Type.shape # "vector"
    BY <1>1 DEF IsStruct, IsList
  <2>6. ReadSoFar(opened)
    BY <2>2, <2>4, <2>5, BodiesOpened
  <2>. QED
    BY <1>1, <2>2, <2>3, <2>6, ContinueHolds
<1>. QED
  BY <1>2, <1>3

LEMMA ReadFieldHolds ==
  ASSUME IInv, LInv, ReadField
  PROVE  LInv'
<1> DEFINE type == Type.fields[current.next]
<1>1. /\ At("slots") /\ frames' = Append(frames, Called(type, fixedSize[type], position))
      /\ UNCHANGED outcome
  BY DEF ReadField
<1>2. frames # <<>> /\ UNCHANGED request /\ InSlots(current) /\ Type = current.type /\ IsStruct(Type)
  BY <1>1, AtSlots
<1>3. type = PartType(current, Reading(current))
  BY <1>2 DEF PartType, Reading, InSlots, IsStruct, IsSequence
<1>. QED
  BY <1>1, <1>2, <1>3, CallHolds

LEMMA ReadBodyHolds ==
  ASSUME IInv, LInv, ReadBody
  PROVE  LInv'
<1>1. /\ frames # <<>> /\ UNCHANGED <<request, outcome>>
      /\ frames' = Append(frames, Called(PartType(current, Reading(current)),
                                         Span(current, current.next), position))
  BY AtBodies DEF ReadBody
<1>. QED
  BY <1>1, CallHolds

(* A call whose every part is read has a value its constructor takes. *)
LEMMA BuiltIsLegal ==
  ASSUME NEW frame, FrameStands(frame), ReadSoFar(frame), frame.stage \in {"slots", "bodies"},
         \A p \in 1..Len(frame.parts) : p \notin Waiting(frame)
  PROVE  Legal([type |-> frame.type, data |-> Built(frame)])
<1> DEFINE T == frame.type
           parts == frame.parts
           v == [type |-> T, data |-> Built(frame)]
<1>1. /\ IsStack(parts) /\ CountStands(frame)
      /\ \A p \in 1..Len(parts) : IsOf(parts[p], PartType(frame, p))
  BY DEF ReadSoFar
<1>2. \/ IsStruct(T) \/ IsSequence(T)
      \/ T.shape = "union" /\ frame.option \in DOMAIN T.options
  BY DEF FrameStands, JustCalled, InTable, InSlots, InBodies
<1>3. DOMAIN parts = 1..Len(parts) /\ v.type = T /\ v.data = Built(frame) /\ T \in Types
  BY <1>1 DEF IsStack, FrameStands, IsFrame
<1> HIDE DEF v, T, parts
<1>4. ASSUME T.shape = "union", frame.option \in DOMAIN T.options
      PROVE  Constructible(v) /\ \A u \in PartsOf(v) : Legal(u)
  <2>1. v.data = [selector |-> frame.option, value |-> parts[1]]
    BY <1>3, <1>4 DEF Built, T, parts
  <2>2. 1 \in 1..Len(parts)
    <3>1. Len(parts) = 1
      BY <1>1, <1>4 DEF CountStands, T, parts
    <3>. QED
      BY <3>1
  <2>3. PartType(frame, 1) = T.options[frame.option]
    BY <1>4 DEF PartType, IsSequence, IsStruct, T
  <2>4. parts[1].type = T.options[frame.option] /\ Legal(parts[1])
    BY <1>1, <2>2, <2>3 DEF IsOf
  <2>5. PartsOf(v) = {parts[1]}
    BY <1>3, <1>4, <2>1 DEF PartsOf, IsStruct, IsSequence
  <2>. QED
    BY <1>3, <1>4, <2>1, <2>4, <2>5 DEF Constructible, IsStruct, IsSequence
<1>5. ASSUME IsStruct(T) \/ IsSequence(T)
      PROVE  v.data = parts /\ \A u \in PartsOf(v) : Legal(u)
  <2>1. v.data = parts
    BY <1>3, <1>5 DEF Built, IsStruct, IsSequence, T, parts
  <2>2. PartsOf(v) = Range(parts)
    BY <1>3, <1>5, <2>1 DEF PartsOf, IsStruct, IsSequence
  <2>. QED
    BY <1>1, <1>3, <2>1, <2>2 DEF IsOf, Range
<1>6. ASSUME IsStruct(T)
      PROVE  Constructible(v)
  <2>1. Len(parts) = Len(T.fields)
    BY <1>1, <1>6 DEF CountStands, T, parts
  <2>2. \A p \in DOMAIN parts : parts[p].type = T.fields[p]
    BY <1>1, <1>3, <1>6 DEF PartType, IsOf, IsSequence, IsStruct, T
  <2>. QED
    BY <1>3, <1>5, <1>6, <2>1, <2>2 DEF Constructible, IsStruct, IsSequence
<1>7. ASSUME IsSequence(T)
      PROVE  Constructible(v)
  <2>1. IF T.shape = "vector" THEN Len(parts) = T.length ELSE ~ Exceeds(T, Len(parts))
    BY <1>1, <1>7 DEF CountStands, IsSequence, IsList, T, parts
  <2>2. \A p \in DOMAIN parts : parts[p].type = T.element
    BY <1>1, <1>3, <1>7 DEF PartType, IsOf, IsSequence, IsStruct, T
  <2>. QED
    BY <1>3, <1>5, <1>7, <2>1, <2>2 DEF Constructible, IsStruct, IsSequence
<1>8. Legal(v)
  BY <1>2, <1>4, <1>5, <1>6, <1>7, LegalOfParts
<1>. QED
  BY <1>8 DEF v, T

LEMMA CloseHolds ==
  ASSUME IInv, LInv, Close
  PROVE  LInv'
<1>1. Return(Built(current), position)
  BY DEF Close
<1>2. CASE At("bodies") /\ current.next > Len(current.offsets)
  <2>1. /\ frames # <<>> /\ UNCHANGED request /\ InBodies(current) /\ Type = current.type
        /\ Len(current.offsets) \in Nat
    BY <1>2, AtBodies
  <2>2. current.next..Len(current.offsets) = {} /\ current.stage = "bodies"
    BY <1>2, <2>1 DEF InBodies
  <2>3. Waiting(current) = {}
    BY <2>2 DEF Waiting
  <2>4. Legal([type |-> Type, data |-> Built(current)])
    BY <2>1, <2>2, <2>3, TopReads, StackAt, BuiltIsLegal
  <2>. QED
    BY <1>1, <2>1, <2>4, ReturnHolds
<1>3. CASE At("slots") /\ current.next > Len(Type.fields) /\ current.offsets = <<>>
  <2>1. /\ frames # <<>> /\ UNCHANGED request /\ InSlots(current) /\ Type = current.type
        /\ Type \in Types /\ IsStruct(Type) /\ Len(Type.fields) \in Nat
        /\ current.next \in 1..(Len(Type.fields) + 1)
    BY <1>3, AtSlots
  <2>2. DOMAIN Type.fields = 1..Len(Type.fields)
    BY <2>1, Parts
  <2>3. DOMAIN current.variable_fields = {} /\ current.stage = "slots"
    <3>1. /\ current.variable_fields \in Seq(DOMAIN current.type.fields)
          /\ Len(current.variable_fields) = Len(current.offsets) /\ current.stage = "slots"
      BY <2>1 DEF InSlots
    <3>2. Len(current.offsets) = 0
      BY <1>3
    <3>. QED
      BY <3>1, <3>2
  <2>4. \A p \in DOMAIN Type.fields : ~ (p >= current.next)
    BY <1>3, <2>1, <2>2
  <2>5. \A p : p \notin Waiting(current)
    BY <2>1, <2>3, <2>4 DEF Waiting
  <2>6. Legal([type |-> Type, data |-> Built(current)])
    BY <2>1, <2>3, <2>5, TopReads, StackAt, BuiltIsLegal
  <2>. QED
    BY <1>1, <2>1, <2>6, ReturnHolds
<1>. QED
  BY <1>2, <1>3 DEF Close

LEMMA InitHolds == Init => LInv
<1> SUFFICES ASSUME Init
             PROVE  LInv
  OBVIOUS
<1> DEFINE first == Called(request.type, request.scope, 0)
<1>1. frames = <<first>> /\ outcome.answer = "pending"
  BY DEF Init, Pending
<1>2. first.stage = "called" /\ first.type = request.type
  BY DEF Called
<1> HIDE DEF first
<1>3. Len(frames) = 1 /\ DOMAIN frames = 1..1 /\ frames[1] = first /\ 1..(Len(frames) - 1) = {}
  BY <1>1
<1>4. \A k \in DOMAIN frames : ReadSoFar(frames[k])
  BY <1>2, <1>3, Only DEF ReadSoFar
<1>5. AskedFor(frames, request)
  BY <1>2, <1>3 DEF AskedFor
<1>. QED
  BY <1>1, <1>4, <1>5 DEF LInv, WhatIsReadIsLegal, Accepted

LEMMA StepHolds == IInv /\ LInv /\ [Next]_vars => LInv'
<1> SUFFICES ASSUME IInv, LInv, [Next]_vars
             PROVE  LInv'
  OBVIOUS
<1>1. CASE UNCHANGED vars
  BY <1>1 DEF vars, LInv, WhatIsReadIsLegal, Accepted
<1>. QED
  BY <1>1, RefuseScopeHolds, ReadLeafHolds, OpenUniformHolds, OpenVectorHolds, OpenListHolds,
     ReadTableHolds, OpenStructHolds, ReadSlotHolds, SettleSlotsHolds, OpenUnionHolds,
     ReadFieldHolds, ReadBodyHolds, CloseHolds DEF Next

(* A sequence is built past its validators (collections.py:306), a struct of  *)
(* fields read out of order, a union of what its selector names: and each is  *)
(* a value its constructor would have taken, as is every part of it, at any   *)
(* depth.                                                                  *)
THEOREM LegalTheorem == Spec => []WhatIsReadIsLegal
<1>1. LInv => WhatIsReadIsLegal
  BY DEF LInv
<1>. QED
  BY <1>1, InitHolds, StepHolds, InitStands, StepKeeps, PTL DEF Spec
=============================================================================

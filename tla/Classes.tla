------------------------------ MODULE Classes -------------------------------
(***************************************************************************)
(* Classes of SSZ types, as Python keeps them: what each body said, and the *)
(* order its bases are asked in for what it left unsaid.                   *)
(*                                                                         *)
(* A class is known by its place in the order of declaration, so a class    *)
(* names only lower ones.  SSZType and the mixins under the shapes fix     *)
(* nothing, and are left out of every order.                               *)
(***************************************************************************)
EXTENDS SSZTypes, Integers, Sequences, SequencesExt, FiniteSets

CONSTANTS
  Unsaid,       \* an attribute a class body does not name
  None,         \* an attribute that is absent, left out or written so
  Varies,       \* the width of a type whose values differ in it
  Undeclared    \* an error: a type asked for what it does not declare

ASSUME WidthsAssumption == BitsPerByte \in Nat \ {0} /\ {Varies, Undeclared} \cap Int = {}

VARIABLE classes   \* each with its shape, order, body, bracket and fields

Ids == DOMAIN classes

(* What a declaration fixes its tree with. *)
TypeParameters == {"LENGTH", "LIMIT", "ELEMENT_TYPE", "ACTIVE_FIELDS", "OPTIONS"}
Attributes == TypeParameters \cup {"BITS"}

SaysNothing == [a \in Attributes |-> Unsaid]

Shape(c) == classes[c].shape

IsSubclass(c, d) == c = d \/ d \in ToSet(classes[c].mro)

---------------------------------------------------------------------------
(* Attributes. *)

(* What the first class of an order that says anything says. *)
Inherited(mro, a) ==
  LET said == {i \in DOMAIN mro : classes[mro[i]].own[a] # Unsaid}
  IN  IF said = {} THEN None
      ELSE classes[mro[Min(said)]].own[a]

Resolved(own, mro, a) == IF own[a] # Unsaid THEN own[a] ELSE Inherited(mro, a)

Presented(c, a) == Resolved(classes[c].own, classes[c].mro, a)

(* A class followed by everything it inherits from. *)
Lineage(c) == <<c>> \o classes[c].mro

(* The order Python asks the bases of a new class in: each lineage in its   *)
(* own order, and nothing of the second base before what it need precede.   *)
Linearizations(bases) ==
  LET first == Lineage(bases[1])
      second == IF Len(bases) = 1 THEN <<>> ELSE Lineage(bases[2])
      all == ToSet(first) \cup ToSet(second)
      keeps(order, line) ==
        \A i, j \in DOMAIN order, k, l \in DOMAIN line :
          order[i] = line[k] /\ order[j] = line[l] => (i < j <=> k < l)
  IN  {order \in SetToSeqs(all) :
         /\ keeps(order, first) /\ keeps(order, second) /\ keeps(order, bases)
         /\ \A i \in DOMAIN order : order[i] \notin ToSet(first) =>
              i = Len(order) \/ order[i + 1] \in ToSet(second)}

---------------------------------------------------------------------------
(* Fields. *)

Names(fields) == {fields[f].name : f \in DOMAIN fields}

(* A field restates the one of its name where it stands, or is appended. *)
Restated(fields, field) ==
  IF field.name \in Names(fields)
    THEN [f \in DOMAIN fields |-> IF fields[f].name = field.name THEN field ELSE fields[f]]
    ELSE Append(fields, field)

Settled(fields, body) ==
  LET settled[n \in 0..Len(body)] ==
        IF n = 0 THEN fields ELSE Restated(settled[n - 1], body[n])
  IN  settled[Len(body)]

(* The fields of the first base restate those of the second. *)
FieldsOf(bases) ==
  IF Len(bases) = 1 THEN classes[bases[1]].fields
  ELSE Settled(classes[bases[2]].fields, classes[bases[1]].fields)

---------------------------------------------------------------------------
(* Widths. *)

Times(width, count) ==
  IF width \in {Varies, Undeclared} THEN width
  ELSE IF count = None THEN Undeclared ELSE width * count

Plus(before, width) == IF Varies \in {before, width} THEN Varies ELSE before + width

TotalWidth(widths) ==
  LET total[n \in 0..Len(widths)] == IF n = 0 THEN 0 ELSE Plus(total[n - 1], widths[n])
  IN  total[Len(widths)]

WidthOf(T, presents, widths) ==
  CASE T.shape = "uint" -> presents["BITS"] \div BitsPerByte
    [] T.shape = "boolean" -> 1
    [] T.shape = "byte_vector" -> Times(1, presents["LENGTH"])
    [] T.shape = "bit_vector" ->
         IF presents["LENGTH"] = None THEN Undeclared
         ELSE CeilDiv(presents["LENGTH"], BitsPerByte)
    [] T.shape = "vector" ->
         IF presents["ELEMENT_TYPE"] = None THEN Undeclared
         ELSE Times(widths[presents["ELEMENT_TYPE"]], presents["LENGTH"])
    [] T.shape \in {"container", "progressive_container"} ->
         TotalWidth([f \in DOMAIN T.fields |-> widths[T.fields[f].type]])
    [] OTHER -> Varies

Presents(c) == [a \in Attributes |-> Presented(c, a)]

(* The bytes every value of a type takes. *)
fixedSize[c \in Ids] == WidthOf(classes[c], Presents(c), fixedSize)

---------------------------------------------------------------------------
(* Trees. *)

(* A class that owes nothing: a layer that leaves a count or its elements   *)
(* to its subclasses stands for no type yet.                               *)
WholeOf(T, presents, whole) ==
  /\ T.shape \in {"byte_vector", "bit_vector", "vector"} => presents["LENGTH"] # None
  /\ T.shape \in {"byte_list", "bit_list", "list"} => presents["LIMIT"] # None
  /\ T.shape \in {"vector", "list", "progressive_list"} =>
       presents["ELEMENT_TYPE"] # None /\ whole[presents["ELEMENT_TYPE"]]
  /\ \A f \in DOMAIN T.fields : whole[T.fields[f].type]
  /\ T.shape = "union" => \A s \in DOMAIN presents["OPTIONS"] : whole[presents["OPTIONS"][s]]

isWhole[c \in Ids] == WholeOf(classes[c], Presents(c), isWhole)

(* What a class declares of its tree, the names of its fields with it: the  *)
(* two spellings of a byte array are one.                                  *)
TreeOf(T, presents, trees) ==
  LET element == IF presents["ELEMENT_TYPE"] = None THEN None ELSE trees[presents["ELEMENT_TYPE"]]
      byte == Basic(BitsPerByte)
      fields == [f \in DOMAIN T.fields |->
                   [name |-> T.fields[f].name, type |-> trees[T.fields[f].type]]]
      options == presents["OPTIONS"]
  IN  CASE T.shape = "uint" -> Basic(presents["BITS"])
        [] T.shape = "boolean" -> Boolean
        [] T.shape = "byte_vector" -> Vector(byte, presents["LENGTH"])
        [] T.shape = "byte_list" -> List(byte, presents["LIMIT"])
        [] T.shape = "bit_vector" -> BitVector(presents["LENGTH"])
        [] T.shape = "bit_list" -> BitList(presents["LIMIT"])
        [] T.shape = "progressive_bit_list" -> ProgressiveBitList
        [] T.shape = "vector" -> Vector(element, presents["LENGTH"])
        [] T.shape = "list" -> List(element, presents["LIMIT"])
        [] T.shape = "progressive_list" -> ProgressiveList(element)
        [] T.shape = "container" -> Container(fields)
        [] T.shape = "progressive_container" ->
             ProgressiveContainer(presents["ACTIVE_FIELDS"], fields)
        [] T.shape = "union" -> CompatibleUnion([s \in DOMAIN options |-> trees[options[s]]])

treeOf[c \in Ids] == TreeOf(classes[c], Presents(c), treeOf)
=============================================================================

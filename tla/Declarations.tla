---------------------------- MODULE Declarations ----------------------------
(***************************************************************************)
(* Declaring types (the subclass hooks of src/ssz/ssz_base.py, uint.py,    *)
(* boolean.py, collections.py, bitfields.py, container.py and union.py).   *)
(*                                                                         *)
(* A session runs a program: the declarations it makes, each one of a set. *)
(* Of a refused one nothing is left, and the program ends.                 *)
(***************************************************************************)
EXTENDS Compatibility

CONSTANTS
  Programs,          \* bound: by name, what may be declared first, second...
  UintWidths,        \* the bits a uint may have
  MaxActiveFields,   \* the widest layout of a progressive container
  MinSelector,
  MaxSelector

(* What is declared k-th can name only what was declared before it. *)
ASSUME ProgramsAssumption ==
  \A program \in DOMAIN Programs : \A k \in DOMAIN Programs[program] :
    \A d \in Programs[program][k] :
      /\ d.bases \in Seq(Nat) /\ Len(d.bases) <= 2
      /\ DOMAIN d.own = Attributes
      /\ d.own["LENGTH"] \in {Unsaid, None} \cup Int
      /\ d.own["ELEMENT_TYPE"] \in {Unsaid, None} \cup 1..(k - 1)
      /\ d.bracket \in {None} \cup 1..(k - 1)
      /\ Len(d.fields) \in Nat /\ d.fields = [f \in 1..Len(d.fields) |-> d.fields[f]]
      /\ \A f \in DOMAIN d.fields : d.fields[f].type \in 1..(k - 1)
      /\ \A f, g \in DOMAIN d.fields : d.fields[f].name = d.fields[g].name => f = g
      /\ \/ d.own["OPTIONS"] \in {Unsaid, None}
         \/ \A s \in DOMAIN d.own["OPTIONS"] : d.own["OPTIONS"][s] \in 1..(k - 1)

ASSUME UintWidthsAssumption == UintWidths \subseteq {n \in Nat : BitsPerByte <= n}

VARIABLE session

declarationVars == <<classes, session>>

DeclarationsInit ==
  /\ classes = <<>>
  /\ session \in DOMAIN Programs

---------------------------------------------------------------------------
(* What every declaration is held to. *)

(* Fault: an exact count of zero passes. *)
NarrowedToCounts(own) ==
  \A capacity \in {"LENGTH", "LIMIT"} : own[capacity] \in {Unsaid, None} \/ own[capacity] >= 0

(* A bound of zero admits the empty value; an exact count of zero, nothing. *)
Narrowed(own) ==
  /\ own["LENGTH"] \in {Unsaid, None} \/ own["LENGTH"] >= 1
  /\ own["LIMIT"] \in {Unsaid, None} \/ own["LIMIT"] >= 0

(* Fault: only the nearest base that fixes a parameter is asked. *)
HeldToNearest(own, mro) ==
  \A p \in TypeParameters : Inherited(mro, p) \in {None, Resolved(own, mro, p)}

(* What no body says the order of the bases picks, and it is held as well. *)
HeldToBases(own, mro) ==
  \A p \in TypeParameters, b \in ToSet(mro) :
    classes[b].own[p] \in {Unsaid, None, Resolved(own, mro, p)}

Orders(bases) == IF bases = <<>> THEN {<<>>} ELSE Linearizations(bases)

(* The orders in which the shared hook lets the bases stand. *)
AllowedOrders(d) == {mro \in Orders(d.bases) : Narrowed(d.own) /\ HeldToBases(d.own, mro)}

Declare(d, mro, own, fields) ==
  /\ classes' = Append(classes, [shape |-> d.shape, mro |-> mro, own |-> own,
                                 bracket |-> d.bracket, fields |-> fields])
  /\ UNCHANGED session

---------------------------------------------------------------------------
(* Shapes of no parts. *)

DeclareUint(d) ==
  /\ d.shape = "uint"
  /\ \E mro \in AllowedOrders(d) :
       /\ Resolved(d.own, mro, "BITS") \in UintWidths
       /\ Declare(d, mro, d.own, <<>>)

DeclareBitsOrBytes(d) ==
  /\ d.shape \in {"boolean", "byte_vector", "byte_list", "bit_vector", "bit_list",
                  "progressive_bit_list"}
  /\ \E mro \in AllowedOrders(d) :
       /\ d.shape = "progressive_bit_list" => Resolved(d.own, mro, "LENGTH") = None
       /\ Declare(d, mro, d.own, <<>>)

---------------------------------------------------------------------------
(* Sequences. *)

(* The shape in brackets: a class of its own, that fixes its elements. *)
Parametrize(d) ==
  /\ d.shape \in {"vector", "list", "progressive_list"}
  /\ d.bracket \in Ids
  /\ d.bases = <<>>
  /\ Declare(d, <<>>, [SaysNothing EXCEPT !["ELEMENT_TYPE"] = d.bracket], <<>>)

(* A body that leaves its elements unsaid takes those of a base in brackets. *)
WithElements(d) ==
  LET inBrackets == {b \in DOMAIN d.bases : classes[d.bases[b]].bracket # None}
  IN  IF d.own["ELEMENT_TYPE"] = Unsaid /\ inBrackets # {}
        THEN [d.own EXCEPT !["ELEMENT_TYPE"] = classes[d.bases[Min(inBrackets)]].bracket]
        ELSE d.own

(* A vector builds its default when it is declared, out of one element that *)
(* every place can share if elements never change.                         *)
HasDefault(shape, element, length) ==
  shape = "vector" /\ None \notin {element, length} /\ Shape(element) = "byte_vector" =>
    Presented(element, "LENGTH") # None

DeclareSequence(d) ==
  /\ d.shape \in {"vector", "list", "progressive_list"}
  /\ d.bracket = None
  /\ LET own == WithElements(d)
     IN  \E mro \in AllowedOrders(d) :
           /\ HeldToBases(own, mro)
           /\ Resolved(own, mro, IF d.shape = "vector" THEN "LIMIT" ELSE "LENGTH") = None
           /\ HasDefault(d.shape, Resolved(own, mro, "ELEMENT_TYPE"), Resolved(own, mro, "LENGTH"))
           /\ Declare(d, mro, own, <<>>)

---------------------------------------------------------------------------
(* Structs. *)

SettledFields(d) == IF d.bases = <<>> THEN d.fields ELSE Settled(FieldsOf(d.bases), d.fields)

(* Settling a struct asks every field for its width, and a type may owe one. *)
HaveWidths(fields) == \A f \in DOMAIN fields : fixedSize[fields[f].type] # Undeclared

DeclareContainer(d) ==
  /\ d.shape = "container"
  /\ HaveWidths(SettledFields(d))
  /\ SettledFields(d) # <<>>
  /\ \E mro \in AllowedOrders(d) : Declare(d, mro, d.own, SettledFields(d))

IsLayout(active, count) ==
  /\ active # None
  /\ active \in Seq({0, 1})
  /\ Len(active) \in 1..MaxActiveFields
  /\ Last(active) = 1
  /\ Cardinality({p \in DOMAIN active : active[p] = 1}) = count

DeclareProgressiveContainer(d) ==
  /\ d.shape = "progressive_container"
  /\ HaveWidths(SettledFields(d))
  /\ \E mro \in AllowedOrders(d) :
       /\ IsLayout(Resolved(d.own, mro, "ACTIVE_FIELDS"), Len(SettledFields(d)))
       /\ Declare(d, mro, d.own, SettledFields(d))

---------------------------------------------------------------------------
(* Unions. *)

(* Fault: an option is asked about the next one alone. *)
NeighboursFit(options) ==
  \A s, t \in DOMAIN options :
    (s < t /\ ~ \E between \in DOMAIN options : s < between /\ between < t) =>
      compatible[options[s]][options[t]]

PairsFit(options) ==
  \A s, t \in DOMAIN options : s < t => compatible[options[s]][options[t]]

DeclareUnion(d) ==
  /\ d.shape = "union"
  /\ \E mro \in AllowedOrders(d) :
       LET options == Resolved(d.own, mro, "OPTIONS")
       IN  /\ options # None
           /\ DOMAIN options # {}
           /\ DOMAIN options \subseteq MinSelector..MaxSelector
           /\ PairsFit(options)
           /\ Declare(d, mro, d.own, <<>>)

---------------------------------------------------------------------------
Declaring ==
  /\ Len(classes) + 1 \in DOMAIN Programs[session]
  /\ \E d \in Programs[session][Len(classes) + 1] :
       /\ ToSet(d.bases) \subseteq Ids
       /\ \/ DeclareUint(d)
          \/ DeclareBitsOrBytes(d)
          \/ Parametrize(d)
          \/ DeclareSequence(d)
          \/ DeclareContainer(d)
          \/ DeclareProgressiveContainer(d)
          \/ DeclareUnion(d)

DeclarationsSpec == DeclarationsInit /\ [][Declaring]_declarationVars

---------------------------------------------------------------------------
(* Properties. *)

(* A subclass keeps every parameter its ancestors present, however the     *)
(* lines it inherits along cross (hold_to_bases).                          *)
OneTreePerLineage ==
  \A c \in Ids : \A a \in ToSet(classes[c].mro), p \in TypeParameters :
    Presented(a, p) # None => Presented(c, p) = Presented(a, p)

(* No declared type spans zero bytes, so a sequence of it can count its     *)
(* elements by dividing (_sequence deserialize, check of a vector's count). *)
SpansArePositive == \A c \in Ids : fixedSize[c] # 0

(* Compatibility takes no side, and asks of a class only what it declares:  *)
(* two classes that declare one tree, in either spelling of a byte array,  *)
(* are compatible with each other and with the same others (is_compatible). *)
CompatibilityIsAnAgreement ==
  \A c, d \in Ids :
    /\ compatible[c][d] = compatible[d][c]
    /\ isWhole[c] /\ isWhole[d] /\ treeOf[c] = treeOf[d] =>
         \A e \in Ids : isWhole[e] => compatible[c][e] = compatible[d][e]

(* A struct lays its slots out once, from what its fields declare, and a    *)
(* field may hold an instance of a subclass: that takes the same slot      *)
(* (_SSZContainer.serialize, wrapping_schema in src/ssz/base.py).          *)
FieldsFillTheirSlots ==
  \A c, d \in Ids : \A f \in DOMAIN classes[c].fields :
    LET type == classes[c].fields[f].type
    IN  Shape(type) \in {"uint", "boolean", "byte_vector"} /\ IsSubclass(d, type) =>
          fixedSize[d] = fixedSize[type]
=============================================================================

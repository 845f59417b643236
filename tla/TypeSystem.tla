----------------------------- MODULE TypeSystem -----------------------------
(***************************************************************************)
(* Declared types together with the paths into them: what a union promises *)
(* of its options (src/ssz/union.py) against where src/ssz/paths.py says   *)
(* their parts are.                                                        *)
(***************************************************************************)
EXTENDS Numbers, PathIndex

TypeSpec == NumbersSpec

(* The type a class stands for, which a path is followed through. *)
TypeOf[c \in Ids] ==
  LET element == TypeOf[Presented(c, "ELEMENT_TYPE")]
      length == Presented(c, "LENGTH")
      limit == Presented(c, "LIMIT")
      fields == [f \in DOMAIN classes[c].fields |-> TypeOf[classes[c].fields[f].type]]
  IN  CASE Shape(c) = "uint" -> Basic(fixedSize[c])
        [] Shape(c) = "boolean" -> Boolean
        [] Shape(c) = "byte_vector" -> ByteVector(length)
        [] Shape(c) = "byte_list" -> ByteList(limit)
        [] Shape(c) = "bit_vector" -> BitVector(length)
        [] Shape(c) = "bit_list" -> BitList(limit)
        [] Shape(c) = "progressive_bit_list" -> ProgressiveBitList
        [] Shape(c) = "vector" -> Vector(element, length)
        [] Shape(c) = "list" -> List(element, limit)
        [] Shape(c) = "progressive_list" -> ProgressiveList(element)
        [] Shape(c) = "container" -> Container(fields)
        [] Shape(c) = "progressive_container" ->
             ProgressiveContainer(Presented(c, "ACTIVE_FIELDS"), fields)
        [] Shape(c) = "union" ->
             LET options == Presented(c, "OPTIONS")
             IN  CompatibleUnion([s \in DOMAIN options |-> TypeOf[options[s]]])

---------------------------------------------------------------------------
(* Paths by name. *)

CONSTANT MaxSteps   \* bound: the steps of a path

(* Steps into a class, and the class each leads to if it is one. *)
Steps(c) ==
  CASE Shape(c) \in {"container", "progressive_container"} -> 0..(Len(classes[c].fields) - 1)
    [] Shape(c) = "union" -> DOMAIN Presented(c, "OPTIONS")
    [] IsBasic(TypeOf[c]) -> {}
    [] OTHER -> {n \in 0..2 : Declares(TypeOf[c], n)}

PartOf(c, n) ==
  CASE Shape(c) \in {"container", "progressive_container"} -> classes[c].fields[n + 1].type
    [] Shape(c) = "union" -> Presented(c, "OPTIONS")[n]
    [] OTHER -> Presented(c, "ELEMENT_TYPE")

(* A field is spelt by its name, a position by itself; of an option, that   *)
(* it is one.                                                              *)
Spelt(c, n) ==
  CASE Shape(c) \in {"container", "progressive_container"} -> <<"field", classes[c].fields[n + 1].name>>
    [] Shape(c) = "union" -> <<"option", None>>
    [] OTHER -> <<"at", n>>

(* Every path into a class: its steps, how they are spelt, and the part of   *)
(* a chunk the last one reads.                                             *)
routesOfLength[length \in 1..MaxSteps, c \in Ids] ==
  IF length = 1
    THEN {LET place == ChunkPosition(TypeOf[c], n)
          IN  [steps |-> <<At(n)>>, spelt |-> <<Spelt(c, n)>>, span |-> <<place.start, place.stop>>] :
            n \in Steps(c)}
    ELSE UNION {
      {[onward EXCEPT !.steps = <<At(n)>> \o @, !.spelt = <<Spelt(c, n)>> \o @] :
         onward \in routesOfLength[length - 1, PartOf(c, n)]}
      : n \in {n \in Steps(c) : PartOf(c, n) \in Ids}}

---------------------------------------------------------------------------
(* Properties. *)

(* A proof about one option of a union is one about the others: paths into  *)
(* two options that are spelt alike read one place, and paths as long that  *)
(* read one node go through fields of the same names (CompatibleUnion,     *)
(* _layouts_agree).                                                        *)
ProofsReadAlike ==
  \A u \in {u \in Ids : Shape(u) = "union" /\ isWhole[u]} :
    \A s, t \in DOMAIN Presented(u, "OPTIONS"), length \in 1..MaxSteps :
      LET left == Presented(u, "OPTIONS")[s]
          right == Presented(u, "OPTIONS")[t]
          index(c, route) == GeneralizedIndex(TypeOf[c], route.steps)
          fields(route) == SelectSeq(route.spelt, LAMBDA step : step[1] = "field")
      IN  \A p \in routesOfLength[length, left], q \in routesOfLength[length, right] :
            /\ p.spelt = q.spelt => index(left, p) = index(right, q) /\ p.span = q.span
            /\ index(left, p) = index(right, q) => fields(p) = fields(q)
=============================================================================

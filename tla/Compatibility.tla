--------------------------- MODULE Compatibility ----------------------------
(***************************************************************************)
(* Whether two types merkleize into one tree shape (src/ssz/union.py,      *)
(* is_compatible), which every pair of a union's options must.             *)
(***************************************************************************)
EXTENDS Classes

Uint8Bits == BitsPerByte

(* Fault: a byte array has no shape but its own. *)
ByteSequenceOfArrays(c) ==
  CASE Shape(c) = "byte_vector" -> <<"bytes", Presented(c, "LENGTH")>>
    [] Shape(c) = "byte_list" -> <<"list of bytes", Presented(c, "LIMIT")>>
    [] OTHER -> <<>>

(* The byte array a type spells, in either spelling, or nothing. *)
ByteSequence(c) ==
  LET element == Presented(c, "ELEMENT_TYPE")
      ofBytes == /\ element # None
                 /\ Shape(element) = "uint" /\ Presented(element, "BITS") = Uint8Bits
      spelt(name, count) == IF count = None THEN <<>> ELSE <<name, count>>
  IN  CASE Shape(c) = "byte_vector" \/ (ofBytes /\ Shape(c) = "vector") ->
             spelt("vector", Presented(c, "LENGTH"))
        [] Shape(c) = "byte_list" \/ (ofBytes /\ Shape(c) = "list") ->
             spelt("list", Presented(c, "LIMIT"))
        [] OTHER -> <<>>

CapacitiesAgree(left, right) == left # None /\ left = right

ElementsAgree(l, r, fits) ==
  LET left == Presented(l, "ELEMENT_TYPE")
      right == Presented(r, "ELEMENT_TYPE")
  IN  left # None /\ right # None /\ fits[left][right]

FieldsAgree(l, r, fits) ==
  LET left == classes[l].fields
      right == classes[r].fields
  IN  /\ Len(left) = Len(right)
      /\ \A f \in DOMAIN left :
           left[f].name = right[f].name /\ fits[left[f].type][right[f].type]

(* The field at each set position of a layout. *)
FieldsByPosition(c) ==
  LET active == Presented(c, "ACTIVE_FIELDS")
      set == {p \in DOMAIN active : active[p] = 1}
  IN  [p \in set |-> classes[c].fields[Cardinality({q \in set : q <= p})]]

(* One name at a shared position, and one position for a shared name. *)
LayoutsAgree(l, r, fits) ==
  /\ None \notin {Presented(l, "ACTIVE_FIELDS"), Presented(r, "ACTIVE_FIELDS")}
  /\ LET left == FieldsByPosition(l)
         right == FieldsByPosition(r)
     IN  /\ \A p \in DOMAIN left \cap DOMAIN right :
              left[p].name = right[p].name /\ fits[left[p].type][right[p].type]
         /\ \A p \in DOMAIN left, q \in DOMAIN right : left[p].name = right[q].name => p = q

OptionsAgree(l, r, fits) ==
  LET left == Presented(l, "OPTIONS")
      right == Presented(r, "OPTIONS")
  IN  /\ None \notin {left, right}
      /\ \A s \in DOMAIN left, t \in DOMAIN right : fits[left[s]][right[t]]

(* A shape is asked for only what its tree is laid out from: a bound of a   *)
(* progressive one is not.                                                 *)
ParametersAgree(l, r, fits) ==
  CASE Shape(l) = "uint" -> Presented(l, "BITS") = Presented(r, "BITS")
    [] Shape(l) \in {"boolean", "progressive_bit_list"} -> TRUE
    [] Shape(l) = "bit_vector" -> CapacitiesAgree(Presented(l, "LENGTH"), Presented(r, "LENGTH"))
    [] Shape(l) = "bit_list" -> CapacitiesAgree(Presented(l, "LIMIT"), Presented(r, "LIMIT"))
    [] Shape(l) = "vector" ->
         /\ CapacitiesAgree(Presented(l, "LENGTH"), Presented(r, "LENGTH"))
         /\ ElementsAgree(l, r, fits)
    [] Shape(l) = "list" ->
         /\ CapacitiesAgree(Presented(l, "LIMIT"), Presented(r, "LIMIT"))
         /\ ElementsAgree(l, r, fits)
    [] Shape(l) = "progressive_list" -> ElementsAgree(l, r, fits)
    [] Shape(l) = "container" -> FieldsAgree(l, r, fits)
    [] Shape(l) = "progressive_container" -> LayoutsAgree(l, r, fits)
    [] Shape(l) = "union" -> OptionsAgree(l, r, fits)
    [] OTHER -> FALSE

Fit(l, r, fits) ==
  \/ l = r
  \/ IF ByteSequence(l) # <<>> \/ ByteSequence(r) # <<>>
       THEN ByteSequence(l) = ByteSequence(r)
       ELSE Shape(l) = Shape(r) /\ ParametersAgree(l, r, fits)

compatible[l \in Ids] == [r \in Ids |-> Fit(l, r, compatible)]
=============================================================================

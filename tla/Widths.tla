------------------------------- MODULE Widths --------------------------------
(***************************************************************************)
(* The widths each class settles as it is declared (fixed_size of every    *)
(* shape, _LEADING_SLOTS of a struct), which reading and writing go by.    *)
(***************************************************************************)
EXTENDS Reader

RECURSIVE DeclaredSize(_), DeclaredStart(_, _)

DeclaredStart(T, f) ==
  IF f = 1 THEN 0
  ELSE LET width == DeclaredSize(T.fields[f - 1])
       IN  DeclaredStart(T, f - 1) + (IF width = Varies THEN OffsetWidth ELSE width)

DeclaredSize(T) ==
  CASE T.shape = "basic" -> T.size
    [] T.shape = "boolean" -> 1
    [] T.shape = "byte_vector" -> T.length
    [] T.shape = "bit_vector" -> CeilDiv(T.length, BitsPerByte)
    [] T.shape = "vector" ->
         LET width == DeclaredSize(T.element)
         IN  IF width = Varies THEN Varies ELSE width * T.length
    [] IsStruct(T) ->
         IF \E f \in DOMAIN T.fields : DeclaredSize(T.fields[f]) = Varies THEN Varies
         ELSE DeclaredStart(T, Len(T.fields) + 1)
    [] OTHER -> Varies

DeclaredSizes == [T \in Types |-> DeclaredSize(T)]
DeclaredStarts ==
  [T \in {S \in Types : IsStruct(S)} |->
     [f \in 1..(Len(T.fields) + 1) |-> DeclaredStart(T, f)]]
=============================================================================

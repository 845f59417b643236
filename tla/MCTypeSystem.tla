---------------------------- MODULE MCTypeSystem ----------------------------
(* Small instances of TypeSystem: uints of two and of four bits, bytes of   *)
(* two bits, chunks of two bytes.                                          *)
EXTENDS TypeSystem

Zero == Chunk(<<>>)

---------------------------------------------------------------------------
(* Declarations. *)

Saying(own) == [a \in Attributes |-> IF a \in DOMAIN own THEN own[a] ELSE Unsaid]
Says(name, what) == [a \in {name} |-> what]
Nothing == [a \in {} |-> Unsaid]

Class(shape, bases, own) ==
  [shape |-> shape, bases |-> bases, own |-> Saying(own), bracket |-> None, fields |-> <<>>]
InBrackets(shape, element) == [Class(shape, <<>>, Nothing) EXCEPT !.bracket = element]
Uint(bits) == Class("uint", <<>>, Says("BITS", bits))
Struct(shape, bases, own, fields) == [Class(shape, bases, own) EXCEPT !.fields = fields]
Field(name, type) == <<[name |-> name, type |-> type]>>
Laid(active, fields) ==
  Struct("progressive_container", <<>>, Says("ACTIVE_FIELDS", active), fields)
Union(options) == Class("union", <<>>, Says("OPTIONS", options))

---------------------------------------------------------------------------
(* Programs. *)

(* Numbers of siblings, of a named uint, of one widened, and of two bits. *)
Counting == <<
  {Uint(2)}, {Uint(4), Uint(3)},
  {Class("uint", <<1>>, Nothing)}, {Class("uint", <<1>>, Says("BITS", 4))},
  {Class("boolean", <<>>, Nothing)}, {Class("boolean", <<5>>, Nothing)} >>

Lengths == {Unsaid, None, 0, 1, 2}

(* Lines of vectors that part and meet again. *)
Lines == <<
  {Uint(2)},
  {InBrackets("vector", 1), Class("vector", <<>>, Nothing)},
  {Class("vector", <<2>>, Says("LENGTH", n)) : n \in Lengths}
    \cup {Class("vector", <<2>>, Says(p, 1)) : p \in {"ELEMENT_TYPE", "LIMIT"}},
  {Class("vector", <<2>>, Says("LENGTH", n)) : n \in {Unsaid, 1, 2}},
  {Class("vector", bases, Says("LENGTH", n)) :
     bases \in {<<3>>, <<3, 4>>, <<4, 3>>, <<2, 3>>}, n \in {Unsaid, None, 2}},
  {Struct("container", <<>>, Nothing, Field("a", 5) \o Field("b", 1))} >>

(* Lists, whose elements may be named again, and what may count them. *)
Lists == <<
  {Uint(2)}, {Uint(4)},
  {InBrackets("list", 1), InBrackets("progressive_list", 1)},
  {Class(shape, <<3>>, Says("LIMIT", n)) : shape \in {"list"}, n \in {-1, 0, 3}}
    \cup {Class("progressive_list", <<3>>, Says(p, 2)) : p \in {"LENGTH", "LIMIT"}},
  {Class("list", <<4>>, Says(p, 2)) : p \in {"ELEMENT_TYPE", "LIMIT"}}
    \cup {Class("list", <<4>>, Nothing)},
  {Union([s \in {1, 2} |-> s + 3]), Union([s \in {0, 1} |-> 4]), Union(Nothing)} >>

(* Layouts that agree two by two, or clash where a third comes between. *)
Layouts == <<
  {Uint(2)}, {Uint(4)},
  {Laid(<<1>>, Field("a", 1)), Laid(<<1, 0, 1>>, Field("amount", 1) \o Field("tag", 1)),
   Laid(<<1, 0>>, Field("a", 1)), Laid(<<1, 1>>, Field("a", 1))},
  {Laid(<<0, 1>>, Field("b", 2)), Laid(<<0, 1, 1>>, Field("amount", 1) \o Field("tag", 1)),
   Laid(<<1, 1>>, Field("a", 1) \o Field("b", 2))},
  {Laid(<<1>>, Field("a", 2)), Laid(<<1>>, Field("a", 1)),
   Laid(<<0, 0, 1>>, Field("tag", 1))},
  {Union([s \in 1..n |-> s + 2]) : n \in 1..3}
    \cup {Union([s \in {1, 3} |-> IF s = 1 THEN 5 ELSE 3])},
  {Union([s \in {2} |-> 5]), Union([s \in {1, 3} |-> IF s = 1 THEN 4 ELSE 5])},
  {Union([s \in {1, 2} |-> s + 5])},
  {Struct("progressive_container", <<4>>, Nothing, Field("b", 2)),
   Struct("progressive_container", <<4>>, Nothing, Field("c", 2))} >>

(* Bytes in both spellings, bits in three, and structs of them. *)
Spellings == <<
  {Uint(2)},
  {Class("byte_vector", <<>>, Says("LENGTH", 3)), Class("byte_list", <<>>, Says("LIMIT", 3))},
  {InBrackets("vector", 1), InBrackets("list", 1)},
  {Class(shape, <<3>>, Says(p, 3)) :
     shape \in {"vector", "list"}, p \in {"LENGTH", "LIMIT"}},
  {Class("bit_vector", <<>>, Says("LENGTH", 5)), Class("bit_list", <<>>, Says("LIMIT", 5)),
   Class("progressive_bit_list", <<>>, Nothing),
   Class("progressive_bit_list", <<>>, Says("LENGTH", 5))},
  {Struct("container", <<>>, Nothing, Field("x", 2) \o Field("y", 5)),
   Struct("container", <<>>, Nothing, <<>>)},
  {Struct("container", <<>>, Nothing, Field("x", 4) \o Field("y", 5))},
  {Union([s \in {1, 2} |-> s + 5]), Union([s \in {1, 2} |-> 2 * s]),
   Union([s \in {1, 2} |-> s + 3])},
  {Union([s \in {1, 2} |-> 8]), Struct("container", <<7>>, Nothing, Field("z", 8) \o Field("x", 2))} >>

SmallPrograms ==
  [counting |-> Counting, lines |-> Lines, lists |-> Lists, layouts |-> Layouts,
   spellings |-> Spellings]

(* A uint in a slot, and two subclasses of it. *)
Widening == <<
  {Uint(2)}, {Class("uint", <<1>>, Nothing)},
  {Struct("container", <<>>, Nothing, Field("a", 1) \o Field("b", 1))},
  {Class("uint", <<2>>, Says("BITS", 4))} >>
WideningPrograms == [widening |-> Widening]
SmallNumbers == {-1, 0, 1, 2, 5, 17}
=============================================================================

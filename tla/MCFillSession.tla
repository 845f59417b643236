--------------------------- MODULE MCFillSession ----------------------------
(* A small instance of FillSession: fixtures that are collected, and one or *)
(* two for each thing that may be wrong with one.                          *)
EXTENDS FillSession

Fixture(id, name, declaration, rank) ==
  [id |-> id, name |-> name, declaration |-> declaration, rank |-> rank,
   format |-> "ssz", kind |-> "uint", valid |-> TRUE, filler |-> TRUE, documented |-> TRUE]

Nested == Fixture(<<"a", "/", "b">>, "T", 1, 1)
Underscored == Fixture(<<"a", "_", "b">>, "U", 1, 2)

SmallFixtures ==
  {Nested, Underscored,
   [Nested EXCEPT !.valid = FALSE, !.rank = 3],
   [Nested EXCEPT !.id = <<"b">>, !.declaration = 2, !.rank = 4],
   [Nested EXCEPT !.id = <<"a", "-", "b">>, !.rank = 5],
   [Underscored EXCEPT !.id = <<"a">>, !.documented = FALSE, !.rank = 6],
   [Underscored EXCEPT !.id = <<"a", "/", "b">>, !.declaration = 2, !.filler = FALSE, !.rank = 7]}
============================================================================

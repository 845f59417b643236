---------------------------- MODULE MCRootMemo -----------------------------
(* Small instances of RootMemo for TLC: the values are model values, and a *)
(* run whose structs hold fewer kinds of value takes a shorter order.      *)
EXTENDS RootMemo

CONSTANTS leaf, packed, list

NoFieldOrder == <<>>
ListFieldOrder == <<list>>
PackedFieldOrder == <<packed>>

Symmetry == Permutations(Packed \ ByteLists) \cup Permutations(Lists) \cup Permutations(Byte)
============================================================================

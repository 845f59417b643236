------------------------------ MODULE MCTrees -------------------------------
(* Small instances of Trees: every sequence of up to MaxWidth chunks under  *)
(* every capacity from below none to past the widest data, and a collection *)
(* of up to MaxChunks chunks, told apart by their numbers, a few of which   *)
(* may be zero or of a wrong width.                                        *)
EXTENDS Trees

CONSTANTS a, b, zeros, word, wide, none, MaxWidth, MaxLimit

(* What a chunk holds, of which it is known that it is no hash. *)
ZeroLeaf == <<zeros>>
WordLeaf == <<word>>
WideLeaf == <<wide>>
NoLeaf == <<none>>
WideLeaves == {WideLeaf}

Sequences(S, n) == UNION {[1..k -> S] : k \in 0..n}

SmallInputs == Sequences({ZeroChunk, a, b}, MaxWidth) \cup Sequences({a, WideLeaf}, 2)
AllLimits == (-1)..MaxLimit \cup {Unlimited}

SmallData ==
  [i \in 1..MaxChunks |->
     {<<IF i \in {2, 5} THEN 4 ELSE i>>}
       \cup (IF i \in {1, 3, 21, 22} THEN {ZeroChunk} ELSE {})
       \cup (IF i = 3 THEN {<<4>>} ELSE {})
       \cup (IF i \in {4, 22} THEN {WideLeaf} ELSE {})]
============================================================================

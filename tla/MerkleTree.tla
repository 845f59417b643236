---------------------------- MODULE MerkleTree -----------------------------
(***************************************************************************)
(* The tree SSZ roots a bounded shape into (src/ssz/chunks.py and the      *)
(* picture in src/ssz/trees.py): a perfect binary tree, as wide as a       *)
(* capacity rounded up, whose leaves are the chunks and then zero.         *)
(*                                                                         *)
(* A hash is the pair of what it joins, so equal roots are equal trees.    *)
(***************************************************************************)
EXTENDS Powers, Sequences

CONSTANTS
  ZeroChunk,    \* the chunk of zeros, which is also the root of no data
  CachedDepth   \* the depth of the deepest zero tree that is not computed

ASSUME CachedDepthAssumption == CachedDepth \in Nat

Pair(left, right) == <<left, right>>

(* The smallest power of two that is no less. *)
NextPow2(x) ==
  IF x <= 1 THEN 1 ELSE pow2[CHOOSE b \in 1..x : pow2[b - 1] < x /\ x <= pow2[b]]

DepthOf(width) == CHOOSE d \in 0..width : pow2[d] = width

(* A node joined with itself, again and again. *)
Doubled(node) ==
  LET doubled[n \in Nat] == IF n = 0 THEN node ELSE Pair(doubled[n - 1], doubled[n - 1])
  IN  doubled

(* A perfect tree of zero leaves, by its depth. *)
zeroTree == Doubled(ZeroChunk)

(* Looked up in the table as far as it reaches, and joined on from there. *)
ZeroTreeRoot(width) ==
  LET depth == DepthOf(width)
  IN  IF depth <= CachedDepth THEN zeroTree[depth]
      ELSE Doubled(zeroTree[CachedDepth])[depth - CachedDepth]

Leaf(chunks, i) == IF i < Len(chunks) THEN chunks[i + 1] ELSE ZeroChunk

(* The tree built leaf by leaf, however far it has to reach: the nodes of   *)
(* each height above the leaves, from the left.                            *)
Above(layer) == [i \in Nat |-> Pair(layer[2 * i], layer[2 * i + 1])]

Layers(chunks) ==
  LET layer[h \in Nat] == IF h = 0 THEN [i \in Nat |-> Leaf(chunks, i)] ELSE Above(layer[h - 1])
  IN  layer

(* What every shortcut has to agree with. *)
PaddedRoot(chunks, width) == Layers(chunks)[DepthOf(width)][0]

(* Half-open, as slices are, and short when the sequence is. *)
Slice(seq, start, stop) ==
  SubSeq(seq, start + 1, IF stop < Len(seq) THEN stop ELSE Len(seq))
============================================================================

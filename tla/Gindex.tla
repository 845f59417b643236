------------------------------ MODULE Gindex -------------------------------
(***************************************************************************)
(* Generalized indices (src/ssz/gindex.py): naming one node of a Merkle    *)
(* tree, and the nodes a proof of it needs.  The root is 1, and the        *)
(* children of a node are 2n and 2n + 1.                                   *)
(***************************************************************************)
EXTENDS Powers, Sequences, FiniteSets

Sibling(index) == IF index % 2 = 0 THEN index + 1 ELSE index - 1

Child(index, right) == 2 * index + (IF right THEN 1 ELSE 0)
Parent(index) == index \div 2

(* What is left of an index as it is shifted right: the node itself and     *)
(* every node above it, the root last.                                      *)
shifts[index \in Nat] == IF index = 0 THEN <<>> ELSE <<index>> \o shifts[Parent(index)]

(* Levels below the root: the bit length of the index, less one. *)
Depth(index) == Len(shifts[index]) - 1

(* Whether the branch turns right at a level counted from the leaf. *)
Bit(index, level) ==
  level < Len(shifts[index]) /\ shifts[index][level + 1] % 2 = 1

Below(index, depth) == index % pow2[depth]

Concat(outer, inner) == outer * pow2[Depth(inner)] + (inner - pow2[Depth(inner)])
Rebase(index, depth) == pow2[depth] + Below(index, depth)

---------------------------------------------------------------------------
(* Branches and paths. *)

(* The nodes from a given one up to the root, the root itself excluded. *)
path[index \in Nat] ==
  IF index <= 1 THEN {} ELSE {index} \cup path[Parent(index)]

PathIndices(index) == SubSeq(shifts[index], 1, Depth(index))

(* Fault: a branch listed from the root down. *)
BranchIndicesFromTheTop(index) ==
  [k \in 1..Depth(index) |-> Sibling(PathIndices(index)[Depth(index) + 1 - k])]

BranchIndices(index) == [k \in 1..Depth(index) |-> Sibling(PathIndices(index)[k])]

Descending(S) ==
  [k \in 1..Cardinality(S) |-> CHOOSE x \in S : Cardinality({y \in S : y > x}) = k - 1]

Paths(claims) == UNION {path[c] : c \in claims}
Branches(claims) == {Sibling(step) : step \in Paths(claims)}

(* Fault: only the siblings of the claims themselves, at the bottom. *)
HelpersBesideClaims(claims) == {Sibling(c) : c \in claims} \ Paths(claims)

(* What a proof carries: every sibling on every branch, less what the      *)
(* caller claims and what the verifier rebuilds.                           *)
Helpers(claims) == Branches(claims) \ Paths(claims)

(* Fault: claims above other claims are let through. *)
RelatedUnlessNested(indices) ==
  \/ indices = <<>>
  \/ \E j, k \in DOMAIN indices : j # k /\ indices[j] = indices[k]
  \/ \E k \in DOMAIN indices : indices[k] <= 1

(* An index set that cannot be verified soundly: empty, repeated, naming no *)
(* node below the root, or claiming an ancestor of another claim.           *)
Related(indices) ==
  \/ indices = <<>>
  \/ \E j, k \in DOMAIN indices : j # k /\ indices[j] = indices[k]
  \/ \E k \in DOMAIN indices : indices[k] <= 1
  \/ \E j, k \in DOMAIN indices : indices[j] \in path[indices[k]] \ {indices[k]}

---------------------------------------------------------------------------
(* A progressive spine: what lies above its nth level, how deep the tree of  *)
(* that level is, and where the spine node over it stands.                  *)

spine[n \in Nat] ==
  IF n = 0 THEN [passed |-> 0, depth |-> 0, node |-> 2]
  ELSE LET above == spine[n - 1]
       IN  [passed |-> above.passed + pow2[above.depth],
            depth  |-> above.depth + 2,
            node   |-> Child(above.node, TRUE)]

(* The level that holds a chunk is the first that reaches past it. *)
ProgressiveChunk(chunk) ==
  LET level == spine[CHOOSE n \in 0..chunk : /\ spine[n].passed <= chunk
                                             /\ chunk < spine[n + 1].passed]
  IN  Child(level.node, FALSE) * pow2[level.depth] + (chunk - level.passed)
============================================================================

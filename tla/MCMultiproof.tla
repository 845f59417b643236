--------------------------- MODULE MCMultiproof ----------------------------
(* A small instance of Multiproof for TLC: a tree of Levels levels, and     *)
(* every request of up to two indices and every rising triple, whose nodes  *)
(* are the tree's; of up to two indices, also nodes of a wrong width; and   *)
(* where those are no higher than MaxDoubted, also forged and moved ones.  *)
EXTENDS Multiproof

CONSTANTS Levels, MaxDoubted, MaxIndex, a, b, forged, wide

FirstLeaf == 2^Levels

(* A node of a wrong width, which no hash is. *)
WideNode == <<wide>>
WideNodes == {WideNode}

SmallTree ==
  LET node[i \in 1..(2 * FirstLeaf - 1)] ==
        IF i >= FirstLeaf THEN IF i % 3 = 0 THEN a ELSE b
        ELSE Hash(node[2 * i], node[2 * i + 1])
  IN  node

(* What may stand where the tree has another node. *)
Others(seq) ==
  {{}} \cup (IF Len(seq) <= 2 THEN {{WideNode}} ELSE {})
       \cup (IF Len(seq) <= 2 /\ \A k \in DOMAIN seq : seq[k] <= MaxDoubted
             THEN {{forged, a, SmallTree[2]}} ELSE {})

Candidates(i, others) == others \cup IF i \in DOMAIN SmallTree THEN {SmallTree[i]} ELSE {}

(* Every node that may stand at each index of a sequence. *)
Filled(seq, others) ==
  LET filled[n \in 0..Len(seq)] ==
        IF n = 0 THEN {<<>>}
        ELSE {Append(f, node) : f \in filled[n - 1], node \in Candidates(seq[n], others)}
  IN  filled[Len(seq)]

(* Of three indices, those of a tree in rising order. *)
IndexSeqs ==
  UNION {[1..n -> 0..MaxIndex] : n \in 0..2}
    \cup {seq \in [1..3 -> 2..MaxIndex] : seq[1] < seq[2] /\ seq[2] < seq[3]}

HelpersOf(seq) == Descending(Helpers({seq[k] : k \in DOMAIN seq}))

Agreeing(seq) ==
  UNION {{[indices |-> seq, leaves |-> l, proof |-> p] :
            l \in Filled(seq, others), p \in Filled(HelpersOf(seq), others)} :
         others \in Others(seq)}

(* A leaf too few, or a node too few or too many. *)
Miscounted(seq) ==
  LET r == [indices |-> seq, leaves |-> [k \in DOMAIN seq |-> a],
            proof |-> [k \in DOMAIN HelpersOf(seq) |-> b]]
  IN  {[r EXCEPT !.proof = Append(@, a)]}
        \cup (IF r.proof = <<>> THEN {} ELSE {[r EXCEPT !.proof = Tail(@)]})
        \cup (IF r.leaves = <<>> THEN {} ELSE {[r EXCEPT !.leaves = Tail(@)]})

SmallRequests == UNION {Agreeing(seq) \cup Miscounted(seq) : seq \in IndexSeqs}
============================================================================

---------------------------- MODULE Multiproof -----------------------------
(***************************************************************************)
(* Verifying a proof (src/ssz/verification.py): a root rebuilt from claimed *)
(* leaves and the nodes a prover supplies.  The caller holds the root of a *)
(* tree and trusts nothing else; leaves, proof and indices may be anything.*)
(*                                                                         *)
(* Two nodes hash into their pair, so hashes collide exactly when what they *)
(* are hashes of is equal.                                                 *)
(***************************************************************************)
EXTENDS Gindex

CONSTANTS
  Requests,   \* the (indices, leaves, proof) triples callers present
  Tree,       \* the tree the trusted root commits to, by generalized index
  Malformed   \* the nodes that are not one chunk wide

VARIABLES
  phase,      \* idle, running, refused or returned
  request,    \* the triple being verified
  nodes,      \* the nodes known so far, by generalized index
  pending,    \* the indices to pair up, in the order they are reached
  position    \* how many of them have been

vars == <<phase, request, nodes, pending, position>>

Hash(left, right) == <<left, right>>

ASSUME RequestsAssumption ==
  \A r \in Requests : /\ r.indices \in Seq(Nat)
                      /\ DOMAIN r.leaves = 1..Len(r.leaves) /\ Len(r.leaves) \in Nat
                      /\ DOMAIN r.proof = 1..Len(r.proof) /\ Len(r.proof) \in Nat

ASSUME TreeAssumption ==
  /\ 1 \in DOMAIN Tree /\ DOMAIN Tree \subseteq Nat \ {0}
  /\ \A i \in DOMAIN Tree \ {1} : /\ Parent(i) \in DOMAIN Tree
                                  /\ Sibling(i) \in DOMAIN Tree
  /\ \A i \in DOMAIN Tree : 2 * i \in DOMAIN Tree =>
       Tree[i] = Hash(Tree[2 * i], Tree[2 * i + 1])

(* A digest is exactly one chunk wide (verification.py:21): no malformed    *)
(* node is a pair.                                                         *)
ASSUME DigestsAssumption == \A x \in Malformed : DOMAIN x # DOMAIN Hash(x, x)

---------------------------------------------------------------------------

Claims(r) == {r.indices[k] : k \in DOMAIN r.indices}
HelperOrder(r) == Descending(Helpers(Claims(r)))

Refused(r) ==
  \/ Len(r.leaves) # Len(r.indices)
  \/ Related(r.indices)
  \/ Len(r.proof) # Len(HelperOrder(r))

At(seq, x) == CHOOSE k \in DOMAIN seq : seq[k] = x

(* The claims, and over them the nodes of the proof. *)
Given(r) ==
  LET helpers == HelperOrder(r)
  IN  [i \in Claims(r) \cup Helpers(Claims(r)) |->
         IF i \in Helpers(Claims(r)) THEN r.proof[At(helpers, i)]
         ELSE r.leaves[At(r.indices, i)]]

Call(r) ==
  /\ request' = r
  /\ IF Refused(r)
       THEN phase' = "refused" /\ UNCHANGED <<nodes, pending>>
       ELSE /\ phase' = "running"
            /\ nodes' = Given(r)
            /\ pending' = Descending(DOMAIN Given(r))
  /\ UNCHANGED position

Verify == phase = "idle" /\ \E r \in Requests : Call(r)

Index == pending[position + 1]
Left == 2 * Parent(Index)
Right == 2 * Parent(Index) + 1

Looping == phase = "running" /\ position < Len(pending)

(* Fault: a pair is joined again from its other end. *)
JoinsAgain == Sibling(Index) \in DOMAIN nodes

(* A pair is joined when its second node is reached, and only then. *)
Joins == Sibling(Index) \in DOMAIN nodes /\ Parent(Index) \notin DOMAIN nodes

(* Fault: the pair joined in the order its nodes were reached. *)
CombineAsReached ==
  /\ Looping
  /\ Joins
  /\ {nodes[Left], nodes[Right]} \cap Malformed = {}
  /\ nodes' = [i \in DOMAIN nodes \cup {Parent(Index)} |->
                 IF i = Parent(Index) THEN Hash(nodes[Index], nodes[Sibling(Index)])
                 ELSE nodes[i]]
  /\ pending' = Append(pending, Parent(Index))
  /\ position' = position + 1
  /\ UNCHANGED <<phase, request>>

(* Fault: nodes of any width are joined. *)
CombineUnmeasured ==
  /\ Looping
  /\ Joins
  /\ nodes' = [i \in DOMAIN nodes \cup {Parent(Index)} |->
                 IF i = Parent(Index) THEN Hash(nodes[Left], nodes[Right]) ELSE nodes[i]]
  /\ pending' = Append(pending, Parent(Index))
  /\ position' = position + 1
  /\ UNCHANGED <<phase, request>>

Combine ==
  /\ Looping
  /\ Joins
  /\ {nodes[Left], nodes[Right]} \cap Malformed = {}
  /\ nodes' = [i \in DOMAIN nodes \cup {Parent(Index)} |->
                 IF i = Parent(Index) THEN Hash(nodes[Left], nodes[Right]) ELSE nodes[i]]
  /\ pending' = Append(pending, Parent(Index))
  /\ position' = position + 1
  /\ UNCHANGED <<phase, request>>

(* Fault: only a pair that is joined moves the loop on. *)
PassInPlace ==
  /\ Looping
  /\ ~Joins
  /\ UNCHANGED vars

Pass ==
  /\ Looping
  /\ ~Joins
  /\ position' = position + 1
  /\ UNCHANGED <<phase, request, nodes, pending>>

(* Joining measures both nodes, and refuses the whole request. *)
RefuseWidth ==
  /\ Looping
  /\ Joins
  /\ {nodes[Left], nodes[Right]} \cap Malformed # {}
  /\ phase' = "refused"
  /\ UNCHANGED <<request, nodes, pending, position>>

Return ==
  /\ phase = "running"
  /\ position = Len(pending)
  /\ phase' = "returned"
  /\ UNCHANGED <<request, nodes, pending, position>>

Init ==
  /\ phase = "idle"
  /\ request = <<>>
  /\ nodes = <<>>
  /\ pending = <<>>
  /\ position = 0

Next == Verify \/ Combine \/ Pass \/ RefuseWidth \/ Return

Spec == Init /\ [][Next]_vars

(* A call once made runs on: nothing in the loop waits for anything. *)
FairSpec == Spec /\ WF_vars(Combine \/ Pass \/ RefuseWidth \/ Return)

---------------------------------------------------------------------------
(* A single leaf and its branch. *)

(* Fault: the turns of an index read from the root down. *)
BranchRootFromTheTop(leaf, proof, index) ==
  LET up[level \in 0..Len(proof)] ==
        IF level = 0 THEN leaf
        ELSE IF Bit(index, Len(proof) - level) THEN Hash(proof[level], up[level - 1])
        ELSE Hash(up[level - 1], proof[level])
  IN  up[Len(proof)]

BranchRoot(leaf, proof, index) ==
  LET up[level \in 0..Len(proof)] ==
        IF level = 0 THEN leaf
        ELSE IF Bit(index, level - 1) THEN Hash(proof[level], up[level - 1])
        ELSE Hash(up[level - 1], proof[level])
  IN  up[Len(proof)]

BranchRefused(leaf, proof, index) ==
  \/ index <= 1
  \/ Len(proof) # Depth(index)
  \/ ({leaf} \cup {proof[k] : k \in DOMAIN proof}) \cap Malformed # {}

---------------------------------------------------------------------------
(* Properties. *)

Accepted == phase = "returned" /\ nodes[1] = Tree[1]

(* The nodes a caller and a prover present, each for an index: the loop is   *)
(* given one node at each index, and none may stand in the way of another. *)
Presented(r) ==
  LET helpers == HelperOrder(r)
  IN  {<<r.indices[k], r.leaves[k]>> : k \in DOMAIN r.indices}
        \cup {<<helpers[k], r.proof[k]>> : k \in DOMAIN r.proof}

(* The root is always among the nodes built, so reading it never fails     *)
(* (verification.py:87 says the loop can only have built it).              *)
RootIsBuilt == phase = "returned" => 1 \in DOMAIN nodes

(* What verifies is true of the tree, claims and proof nodes alike: no     *)
(* other leaf and no other proof verifies at the same indices, and no      *)
(* proof node answers for a claim.                                         *)
Sound ==
  Accepted => \A p \in Presented(request) : p[1] \in DOMAIN Tree => p[2] = Tree[p[1]]

(* A claim read off the tree, with the proof read off the tree, verifies.  *)
Complete ==
  phase = "returned" /\ (\A p \in Presented(request) :
                           p[1] \in DOMAIN Tree /\ p[2] = Tree[p[1]])
    => nodes[1] = Tree[1]

(* Each pair is joined once: no index is ever pending twice. *)
BuiltOnce == \A j, k \in DOMAIN pending : pending[j] = pending[k] => j = k

(* A root is returned only if every node presented is a chunk. *)
EveryNodeMeasured ==
  phase = "returned" => \A p \in Presented(request) : p[2] \notin Malformed

(* A multiproof of one index and a plain branch are one thing: refused and *)
(* answered alike.                                                         *)
OneIndexIsABranch ==
  phase \in {"refused", "returned"} /\ Len(request.indices) = 1 /\ Len(request.leaves) = 1 =>
    LET leaf == request.leaves[1]
        index == request.indices[1]
    IN  IF BranchRefused(leaf, request.proof, index) THEN phase = "refused"
        ELSE phase = "returned" /\ nodes[1] = BranchRoot(leaf, request.proof, index)

(* Every call ends. *)
Answered == (phase = "running") ~> (phase \in {"refused", "returned"})
============================================================================

----------------------------- MODULE Merkleize ------------------------------
(***************************************************************************)
(* merkleize (src/ssz/trees.py): the root of a bounded shape, layer by      *)
(* layer, never building the padding nor a level of equal nodes.           *)
(***************************************************************************)
EXTENDS MerkleTree

CONSTANTS
  Inputs,      \* the chunk sequences presented
  Limits,      \* the capacities presented; Unlimited stands for none
  Unlimited,
  Misshapen    \* the chunks of another width than 32 bytes

ASSUME InputsAssumption ==
  /\ \A input \in Inputs : input \in Seq({input[i] : i \in DOMAIN input})
  /\ Limits \ {Unlimited} \subseteq Int /\ Unlimited \notin Int
  /\ ZeroChunk \notin Misshapen

VARIABLES
  phase,    \* idle, called, walking, climbing, refused or returned
  chunks,   \* the arguments
  limit,
  level,    \* the nodes of the layer reached, less its padding
  size      \* the leaves beneath each of them

vars == <<phase, chunks, limit, level, size>>

DataWidth == NextPow2(Len(chunks))
Width == NextPow2(IF limit = Unlimited THEN Len(chunks) ELSE limit)

AllZero == \A i \in DOMAIN chunks : chunks[i] = ZeroChunk
Overfull == limit # Unlimited /\ limit < Len(chunks)
Misfit == \E i \in DOMAIN chunks : chunks[i] \in Misshapen

Merkleize ==
  /\ phase = "idle"
  /\ chunks' \in Inputs
  /\ limit' \in Limits
  /\ phase' = "called"
  /\ UNCHANGED <<level, size>>

Refuse ==
  /\ phase = "called"
  /\ Misfit \/ Overfull
  /\ phase' = "refused"
  /\ UNCHANGED <<chunks, limit, level, size>>

Admitted == phase = "called" /\ ~ Misfit /\ ~ Overfull

Answer(node) ==
  /\ phase' = "returned"
  /\ level' = <<node>>
  /\ size' = Width
  /\ UNCHANGED <<chunks, limit>>

RootNothing == Admitted /\ chunks = <<>> /\ Answer(ZeroTreeRoot(Width))

RootOneLeaf == Admitted /\ chunks # <<>> /\ Width = 1 /\ Answer(chunks[1])

RootZeros == Admitted /\ chunks # <<>> /\ Width > 1 /\ AllZero /\ Answer(ZeroTreeRoot(Width))

BeginWalk ==
  /\ Admitted
  /\ chunks # <<>> /\ Width > 1 /\ ~ AllZero
  /\ phase' = "walking"
  /\ level' = chunks
  /\ size' = 1
  /\ UNCHANGED <<chunks, limit>>

(* Fault: any level of equal nodes is folded, however short. *)
FoldableWhenAlike ==
  \A i \in DOMAIN level : level[i] = level[1]

(* Every node of the level is there, and they are all the same. *)
Foldable ==
  /\ Len(level) * size = DataWidth
  /\ \A i \in DOMAIN level : level[i] = level[1]

PairLevel ==
  /\ phase = "walking"
  /\ Len(level) > 1 /\ ~ Foldable
  /\ LET full == IF Len(level) % 2 = 1 THEN Append(level, ZeroTreeRoot(size)) ELSE level
     IN  level' = [i \in 1..(Len(full) \div 2) |-> Pair(full[2 * i - 1], full[2 * i])]
  /\ size' = 2 * size
  /\ UNCHANGED <<phase, chunks, limit>>

EndWalk ==
  /\ phase = "walking"
  /\ Len(level) = 1 \/ Foldable
  /\ phase' = "climbing"
  /\ level' = <<level[1]>>
  /\ UNCHANGED <<chunks, limit, size>>

(* After a fold, the sibling of the node is the node itself. *)
ClimbData ==
  /\ phase = "climbing"
  /\ size < DataWidth
  /\ level' = <<Pair(level[1], level[1])>>
  /\ size' = 2 * size
  /\ UNCHANGED <<phase, chunks, limit>>

(* Above the data, it is a zero tree. *)
ClimbWidth ==
  /\ phase = "climbing"
  /\ size >= DataWidth /\ size < Width
  /\ level' = <<Pair(level[1], ZeroTreeRoot(size))>>
  /\ size' = 2 * size
  /\ UNCHANGED <<phase, chunks, limit>>

(* Fault: a tree wider than its data is never done. *)
ReturnAtDataWidth ==
  /\ phase = "climbing"
  /\ size = DataWidth
  /\ phase' = "returned"
  /\ UNCHANGED <<chunks, limit, level, size>>

Return ==
  /\ phase = "climbing"
  /\ size >= DataWidth /\ size >= Width
  /\ phase' = "returned"
  /\ UNCHANGED <<chunks, limit, level, size>>

Init ==
  /\ phase = "idle"
  /\ chunks = <<>> /\ limit = Unlimited
  /\ level = <<>> /\ size = 1

Step ==
  \/ Refuse \/ RootNothing \/ RootOneLeaf \/ RootZeros \/ BeginWalk
  \/ PairLevel \/ EndWalk \/ ClimbData \/ ClimbWidth \/ Return

Next == Merkleize \/ Step

Spec == Init /\ [][Next]_vars

---------------------------------------------------------------------------
(* Properties. *)

(* Whatever shortcuts were taken, the root is the root of the padded tree,  *)
(* and is given only for data the capacity holds: none holds no data, and a *)
(* bound below none holds nothing at all (trees.py:62).                     *)
RootIsThePaddedTree ==
  phase = "returned" =>
    /\ limit # Unlimited => 0 <= limit /\ Len(chunks) <= limit
    /\ level[1] = PaddedRoot(chunks, Width)
============================================================================

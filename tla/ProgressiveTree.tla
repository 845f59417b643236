-------------------------- MODULE ProgressiveTree ---------------------------
(***************************************************************************)
(* merkleize_progressive (src/ssz/trees.py): the tree of a shape without a *)
(* bound.  A collection grows and shrinks by whole chunks, and is rooted   *)
(* at any length.  Levels are opened downward and joined upward.           *)
(*                                                                         *)
(* This is the specification of the spine: a level is the padded tree of   *)
(* its chunks, in one step.  Trees roots each level by a call of merkleize *)
(* and implements it.                                                      *)
(***************************************************************************)
EXTENDS MerkleTree, Gindex

CONSTANTS
  MaxChunks,   \* the longest collection explored
  Misshapen,   \* the chunks of another width than 32 bytes
  Mixin,       \* the word a progressive shape is hashed against
  Data,        \* the chunks a collection may get when it grows to a length
  Absent       \* what is found below a chunk

VARIABLES
  chunks,      \* the collection
  phase,       \* still, opening, joining, refused or returned
  rest,        \* the chunks no level holds yet
  capacity,    \* the chunks the level reached holds
  subtrees,    \* the roots of the levels opened, the first on top
  node         \* the spine node reached on the way up

vars == <<chunks, phase, rest, capacity, subtrees, node>>

Rooting == phase \in {"opening", "joining"}

(* A change leaves nothing of the last call. *)
Forget == rest' = <<>> /\ capacity' = 1 /\ subtrees' = <<>> /\ node' = ZeroChunk

Grow ==
  /\ ~ Rooting
  /\ Len(chunks) < MaxChunks
  /\ \E chunk \in Data[Len(chunks) + 1] : chunks' = Append(chunks, chunk)
  /\ phase' = "still"
  /\ Forget

Shrink ==
  /\ ~ Rooting
  /\ chunks # <<>>
  /\ chunks' = SubSeq(chunks, 1, Len(chunks) - 1)
  /\ phase' = "still"
  /\ Forget

Root ==
  /\ ~ Rooting
  /\ phase' = "opening"
  /\ rest' = chunks
  /\ capacity' = 1
  /\ subtrees' = <<>>
  /\ node' = ZeroChunk
  /\ UNCHANGED chunks

(* Each level is a bounded tree of its own, padded to its width. *)
OpenLevel ==
  /\ phase = "opening"
  /\ rest # <<>>
  /\ LET held == Slice(rest, 0, capacity)
     IN  /\ \A i \in DOMAIN held : held[i] \notin Misshapen
         /\ subtrees' = Append(subtrees, PaddedRoot(held, capacity))
  /\ rest' = Slice(rest, capacity, Len(rest))
  /\ capacity' = 4 * capacity
  /\ UNCHANGED <<chunks, phase, node>>

RefuseLevel ==
  /\ phase = "opening"
  /\ rest # <<>>
  /\ LET held == Slice(rest, 0, capacity)
     IN  \E i \in DOMAIN held : held[i] \in Misshapen
  /\ phase' = "refused"
  /\ UNCHANGED <<chunks, rest, capacity, subtrees, node>>

(* Past the data the spine is one zero node, of no width. *)
CloseSpine ==
  /\ phase = "opening"
  /\ rest = <<>>
  /\ phase' = "joining"
  /\ node' = ZeroChunk
  /\ UNCHANGED <<chunks, rest, capacity, subtrees>>

JoinLevel ==
  /\ phase = "joining"
  /\ subtrees # <<>>
  /\ node' = Pair(subtrees[Len(subtrees)], node)
  /\ subtrees' = SubSeq(subtrees, 1, Len(subtrees) - 1)
  /\ UNCHANGED <<chunks, phase, rest, capacity>>

Return ==
  /\ phase = "joining"
  /\ subtrees = <<>>
  /\ phase' = "returned"
  /\ UNCHANGED <<chunks, rest, capacity, subtrees, node>>

Init ==
  /\ chunks = <<>>
  /\ phase = "still"
  /\ rest = <<>> /\ capacity = 1 /\ subtrees = <<>>
  /\ node = ZeroChunk

Next ==
  \/ Grow \/ Shrink \/ Root
  \/ OpenLevel \/ RefuseLevel \/ CloseSpine \/ JoinLevel \/ Return

Spec == Init /\ [][Next]_vars

---------------------------------------------------------------------------
(* What a generalized index leads to, turn by turn from the root. *)

Leaves == {ZeroChunk, Mixin, Absent} \cup UNION {Data[i] : i \in DOMAIN Data}

NodeAt(tree, index) ==
  LET found[i \in Nat] ==
        IF i <= 1 THEN tree
        ELSE LET above == found[Parent(i)]
             IN  IF above \in Leaves THEN Absent
                 ELSE above[IF Bit(i, 0) THEN 2 ELSE 1]
  IN  found[index]

Levels == CHOOSE n \in 0..MaxChunks : /\ Len(chunks) <= spine[n].passed
                                      /\ n = 0 \/ spine[n - 1].passed < Len(chunks)

(* A chunk is found at the index its number alone gives (gindex.py:100),    *)
(* whatever the length: an append moves nothing already placed, and within  *)
(* the levels opened what holds no data is a zero leaf.  Past the last      *)
(* level that holds any the spine is one zero chunk with nothing beneath it *)
(* (trees.py:151).                                                         *)
ChunksKeepTheirPlace ==
  phase = "returned" =>
    /\ \A c \in 0..(spine[Levels].passed - 1) :
         NodeAt(Pair(node, Mixin), ProgressiveChunk(c)) = Leaf(chunks, c)
    /\ NodeAt(Pair(node, Mixin), spine[Levels].node) = ZeroChunk
    /\ NodeAt(Pair(node, Mixin), ProgressiveChunk(spine[Levels].passed)) = Absent
============================================================================

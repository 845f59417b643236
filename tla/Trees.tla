------------------------------- MODULE Trees --------------------------------
(***************************************************************************)
(* merkleize_progressive calling merkleize (src/ssz/trees.py): each level  *)
(* of the spine is rooted by a whole call of the bounded function, with    *)
(* its capacity as the limit, shortcuts and all.  Layouts also call the    *)
(* bounded function themselves.  Implements ProgressiveTree.               *)
(***************************************************************************)
EXTENDS Merkleize

CONSTANTS
  MaxChunks,   \* the longest collection explored
  Mixin,       \* the word a progressive shape is hashed against
  Data,        \* the chunks a collection may get when it grows to a length
  Absent       \* what is found below a chunk

ASSUME DataAssumption == MaxChunks \in Nat /\ DOMAIN Data = 1..MaxChunks

VARIABLES
  collection,  \* the progressive collection
  stage,       \* still, opening, joining, refused or returned
  rest,        \* the chunks no level holds yet
  capacity,    \* the chunks the level reached holds
  subtrees,    \* the roots of the levels opened, the first on top
  node         \* the spine node reached on the way up

spineVars == <<collection, stage, rest, capacity, subtrees, node>>
allVars == <<vars, spineVars>>

Spine == INSTANCE ProgressiveTree WITH chunks <- collection, phase <- stage

(* No chunk is a hash: what a chunk holds is never taken for two nodes.     *)
ASSUME LeavesAssumption == \A leaf \in Spine!Leaves : DOMAIN leaf # DOMAIN Pair(leaf, leaf)

(* Bound: a layout that is bounded is rooted before any collection grows,  *)
(* and one such call is followed to its end.                               *)
RootBounded ==
  /\ stage = "still" /\ collection = <<>>
  /\ Merkleize
  /\ UNCHANGED spineVars

(* The spine itself moves only between two calls of the bounded function. *)
MoveSpine ==
  /\ phase = "idle"
  /\ \/ Spine!Grow \/ Spine!Shrink \/ Spine!Root
     \/ Spine!CloseSpine \/ Spine!JoinLevel \/ Spine!Return
  /\ UNCHANGED vars

Called(level_chunks, level_limit) ==
  /\ phase = "idle"
  /\ stage = "opening" /\ rest # <<>>
  /\ chunks' = level_chunks
  /\ limit' = level_limit
  /\ phase' = "called"
  /\ UNCHANGED <<level, size, spineVars>>

(* Fault: a level as wide as what it holds. *)
CallLevelUnbounded == Called(Slice(rest, 0, capacity), Unlimited)

CallLevel == Called(Slice(rest, 0, capacity), capacity)

(* The bounded function is over, and leaves nothing behind. *)
Over == phase' = "idle" /\ chunks' = <<>> /\ limit' = Unlimited /\ level' = <<>> /\ size' = 1

(* Fault: levels that double, where indices are counted by fours. *)
TakeLevelDoubling ==
  /\ stage = "opening" /\ phase = "returned"
  /\ subtrees' = Append(subtrees, level[1])
  /\ rest' = Slice(rest, capacity, Len(rest))
  /\ capacity' = 2 * capacity
  /\ Over
  /\ UNCHANGED <<collection, stage, node>>

TakeLevel ==
  /\ stage = "opening" /\ phase = "returned"
  /\ subtrees' = Append(subtrees, level[1])
  /\ rest' = Slice(rest, capacity, Len(rest))
  /\ capacity' = 4 * capacity
  /\ Over
  /\ UNCHANGED <<collection, stage, node>>

(* What refuses a level refuses the tree. *)
RefuseTree ==
  /\ stage = "opening" /\ phase = "refused"
  /\ stage' = "refused"
  /\ Over
  /\ UNCHANGED <<collection, rest, capacity, subtrees, node>>

StepBounded == Step /\ UNCHANGED spineVars

TreesInit == Init /\ Spine!Init

TreesNext ==
  \/ RootBounded \/ StepBounded
  \/ MoveSpine \/ CallLevel \/ TakeLevel \/ RefuseTree

(* A call once made runs on; no collection has to grow or be rooted. *)
Running ==
  \/ StepBounded \/ CallLevel \/ TakeLevel \/ RefuseTree
  \/ (MoveSpine /\ Spine!Rooting)

TreesSpec == TreesInit /\ [][TreesNext]_allVars /\ WF_allVars(Running)

---------------------------------------------------------------------------
(* Properties. *)

(* Rooting each level by the bounded function, with its early returns and  *)
(* folds, is rooting it as a padded tree: trees.py:168 relies on it.       *)
LevelsArePaddedTrees == Spine!Spec

ChunksKeepTheirPlace == Spine!ChunksKeepTheirPlace

(* Every call ends, of the bounded function and of the progressive one. *)
AllAnswered ==
  /\ (phase # "idle") ~> (phase \in {"refused", "returned"})
  /\ Spine!Rooting ~> ~Spine!Rooting
============================================================================

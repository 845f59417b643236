---------------------------- MODULE RootService ----------------------------
(***************************************************************************)
(* What rooting promises a caller, with no memo anywhere: values hold      *)
(* contents, mutations change contents, and a root asked for is the root   *)
(* of the contents as they stand.  RootMemo implements this specification. *)
(*                                                                         *)
(* A root is represented by the contents it commits to, leaf by leaf, so   *)
(* two roots are equal exactly when the trees beneath them are: the hash   *)
(* is taken to be collision free.                                          *)
(***************************************************************************)
EXTENDS Integers, Sequences

CONSTANTS
  Packed,        \* shapes rooted from their own contents (bitfields, byte lists, lists of leaves)
  Lists,         \* sequences whose elements are packed values
  Structs,       \* containers and unions, whose fields hold leaves, packed values and lists
  LeafFields,    \* fields of a struct holding an immutable leaf
  PackedFields,  \* fields of a struct holding a packed value
  ListFields,    \* fields of a struct holding a list
  Frozen         \* the values whose type declares MUTABLE = False

VARIABLES
  live,          \* the values constructed so far
  data,          \* the contents of each value
  served         \* the last answer of hash_tree_root

Object == Packed \cup Lists \cup Structs
Field == LeafFields \cup PackedFields \cup ListFields
NestedFields == PackedFields \cup ListFields

(* What the last call of hash_tree_root came to: none since the last       *)
(* change, the STALE_ROOT refusal of the paranoid mode, or a root.         *)
NoAnswer == [kind |-> "none"]
StaleRoot == [kind |-> "STALE_ROOT"]
AnswerOf(o, root) == [kind |-> "root", object |-> o, root |-> root]

---------------------------------------------------------------------------
(* The root of a value recomputed from its contents alone. *)

PackedRoot(p) == data[p]

ListRoot(s) == [i \in DOMAIN data[s] |-> PackedRoot(data[s][i])]

StructRoot(t) ==
  [f \in Field |-> IF f \in LeafFields THEN data[t][f]
                   ELSE IF f \in PackedFields THEN PackedRoot(data[t][f])
                   ELSE ListRoot(data[t][f])]

ColdRoot(o) ==
  IF o \in Packed THEN PackedRoot(o)
  ELSE IF o \in Lists THEN ListRoot(o)
  ELSE StructRoot(o)

---------------------------------------------------------------------------

ServiceInit ==
  /\ live = {}
  /\ data = [o \in Object |-> <<>>]
  /\ served = NoAnswer

(* Values come to exist and change; a live frozen value never does. *)
Change ==
  /\ live \subseteq live'
  /\ \A o \in live \cap Frozen : data'[o] = data[o]
  /\ served' = NoAnswer

Answer(o) ==
  /\ o \in live
  /\ served' = AnswerOf(o, ColdRoot(o))
  /\ UNCHANGED <<live, data>>

(* The paranoid mode may refuse instead of answering. *)
Refuse ==
  /\ served' = StaleRoot
  /\ UNCHANGED <<live, data>>

ServiceNext == Change \/ Refuse \/ \E o \in Object : Answer(o)

ServiceSpec == ServiceInit /\ [][ServiceNext]_<<live, data, served>>
============================================================================

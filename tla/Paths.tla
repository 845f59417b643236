------------------------------- MODULE Paths --------------------------------
(***************************************************************************)
(* Naming the parts of a type (src/ssz/paths.py) and proving the parts of   *)
(* a value (src/ssz/proofs.py).                                            *)
(*                                                                         *)
(* A path names a position by the type alone; a proof is read off the      *)
(* value's layout, hashing only where the walk goes.  Neither builds the   *)
(* tree, and they never meet: this module lets a value change by its       *)
(* mutators and says what they owe each other.                             *)
(***************************************************************************)
EXTENDS PathIndex

CONSTANTS
  Types,      \* the types of the values explored
  MaxUnit,    \* the greatest number a basic value holds
  MaxLength,  \* the longest a sequence grows
  MaxIndex,   \* the greatest generalized index asked for
  Absent      \* what is found below a chunk

VARIABLE value

---------------------------------------------------------------------------
(* Proofs. *)

RECURSIVE NodeRoot(_, _)

(* A node of a bounded tree over the leaves from a given one on. *)
BoundedNode(layout, index, depth, from, capacity) ==
  LET width == NextPow2(capacity)
      tree == DepthOf(width)
      span == width \div 2^depth
      start == from + Below(index, depth) * span
      inner == depth - tree
      leaf == from + Below(index \div 2^inner, tree)
  IN  IF depth <= tree
        THEN PaddedRoot(LayoutChunks(layout, start, start + span), span)
        ELSE IF ~ layout.nested \/ leaf >= Len(layout.leaves) THEN Refused
        ELSE IF layout.leaves[leaf + 1] = Gap THEN Refused
        ELSE NodeRoot(layout.leaves[leaf + 1], Rebase(index, inner))

(* Fault: the walk may turn off the spine past its end. *)
RECURSIVE SpineNodeUnended(_, _, _, _, _)
SpineNodeUnended(layout, index, depth, from, capacity) ==
  IF depth = 0
    THEN ProgressiveRoot(LayoutChunks(layout, from, Len(layout.leaves)), capacity)
  ELSE IF Bit(index, depth - 1)
    THEN SpineNodeUnended(layout, index, depth - 1, from + capacity, 4 * capacity)
  ELSE BoundedNode(layout, index, depth - 1, from, capacity)

(* A right turn skips a level, a left turn enters it. *)
RECURSIVE SpineNode(_, _, _, _, _)
SpineNode(layout, index, depth, from, capacity) ==
  IF depth = 0
    THEN ProgressiveRoot(LayoutChunks(layout, from, Len(layout.leaves)), capacity)
  ELSE IF from >= Len(layout.leaves) THEN Refused
  ELSE IF Bit(index, depth - 1)
    THEN SpineNode(layout, index, depth - 1, from + capacity, 4 * capacity)
  ELSE BoundedNode(layout, index, depth - 1, from, capacity)

NodeRoot(v, index) ==
  LET layout == Layout(v)
      depth == Depth(index) - (IF layout.mixin = NoMixin THEN 0 ELSE 1)
  IN  IF index < 1 THEN Refused
      ELSE IF index = 1 THEN HashTreeRoot(v)
      ELSE IF layout.mixin # NoMixin /\ Bit(index, depth)
        THEN IF depth > 0 THEN Refused ELSE layout.mixin
      ELSE IF layout.limit = Unlimited THEN SpineNode(layout, index, depth, 0, 1)
      ELSE BoundedNode(layout, index, depth, 0, layout.limit)

(* The branch of an index, from the bottom up. *)
Proof(v, index) ==
  [k \in DOMAIN BranchIndices(index) |-> NodeRoot(v, BranchIndices(index)[k])]

(* What a verifier rebuilds from a leaf and its branch. *)
Rebuilt(leaf, proof, index) ==
  LET up[k \in 0..Len(proof)] ==
        IF k = 0 THEN leaf
        ELSE IF Bit(index, k - 1) THEN Pair(proof[k], up[k - 1]) ELSE Pair(up[k - 1], proof[k])
  IN  up[Len(proof)]

---------------------------------------------------------------------------
(* Values, and what a mutator makes of one, at any depth. *)

RECURSIVE Default(_)
Default(type) ==
  [type |-> type,
   data |-> CASE IsBasic(type) -> 0
              [] type.shape \in {"byte_vector", "bit_vector"} -> [i \in 1..type.length |-> 0]
              [] type.shape \in {"byte_list", "bit_list", "progressive_bit_list"} -> <<>>
              [] type.shape = "vector" -> [i \in 1..type.length |-> Default(type.element)]
              [] IsList(type) -> <<>>
              [] type.shape \in {"container", "progressive_container"} ->
                   [f \in DOMAIN type.fields |-> Default(type.fields[f])]
              [] type.shape = "union" ->
                   LET first == CHOOSE s \in DOMAIN type.options :
                                  \A t \in DOMAIN type.options : s <= t
                   IN  [selector |-> first, value |-> Default(type.options[first])]]

Holds(type, length) ==
  /\ length <= MaxLength
  /\ type.shape \in {"list", "byte_list", "bit_list"} => length <= type.limit

(* Everything one write turns a value into: a number stored, an element or  *)
(* a field assigned, an element appended or popped.  A union is immutable,  *)
(* and what holds it is given another, of any option.                      *)
RECURSIVE Written(_)
Written(v) ==
  LET T == v.type
      raw == IsBytes(T) \/ IsBits(T)
      grows == IsList(T) \/ T.shape \in {"byte_list", "bit_list", "progressive_bit_list"}
      grown == [v EXCEPT !.data = Append(@, IF raw THEN 0 ELSE Default(T.element))]
      cut == [v EXCEPT !.data = SubSeq(@, 1, Len(@) - 1)]
  IN  CASE IsBasic(T) -> {[v EXCEPT !.data = n] : n \in 0..MaxUnit}
        [] T.shape = "union" ->
             {[v EXCEPT !.data.value = w] : w \in Written(v.data.value)}
               \cup {[v EXCEPT !.data = [selector |-> s, value |-> Default(T.options[s])]] :
                       s \in DOMAIN T.options}
        [] OTHER ->
             UNION {{[v EXCEPT !.data[i] = w] : w \in (IF raw THEN 0..MaxUnit ELSE Written(v.data[i]))} :
                      i \in DOMAIN v.data}
               \cup (IF grows /\ Holds(T, Len(v.data) + 1) THEN {grown} ELSE {})
               \cup (IF grows /\ v.data # <<>> THEN {cut} ELSE {})

Init == value \in {Default(type) : type \in Types}
Write == value' \in Written(value)
Next == Write
Spec == Init /\ [][Next]_value

---------------------------------------------------------------------------
(* Properties. *)

(* The whole of a root, turn by turn: hashes are trees here. *)
NodeAt(tree, index) ==
  LET down[k \in 0..Depth(index)] ==
        IF k = 0 THEN tree
        ELSE LET above == down[k - 1]
             IN  IF above = Absent \/ IsChunk(above) THEN Absent
                 ELSE above[IF Bit(index, Depth(index) - k) THEN 2 ELSE 1]
  IN  down[Depth(index)]

(* Reading a node off the layout gives the node of the root there, at every *)
(* index, and is refused just where the tree has none (proofs.py:21).      *)
NodesAreOfTheRoot ==
  LET root == HashTreeRoot(value)
  IN  \A index \in 1..MaxIndex :
        LET node == NodeAt(root, index)
        IN  NodeRoot(value, index) = IF node = Absent THEN Refused ELSE node

(* Where one node of a value can be read, its whole branch can, and the two *)
(* rebuild the root.                                                       *)
WhatIsReadIsProved ==
  LET root == HashTreeRoot(value)
  IN  \A index \in 2..MaxIndex :
        LET leaf == NodeRoot(value, index)
            proof == Proof(value, index)
        IN  leaf # Refused =>
              /\ \A k \in DOMAIN proof : proof[k] # Refused
              /\ Rebuilt(leaf, proof, index) = root

(* A bit or a byte is a value of its own only once it is reached. *)
Element(v, i) ==
  IF IsBytes(v.type) \/ IsBits(v.type)
    THEN [type |-> ElementType(v.type, i - 1), data |-> v.data[i]] ELSE v.data[i]

(* The parts of a value, with the path to each. *)
RECURSIVE Parts(_)
Parts(v) ==
  LET beneath(part, n) == {[steps |-> <<At(n)>> \o p.steps, value |-> p.value] : p \in Parts(part)}
  IN  {[steps |-> <<>>, value |-> v]}
        \cup CASE IsBasic(v.type) -> {}
               [] v.type.shape = "union" -> beneath(v.data.value, v.data.selector)
               [] OTHER -> UNION {beneath(Element(v, i), i - 1) : i \in DOMAIN v.data}

Enclosing(v, steps) ==
  (CHOOSE p \in Parts(v) : p.steps = SubSeq(steps, 1, Len(steps) - 1)).value

(* The node a path leads to is the part's own root or, where elements share *)
(* a chunk, a chunk with the element in its own units, and a bit counted   *)
(* through them.                                                           *)
Leads(root, part) ==
  LET node == NodeAt(root, GeneralizedIndex(value.type, part.steps))
      holder == Enclosing(value, part.steps).type
      n == part.steps[Len(part.steps)].number
      place == ChunkPosition(holder, n)
  IN  IF part.steps # <<>> /\ IsBits(holder)
        THEN Bit(node[1][(n % BitsPerChunk) \div BitsPerByte + 1], n % BitsPerByte) =
               (part.value.data = 1)
      ELSE IF part.steps # <<>> /\ IsBasic(part.value.type) /\ (IsSequence(holder) \/ IsBytes(holder))
        THEN SubSeq(node[1], place.start + 1, place.stop) = Units(part.value)
        ELSE node = HashTreeRoot(part.value)

(* A path worked out from the type alone leads to what it names, whatever   *)
(* the value: to the part there, to zero where a declared position holds    *)
(* nothing (proofs.py:62), and to the word mixed in, if one is.            *)
PathsLeadToParts ==
  LET root == HashTreeRoot(value)
  IN  \A part \in Parts(value) :
        LET T == part.value.type
            index(step) == GeneralizedIndex(value.type, Append(part.steps, step))
        IN  /\ Leads(root, part)
            /\ ~ IsBasic(T) =>
                 (IF Layout(part.value).mixin = NoMixin THEN index(TheWord) = Refused
                  ELSE NodeRoot(value, index(TheWord)) = Layout(part.value).mixin)
            /\ T.shape = "list" /\ ~ IsBasic(T.element) =>
                 \A n \in Len(part.value.data)..(T.limit - 1) :
                   NodeRoot(value, index(At(n))) = ZeroChunk

(* A root says all there is to a value: no write leaves it as it was.      *)
RootsTellWritesApart ==
  [][value' # value => HashTreeRoot(value') # HashTreeRoot(value)]_value

(* A field that some option of a union declares can be read whichever option *)
(* is held, and is zero where the one held declares none there             *)
(* (paths.py:251).  The spine of a short layout ends before it.            *)
FieldsReadUnderEveryOption ==
  value.type.shape = "union" =>
    \A s \in DOMAIN value.type.options :
      LET option == value.type.options[s]
          held == value.data.value
      IN  option.shape = "progressive_container" =>
            \A n \in DOMAIN option.fields :
              LET p == FieldPosition(option.active, n - 1) + 1
                  declared == p \in DOMAIN held.type.active /\ held.type.active[p] = 1
              IN  NodeRoot(value, GeneralizedIndex(value.type, <<At(s), At(n - 1)>>)) =
                    IF declared THEN HashTreeRoot(held.data[FieldAt(held.type.active, p)])
                    ELSE ZeroChunk
============================================================================

----------------------------- MODULE RootMemo ------------------------------
(***************************************************************************)
(* The root an SSZ value remembers, and the witness that lets it be reused *)
(* (src/ssz/roots.py, with the mutation door of src/ssz/ssz_base.py and    *)
(* the mutators of every family that pass it).                             *)
(*                                                                         *)
(* Values form a graph of three levels, each holding references to the one *)
(* beneath, and one value may be held in many places.  A mutator raises    *)
(* its value's version first and writes last; between the two it consumes  *)
(* what the caller passed, and where that is an iterator the caller's code *)
(* runs in the middle.  `open' is the stack of mutations in that state.    *)
(***************************************************************************)
EXTENDS RootService, SequencesExt

CONSTANTS
  FieldOrder,      \* the fields in declaration order
  ByteLists,       \* the packed values that mutate a working copy (byte_arrays.py)
  Pinned,          \* the packed values and lists whose count is fixed (Vector, BitVector)
  Byte,            \* leaf contents
  PackedLimit,     \* bound on the contents of a packed value
  ListLimit,       \* bound on the elements of a list
  NoMemo,          \* a value that remembers no root
  MaxVersion,      \* bound on the mutations of one value
  MaxOpen,         \* bound on mutations in progress at once
  Paranoid,        \* SSZ_PARANOID_ROOTS=1
  DirectWrites,    \* whether callers write past the mutators, into .data itself
  RootsWhileOpen   \* whether a caller's iterator may root the value it is written into

VARIABLES
  version,  \* the mutation counter of each value
  memo,     \* the (witness, root) pair each value remembers
  open      \* the mutations whose arguments are being consumed, innermost last

vars == <<live, data, served, version, memo, open>>

ASSUME KindsAssumption ==
  /\ Packed \cap Lists = {} /\ Packed \cap Structs = {} /\ Lists \cap Structs = {}
  /\ LeafFields \cap PackedFields = {} /\ LeafFields \cap ListFields = {}
  /\ PackedFields \cap ListFields = {}
  /\ FieldOrder \in Seq(Field) /\ Range(FieldOrder) = Field
  /\ Frozen \subseteq Structs
  /\ ByteLists \subseteq Packed
  /\ Pinned \subseteq (Packed \cup Lists) \ ByteLists

ASSUME BoundsAssumption ==
  /\ PackedLimit \in Nat /\ ListLimit \in Nat /\ MaxVersion \in Nat /\ MaxOpen \in Nat
  /\ Paranoid \in BOOLEAN /\ DirectWrites \in BOOLEAN /\ RootsWhileOpen \in BOOLEAN

---------------------------------------------------------------------------
(* Contents. *)

OpenObjects == {open[k].object : k \in DOMAIN open}

(* What one position of a packed value or of a list may hold. *)
Cells(o) == IF o \in Packed THEN Byte ELSE Packed \cap live

Limit(o) == IF o \in Packed THEN PackedLimit ELSE ListLimit

(* A pinned count is met exactly and a bounded one is not exceeded. *)
ValidLength(o, n) == n <= Limit(o) /\ (o \in Pinned => n = Limit(o))

Contents(o) ==
  {d \in UNION {[1..n -> Cells(o)] : n \in 0..Limit(o)} : ValidLength(o, Len(d))}

(* What a field may hold, and what a struct may, over the values alive. *)
FieldCells(alive, f) ==
  IF f \in LeafFields THEN Byte
  ELSE IF f \in PackedFields THEN Packed \cap alive
  ELSE Lists \cap alive

StructContents(alive) ==
  {d \in [Field -> Byte \cup alive] : \A f \in Field : d[f] \in FieldCells(alive, f)}

---------------------------------------------------------------------------
(* Witnesses.  A leaf needs none; a packed value is covered by its version *)
(* and its count; a list and a struct carry their children's own.          *)

(* Fault: a witness that counts the contents and forgets the version. *)
CountWitness(p) == [version |-> 0, parts |-> Len(data[p])]

PackedWitness(p) == [version |-> version[p], parts |-> Len(data[p])]

(* Fault: a list covered by its own version, its elements unseen. *)
OwnVersionWitness(s) == [version |-> version[s], parts |-> <<>>]

ListWitness(s) ==
  [version |-> version[s],
   parts |-> [i \in DOMAIN data[s] |-> PackedWitness(data[s][i])]]

StructWitness(t) ==
  [version |-> version[t],
   parts |-> [f \in NestedFields |-> IF f \in PackedFields
                                     THEN PackedWitness(data[t][f])
                                     ELSE ListWitness(data[t][f])]]

Witness(o) ==
  IF o \in Packed THEN PackedWitness(o)
  ELSE IF o \in Lists THEN ListWitness(o)
  ELSE StructWitness(o)

Hit(o) == memo[o] # NoMemo /\ memo[o].witness = Witness(o)

(* Fault: the paranoid mode trusting the memos it recomputes from. *)
ReusedWheneverHit(o) == Hit(o)

(* A hit is answered from the memo; the paranoid mode recomputes it. *)
Reused(o) == Hit(o) /\ ~Paranoid

---------------------------------------------------------------------------
(* hash_tree_root.  A value that is not reused roots its children first,   *)
(* in layout order, and each of those remembers its own root.              *)

MemoPacked(p) == IF Reused(p) THEN memo[p].root ELSE PackedRoot(p)

MemoList(s) ==
  IF Reused(s) THEN memo[s].root
  ELSE [i \in DOMAIN data[s] |-> MemoPacked(data[s][i])]

MemoStruct(t) ==
  IF Reused(t) THEN memo[t].root
  ELSE [f \in Field |-> IF f \in LeafFields THEN data[t][f]
                        ELSE IF f \in PackedFields THEN MemoPacked(data[t][f])
                        ELSE MemoList(data[t][f])]

Rooted(o) ==
  IF o \in Packed THEN MemoPacked(o)
  ELSE IF o \in Lists THEN MemoList(o)
  ELSE MemoStruct(o)

ElementsOf(s) == {data[s][i] : i \in DOMAIN data[s]}

(* The values a struct reaches through each of its fields. *)
PackedOf(t) == {data[t][f] : f \in PackedFields}
ListsOf(t) == {data[t][f] : f \in ListFields}

VisitedByList(s) == {s} \cup IF Reused(s) THEN {} ELSE ElementsOf(s)

(* The values one call of hash_tree_root is entered for. *)
Visited(o) ==
  IF o \in Packed THEN {o}
  ELSE IF o \in Lists THEN VisitedByList(o)
  ELSE {o} \cup IF Reused(o) THEN {}
                ELSE PackedOf(o) \cup UNION {VisitedByList(s) : s \in ListsOf(o)}

(* Every value whose contents the root of o commits to. *)
Reach(o) ==
  IF o \in Packed THEN {o}
  ELSE IF o \in Lists THEN {o} \cup ElementsOf(o)
  ELSE {o} \cup PackedOf(o) \cup ListsOf(o) \cup UNION {ElementsOf(s) : s \in ListsOf(o)}

(* Fault: recomputing against a memo whose witness no longer matches. *)
ContradictedUnwitnessed(o) == Paranoid /\ memo[o] # NoMemo /\ Rooted(o) # memo[o].root

(* A remembered root that the paranoid recomputation contradicts. *)
Contradicted(o) == Paranoid /\ Hit(o) /\ Rooted(o) # memo[o].root

Remember(S) ==
  memo' = [x \in Object |-> IF x \in S /\ ~Hit(x)
                            THEN [witness |-> Witness(x), root |-> Rooted(x)]
                            ELSE memo[x]]

MayRoot(o) == RootsWhileOpen \/ Reach(o) \cap OpenObjects = {}

HashTreeRoot(o) ==
  /\ o \in live
  /\ MayRoot(o)
  /\ \A x \in Visited(o) : ~Contradicted(x)
  /\ served' = AnswerOf(o, Rooted(o))
  /\ Remember(Visited(o))
  /\ UNCHANGED <<live, data, version, open>>

(* Children finish before their parent, and the first contradiction aborts *)
(* the call: what finished before it stays remembered.                     *)
FinishOrder(o) ==
  IF o \in Packed THEN <<o>>
  ELSE IF o \in Lists THEN Append(data[o], o)
  ELSE LET Below(f) == IF f \in LeafFields THEN <<>>
                       ELSE IF f \in PackedFields THEN <<data[o][f]>>
                       ELSE Append(data[data[o][f]], data[o][f])
       IN  Append(FlattenSeq([k \in DOMAIN FieldOrder |-> Below(FieldOrder[k])]), o)

RefuseStale(o) ==
  /\ o \in live
  /\ MayRoot(o)
  /\ \E bad \in Visited(o) : \E k \in DOMAIN FinishOrder(o) :
       /\ FinishOrder(o)[k] = bad
       /\ Contradicted(bad)
       /\ \A j \in 1..(k - 1) : ~Contradicted(FinishOrder(o)[j])
       /\ Remember({FinishOrder(o)[j] : j \in 1..(k - 1)})
  /\ served' = StaleRoot
  /\ UNCHANGED <<live, data, version, open>>

---------------------------------------------------------------------------
(* Mutation.  Every mutator passes the door, then consumes its argument,   *)
(* then checks the resulting count, then writes.                           *)

(* Fault: a mutator that never raises the version. *)
BeginPastTheDoor(o) ==
  /\ o \in live \ Frozen
  /\ Len(open) < MaxOpen
  /\ open' = Append(open, [object |-> o, working |-> data[o]])
  /\ served' = NoAnswer
  /\ UNCHANGED <<live, data, version, memo>>

Begin(o) ==
  /\ o \in live \ Frozen
  /\ Len(open) < MaxOpen /\ version[o] < MaxVersion
  /\ version' = [version EXCEPT ![o] = @ + 1]
  /\ open' = Append(open, [object |-> o, working |-> data[o]])
  /\ served' = NoAnswer
  /\ UNCHANGED <<live, data, memo>>

Current == open[Len(open)]

(* A byte list writes to the copy it took at the door, every other *)
(* collection to the contents it finds once the argument is consumed. *)
Base == IF Current.object \in ByteLists THEN Current.working ELSE data[Current.object]

Finish(d) ==
  /\ data' = [data EXCEPT ![Current.object] = d]
  /\ open' = SubSeq(open, 1, Len(open) - 1)
  /\ served' = NoAnswer
  /\ UNCHANGED <<live, version, memo>>

InCollection == open # <<>> /\ Current.object \in Packed \cup Lists

SetItem ==
  /\ InCollection
  /\ \E i \in DOMAIN Base, v \in Cells(Current.object) : Finish([Base EXCEPT ![i] = v])

SetSlice ==
  /\ InCollection
  /\ \E lo \in 0..Len(Base) : \E hi \in lo..Len(Base) :
       \E n \in 0..Limit(Current.object) : \E new \in [1..n -> Cells(Current.object)] :
         /\ ValidLength(Current.object, Len(Base) - (hi - lo) + n)
         /\ Finish(SubSeq(Base, 1, lo) \o new \o SubSeq(Base, hi + 1, Len(Base)))

(* Fault: the count checked before the element is coerced, and written to after. *)
AppendCheckedFirst ==
  /\ InCollection
  /\ Current.object \notin Pinned
  /\ ValidLength(Current.object, Len(Current.working) + 1)
  /\ \E v \in Cells(Current.object) : Finish(Append(Base, v))

(* Coerced before the count is checked, so the count read is the one written to. *)
AppendItem ==
  /\ InCollection
  /\ Current.object \notin Pinned
  /\ ValidLength(Current.object, Len(Base) + 1)
  /\ \E v \in Cells(Current.object) : Finish(Append(Base, v))

AssignData ==
  /\ InCollection
  /\ \E d \in Contents(Current.object) : Finish(d)

(* Fault: a field assigned unvalidated. *)
SetFieldUnchecked ==
  /\ open # <<>>
  /\ Current.object \in Structs
  /\ \E f \in Field, v \in Byte \cup live : Finish([data[Current.object] EXCEPT ![f] = v])

(* Assignment rebuilds the field dictionary in pydantic, from what it held *)
(* before the argument was consumed or after.                              *)
SetField ==
  /\ open # <<>>
  /\ Current.object \in Structs
  /\ \E base \in {Current.working, data[Current.object]}, f \in Field :
       \E v \in FieldCells(live, f) : Finish([base EXCEPT ![f] = v])

(* The argument, or the count it leads to, is refused: nothing is written. *)
RefuseWrite ==
  /\ open # <<>>
  /\ open' = SubSeq(open, 1, Len(open) - 1)
  /\ served' = NoAnswer
  /\ UNCHANGED <<live, data, version, memo>>

(* Nothing of the caller's runs in a pop; an empty value raises past the door. *)
Pop(o) ==
  /\ o \in live \cap ((Packed \cup Lists) \ Pinned)
  /\ version[o] < MaxVersion
  /\ version' = [version EXCEPT ![o] = @ + 1]
  /\ data' = [data EXCEPT ![o] = IF @ = <<>> THEN @ ELSE SubSeq(@, 1, Len(@) - 1)]
  /\ served' = NoAnswer
  /\ UNCHANGED <<live, memo, open>>

(* Not a mutator: the list behind .data, written by whoever reads it. *)
DirectWrite(o) ==
  /\ DirectWrites
  /\ o \in live \cap ((Packed \cup Lists) \ ByteLists)
  /\ \E d \in UNION {[1..n -> Cells(o)] : n \in 0..Limit(o)} : data' = [data EXCEPT ![o] = d]
  /\ served' = NoAnswer
  /\ UNCHANGED <<live, version, memo, open>>

---------------------------------------------------------------------------
(* Values come to exist cold: by construction and decoding, and by copies. *)

(* Fault: a new value that keeps the slots of a live one of its kind. *)
AllocateCarryingSlots(new) ==
  /\ live' = live \cup DOMAIN new
  /\ data' = [o \in Object |-> IF o \in DOMAIN new THEN new[o] ELSE data[o]]
  /\ \E from \in live \cup DOMAIN new :
       LET takes(o) == /\ o \in DOMAIN new
                       /\ \A Kind \in {Packed, Lists, Structs} : o \in Kind <=> from \in Kind
       IN  /\ version' = [o \in Object |-> IF takes(o) THEN version[from] ELSE version[o]]
           /\ memo' = [o \in Object |-> IF takes(o) THEN memo[from] ELSE memo[o]]
  /\ served' = NoAnswer
  /\ UNCHANGED open

Allocate(new) ==
  /\ live' = live \cup DOMAIN new
  /\ data' = [o \in Object |-> IF o \in DOMAIN new THEN new[o] ELSE data[o]]
  /\ version' = [o \in Object |-> IF o \in DOMAIN new THEN 0 ELSE version[o]]
  /\ memo' = [o \in Object |-> IF o \in DOMAIN new THEN NoMemo ELSE memo[o]]
  /\ served' = NoAnswer
  /\ UNCHANGED open

Construct(o) ==
  /\ o \in Object \ live
  /\ \E d \in (IF o \in Structs THEN StructContents(live) ELSE Contents(o)) :
       Allocate([x \in {o} |-> d])

SameClass(x, y) ==
  /\ x \in ByteLists <=> y \in ByteLists
  /\ x \in Pinned <=> y \in Pinned
  /\ x \in Frozen <=> y \in Frozen

CopyPacked(p) ==
  \E q \in Packed \ live : SameClass(p, q) /\ Allocate([x \in {q} |-> data[p]])

(* One fresh element per position: an element held twice is copied twice. *)
CopyList(s) ==
  \E twin \in Lists \ live, image \in Injection(DOMAIN data[s], Packed \ live) :
    /\ SameClass(s, twin)
    /\ \A i \in DOMAIN image : SameClass(data[s][i], image[i])
    /\ Allocate([x \in {twin} \cup Range(image) |->
                   IF x = twin THEN image
                   ELSE data[data[s][CHOOSE i \in DOMAIN image : image[i] = x]]])

(* The places a struct holds a packed value at, in its own fields and in its lists. *)
Slots(t) ==
  {<<f>> : f \in PackedFields}
    \cup UNION {{<<f, i>> : i \in DOMAIN data[data[t][f]]} : f \in ListFields}

HeldAt(t, slot) ==
  IF Len(slot) = 1 THEN data[t][slot[1]] ELSE data[data[t][slot[1]]][slot[2]]

CopyStruct(t) ==
  \E twin \in Structs \ live,
     lists \in Injection(ListFields, Lists \ live),
     image \in Injection(Slots(t), Packed \ live) :
    /\ SameClass(t, twin)
    /\ \A f \in ListFields : SameClass(data[t][f], lists[f])
    /\ \A slot \in Slots(t) : SameClass(HeldAt(t, slot), image[slot])
    /\ Allocate([x \in {twin} \cup Range(lists) \cup Range(image) |->
         IF x = twin
           THEN [f \in Field |-> IF f \in LeafFields THEN data[t][f]
                                 ELSE IF f \in PackedFields THEN image[<<f>>]
                                 ELSE lists[f]]
         ELSE IF x \in Lists
           THEN LET f == CHOOSE g \in ListFields : lists[g] = x
                IN  [i \in DOMAIN data[data[t][f]] |-> image[<<f, i>>]]
         ELSE data[HeldAt(t, CHOOSE slot \in Slots(t) : image[slot] = x)]])

Copy(o) ==
  /\ o \in live
  /\ \/ o \in Packed /\ CopyPacked(o)
     \/ o \in Lists /\ CopyList(o)
     \/ o \in Structs /\ CopyStruct(o)

---------------------------------------------------------------------------

Init ==
  /\ ServiceInit
  /\ version = [o \in Object |-> 0]
  /\ memo = [o \in Object |-> NoMemo]
  /\ open = <<>>

Next ==
  \/ \E o \in Object : Construct(o) \/ Copy(o)
  \/ \E o \in Object : Begin(o) \/ Pop(o) \/ DirectWrite(o)
  \/ SetItem \/ SetSlice \/ AppendItem \/ AssignData \/ SetField \/ RefuseWrite
  \/ \E o \in Object : HashTreeRoot(o) \/ RefuseStale(o)

Spec == Init /\ [][Next]_vars

---------------------------------------------------------------------------
(* Properties. *)

(* What a value of the class of o may hold, over the values alive. *)
Admits(alive, o, d) ==
  /\ o \in Packed => d \in Seq(Byte)
  /\ o \in Lists => d \in Seq(Packed \cap alive)
  /\ o \in Structs => d \in StructContents(alive)

WorkingCopies(alive) == StructContents(alive) \cup Seq(Byte) \cup Seq(Packed \cap alive)

(* Every value holds what its shape declares, and only live values; the    *)
(* versions count; a mutation in progress is one of a live, mutable value, *)
(* over a working copy its shape admits.                                   *)
TypeOK ==
  /\ live \subseteq Object
  /\ DOMAIN data = Object /\ DOMAIN memo = Object
  /\ \A o \in live : Admits(live, o, data[o])
  /\ version \in [Object -> Nat]
  /\ open \in Seq([object : live \ Frozen, working : WorkingCopies(live)])
  /\ \A k \in DOMAIN open : Admits(live, open[k].object, open[k].working)

(* What a remembered pair says of a value, given the versions, the contents *)
(* and the values being written: its witness is no newer than the value,    *)
(* and while it is as new nothing of the value is being written, the root   *)
(* has the value's own shape, and the same holds part by part beneath.      *)
PackedKept(ver, dat, busy, p, w, r) ==
  /\ w.version \in Nat /\ w.version <= ver[p]
  /\ w.version = ver[p] => p \notin busy /\ r = dat[p]

ListKept(ver, dat, busy, s, w, r) ==
  /\ w.version \in Nat /\ w.version <= ver[s]
  /\ w.version = ver[s] =>
       /\ s \notin busy
       /\ r = [i \in DOMAIN dat[s] |-> r[i]]
       /\ \A i \in DOMAIN dat[s] : PackedKept(ver, dat, busy, dat[s][i], w.parts[i], r[i])

StructKept(ver, dat, busy, t, w, r) ==
  /\ w.version \in Nat /\ w.version <= ver[t]
  /\ w.version = ver[t] =>
       /\ t \notin busy
       /\ r = [f \in Field |-> r[f]]
       /\ \A f \in LeafFields : r[f] = dat[t][f]
       /\ \A f \in PackedFields : PackedKept(ver, dat, busy, dat[t][f], w.parts[f], r[f])
       /\ \A f \in ListFields : ListKept(ver, dat, busy, dat[t][f], w.parts[f], r[f])

Kept(ver, dat, busy, o, w, r) ==
  /\ o \in Packed => PackedKept(ver, dat, busy, o, w, r)
  /\ o \in Lists => ListKept(ver, dat, busy, o, w, r)
  /\ o \in Structs => StructKept(ver, dat, busy, o, w, r)

(* A version once witnessed is never shared by two contents: every memo,   *)
(* hit or not, still describes the value at the version it was taken.      *)
MemosKept ==
  \A o \in live : memo[o] # NoMemo =>
    Kept(version, data, OpenObjects, o, memo[o].witness, memo[o].root)

(* No remembered root that a call would reuse differs from the root of the *)
(* contents as they stand, whoever else holds or changed the values        *)
(* beneath (src/ssz/roots.py: a root is reused only while an equal witness *)
(* is rebuilt).                                                            *)
NoStaleRoot == \A o \in live : Hit(o) => memo[o].root = ColdRoot(o)

(* A declared count or capacity holds after every mutation, even one whose *)
(* argument mutated the same value while it was consumed.                  *)
CapacityKept == \A o \in live \ Structs : ValidLength(o, Len(data[o]))

(* What a caller is served is what rooting from cold would serve. *)
ServesColdRoots == ServiceSpec

(* The paranoid mode refuses only where a remembered root is really wrong. *)
RefusalIsJustified ==
  served = StaleRoot => \E o \in live : Hit(o) /\ memo[o].root # ColdRoot(o)

(* Mutators alone never give the paranoid mode anything to refuse. *)
NeverRefused == served # StaleRoot
============================================================================

# Verification of ssz-specs

`src/src/ssz` is a Python library for Simple Serialize, the encoding and
Merkleization format of Ethereum: typed values, their encoding and decoding,
their Merkle roots, and proofs of their parts. This directory holds TLA+ models
of that library, the configurations TLC checks them with, and theorems TLAPS
proves about them. `PROJECT.json` maps every definition to the lines it
translates; line numbers below are of the files under `src/src/ssz` unless they
say otherwise.

## 1. The system

### Components, their state, and how they interact

| component | source | state | operations |
|---|---|---|---|
| values and the mutation door | `ssz_base.py`, mutators of every family | contents, `_version`, `_root_memo` of each value | construct, copy, `__setitem__`, `append`, `pop`, assignment, `.data` |
| remembered roots | `roots.py` | the memo of each value | `hash_tree_root`, paranoid recomputation |
| layouts and mixed-in words | `layout.py`, `mixins.py` | none | `merkle_layout`, `mix_in*` |
| Merkle trees | `trees.py`, `chunks.py` | the level being paired | `merkleize`, `merkleize_progressive` |
| generalized indices | `gindex.py` | none | parent, sibling, concat, rebase, helper indices, progressive indices |
| verification | `verification.py` | nodes known, indices pending | `calculate_multi_merkle_root`, `verify_merkle_*` |
| paths | `paths.py` | none | `get_generalized_index` |
| proof building | `proofs.py` | none | `node_root`, `build_proof`, `build_multiproof` |
| decoding | `decode_bytes`, `deserialize` of every shape, `offsets.py` | stream position, one frame per nested call | one read per shape and part |
| encoding | `encode_bytes`, `serialize` of every shape | none kept | |
| type declarations | the `__init_subclass__` hooks of every shape | class attributes, the order of bases | declare, parametrize, subclass |
| compatible unions | `union.py` | none | `is_compatible` over every pair of options |
| unsigned integers and booleans | `uint.py`, `boolean.py` | a table of shared instances per class | construct, operators and their reflections, comparisons |
| JSON mapping and errors | `base.py`, `exceptions.py` | none | parse, print |
| fixture filling | `packages/testing` | the cases, ids and type names collected in a session; a directory | `add_fixture`, `write_fixtures`, session start |
| Lean conformance runner | `lean/` | none | replays vectors against another implementation |

`hash_tree_root` asks `merkle_layout` for the leaves of a value, roots what is
nested in them, and hands the chunks to `merkleize` or `merkleize_progressive`,
which calls `merkleize` for each of its levels. `node_root` walks the same
layout by the bits of an index instead, and `paths` computes that index from the
type without any value. A verifier has none of them: it rebuilds a root from
leaves, proof and indices. A decoder calls itself through `deserialize`, passing
each part the shared stream and a budget in bytes (the scope). Mutators all pass
`_begin_mutation`, whose version counter is what lets a remembered root be
reused. Everything else rests on the classes: their widths and parameters are
settled as each one is declared, and a union asks `is_compatible` of its options
so that a path into one is a path into all.

### What is hard

There are no threads and no messages, and nothing persists but the directory a
fill writes. What is hard is:

* **Reentrancy.** A mutator raises the version, then iterates what the caller
  passed; that iterator is the caller's code and may root or mutate the very
  value being written, or a value that holds it.
* **Sharing and stale memos.** One value may be held in several places, so a
  root remembered by one holder is made wrong by a mutation through another.
* **Two computations of one thing** that never meet: rooting and `node_root`,
  paths and layouts, a branch and a multiproof, encoding and decoding, the
  shortcuts of `merkleize` and the padded tree.
* **Boundaries**: the edge of a level, of a chunk, of a scope, of the offset
  range, of the table of zero roots.
* **Partial failure**: a mutation or a paranoid rooting refused half way; a
  fixture refused after its id was claimed.
* **Stops and restarts** of a fill, between any two files or inside one.
* **Lines of inheritance** that part and meet again, each free to fix or leave
  open what a type's tree is laid out from.
* **Numbers that are not numbers**: two uints of one width may be two units, and
  an operator may be answered by either side.

What makes each part correct: a root served is always the root of the contents
as they stand; a tree's shortcuts give the padded tree's root; a proof that
verifies is true and a true one verifies; a path leads to the part it names
whatever the value became; an encoding has exactly one value, a value exactly
one encoding, and no part is read from another's bytes; a subclass keeps the tree of
its bases; a computation keeps its unit; a directory of vectors is one fill's
whole work or none.
`PROJECT.json` lists the hazards line by line, with the properties that would
catch them; those with none carry a note.

## 2. The modules

| module | models | builds on |
|---|---|---|
| `RootService` | abstract specification: what `hash_tree_root` promises | |
| `RootMemo` | values, mutators, copies, memo and witnesses | `RootService` |
| `RootMemoProofs` | theorems about `RootMemo` | `RootMemo` |
| `Powers` | powers of two, by which depths give widths | |
| `Gindex` | `gindex.py` | `Powers` |
| `GindexProofs` | theorems about `Gindex`, and the facts that the proofs over recursive functions rest on | `Gindex` |
| `Multiproof` | `verification.py` | `Gindex` |
| `MultiproofProofs` | theorems about `Multiproof` | `Multiproof`, `GindexProofs` |
| `MerkleTree` | the padded tree: the reference definition, and `chunks.py` | `Powers` |
| `Merkleize` | `merkleize` | `MerkleTree` |
| `ProgressiveTree` | `merkleize_progressive` as a spine of padded levels, `progressive_chunk_gindex` | `MerkleTree`, `Gindex` |
| `Trees` | the composition: the spine calling `merkleize` for each level | `Merkleize`, `ProgressiveTree` |
| `TreesProofs` | theorems about `Merkleize` and `Trees` | `Trees`, `GindexProofs` |
| `SSZTypes` | the shapes a type may take | |
| `Shapes` | `layout.py`, `mixins.py`, rooting of a value | `MerkleTree`, `Gindex`, `SSZTypes` |
| `PathIndex` | `paths.py` | `Shapes` |
| `Paths` | `proofs.py`, values under their mutators | `PathIndex` |
| `Reader` | decoding | `SSZTypes`, `Powers` |
| `Widths` | the widths classes settle as they are declared, for the instances TLC checks | `Reader` |
| `ReaderProofs` | theorems about `Reader` | `Reader` |
| `Codec` | encoding, and what reading and writing owe each other | `Reader` |
| `CodecProofs` | theorems about `Codec` | `Codec`, `ReaderProofs` |
| `Classes` | declared classes: attributes, order of bases, fields, widths, the trees they declare | `SSZTypes` |
| `Compatibility` | `is_compatible` of `union.py` | `Classes` |
| `Declarations` | the declaration hooks, one action per shape | `Compatibility` |
| `Numbers` | `uint.py`, `boolean.py`: computations with declared classes | `Declarations` |
| `TypeProofs` | theorems about `Declarations` and `Numbers` | `Numbers` |
| `TypeSystem` | the composition: declared classes and the paths into them | `Numbers`, `PathIndex` |
| `Catalog` | abstract specification: what a consumer of a vector directory finds | |
| `FillSession` | a fill session, its directory, stops and restarts | `Catalog` |
| `FillSessionProofs` | theorems about `FillSession` | `FillSession` |
| `MC*` | small instances for TLC | the module they name |

A definition whose comment begins "Fault:" is a plausible mistake in the
operator it stands before. Nothing uses it; replacing the operator with it must
break the property `PROJECT.json` pairs it with.

### RootService and RootMemo

A value is packed (bytes, bits, numbers), a list of packed values, or a struct
over leaf fields, packed fields and list fields: three levels, which is what a
witness needs to be interesting (its own version, a child's, a grandchild's).
`data` holds contents as references, so sharing is expressible. A root is
modelled as the contents it commits to, nested as the tree nests them, since
a hash stands for what it is a hash of.

* `Construct`, `Copy`: a value comes to exist with version 0 and no memo
  (`__getattr__` of the slots, `copy`); a copy duplicates every depth.
* `Begin` is the door `_begin_mutation`: it refuses a frozen value, raises the
  version, and leaves the mutation open on a stack. Until it is finished by
  `SetItem`, `SetSlice`, `AppendItem`, `AssignData` or `SetField`, or refused by
  `RefuseWrite`, any other action may happen: that is the caller's iterator
  running. `Pop` consumes nothing and is one step.
* A byte list writes back the working copy it took at the door; every other
  collection reads its contents again. `Base` is that difference.
* `HashTreeRoot` serves from the memo on a hit and remembers every value it
  had to visit; `RefuseStale` is `SSZ_PARANOID_ROOTS=1` finding a memo wrong, in
  the order children finish, so that the memos written before it stay.
* `DirectWrite` is a caller that writes behind the mutators through `.data`.
* Constants `Paranoid`, `DirectWrites` and `RootsWhileOpen` select who does what.

`RootService` has the same values and no memo: its `Answer` is the cold root.
`ServesColdRoots` says that `RootMemo` implements it.

### Gindex and Multiproof

`Verify` presents a request: indices, leaves and proof, anything at all. The
loop of `calculate_multi_merkle_root` is `Combine`, `Pass`, `RefuseWidth` and
`Return`, one pending index at a time. `Tree` is the tree the trusted root
commits to, any tree whatever its shape. `Given` is the table the loop starts from, one
node at each index; `Presented` is the pairs of an index and a node as the caller and
the prover hand them over, and it is of these that `Sound`, `Complete` and
`EveryNodeMeasured` speak, so that a proof node answering for a claim (a helper that
is also claimed, `gindex.py:172`) would break them.

### MerkleTree, Merkleize, ProgressiveTree, Trees

`PaddedRoot` is the definition: pad with zero chunks to the width and pair up,
the nodes of every height at once (`Layers`).
`Merkleize` takes each branch of the function as an action: the early returns,
the pairing of a level with its zero sibling, the fold of a level of equal
nodes, the climb through copies and then through zero trees, and capacities
beyond the table of precomputed zero roots (`CachedDepth`).
`ProgressiveTree` opens levels four times as wide each, closes the spine with
one zero node, and joins upward, over a collection that grows and shrinks
between two rootings; there a level is rooted in one step, by the definition.
`Trees` is the code: `CallLevel` calls `merkleize` for a level, its actions run,
and `TakeLevel` takes what it returned. `LevelsArePaddedTrees` says that this
implements `ProgressiveTree`: the spine may rely on every shortcut of the
function it calls.

### SSZTypes, Shapes, PathIndex, Paths

A type is a record with its shape and parameters. `Layout` is `merkle_layout`:
packed chunks or nested values, a limit or none, and the mixed-in word. Chunks
hold `ChunkUnits` bytes instead of 32 and a byte `BitsPerByte` bits; bits pack
into bytes and bytes into chunks in the code's order, and a bit or a byte is
reached as the element it counts as. `Write` changes a value, at any depth, by
one mutator. `GeneralizedIndex` is `get_generalized_index`, `NodeRoot` is
`node_root`, both with their refusals.

### Classes, Compatibility, Declarations

A class is known by its place in the order of declaration, and keeps what its
own body said (`own`), the order Python asks its bases in (`mro`), the type in
its brackets and its fields. `Presented` is attribute lookup: the body, then the
first base in the order that says anything. A session runs one of the
`Programs`, each a sequence of sets of declarations; each action `Declare...` is
the hook of a shape with the checks every shape shares (`AllowedOrders`), and a
declaration no action takes is one the code refuses. `Linearizations` gives the
order of bases where Python has one (two bases at most). `compatible` is
`is_compatible` (`Fit` is one call of it, which asks of the parts again), and
`fixedSize` the width a class computes. `treeOf` is what a class says of the tree
of its values, with the names of its fields, and the two spellings of a byte
array are one tree; a class that `isWhole` leaves nothing of it to its
subclasses. Types that declare one tree have to be interchangeable to
`is_compatible`, though it never sees trees (`CompatibilityIsAnAgreement`).

### Numbers and TypeSystem

A `tally` is what a computation has come to: a class and a number, and two
histories, the number it would be if no class were in the way and the classes
that went into it. `Evaluate` asks the operand Python asks, `ResolveType` is
`_resolve_type`, `Wrap` is `_wrap` with its table of shared instances, and a
boolean answers by its own rules. Comparisons keep no state and are asked of
every pair of values, and so is whether operands may change sides (`SidesAgree`,
with the one exception it states). `TypeSystem` gives each class the type it
stands for (`TypeOf`) and enumerates the paths into it by name, so that what a
union promises of its options is compared with where `PathIndex` says their
parts are.

### Catalog and FillSession

A session starts in an empty directory, clears one with `--clean` entry by
entry, or is refused (`StartEmpty`, `StartClean`, `RemoveEntry`,
`RefuseLeftovers`). `AddFixture` is `add_fixture`: it claims the id, then the
type name, then derives the file, then collects, and what was claimed before a
refusal stays claimed. `Finish` queues the files in the order they are written,
and `written` counts how many have been; `Open` and `Write` are the two halves of
writing one, so that `Stop`, which may come at any time, can leave a torn file. `Fail` is the document refused after
every vector is on the disk. `Catalog` is what a consumer may rely on: at any
time no catalog or one whole one.

### Reader and Codec

`Reader` is `decode_bytes`: a stack of frames, one per `deserialize` in
progress, each with its type, scope, the position it began at, its stage, the
offsets it has read and the parts it has built. Each check of a scope or an
offset is an operator named for the code that makes it and gives the fault
raised, so the order of the faults is the order of the code: `RefuseScope`
what is refused before anything is read, `ReadLeaf` a read of the byte-level
shapes, `OpenUniform`, `OpenVector`, `OpenList`, `ReadTable`, `OpenStruct`,
`ReadSlot`, `ReadField`, `SettleSlots`, `OpenUnion` the heads of the composite
shapes, `ReadBody` the call for the next part and `Close` the value built from
the parts. `Constructible` is what the validators of a constructor ask, and a value
is `Legal` where it and all within it (`Nested`) is constructible. A number is what
the bytes read spell (`FromBytes`, over `Spelled`). `Codec` adds `Serialize`, which
writes a value level by level from its innermost parts out (`Serializations`):
`Written` is the `serialize` of each shape, given what its parts are written as,
`Laid` the slots and bodies of a composite. Both rest on types nesting no deeper
than `Deepest`. `Widths` computes the widths and slots that `Reader` takes as
constants. The stream may hold less or more than the scope, which only a nested
call, or a caller of `deserialize`, can meet. `BitsPerByte` and `OffsetWidth` are 2
in the runs, so that the ceiling `2**(8 * OFFSET_WIDTH)` is 16 bytes and can be met.

## 3. What is checked

Every run is one question.

| run | configuration | instance | asks |
|---|---|---|---|
| `graph` | `RootMemo_graph` | two frozen structs over two pinned lists over two packed values | are served roots cold ones, does every memo stay true of its value |
| `reentrant` | `RootMemo_reentrant` | a struct over two packed values, one a byte list; mutations two deep, three versions | does everything keep its type and capacity, and no memo go stale, when mutations nest |
| `paranoid` | `RootMemo_paranoid` | a list over two packed values, written through `.data` too | does the paranoid mode refuse only what is wrong, and serve only cold roots |
| `rooted_midwrite` | `RootMemo_rooted_midwrite` | one packed value whose iterator roots it | **violation**, finding 1 |
| `multiproof` | `Multiproof` | eight leaves, up to two indices and every rising triple; true, forged, displaced and misshapen nodes | is what verifies true, does what is true verify, does every call end, is one index its branch |
| `trees` | `Trees` | up to six chunks of three kinds, capacities -1 to 17 and none; a collection of up to 22 chunks | is the root the padded tree's, do the shortcuts bear the spine, does each chunk keep its index, does every call end |
| `paths` | `Paths` | twelve types nesting each shape in another, every index to 353 | is what a proof reads what the root has; do paths lead to the parts they name |
| `option_fields` | `Paths_options` | a union of two progressive containers of unlike width | **violation**, finding 2 |
| `codec` | `Codec` | 31 types, every stream of a few bytes, every small value's encoding, scopes off by one | one encoding per value, reading inverts writing, no part reads another's bytes |
| `fill` | `FillSession` | three sessions, five fixtures, some malformed, misplaced, clashing or undocumented; stops anywhere | does an index tell the truth, is a finished fill whole, is a consumer given one session's catalog or none |
| `types` | `TypeSystem` | five programs of up to nine declarations; every computation with the uints and bits declared | does a lineage keep one tree, are tallies exact and units kept, may operands change sides, does a path read one place under every option |
| `widening` | `TypeSystem_widening` | a uint, a wider subclass, and a struct with a field of the first | **violation**, finding 3 |

`TypeOK` is a type invariant; each other property states something no single
line of the code says. `MemosKept` is stronger than `NoStaleRoot`: it speaks of
memos that would miss today and hit tomorrow. `OneIndexIsABranch`,
`NodesAreOfTheRoot`, `PathsLeadToParts`, `Canonical`, `RootIsThePaddedTree` and
`ProofsReadAlike` each compare two pieces of code, or a piece of code and a
definition, that share nothing. Three properties are refinements: `RootMemo`
implements `RootService` (`ServesColdRoots`), `Trees` implements
`ProgressiveTree` (`LevelsArePaddedTrees`), and `FillSession` implements
`Catalog` (`PublishesCatalogs`).

### Bounds, and why they are enough

* *RootMemo.* One version suffices where one thing is mutated once between two
  rootings; three where an inner mutation passes an outer one. Two contents and
  two values of each depth tell a stale root from a fresh one and a shared child
  from a copy. Three levels reach a grandchild, whose change only the recursive
  witness sees. These properties are also proved for all bounds.
* *Multiproof.* Three indices are the fewest for which two claims share an
  ancestor and the third meets them higher; three levels let claims at different
  depths wait for each other on their way up. Also proved for every tree.
* *Merkleize.* Six chunks give every parity on each of three levels, a partly
  zero level and a fold below and above the data; 17 passes the widest data by
  two doublings, and the zero table ends at depth 1, so all its edges are met.
  Also proved for all chunks and capacities.
* *ProgressiveTree.* 22 chunks is one past three full levels (1 + 4 + 16). Also
  proved for every length. A chunk is a one-tuple around what it holds, so that it
  is known to be no pair.
* *Paths.* Chunks of two bytes of two bits make elements share a chunk, and
  sequences of up to six units span several. 353 passes the deepest index of
  every type.
* *Codec.* Offsets of two bytes of two bits make a composite of 16 bytes too
  large, and tables, bodies and ceilings all fit in streams of up to 18.
  Streams of composites with tables are up to six bytes over three of the four
  byte values, which holds two offsets and two bytes of bodies; the encodings of
  the small values come on top of that, and some are longer. The types nest no deeper
  than `Deepest`, 3 in the run. What is accepted is proved canonical for all bounds.
* *FillSession.* Three sessions are a fill, one stopped in its middle or in
  clearing, and one that meets what is left. Five calls fill a catalog of two
  and leave three to be refused, in any order; of two fixtures that clash, one
  may be refused or the other.
* *Declarations.* Two lines from one ancestor that meet again are the fewest
  where the nearest base is not the one that fixed a parameter. Three options
  are the fewest of which two agree only with the third.
* *Numbers.* Uints of two and four bits and a table of four instances meet both
  ends of every range. Operands are every value of every class and the plain
  integers -1, 0, 1, 2, 5 and 17; shifts and exponents go to 4. A three-argument
  power is taken where the base is a uint.

### Fairness

`Answered` and `AllAnswered` need weak fairness of the steps inside a call:
`merkleize`, the verifier's loop and a decode are sequential functions that wait
for nothing, so a step that can be taken is taken. `EverySessionEnds` needs it
of what a fill does by itself: removing, writing, ending. A finite suite of
tests comes to its end, so `Finish` is among these steps. Nothing else is
assumed: no caller has to call, mutate or root anything, no session has to be
started, and none has to be left to finish. Deadlock is not checked where a run
may stop for good (all bounds reached, the one call answered, every declaration
of a program made or the next one refused).

### Findings

1. *A root taken while a value is being written is served after the write.*
   `_begin_mutation` raises the version before the mutator consumes the caller's
   iterable (`ssz_base.py:534`). An iterator that roots the value being written
   has the old contents remembered under the new version. `roots.py:91` says a
   witness covers contents the value owns, whose mutators bump the version.
   Run `rooted_midwrite`; `ServesColdRoots` and the other properties are proved
   under the assumption that no iterator does this.
2. *A field of a longer option cannot be read while a shorter option is held.*
   `paths.py:251-253` says a proof for a field of one option verifies under
   every other and reads as zero where the option held declares no field there.
   When the layouts differ in width, `node_root` refuses to read past the spine
   of the shorter (`proofs.py:69`). Run `option_fields`.
3. *A field may hold a value wider than its slot.* `BITS` is no type parameter
   (`ssz_base.py:20`), so a subclass of a uint may restate it, and `base.py:49`
   lets a field hold a subclass of what it declares. A struct settles its slots
   when it is declared, so an instance of the wider class writes more bytes than
   were laid out for it, the offsets after it point short, and the encoding is
   not read back; `container.py:174-175` says the declaration fixes the leading
   width. Run `widening`.

Disagreements met on the way that no run checks, because the code involved is
Python's or a property would restate one line:

* `True + Uint8(3)` is the plain integer 4, where `tests/test_uint.py:1247` has
  `Slot(1) + True` refused, "a flag is not a quantity, so it stays out": a `bool`
  on the left is an `int`, answers first, and no code of the library runs. Comparing
  is the same: `True == Uint8(1)` answers and `Uint8(1) == True` is refused. A plain
  bool on the left is therefore outside the model, and outside `SidesAgree`.
* `pow(2, Uint8(3), Uint8(5))` asks the exponent's `__rpow__` only from Python 3.14
  on; before that it is a plain integer.
* An element type without fields of its own, a bare `Container` or
  `ProgressiveContainer`, spans no bytes and divides by zero at
  `collections.py:596`, where `collections.py:593` says every fixed-size type spans
  at least one.
* A union accepts an instance of a subclass of an option (`union.py:153`), also one
  that appended fields or restated `BITS`: finding 3 in another place.
* With `class Named(Boolean)`, `Boolean(1) & Named(1)` is a `Boolean` and
  `Named(1) & Boolean(1)` is refused (`boolean.py:293`), where the docstring says
  "Bitwise AND between two booleans — rejects any other operand." (`boolean.py:292`).
  `SidesAgree` states it as its one exception.

## 4. What is proved

TLAPS checks the following for every value of the constants that meets the
modules' assumptions.

**RootMemo** (`RootMemoProofs`).

| theorem | says | assumes of the callers |
|---|---|---|
| `TypeCorrect` | `TypeOK` always | nothing |
| `MemosStayKept` | `MemosKept` always | no `.data` writes, no rooting mid-write |
| `NoRootIsStale` | no memo that would be reused is wrong | the same |
| `MutatorsServeColdRoots` | `RootMemo` implements `RootService` | the same |
| `MutatorsAreNeverRefused` | the paranoid mode has nothing to refuse | the same |
| `ParanoidServesColdRoots` | `RootMemo` implements `RootService` | the paranoid mode, and nothing else |
| `RefusalsAreJustified` | a refusal stands on a wrong memo | nothing |
| `CapacityIsKept` | declared counts and capacities hold | no `.data` writes |

`NoStaleRoot` is not inductive: a memo that misses now could hit later, if a
version could return to what it was. `MemosKept` is the strengthening: a memo's
witness is no newer than its value, level by level, and where a level is as new
as the value that level is not being written and its root is its contents. The
lemmas say that a step which leaves a value's version alone leaves its contents
alone (`Respects`), that rooting remembers pairs that are kept, and that new
values and copies begin with nothing remembered. `CapacityKept` needs
`OpenKept`: the working copy of an open mutation meets the capacity as well.
The refinement maps the values and the answers to themselves: every mutation,
construction or copy is a change of the service, and every rooting an answer,
because what is rooted with memos equals what is rooted from cold.

**Multiproof** (`MultiproofProofs`).

| theorem | says |
|---|---|
| `VerifyingIsSound` | what verifies is the tree's, claims and proof nodes alike |
| `VerifyingIsComplete` | what is the tree's verifies |
| `RootIsAlwaysBuilt` | the lookup after the loop finds the root |
| `PairsAreBuiltOnce` | no index is pending twice |
| `EveryGivenNodeIsMeasured` | a node of a wrong width gets into no answer |
| `OneIndexTheorem` | a request of one index is refused and answered as a plain branch is |

The invariant `IInv` says of a running call that what is pending is what is
known, each index once (`Listed`); that the given nodes are kept and only paths
are built beside them (`Kept`); that a node not given is the hash of its two
children, both measured (`Built`); and that a pair whose nodes have both been
reached has been joined (`Paired`). Soundness then goes down from the
root: a node that is the tree's and is a hash has children that are the tree's.
That every wanted index comes to be joined is shown from the deepest one that
would not be. Hashing is taken to be injective, as the code's users take it.

The theorems speak of nodes as presented. `PresentedIsGiven`: what is presented at an
index is what the loop is given there, because no index is claimed twice and no
helper lies on a claim's path; so no proof node answers for a claim.

`OneIndexTheorem` (`OneIndexIsABranch`) relates the loop to
`calculate_merkle_root`, which folds a branch without any pending list. The
helper indices of one index, in descending order, are its branch
(`HelpersOfOne`): a path has one node at every depth (`PathsPassOneChild`) and
its siblings fall as it rises (`FallsInOrder`). What the loop has joined along
the path is then what the fold has (`BranchRootJoins`). For requests that are
refused the invariant gains `RefusalStands`: a refusal is of the request itself or
of the width of a node in it. Assumed of the constants: no hash is a node of a
wrong width (`DigestsAssumption`), as a digest is a chunk wide.

**Declarations** (`TypeProofs`). `LineageTheorem`: however programs
declare and subclass, with the bases in any order Python admits, a class presents
every type parameter its ancestors do (`OneTreePerLineage`). The hook that checks
a new class asks only its nearest bases, so the invariant adds that an order of
bases holds the whole order of each class in it (`LinesAreClosed`), and that
whatever any of them says for itself is what the class presents
(`BasesAreKept`); `ClassesStand` is the type of the classes so far.

`SpansTheorem`: no declared class spans zero bytes (`SpansArePositive`), so a list of
one never divides by zero where it counts its elements; a bare shape is no declared
class, and a list of those does (section 3). A width is computed from the
widths of older types, so the theorem rests on the programs naming none but
those, and `SizesUnfold` builds the function that meets the recursive
definition, class by class. Its invariant `SpansInv` says that every count a
type of fixed width presents is positive (`CountsArePositive`), that the element
type and the fields of a class are older than it (`PartsCameFirst`), and that
what a struct or a vector is laid out of had a settled width
(`WidthsAreSettled`); a subclass restates fields and parameters, so each of the
declaring steps has to keep all three. Assumed of the constants: the marks
`Varies` and `Undeclared` are no integers, and a uint has a byte at least.

`AgreementTheorem`: `is_compatible` answers alike whichever of two types is asked
about the other, and two types that declare one tree, however they spell it, are
compatible with the same types (`CompatibilityIsAnAgreement`). That it takes no
side is by induction on the older of the two (`FitMirrors`,
`CompatibilityTakesNoSide`). For the rest a tree is read back: it tells the byte
array a type spells (`BytesAreTold`), and otherwise its shape, its parameters and
the trees of its parts (`PartsAreTold`). Two types of one tree then fit
(`SameTreesFit`) and agree with the same ones (`SameTreesAgree`), if their parts
do. Two unions of the same options are the case that needs an invariant: every
option of one is asked about every option of the other, and that those agree is
known only because they were asked two by two when the union was declared
(`OptionsFit`), of answers no later declaration changes (`CompatibleForGood`). A
layout names no field twice, which `FieldsAreOlder` keeps through restating.

**Numbers** (`TypeProofs`). `UnitsTheorem`: what a computation comes to is of a
class that derives from every unit that went into it, or is a bit made of bits
alone (`UnitsNeverMix`). `TalliesTheorem`: the number it comes to is the one the
operators give with no class in the way, whichever operand answered and whatever
the table of shared instances holds (`TalliesAreExact`). `NumbersInv` is the two
with the invariant of `Declarations`, by which deriving is transitive, and
`TallyStands`, that what a computation holds is of a declared class.
`SidesTheorem`: of two numbers of declared classes, or one and a plain integer, an
operator that is indifferent to order answers or refuses alike on either side, and so
does a comparison and its mirror (`SidesAgree`). The exception is `BitAndItsKind`, a
bit and a bit of a subclass of its class: `&`, `|` and `^` are then refused on one
side (`BitsTakeNoSide` covers the other bits), and never answered on both. Of two
operands of one value the class that answers may differ with the side, so it
needs that two classes do not each derive from the other: `BasesCameFirst`, that
bases are declared first. Plain numbers are taken to be integers.

**FillSession** (`FillSessionProofs`).

| theorem | says |
|---|---|
| `IndexTheorem` | an index that can be read misses no vector there is, and gives its digest |
| `FinishedTheorem` | a finished fill is whole and counted |
| `OverwriteTheorem` | no case and no session writes over another |
| `CatalogTheorem` | `FillSession` implements `Catalog` |

They hold for any fixtures, of any ids, and any number of sessions and stops. The
four properties say nothing of a session half way through its files, so the
invariant does: `QueueStands` says the queue holds each collected case once and
then what describes them, no two of them in one place, and `DiskStands` that the
disk holds what has been written of it and at most one torn file. That two cases
never share a path rests on `FilesNameIds`: no id holds the dash its segments are
joined with. `Collected` says what the claims of ids and type names buy, which
is what makes a published tree a catalog.

**Reader** (`ReaderProofs`).

| theorem | says |
|---|---|
| `ScopeTheorem` | no part is read past its own bytes, and a value uses up all of its own |
| `OffsetsTheorem` | every part is read from where its offset, or its slot, says |
| `WholeTheorem` | an input that is a budget of its own length never runs short, nor over |
| `LegalTheorem` | what is read is of the type asked for, and every part of it, at any depth, one its constructor would have taken |

They hold for any types, nested to any depth, any streams and any scopes, from
the assumptions `Reader` makes of its constants: a class's width and slots are
what its declaration computed, a type with a width spans at least one byte, a
limit is a count or none, types nest no deeper than `Deepest`, which is any number,
and a stream is of bytes. Nothing
in the code says where a part stopped; the properties speak of what every read
before has left. The invariant follows it down the stack. `FramesStand`: what a
frame has read and checked gives offsets that rise to its scope, or slots that
fit in it (`InBodies`, `InSlots`, `InTable`). `CallsMeet`: a called frame began
where its caller had read to, and its scope is the span or slot of the part
being read. `ScopesNest`: the scopes of the stack end no later than the ones
around them. `TopReached`: the position is where the innermost frame says. A
part that returns stands at its end (`ReturnKeeps`), which moves its caller to
the next offset (`FilledStands`); the lemmas from `RefuseScopeKeeps` to
`CloseKeeps` take the steps of each shape, and each rests on the check that
the code makes of its scope or table (`StructScope`, `UniformScope`,
`TableScope`, `SpansStand`).

Legality needs a second invariant on top of the first (`LInv`). Of every frame,
the parts read so far are legal and of the types they were asked for as
(`ReadSoFar`); which those are depends on the stage, since past the slots the
fields without a width are still to come, in their own order (`Waiting`). There are
as many parts as the type allows (`CountStands`), and a called frame is of the type
its caller is at (`AskedFor`). That a list's count is within its limit is known as
soon as its first offset is, and kept through its table. A value is legal where it
is constructible and its parts are legal, down its levels (`LegalOfParts`); a leaf
is, by what its bytes spell (`LeafLegal`).

**Codec** (`CodecProofs`). `CanonicalTheorem`: what is accepted is, to the byte, what
the value read is written as (`Canonical`). It holds for any types nested to any
depth, any streams and scopes and any width of an offset, from the assumptions of
`Reader` and that the mark of a composite too large to write (`Overflow`) is no
sequence of bytes.

`Canonical` speaks of the end of a whole read, and every part of a value is read by
a call of its own, so the invariant `EInv` says of each frame on the stack how much
of what it has read is already what it will be written as (`EncodedSoFar`): a table
read is the offsets as they are written (`TableRead`), the first of which is its own
width (`SequenceRead`); the slots passed are the parts written there, or
offsets noted in the order of their fields (`SlotsRead`, `Noted`); each body read is
the encoding of its part, and together they reach from the first offset to where
the stream is read to (`BodiesRead`, `StructRead`); a selector is the byte it was
read from (`UnionRead`). It follows each frame to its own level, for a part is
written one level below the value that holds it. When a frame closes, what it has
read is what is written: `SlotsClose` and `StructBodiesClose` for structs,
`UniformCloses` and `TabledCloses` for sequences, `UnionCloses`, all by
`CloseEncodes`; and `ReturnEncodes` hands that to the caller as the part it was
waiting for. That no accepted composite is too large to be written is known from its
scope (`CompositeWritten`). What keeps a second encoding out is found at the leaves
and at the offsets: the digits a number spells are the digits it is written in
(`DigitsRead`, `WrittenAsRead`), bits are packed as they were unpacked only where the
padding is clear and the delimiter is the highest bit of the last byte
(`PackedAsRead`), and an offset accepted is the one that `Laid` computes
(`LaidAsRead`).

**Merkleize and Trees** (`TreesProofs`).

| theorem | says |
|---|---|
| `MerkleizeTheorem` | the root of `merkleize` is that of the padded tree |
| `TreesTheorem` | so it is wherever a layout or the spine calls it |
| `LevelsTheorem` | `Trees` implements `ProgressiveTree` |
| `PlacesTheorem` | a chunk is found where its number alone puts it (`ChunksKeepTheirPlace`) |

They hold for any chunks, any capacity and any depth of the table of zero roots;
no capacity is taken to be the value that stands for none. The padded tree is
`Layers`, a function from heights to the nodes of that height. The invariant
`IInv` says that the nodes of a walk are the first of a layer, as many as reach
the end of the data (`Walked`), and that the node of a climb is the first of its
layer and, below the width of the data, like every other there (`Climbed`). A
pairing then moves up one layer, since past the data a layer is of zero trees
(`BeyondData`); a fold is right because a level of equal nodes that spans a power
of two stays one (`BothBelow`). `TInv` adds to it that a call made on the
way down is for the level reached, whose capacity is a power of two, and that
what is refused is a chunk of a wrong width.

`PlacesTheorem` is about the whole of a call, so its invariant `PlaceInv` follows
the spine down and up again. On the way down (`GoneDown`) the roots taken are
those of the first levels, each of its own slice of the collection, and what is
left is the rest of it. On the way up (`ComeUp`) the node reached is the top of a
spine that hangs over the remaining levels (`Hangs`). When the call returns,
`SpineHangs` finds each spine node at the index of its level, `LayersBelow` the
nodes of a padded tree beneath wherever it stands, and `EveryChunkHeld` the level
of each chunk; `NothingBelow` is for what lies past the last level. It is a
property of `ProgressiveTree`, proved of `Trees` by the refinement. Assumed of the
constants: no chunk is a hash (`LeavesAssumption`), by which a walk knows where
the tree ends.

**Gindex** (`GindexProofs`). Two promises of `gindex.py` about its own
operators, for all indices: what was spliced is read back (`SplicesAreUndone`),
and splices nest, in whichever order a path is put together (`SplicesNest`). Both
rest on `DepthsMeasure`: the leading bit of an index is as high as the index is
deep.

Facts about recursive functions are proved by unfolding, and facts about all
indices from a least counterexample, since the library's induction theorems
take an operator as a parameter. `SolutionExists` shows at once that every
function a definition of these modules gives by recursion exists, whether it
climbs from an index to its parent (paths, shifts, nodes of a tree) or counts
from zero (powers, spine levels, zero trees, layers).

**Only model-checked.** Liveness (`Answered`, `AllAnswered`,
`EverySessionEnds`), which needs fairness. The properties of `Paths`, and
`ProofsReadAlike` of `TypeSystem`: layouts and paths are recursive over types and
values, by `RECURSIVE` operators in `Shapes`, `PathIndex` and `Paths`, out of the
prover's reach. Of the codec, `WhatIsWrittenIsRead`: the decoder would have to be
followed along the encoding of a value given beforehand, call by call, which no
invariant over what has been read so far says; `CanonicalTheorem` is the other half
of the inverse.

## 5. What is abstracted, and what is not modelled

* Hashes are the pairs they are hashes of; a root is the tree it commits to.
* Chunks, bytes, offsets, capacities and the bits of a uint are scaled down by
  constants; no definition depends on the full sizes.
* In `Reader` and `Codec` an integer is the number its bytes spell
  (`FromBytes`), which is all encoding needs of it; its arithmetic is `Numbers`.
* The text of an encoding, a document or an error is left out; an error is known
  by the fault it names.
* Not modelled of values: deletion of a field, construction that skips validation,
  slicing, concatenation and the bitwise operators of bitfields and byte arrays.
* Not modelled of declarations: refusals of a wrong Python type, reserved names,
  field defaults, generic layers whose type variable stays open, more than two
  bases, and bases of two shapes.
* Of a fill session: a preview, which writes nothing, and two sessions in one
  directory at once, which the code nowhere provides for.
* The JSON mapping, the fixture formats, the Lean runner and the test suites are
  not modelled; `PROJECT.json` gives the reason for each.

## 6. Plan

Done, in this order, the most important behaviour first: remembered roots
under mutation; verification; trees; paths and proof building; the codec; fill
sessions; type declarations and compatible unions; computations with numbers.

What could come next are proofs about paths and proof building: layouts and paths
as functions over the levels of a type, as `Serializations` is over those of a
value, in place of the `RECURSIVE` operators of `Shapes` and `PathIndex`; then, for
the codec, that what is written is read (`WhatIsWrittenIsRead`), from an invariant
that says of each frame which value's encoding it is reading.

## 7. Running

    tlc -workers 2 -config RootMemo_graph.cfg MCRootMemo.tla
    tlapm RootMemoProofs.tla

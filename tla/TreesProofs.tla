---------------------------- MODULE TreesProofs -----------------------------
(***************************************************************************)
(* That merkleize, whatever shortcuts it takes, gives the root of the      *)
(* padded tree, for any chunks and any capacity; that merkleize_progressive, *)
(* which roots each level of its spine by a whole call of it, implements the *)
(* spine of padded trees; and that a chunk keeps its place on that spine.    *)
(***************************************************************************)
EXTENDS Trees, GindexProofs

---------------------------------------------------------------------------
(* Recursive functions are what their definitions say. *)

LEMMA DoubledUnfolds ==
  ASSUME NEW leaf
  PROVE  \A n \in Nat :
           Doubled(leaf)[n] =
             IF n = 0 THEN leaf ELSE Pair(Doubled(leaf)[n - 1], Doubled(leaf)[n - 1])
<1>1. PICK F : F = [n \in Nat |-> Unfolded("doubled", leaf, F, n)]
  BY SolutionExists DEF Kinds
<1>2. F = [n \in Nat |-> IF n = 0 THEN leaf ELSE Pair(F[n - 1], F[n - 1])]
  BY <1>1 DEF Unfolded, Pair
<1>3. Doubled(leaf) =
        [n \in Nat |-> IF n = 0 THEN leaf ELSE Pair(Doubled(leaf)[n - 1], Doubled(leaf)[n - 1])]
  BY <1>2 DEF Doubled
<1>. QED
  BY <1>3

LEMMA LayersUnfold ==
  ASSUME NEW input
  PROVE  /\ \A i \in Nat : Layers(input)[0][i] = Leaf(input, i)
         /\ \A h \in Nat, i \in Nat :
              Layers(input)[h + 1][i] =
                Pair(Layers(input)[h][2 * i], Layers(input)[h][2 * i + 1])
<1> DEFINE first == [i \in Nat |-> Leaf(input, i)]
<1>1. PICK F : F = [h \in Nat |-> Unfolded("layers", first, F, h)]
  BY SolutionExists DEF Kinds
<1>2. F = [h \in Nat |-> IF h = 0 THEN first ELSE Above(F[h - 1])]
  BY <1>1 DEF Unfolded, Above, Pair
<1>3. Layers(input) = [h \in Nat |-> IF h = 0 THEN first ELSE Above(Layers(input)[h - 1])]
  BY <1>2 DEF Layers
<1>4. Layers(input)[0] = first
  BY <1>3
<1>5. ASSUME NEW h \in Nat
      PROVE  Layers(input)[h + 1] = Above(Layers(input)[h])
  <2>1. h + 1 \in Nat /\ h + 1 # 0 /\ (h + 1) - 1 = h
    OBVIOUS
  <2> HIDE DEF first
  <2>. QED
    BY <1>3, <2>1
<1>. QED
  BY <1>4, <1>5 DEF Above

---------------------------------------------------------------------------
(* Widths and depths. *)

LEMMA DepthOfPower ==
  ASSUME NEW d \in Nat
  PROVE  DepthOf(pow2[d]) = d
<1>1. d \in 0..pow2[d] /\ \A e \in 0..pow2[d] : e \in Nat
  BY Powers
<1>2. \A e \in Nat : pow2[e] = pow2[d] => e = d
  BY Powers, PowersRise
<1>. QED
  BY <1>1, <1>2 DEF DepthOf

(* A number is rounded up, and to no power more than it needs. *)
LEMMA RoundedUp ==
  ASSUME NEW x \in Int
  PROVE  \E b \in Nat : /\ NextPow2(x) = pow2[b] /\ x <= pow2[b]
                        /\ b # 0 => pow2[b - 1] < x
<1>1. CASE x <= 1
  BY <1>1, Powers DEF NextPow2
<1>2. CASE ~ (x <= 1)
  <2> DEFINE wide == {b \in Nat : x <= pow2[b]}
  <2>1. x \in Nat /\ x \in wide
    BY <1>2, Powers
  <2>2. PICK b \in wide : \A c \in wide : b <= c
    <3>1. wide \in SUBSET Nat /\ wide # {}
      BY <2>1
    <3> HIDE DEF wide
    <3>. QED
      BY <3>1, Least
  <2>3. b \in Nat /\ x <= pow2[b] /\ b <= x /\ b # 0
    BY <1>2, <2>1, <2>2, Powers
  <2>4. b - 1 \in Nat /\ b - 1 \notin wide /\ pow2[b - 1] \in Nat
    BY <2>2, <2>3, Powers
  <2>5. b \in 1..x /\ pow2[b - 1] < x /\ x <= pow2[b]
    BY <2>1, <2>3, <2>4
  <2> DEFINE c == CHOOSE c \in 1..x : pow2[c - 1] < x /\ x <= pow2[c]
  <2>6. c \in 1..x /\ pow2[c - 1] < x /\ x <= pow2[c]
    BY <2>5
  <2>7. NextPow2(x) = pow2[c] /\ c \in Nat
    <3>1. NextPow2(x) = pow2[c]
      BY <1>2 DEF NextPow2
    <3> HIDE DEF c
    <3>. QED
      BY <2>1, <2>6, <3>1
  <2> HIDE DEF c
  <2>. QED
    BY <2>6, <2>7
<1>. QED
  BY <1>1, <1>2

LEMMA RoundedUpMore ==
  ASSUME NEW x \in Int, NEW y \in Int, x <= y
  PROVE  NextPow2(x) <= NextPow2(y)
<1>1. PICK b \in Nat : /\ NextPow2(x) = pow2[b]
                       /\ b # 0 => pow2[b - 1] < x
  BY RoundedUp
<1>2. PICK c \in Nat : NextPow2(y) = pow2[c] /\ y <= pow2[c]
  BY RoundedUp
<1>3. CASE b <= c
  BY <1>1, <1>2, <1>3, PowersRise
<1>4. CASE c < b
  <2>1. b - 1 \in Nat /\ c <= b - 1 /\ b # 0
    BY <1>4
  <2>2. pow2[c] <= pow2[b - 1] /\ pow2[c] \in Nat /\ pow2[b - 1] \in Nat
    BY <2>1, PowersRise, Powers
  <2>. QED
    BY <1>1, <1>2, <2>1, <2>2
<1>. QED
  BY <1>3, <1>4

---------------------------------------------------------------------------
(* Trees of zeros. *)

(* A zero tree is looked up or joined on: either way it is the one tree. *)
LEMMA ZeroRoots ==
  ASSUME NEW d \in Nat
  PROVE  ZeroTreeRoot(pow2[d]) = zeroTree[d]
<1> DEFINE further == Doubled(zeroTree[CachedDepth])
<1> DEFINE S == {k \in Nat : further[k] = zeroTree[CachedDepth + k]}
<1>1. CachedDepth \in Nat
  BY CachedDepthAssumption
<1>2. 0 \in S
  <2>1. further[0] = zeroTree[CachedDepth]
    BY DoubledUnfolds
  <2>. QED
    BY <1>1, <2>1
<1>3. ASSUME NEW k \in Nat, k \in S
      PROVE  k + 1 \in S
  <2>1. further[k] = zeroTree[CachedDepth + k]
    BY <1>3
  <2>2. k + 1 \in Nat /\ k + 1 # 0 /\ (k + 1) - 1 = k
    OBVIOUS
  <2>3. further[k + 1] = Pair(further[k], further[k])
    <3>1. \A n \in Nat : further[n] = IF n = 0 THEN zeroTree[CachedDepth]
                                      ELSE Pair(further[n - 1], further[n - 1])
      BY DoubledUnfolds
    <3> HIDE DEF further
    <3>. QED
      BY <2>2, <3>1
  <2>4. /\ CachedDepth + (k + 1) \in Nat /\ CachedDepth + (k + 1) # 0
        /\ (CachedDepth + (k + 1)) - 1 = CachedDepth + k
    BY <1>1
  <2>5. zeroTree[CachedDepth + (k + 1)] =
          Pair(zeroTree[CachedDepth + k], zeroTree[CachedDepth + k])
    <3>1. \A n \in Nat : zeroTree[n] = IF n = 0 THEN ZeroChunk
                                       ELSE Pair(zeroTree[n - 1], zeroTree[n - 1])
      BY DoubledUnfolds DEF zeroTree
    <3>. QED
      BY <2>4, <3>1
  <2>6. further[k + 1] = zeroTree[CachedDepth + (k + 1)]
    BY <2>1, <2>3, <2>5
  <2> HIDE DEF further
  <2>. QED
    BY <2>6
<1>4. Nat \subseteq S
  <2> HIDE DEF S
  <2>. QED
    BY <1>2, <1>3, FromZeroUp
<1>5. CASE d <= CachedDepth
  BY <1>5, DepthOfPower DEF ZeroTreeRoot
<1>6. CASE ~ (d <= CachedDepth)
  <2>1. d - CachedDepth \in Nat /\ CachedDepth + (d - CachedDepth) = d
    BY <1>1, <1>6
  <2>2. d - CachedDepth \in S
    BY <1>4, <2>1
  <2>3. further[d - CachedDepth] = zeroTree[d]
    BY <2>1, <2>2
  <2>4. ZeroTreeRoot(pow2[d]) = further[d - CachedDepth]
    BY <1>6, DepthOfPower DEF ZeroTreeRoot
  <2>. QED
    BY <2>3, <2>4
<1>. QED
  BY <1>5, <1>6

LEMMA ZeroTreeUnfolds ==
  zeroTree[0] = ZeroChunk /\ \A h \in Nat : zeroTree[h + 1] = Pair(zeroTree[h], zeroTree[h])
<1>1. \A n \in Nat : zeroTree[n] = IF n = 0 THEN ZeroChunk
                                   ELSE Pair(zeroTree[n - 1], zeroTree[n - 1])
  BY DoubledUnfolds DEF zeroTree
<1>2. ASSUME NEW h \in Nat
      PROVE  h + 1 \in Nat /\ h + 1 # 0 /\ (h + 1) - 1 = h
  OBVIOUS
<1>. QED
  BY <1>1, <1>2

(* Where every leaf is zero from some place on, so is every node above. *)
ZeroFrom(input, start) == \A j \in Nat : start <= j => Leaf(input, j) = ZeroChunk

LEMMA ZeroLayers ==
  ASSUME NEW input, NEW start \in Nat, ZeroFrom(input, start)
  PROVE  \A h \in Nat : \A i \in Nat : start <= i * pow2[h] => Layers(input)[h][i] = zeroTree[h]
<1> DEFINE S == {h \in Nat : \A i \in Nat : start <= i * pow2[h] =>
                                Layers(input)[h][i] = zeroTree[h]}
<1>1. 0 \in S
  <2> SUFFICES ASSUME NEW i \in Nat, start <= i * pow2[0]
               PROVE  Layers(input)[0][i] = zeroTree[0]
    OBVIOUS
  <2>1. start <= i
    BY Powers
  <2>. QED
    BY <2>1, LayersUnfold, ZeroTreeUnfolds DEF ZeroFrom
<1>2. ASSUME NEW h \in Nat, h \in S
      PROVE  h + 1 \in S
  <2>0. \A i \in Nat : start <= i * pow2[h] => Layers(input)[h][i] = zeroTree[h]
    BY <1>2
  <2>1. ASSUME NEW i \in Nat, start <= i * pow2[h + 1]
        PROVE  Layers(input)[h + 1][i] = zeroTree[h + 1]
    <3>1. pow2[h] \in Nat /\ pow2[h + 1] = 2 * pow2[h]
      BY Powers
    <3>2. /\ i * (2 * pow2[h]) = (2 * i) * pow2[h]
          /\ (2 * i + 1) * pow2[h] = (2 * i) * pow2[h] + pow2[h]
          /\ (2 * i) * pow2[h] \in Nat
      BY <3>1
    <3>3. start <= (2 * i) * pow2[h] /\ start <= (2 * i + 1) * pow2[h]
      BY <2>1, <3>1, <3>2
    <3>4. 2 * i \in Nat /\ 2 * i + 1 \in Nat
      OBVIOUS
    <3>5. Layers(input)[h][2 * i] = zeroTree[h] /\ Layers(input)[h][2 * i + 1] = zeroTree[h]
      BY <2>0, <3>3, <3>4
    <3>6. Layers(input)[h + 1][i] = Pair(Layers(input)[h][2 * i], Layers(input)[h][2 * i + 1])
      BY LayersUnfold
    <3>7. zeroTree[h + 1] = Pair(zeroTree[h], zeroTree[h])
      BY ZeroTreeUnfolds
    <3>. QED
      BY <3>5, <3>6, <3>7
  <2>. QED
    BY <2>1
<1>3. Nat \subseteq S
  <2> HIDE DEF S
  <2>. QED
    BY <1>1, <1>2, FromZeroUp
<1>. QED
  BY <1>3

LEMMA BeyondData ==
  ASSUME NEW input, Len(input) \in Nat, NEW h \in Nat, NEW i \in Nat, Len(input) <= i * pow2[h]
  PROVE  Layers(input)[h][i] = zeroTree[h]
<1>1. ZeroFrom(input, Len(input))
  BY DEF ZeroFrom, Leaf
<1>. QED
  BY <1>1, ZeroLayers

(* Where the nodes of a layer are alike, so are the nodes of the next. *)
LEMMA PaddedAt ==
  ASSUME NEW input, NEW d \in Nat
  PROVE  PaddedRoot(input, pow2[d]) = Layers(input)[d][0]
BY DepthOfPower DEF PaddedRoot

---------------------------------------------------------------------------
(* The inductive invariant: at each moment of the walk, and of the climb    *)
(* after it, what is held is a layer of the padded tree.                    *)

Given ==
  /\ chunks \in Seq({chunks[i] : i \in DOMAIN chunks})
  /\ limit = Unlimited \/ limit \in Int

Accepted == phase \in {"walking", "climbing", "returned"} => ~ Overfull

Walked(h) ==
  /\ size = pow2[h] /\ size <= DataWidth
  /\ level \in Seq({level[i] : i \in DOMAIN level})
  /\ 1 <= Len(level)
  /\ (Len(level) - 1) * size < Len(chunks) /\ Len(chunks) <= Len(level) * size
  /\ \A i \in 1..Len(level) : level[i] = Layers(chunks)[h][i - 1]

(* Below the width of the data, the layer is of equal nodes. *)
Climbed(h) ==
  /\ size = pow2[h] /\ size <= Width
  /\ level[1] = Layers(chunks)[h][0]
  /\ size < DataWidth =>
       \A i \in Nat : i * size < DataWidth => Layers(chunks)[h][i] = level[1]

IInv ==
  /\ Given
  /\ Accepted
  /\ phase = "walking" => \E h \in Nat : Walked(h)
  /\ phase = "climbing" => \E h \in Nat : Climbed(h)
  /\ RootIsThePaddedTree

LEMMA Widths ==
  ASSUME Given, ~ Overfull
  PROVE  /\ Len(chunks) \in Nat /\ DOMAIN chunks = 1..Len(chunks)
         /\ limit # Unlimited => 0 <= limit /\ Len(chunks) <= limit
         /\ Len(chunks) <= DataWidth /\ DataWidth <= Width
         /\ \E d \in Nat : DataWidth = pow2[d] /\ (d # 0 => pow2[d - 1] < Len(chunks))
         /\ \E w \in Nat : Width = pow2[w]
<1>1. Len(chunks) \in Nat /\ DOMAIN chunks = 1..Len(chunks)
  BY LenProperties DEF Given
<1>2. limit # Unlimited => limit \in Int /\ 0 <= limit /\ Len(chunks) <= limit
  BY <1>1 DEF Given, Overfull
<1> DEFINE bound == IF limit = Unlimited THEN Len(chunks) ELSE limit
<1>3. bound \in Int /\ Len(chunks) <= bound /\ Width = NextPow2(bound)
  BY <1>1, <1>2 DEF Width
<1> HIDE DEF bound
<1>4. DataWidth <= Width
  BY <1>1, <1>3, RoundedUpMore DEF DataWidth
<1>5. \E w \in Nat : Width = pow2[w]
  BY <1>3, RoundedUp
<1>6. \E d \in Nat : /\ DataWidth = pow2[d] /\ Len(chunks) <= pow2[d]
                     /\ d # 0 => pow2[d - 1] < Len(chunks)
  BY <1>1, RoundedUp DEF DataWidth
<1>. QED
  BY <1>1, <1>2, <1>4, <1>5, <1>6

LEMMA SequenceOf ==
  ASSUME NEW n \in Nat, NEW f, f = [i \in 1..n |-> f[i]]
  PROVE  f \in Seq({f[i] : i \in DOMAIN f}) /\ Len(f) = n
<1> DEFINE T == {f[i] : i \in DOMAIN f}
<1>1. DOMAIN f = 1..n
  BY Zenon
<1>2. f \in [1..n -> T]
  BY <1>1, Zenon
<1>3. f \in Seq(T)
  <2> HIDE DEF T
  <2>. QED
    BY <1>2, SeqDef
<1>4. Len(f) \in Nat /\ DOMAIN f = 1..Len(f)
  <2> HIDE DEF T
  <2>. QED
    BY <1>3, LenProperties
<1>. QED
  BY <1>1, <1>3, <1>4

---------------------------------------------------------------------------
(* What each step does to it. *)

LEMMA InitHolds == Init => IInv
BY EmptySeq DEF Init, IInv, Given, Accepted, RootIsThePaddedTree

LEMMA MerkleizeKeeps == IInv /\ Merkleize => IInv'
<1> SUFFICES ASSUME IInv, Merkleize
             PROVE  IInv'
  OBVIOUS
<1>1. Given'
  BY InputsAssumption DEF Merkleize, Given
<1>. QED
  BY <1>1 DEF Merkleize, IInv, Accepted, RootIsThePaddedTree

(* An answer given at once is right if it is the root of the padded tree. *)
LEMMA AnswerKeeps ==
  ASSUME IInv, Admitted, NEW root, Answer(root), root = PaddedRoot(chunks, Width)
  PROVE  IInv'
<1>1. ~ Overfull
  BY DEF Admitted
<1>2. limit # Unlimited => 0 <= limit /\ Len(chunks) <= limit
  BY <1>1, Widths DEF IInv
<1>3. level'[1] = root /\ phase' = "returned" /\ chunks' = chunks /\ limit' = limit
  BY DEF Answer
<1>. QED
  BY <1>1, <1>2, <1>3 DEF IInv, Given, Accepted, Overfull, RootIsThePaddedTree, Width

LEMMA ZeroTreeIsPadded ==
  ASSUME IInv, Admitted, ZeroFrom(chunks, 0)
  PROVE  ZeroTreeRoot(Width) = PaddedRoot(chunks, Width)
<1>1. ~ Overfull /\ Given
  BY DEF Admitted, IInv
<1>2. PICK w \in Nat : Width = pow2[w]
  BY <1>1, Widths
<1>3. 0 <= 0 * pow2[w]
  BY <1>2, Powers
<1>4. Layers(chunks)[w][0] = zeroTree[w]
  BY <1>3, ZeroLayers
<1>. QED
  BY <1>2, <1>4, ZeroRoots, PaddedAt

LEMMA RootNothingKeeps == IInv /\ RootNothing => IInv'
<1> SUFFICES ASSUME IInv, RootNothing
             PROVE  IInv'
  OBVIOUS
<1>1. Admitted /\ chunks = <<>> /\ Answer(ZeroTreeRoot(Width))
  BY DEF RootNothing
<1>2. ZeroFrom(chunks, 0)
  BY <1>1, EmptySeq DEF ZeroFrom, Leaf
<1>. QED
  BY <1>1, <1>2, ZeroTreeIsPadded, AnswerKeeps

LEMMA RootOneLeafKeeps == IInv /\ RootOneLeaf => IInv'
<1> SUFFICES ASSUME IInv, RootOneLeaf
             PROVE  IInv'
  OBVIOUS
<1>1. Admitted /\ chunks # <<>> /\ Width = 1 /\ Answer(chunks[1])
  BY DEF RootOneLeaf
<1>2. 0 < Len(chunks)
  BY <1>1, EmptySeq DEF IInv, Given
<1>3. Layers(chunks)[0][0] = chunks[1]
  BY <1>2, LayersUnfold DEF Leaf
<1>4. PaddedRoot(chunks, Width) = chunks[1]
  BY <1>1, <1>3, Powers, PaddedAt
<1>. QED
  BY <1>1, <1>4, AnswerKeeps

LEMMA RootZerosKeeps == IInv /\ RootZeros => IInv'
<1> SUFFICES ASSUME IInv, RootZeros
             PROVE  IInv'
  OBVIOUS
<1>1. Admitted /\ AllZero /\ Answer(ZeroTreeRoot(Width))
  BY DEF RootZeros
<1>2. ZeroFrom(chunks, 0)
  <2>1. DOMAIN chunks = 1..Len(chunks) /\ Len(chunks) \in Nat
    BY <1>1, Widths DEF IInv, Admitted
  <2>. QED
    BY <1>1, <2>1 DEF ZeroFrom, Leaf, AllZero
<1>. QED
  BY <1>1, <1>2, ZeroTreeIsPadded, AnswerKeeps

LEMMA BeginWalkKeeps == IInv /\ BeginWalk => IInv'
<1> SUFFICES ASSUME IInv, BeginWalk
             PROVE  IInv'
  OBVIOUS
<1>1. /\ ~ Overfull /\ Given /\ chunks # <<>>
      /\ phase' = "walking" /\ level' = chunks /\ size' = 1
      /\ chunks' = chunks /\ limit' = limit
  BY DEF BeginWalk, Admitted, IInv
<1>2. Given' /\ Accepted'
  BY <1>1 DEF Given, Accepted, Overfull
<1>3. Len(chunks) \in Nat /\ 1 <= Len(chunks)
  BY <1>1, EmptySeq, LenProperties DEF Given
<1>4. DataWidth' = DataWidth /\ Len(chunks) <= DataWidth /\ DataWidth \in Nat
  <2>1. \E d \in Nat : DataWidth = pow2[d]
    BY <1>1, Widths
  <2>2. DataWidth \in Nat
    BY <2>1, Powers
  <2>. QED
    BY <1>1, <2>2, Widths DEF DataWidth
<1>5. \A i \in 1..Len(chunks) : chunks[i] = Layers(chunks)[0][i - 1]
  <2> SUFFICES ASSUME NEW i \in 1..Len(chunks)
               PROVE  chunks[i] = Layers(chunks)[0][i - 1]
    OBVIOUS
  <2>1. i - 1 \in Nat /\ i - 1 < Len(chunks) /\ (i - 1) + 1 = i
    BY <1>3
  <2>. QED
    BY <2>1, LayersUnfold DEF Leaf
<1>6. Walked(0)'
  <2>1. level' \in Seq({level'[i] : i \in DOMAIN level'})
    BY <1>1 DEF Given
  <2>2. size' = pow2[0] /\ size' <= DataWidth'
    BY <1>1, <1>3, <1>4, Powers
  <2>3. /\ 1 <= Len(level') /\ (Len(level') - 1) * size' < Len(chunks')
        /\ Len(chunks') <= Len(level') * size'
    BY <1>1, <1>3
  <2>4. \A i \in 1..Len(level') : level'[i] = Layers(chunks')[0][i - 1]
    BY <1>1, <1>5
  <2>. QED
    BY <2>1, <2>2, <2>3, <2>4 DEF Walked
<1>. QED
  BY <1>1, <1>2, <1>6 DEF IInv, RootIsThePaddedTree

LEMMA PairLevelKeeps == IInv /\ PairLevel => IInv'
<1> SUFFICES ASSUME IInv, PairLevel
             PROVE  IInv'
  OBVIOUS
<1>1. /\ phase = "walking" /\ ~ Overfull /\ Given /\ Len(level) > 1
      /\ phase' = phase /\ chunks' = chunks /\ limit' = limit /\ size' = 2 * size
  BY DEF PairLevel, IInv, Accepted
<1>2. PICK h \in Nat : Walked(h)
  BY <1>1 DEF IInv
<1>3. PICK d \in Nat : DataWidth = pow2[d]
  BY <1>1, Widths
<1> DEFINE T == {level[i] : i \in DOMAIN level}
           n == Len(level)
           z == ZeroTreeRoot(size)
           full == IF n % 2 = 1 THEN Append(level, z) ELSE level
           m == Len(full) \div 2
<1>4. /\ size = pow2[h] /\ size \in Nat \ {0} /\ size <= DataWidth
      /\ n \in Nat /\ 1 < n /\ DOMAIN level = 1..n /\ level \in Seq(T)
      /\ (n - 1) * size < Len(chunks) /\ Len(chunks) <= n * size
      /\ \A i \in 1..n : level[i] = Layers(chunks)[h][i - 1]
      /\ Len(chunks) \in Nat /\ Len(chunks) <= DataWidth
  BY <1>1, <1>2, Widths, Powers, LenProperties DEF Walked
<1>5. z = zeroTree[h]
  BY <1>4, ZeroRoots
<1>6. /\ Len(full) = IF n % 2 = 1 THEN n + 1 ELSE n
      /\ \A i \in 1..n : full[i] = level[i]
      /\ n % 2 = 1 => full[n + 1] = z
  <2>1. level \in Seq(T \cup {z})
    <3> HIDE DEF T, z
    <3>. QED
      BY <1>4
  <2> HIDE DEF T, z
  <2>. QED
    BY <1>4, <2>1, AppendProperties
<1>7. level' = [i \in 1..m |-> Pair(full[2 * i - 1], full[2 * i])]
  BY DEF PairLevel
<1> HIDE DEF T, z, full
<1>8. m \in Nat /\ 2 * m = Len(full) /\ 1 <= m /\ n <= 2 * m /\ 2 * m <= n + 1
  <2>1. n \in Nat /\ 1 < n /\ Len(full) = IF n % 2 = 1 THEN n + 1 ELSE n
    BY <1>4, <1>6
  <2> HIDE DEF n
  <2>2. CASE n % 2 = 1
    BY <2>1, <2>2
  <2>3. CASE n % 2 # 1
    BY <2>1, <2>3
  <2>. QED
    BY <2>2, <2>3
<1> HIDE DEF m, n
<1>9. \A j \in Nat : j < 2 * m => full[j + 1] = Layers(chunks)[h][j]
  <2> SUFFICES ASSUME NEW j \in Nat, j < 2 * m
               PROVE  full[j + 1] = Layers(chunks)[h][j]
    OBVIOUS
  <2>1. CASE j < n
    <3>1. j + 1 \in 1..n /\ (j + 1) - 1 = j
      BY <1>4, <2>1
    <3>. QED
      BY <1>4, <1>6, <3>1
  <2>2. CASE ~ (j < n)
    <3>1. j = n /\ n % 2 = 1
      BY <1>4, <1>6, <1>8, <2>2
    <3>2. Len(chunks) <= j * pow2[h]
      BY <1>4, <3>1
    <3>3. Layers(chunks)[h][j] = zeroTree[h]
      BY <1>4, <3>2, BeyondData
    <3>. QED
      BY <1>5, <1>6, <3>1, <3>3
  <2>. QED
    BY <2>1, <2>2
<1>10. Len(level') = m /\ level' \in Seq({level'[i] : i \in DOMAIN level'})
  <2>1. level' = [i \in 1..m |-> level'[i]]
    BY <1>7
  <2>. QED
    BY <1>8, <2>1, SequenceOf
<1>11. \A i \in 1..m : level'[i] = Layers(chunks)[h + 1][i - 1]
  <2> SUFFICES ASSUME NEW i \in 1..m
               PROVE  level'[i] = Layers(chunks)[h + 1][i - 1]
    OBVIOUS
  <2>1. PICK j \in Nat : i = j + 1
    <3>1. i - 1 \in Nat /\ i = (i - 1) + 1
      OBVIOUS
    <3>. QED
      BY <3>1
  <2>2. 2 * j \in Nat /\ 2 * j + 1 \in Nat /\ 2 * j < 2 * m /\ 2 * j + 1 < 2 * m
    BY <1>8, <2>1
  <2>3. full[2 * j + 1] = Layers(chunks)[h][2 * j]
    BY <1>9, <2>2
  <2>4. full[(2 * j + 1) + 1] = Layers(chunks)[h][2 * j + 1]
    BY <1>9, <2>2
  <2>5. 2 * i - 1 = 2 * j + 1 /\ 2 * i = (2 * j + 1) + 1 /\ i - 1 = j
    BY <2>1
  <2>6. level'[i] = Pair(full[2 * i - 1], full[2 * i])
    BY <1>7
  <2>7. level'[i] = Pair(Layers(chunks)[h][2 * j], Layers(chunks)[h][2 * j + 1])
    BY <2>3, <2>4, <2>5, <2>6
  <2>. QED
    BY <2>5, <2>7, LayersUnfold
<1>12. (m - 1) * size' < Len(chunks) /\ Len(chunks) <= m * size'
  <2>1. m * (2 * size) = (2 * m) * size /\ (m - 1) * (2 * size) = (2 * m - 2) * size
    <3>1. m \in Int /\ size \in Int
      BY <1>4, <1>8
    <3>2. m * (2 * size) = (2 * m) * size
      BY <3>1
    <3>3. (m - 1) * (2 * size) = (2 * m - 2) * size
      BY <3>1
    <3>. QED
      BY <3>2, <3>3
  <2>0. n \in Int /\ 2 * m \in Int /\ n <= 2 * m
    BY <1>4, <1>8
  <2>2. n * size <= (2 * m) * size /\ n * size \in Int /\ (2 * m) * size \in Int
    BY <1>4, <2>0, MoreTimes
  <2>3. 2 * m - 2 \in Int /\ n - 1 \in Int /\ 2 * m - 2 <= n - 1
    BY <1>4, <1>8
  <2>4. /\ (2 * m - 2) * size <= (n - 1) * size
        /\ (2 * m - 2) * size \in Int /\ (n - 1) * size \in Int
    BY <1>4, <2>3, MoreTimes
  <2>5. Len(chunks) <= (2 * m) * size
    BY <1>4, <2>2
  <2>6. (2 * m - 2) * size < Len(chunks)
    BY <1>4, <2>4
  <2>. QED
    BY <1>1, <2>1, <2>5, <2>6
<1>13. size' = pow2[h + 1] /\ size' <= DataWidth
  <2>1. n - 1 \in Int /\ 1 <= n - 1
    BY <1>4
  <2>2. 1 * size <= (n - 1) * size /\ (n - 1) * size \in Int /\ 1 * size = size
    BY <1>4, <2>1, MoreTimes
  <2>3. DataWidth \in Nat
    BY <1>3, Powers
  <2>4. size < DataWidth
    BY <1>4, <2>2, <2>3
  <2>5. h + 1 \in Nat /\ h + 1 <= d
    BY <1>3, <1>4, <2>4, PowersRise
  <2>6. size' = pow2[h + 1]
    BY <1>1, <1>4, Powers
  <2>. QED
    BY <1>3, <2>5, <2>6, PowersRise
<1>14. Walked(h + 1)'
  <2>1. DataWidth' = DataWidth
    BY <1>1 DEF DataWidth
  <2>. QED
    BY <1>1, <1>8, <1>10, <1>11, <1>12, <1>13, <2>1 DEF Walked
<1>15. Given' /\ Accepted' /\ h + 1 \in Nat
  BY <1>1 DEF Given, Accepted, Overfull
<1>. QED
  BY <1>1, <1>14, <1>15 DEF IInv, RootIsThePaddedTree

LEMMA EndWalkKeeps == IInv /\ EndWalk => IInv'
<1> SUFFICES ASSUME IInv, EndWalk
             PROVE  IInv'
  OBVIOUS
<1>1. /\ phase = "walking" /\ ~ Overfull /\ Given /\ (Len(level) = 1 \/ Foldable)
      /\ phase' = "climbing" /\ level' = <<level[1]>>
      /\ chunks' = chunks /\ limit' = limit /\ size' = size
  BY DEF EndWalk, IInv, Accepted
<1>2. PICK h \in Nat : Walked(h)
  BY <1>1 DEF IInv
<1>3. PICK d \in Nat : DataWidth = pow2[d] /\ (d # 0 => pow2[d - 1] < Len(chunks))
  BY <1>1, Widths
<1>4. PICK w \in Nat : Width = pow2[w]
  BY <1>1, Widths
<1>5. /\ size = pow2[h] /\ size \in Nat \ {0} /\ size <= DataWidth
      /\ Len(level) \in Nat /\ 1 <= Len(level)
      /\ Len(chunks) \in Nat /\ Len(chunks) <= Len(level) * size
      /\ \A i \in 1..Len(level) : level[i] = Layers(chunks)[h][i - 1]
      /\ DataWidth \in Nat /\ Width \in Nat /\ DataWidth <= Width
  BY <1>1, <1>2, <1>3, <1>4, Widths, Powers, LenProperties DEF Walked
<1>6. level'[1] = level[1] /\ level[1] = Layers(chunks)[h][0]
  BY <1>1, <1>5
<1>7. ASSUME size < DataWidth, NEW i \in Nat, i * size < DataWidth
      PROVE  Layers(chunks)[h][i] = level[1]
  <2>1. CASE Len(level) = 1
    <3>1. Len(chunks) <= pow2[h]
      BY <1>5, <2>1
    <3>2. h < d
      BY <1>3, <1>5, <1>7, PowersRise
    <3>3. d # 0 /\ d - 1 \in Nat /\ h <= d - 1
      BY <3>2
    <3>4. pow2[h] <= pow2[d - 1] /\ pow2[d - 1] \in Nat
      BY <3>3, PowersRise, Powers
    <3>. QED
      BY <1>3, <1>5, <3>1, <3>3, <3>4
  <2>2. CASE Foldable
    <3>1. Len(level) * size = DataWidth /\ \A k \in DOMAIN level : level[k] = level[1]
      BY <2>2 DEF Foldable
    <3>2. i < Len(level)
      <4> SUFFICES ASSUME Len(level) <= i
                   PROVE  FALSE
        BY <1>5
      <4>1. Len(level) * size <= i * size /\ i * size \in Int
        BY <1>5, MoreTimes
      <4>. QED
        BY <1>5, <1>7, <3>1, <4>1
    <3>3. i + 1 \in 1..Len(level) /\ (i + 1) - 1 = i
      BY <1>5, <3>2
    <3>4. i + 1 \in DOMAIN level
      BY <1>2, <3>3, LenProperties DEF Walked
    <3>. QED
      BY <1>5, <3>1, <3>3, <3>4
  <2>. QED
    BY <1>1, <2>1, <2>2
<1>8. Climbed(h)'
  <2>1. DataWidth' = DataWidth /\ Width' = Width
    BY <1>1 DEF DataWidth, Width
  <2>2. size <= Width
    BY <1>5
  <2>. QED
    BY <1>1, <1>5, <1>6, <1>7, <2>1, <2>2 DEF Climbed
<1>9. Given' /\ Accepted'
  BY <1>1 DEF Given, Accepted, Overfull
<1>. QED
  BY <1>1, <1>8, <1>9 DEF IInv, RootIsThePaddedTree

(* Two of what lies below the width lie below it: the width is a power. *)
LEMMA BothBelow ==
  ASSUME NEW h \in Nat, NEW d \in Nat, NEW i \in Nat, i * pow2[h + 1] < pow2[d], pow2[h] < pow2[d]
  PROVE  (2 * i) * pow2[h] < pow2[d] /\ (2 * i + 1) * pow2[h] < pow2[d]
<1>1. h + 1 \in Nat /\ h + 1 <= d
  BY PowersRise
<1>2. d - (h + 1) \in Nat /\ pow2[d] = pow2[h + 1] * pow2[d - (h + 1)]
  BY <1>1, PowersAdd
<1> DEFINE p == pow2[h + 1]
           q == pow2[d - (h + 1)]
           r == pow2[h]
<1>3. p \in Nat /\ q \in Nat /\ r \in Nat /\ p = 2 * r /\ r # 0 /\ pow2[d] = p * q /\ i * p < p * q
  BY <1>1, <1>2, Powers
<1> HIDE DEF p, q, r
<1>4. p * q = q * p /\ q * p \in Int /\ i * p \in Int
  BY <1>3
<1>5. i + 1 <= q
  <2> SUFFICES ASSUME q <= i
               PROVE  FALSE
    BY <1>3
  <2>1. q * p <= i * p
    BY <1>3, MoreTimes
  <2>. QED
    BY <1>3, <1>4, <2>1
<1>6. (i + 1) * p <= q * p
  BY <1>3, <1>5, MoreTimes
<1>7. (i + 1) * p = (2 * i) * r + 2 * r /\ (2 * i + 1) * r = (2 * i) * r + r
  BY <1>3
<1>8. (2 * i) * r \in Int
  BY <1>3
<1>9. (2 * i) * r < p * q /\ (2 * i + 1) * r < p * q
  BY <1>3, <1>4, <1>6, <1>7, <1>8
<1>. QED
  BY <1>3, <1>9 DEF r

LEMMA ClimbDataKeeps == IInv /\ ClimbData => IInv'
<1> SUFFICES ASSUME IInv, ClimbData
             PROVE  IInv'
  OBVIOUS
<1>1. /\ phase = "climbing" /\ ~ Overfull /\ Given /\ size < DataWidth
      /\ phase' = phase /\ level' = <<Pair(level[1], level[1])>> /\ size' = 2 * size
      /\ chunks' = chunks /\ limit' = limit
  BY DEF ClimbData, IInv, Accepted
<1>2. PICK h \in Nat : Climbed(h)
  BY <1>1 DEF IInv
<1>3. PICK d \in Nat : DataWidth = pow2[d]
  BY <1>1, Widths
<1>4. PICK w \in Nat : Width = pow2[w]
  BY <1>1, Widths
<1>5. /\ size = pow2[h] /\ pow2[h] \in Nat \ {0} /\ pow2[h] < pow2[d]
      /\ level[1] = Layers(chunks)[h][0]
      /\ \A i \in Nat : i * pow2[h] < pow2[d] => Layers(chunks)[h][i] = level[1]
      /\ pow2[d] \in Nat /\ pow2[w] \in Nat /\ pow2[d] <= pow2[w]
  BY <1>1, <1>2, <1>3, <1>4, Widths, Powers DEF Climbed
<1>6. h + 1 \in Nat /\ h + 1 <= d /\ size' = pow2[h + 1] /\ pow2[h + 1] \in Nat
  BY <1>1, <1>5, PowersRise, Powers
<1>7. size' <= Width
  <2>1. pow2[h + 1] <= pow2[d]
    BY <1>6, PowersRise
  <2>. QED
    BY <1>4, <1>5, <1>6, <2>1
<1>8. ASSUME NEW i \in Nat, i * pow2[h + 1] < pow2[d]
      PROVE  Layers(chunks)[h + 1][i] = Pair(level[1], level[1])
  <2>1. (2 * i) * pow2[h] < pow2[d] /\ (2 * i + 1) * pow2[h] < pow2[d]
    BY <1>5, <1>8, BothBelow
  <2>2. 2 * i \in Nat /\ 2 * i + 1 \in Nat
    OBVIOUS
  <2>3. Layers(chunks)[h][2 * i] = level[1] /\ Layers(chunks)[h][2 * i + 1] = level[1]
    BY <1>5, <2>1, <2>2
  <2>4. Layers(chunks)[h + 1][i] = Pair(Layers(chunks)[h][2 * i], Layers(chunks)[h][2 * i + 1])
    BY LayersUnfold
  <2>. QED
    BY <2>3, <2>4
<1>9. level'[1] = Pair(level[1], level[1])
  BY <1>1
<1>10. Layers(chunks)[h + 1][0] = level'[1]
  <2>1. 0 * pow2[h + 1] < pow2[d]
    BY <1>5, <1>6
  <2>. QED
    BY <1>8, <1>9, <2>1
<1>11. Climbed(h + 1)'
  <2>1. DataWidth' = DataWidth /\ Width' = Width
    BY <1>1 DEF DataWidth, Width
  <2>2. \A i \in Nat : i * size' < DataWidth => Layers(chunks)[h + 1][i] = level'[1]
    BY <1>3, <1>6, <1>8, <1>9
  <2>. QED
    BY <1>1, <1>6, <1>7, <1>10, <2>1, <2>2 DEF Climbed
<1>12. Given' /\ Accepted'
  BY <1>1 DEF Given, Accepted, Overfull
<1>. QED
  BY <1>1, <1>6, <1>11, <1>12 DEF IInv, RootIsThePaddedTree

LEMMA ClimbWidthKeeps == IInv /\ ClimbWidth => IInv'
<1> SUFFICES ASSUME IInv, ClimbWidth
             PROVE  IInv'
  OBVIOUS
<1>1. /\ phase = "climbing" /\ ~ Overfull /\ Given /\ size >= DataWidth /\ size < Width
      /\ phase' = phase /\ level' = <<Pair(level[1], ZeroTreeRoot(size))>> /\ size' = 2 * size
      /\ chunks' = chunks /\ limit' = limit
  BY DEF ClimbWidth, IInv, Accepted
<1>2. PICK h \in Nat : Climbed(h)
  BY <1>1 DEF IInv
<1>3. PICK w \in Nat : Width = pow2[w]
  BY <1>1, Widths
<1>4. PICK d \in Nat : DataWidth = pow2[d]
  BY <1>1, Widths
<1>5. /\ size = pow2[h] /\ pow2[h] \in Nat \ {0} /\ pow2[h] < pow2[w]
      /\ level[1] = Layers(chunks)[h][0]
      /\ pow2[d] \in Nat /\ pow2[d] <= pow2[h]
      /\ Len(chunks) \in Nat /\ Len(chunks) <= pow2[d]
  BY <1>1, <1>2, <1>3, <1>4, Widths, Powers DEF Climbed
<1>6. h + 1 \in Nat /\ h + 1 <= w /\ size' = pow2[h + 1] /\ pow2[h + 1] = 2 * pow2[h]
  <2>1. h < w
    BY <1>5, PowersRise
  <2>2. pow2[h + 1] = 2 * pow2[h]
    BY Powers
  <2>. QED
    BY <1>1, <1>5, <2>1, <2>2
<1>7. Layers(chunks)[h][1] = ZeroTreeRoot(size)
  <2>1. Len(chunks) <= 1 * pow2[h]
    BY <1>5
  <2>2. Layers(chunks)[h][1] = zeroTree[h]
    BY <1>5, <2>1, BeyondData
  <2>. QED
    BY <1>5, <2>2, ZeroRoots
<1>8. level'[1] = Layers(chunks)[h + 1][0]
  <2>1. Layers(chunks)[h + 1][0] = Pair(Layers(chunks)[h][2 * 0], Layers(chunks)[h][2 * 0 + 1])
    BY LayersUnfold
  <2>2. 2 * 0 = 0 /\ 2 * 0 + 1 = 1
    OBVIOUS
  <2>3. level'[1] = Pair(level[1], ZeroTreeRoot(size))
    BY <1>1
  <2>. QED
    BY <1>5, <1>7, <2>1, <2>2, <2>3
<1>9. Climbed(h + 1)'
  <2>1. DataWidth' = DataWidth /\ Width' = Width
    BY <1>1 DEF DataWidth, Width
  <2>2. size' <= Width /\ ~ (size' < DataWidth)
    <3>1. pow2[h + 1] <= pow2[w]
      BY <1>6, PowersRise
    <3>. QED
      BY <1>3, <1>4, <1>5, <1>6, <3>1
  <2>. QED
    BY <1>1, <1>6, <1>8, <2>1, <2>2 DEF Climbed
<1>10. Given' /\ Accepted'
  BY <1>1 DEF Given, Accepted, Overfull
<1>. QED
  BY <1>1, <1>6, <1>9, <1>10 DEF IInv, RootIsThePaddedTree

LEMMA ReturnKeeps == IInv /\ Return => IInv'
<1> SUFFICES ASSUME IInv, Return
             PROVE  IInv'
  OBVIOUS
<1>1. /\ phase = "climbing" /\ ~ Overfull /\ Given /\ size >= Width
      /\ phase' = "returned" /\ level' = level /\ size' = size
      /\ chunks' = chunks /\ limit' = limit
  BY DEF Return, IInv, Accepted
<1>2. PICK h \in Nat : Climbed(h)
  BY <1>1 DEF IInv
<1>3. Width = pow2[h]
  <2>1. PICK w \in Nat : Width = pow2[w]
    BY <1>1, Widths
  <2>2. size = pow2[h] /\ size <= Width
    BY <1>2 DEF Climbed
  <2>3. pow2[h] \in Nat /\ pow2[w] \in Nat
    BY Powers
  <2>. QED
    BY <1>1, <2>1, <2>2, <2>3
<1>4. level[1] = PaddedRoot(chunks, Width)
  BY <1>2, <1>3, PaddedAt DEF Climbed
<1>5. limit # Unlimited => 0 <= limit /\ Len(chunks) <= limit
  BY <1>1, Widths
<1>6. Width' = Width /\ Given' /\ Accepted'
  BY <1>1 DEF Width, Given, Accepted, Overfull
<1>. QED
  BY <1>1, <1>4, <1>5, <1>6 DEF IInv, RootIsThePaddedTree

LEMMA RefuseKeeps == IInv /\ Refuse => IInv'
BY DEF Refuse, IInv, Given, Accepted, RootIsThePaddedTree

LEMMA StutterKeeps == IInv /\ UNCHANGED vars => IInv'
<1> SUFFICES ASSUME IInv, UNCHANGED vars
             PROVE  IInv'
  OBVIOUS
<1>1. phase' = phase /\ chunks' = chunks /\ limit' = limit /\ level' = level /\ size' = size
  BY DEF vars
<1>2. DataWidth' = DataWidth /\ Width' = Width
  BY <1>1 DEF DataWidth, Width
<1>3. \A h \in Nat : (Walked(h) => Walked(h)') /\ (Climbed(h) => Climbed(h)')
  BY <1>1, <1>2 DEF Walked, Climbed
<1>4. Given' /\ Accepted' /\ RootIsThePaddedTree'
  BY <1>1, <1>2 DEF IInv, Given, Accepted, Overfull, RootIsThePaddedTree
<1>. QED
  BY <1>1, <1>3, <1>4 DEF IInv

LEMMA StepKeeps == IInv /\ [Next]_vars => IInv'
BY MerkleizeKeeps, RefuseKeeps, RootNothingKeeps, RootOneLeafKeeps, RootZerosKeeps,
   BeginWalkKeeps, PairLevelKeeps, EndWalkKeeps, ClimbDataKeeps, ClimbWidthKeeps,
   ReturnKeeps, StutterKeeps
   DEF Next, Step

LEMMA InvariantHolds == Spec => []IInv
BY InitHolds, StepKeeps, PTL DEF Spec

(* Whatever shortcuts merkleize takes (trees.py:43-116), for any chunks and  *)
(* any capacity: the root is that of the padded tree.                       *)
THEOREM MerkleizeTheorem == Spec => []RootIsThePaddedTree
<1>1. IInv => RootIsThePaddedTree
  BY DEF IInv
<1>. QED
  BY <1>1, InvariantHolds, PTL

---------------------------------------------------------------------------
Chunks == UNION {Data[i] : i \in 1..MaxChunks}

---------------------------------------------------------------------------
(* The inductive invariant. *)

(* merkleize goes on with what it may root, and refuses nothing else. *)
Judged ==
  /\ phase \in {"walking", "climbing", "returned"} => ~ Misfit
  /\ phase = "refused" => Misfit \/ Overfull

SpineTypes ==
  /\ collection \in Seq(Chunks)
  /\ rest \in Seq(Chunks)
  /\ \E k \in Nat : capacity = pow2[k]

(* What runs on the way down is a call for the level that is reached. *)
OfTheLevel ==
  stage = "opening" /\ phase # "idle" =>
    /\ rest # <<>>
    /\ chunks = Slice(rest, 0, capacity)
    /\ limit = capacity

TInv ==
  /\ IInv
  /\ Judged
  /\ SpineTypes
  /\ OfTheLevel

LEMMA SamePadding ==
  ASSUME NEW input, NEW width
  PROVE  Spine!PaddedRoot(input, width) = PaddedRoot(input, width)
BY DEF Spine!PaddedRoot, PaddedRoot, Spine!Layers, Layers, Spine!Above, Above, Spine!Leaf, Leaf,
       Spine!Pair, Pair, Spine!DepthOf, DepthOf, Spine!pow2, pow2

LEMMA SameSlice ==
  ASSUME NEW seq, NEW start, NEW stop
  PROVE  Spine!Slice(seq, start, stop) = Slice(seq, start, stop)
BY DEF Spine!Slice, Slice

(* A slice of chunks is of chunks, and its length is no more than it asks. *)
LEMMA Sliced ==
  ASSUME NEW seq \in Seq(Chunks), NEW start \in Nat, NEW stop \in Int
  PROVE  /\ Slice(seq, start, stop) \in Seq(Chunks)
         /\ start <= stop => Len(Slice(seq, start, stop)) <= stop - start
<1> DEFINE last == IF stop < Len(seq) THEN stop ELSE Len(seq)
<1>1. Len(seq) \in Nat /\ \A i \in 1..Len(seq) : seq[i] \in Chunks
  <2> HIDE DEF Chunks
  <2>. QED
    BY LenProperties
<1>2. last \in Int /\ last <= Len(seq) /\ last <= stop
  BY <1>1
<1>3. Slice(seq, start, stop) = SubSeq(seq, start + 1, last)
  BY DEF Slice
<1> HIDE DEF last, Chunks
<1>4. \A i \in (start + 1)..last : seq[i] \in Chunks
  BY <1>1, <1>2
<1>5. /\ SubSeq(seq, start + 1, last) \in Seq(Chunks)
      /\ Len(SubSeq(seq, start + 1, last)) =
           IF start + 1 <= last THEN last - (start + 1) + 1 ELSE 0
  BY <1>2, <1>4, SubSeqProperties
<1>. QED
  BY <1>2, <1>3, <1>5

LEMMA PowersStay ==
  ASSUME NEW k \in Nat
  PROVE  NextPow2(pow2[k]) = pow2[k]
<1>1. pow2[k] \in Int
  BY Powers
<1>2. PICK b \in Nat : /\ NextPow2(pow2[k]) = pow2[b] /\ pow2[k] <= pow2[b]
                       /\ b # 0 => pow2[b - 1] < pow2[k]
  BY <1>1, RoundedUp
<1>3. k <= b
  BY <1>2, PowersRise
<1>4. CASE k < b
  <2>1. b # 0 /\ b - 1 \in Nat /\ k <= b - 1
    BY <1>4
  <2>2. pow2[k] <= pow2[b - 1] /\ pow2[b - 1] \in Int
    BY <2>1, PowersRise, Powers
  <2>. QED
    BY <1>1, <1>2, <2>1, <2>2
<1>. QED
  BY <1>2, <1>3, <1>4

LEMMA OwnRange ==
  ASSUME NEW S, NEW s \in Seq(S)
  PROVE  s \in Seq({s[i] : i \in DOMAIN s})
<1>1. Len(s) \in Nat /\ s = [i \in 1..Len(s) |-> s[i]]
  BY LenProperties
<1>. QED
  BY <1>1, SequenceOf

---------------------------------------------------------------------------
(* What each step does to it. *)

LEMMA TreesInitHolds == TreesInit => TInv
<1> SUFFICES ASSUME TreesInit
             PROVE  TInv
  OBVIOUS
<1>1. IInv /\ phase = "idle"
  BY InitHolds DEF TreesInit, Init
<1>2. collection = <<>> /\ rest = <<>> /\ capacity = 1
  BY DEF TreesInit, Spine!Init
<1>3. SpineTypes
  <2>1. capacity = pow2[0]
    BY <1>2, Powers
  <2>. QED
    BY <1>2, <2>1, EmptySeq DEF SpineTypes
<1>. QED
  BY <1>1, <1>3 DEF TInv, Judged, OfTheLevel

LEMMA StepBoundedKeeps == TInv /\ StepBounded => TInv'
<1> SUFFICES ASSUME TInv, StepBounded
             PROVE  TInv'
  OBVIOUS
<1>1. IInv'
  BY StepKeeps DEF TInv, StepBounded, Next
<1>2. chunks' = chunks /\ limit' = limit /\ phase # "idle" /\ UNCHANGED spineVars
  BY DEF StepBounded, Step, Refuse, RootNothing, RootOneLeaf, RootZeros, BeginWalk, PairLevel,
         EndWalk, ClimbData, ClimbWidth, Return, Admitted, Answer
<1>3. /\ phase' \in {"walking", "climbing", "returned"} =>
           ~ Misfit \/ phase \in {"walking", "climbing", "returned"}
      /\ phase' = "refused" => Misfit \/ Overfull
  BY DEF StepBounded, Step, Refuse, RootNothing, RootOneLeaf, RootZeros, BeginWalk, PairLevel,
         EndWalk, ClimbData, ClimbWidth, Return, Admitted, Answer
<1>4. Judged'
  BY <1>2, <1>3 DEF TInv, Judged, Misfit, Overfull
<1>5. SpineTypes' /\ OfTheLevel'
  BY <1>2 DEF TInv, SpineTypes, OfTheLevel, spineVars
<1>. QED
  BY <1>1, <1>4, <1>5 DEF TInv

LEMMA RootBoundedKeeps == TInv /\ RootBounded => TInv'
<1> SUFFICES ASSUME TInv, RootBounded
             PROVE  TInv'
  OBVIOUS
<1>1. IInv'
  BY MerkleizeKeeps DEF TInv, RootBounded
<1>2. phase' = "called" /\ stage = "still" /\ UNCHANGED spineVars
  BY DEF RootBounded, Merkleize
<1>3. Judged'
  BY <1>2 DEF Judged
<1>4. SpineTypes' /\ OfTheLevel'
  BY <1>2 DEF TInv, SpineTypes, OfTheLevel, spineVars
<1>. QED
  BY <1>1, <1>3, <1>4 DEF TInv

LEMMA MoveSpineKeeps == TInv /\ MoveSpine => TInv'
<1> SUFFICES ASSUME TInv, MoveSpine
             PROVE  TInv'
  OBVIOUS
<1>1. phase = "idle" /\ UNCHANGED vars
  BY DEF MoveSpine
<1>2. IInv'
  BY <1>1, StutterKeeps DEF TInv
<1>3. Judged' /\ OfTheLevel'
  BY <1>1 DEF vars, Judged, OfTheLevel
<1>4. collection \in Seq(Chunks) /\ rest \in Seq(Chunks) /\ \E k \in Nat : capacity = pow2[k]
  BY DEF TInv, SpineTypes
<1>5. 1 = pow2[0]
  BY Powers
<1>6. CASE Spine!Grow
  <2>1. PICK chunk \in Data[Len(collection) + 1] : collection' = Append(collection, chunk)
    BY <1>6 DEF Spine!Grow
  <2>2. chunk \in Chunks
    <3>1. Len(collection) \in Nat /\ Len(collection) < MaxChunks /\ MaxChunks \in Nat
      BY <1>4, <1>6, LenProperties, DataAssumption DEF Spine!Grow
    <3>2. Len(collection) + 1 \in 1..MaxChunks
      BY <3>1
    <3>. QED
      BY <2>1, <3>2 DEF Chunks
  <2>3. collection' \in Seq(Chunks)
    BY <1>4, <2>1, <2>2, AppendProperties
  <2>4. rest' = <<>> /\ capacity' = 1
    BY <1>6 DEF Spine!Grow, Spine!Forget
  <2>5. SpineTypes'
    BY <1>5, <2>3, <2>4, EmptySeq DEF SpineTypes
  <2>. QED
    BY <1>2, <1>3, <2>5 DEF TInv
<1>7. CASE Spine!Shrink
  <2>1. collection' = SubSeq(collection, 1, Len(collection) - 1)
    BY <1>7 DEF Spine!Shrink
  <2>2. Len(collection) \in Nat /\ \A i \in 1..(Len(collection) - 1) : collection[i] \in Chunks
    <3> HIDE DEF Chunks
    <3>. QED
      BY <1>4, LenProperties
  <2>3. collection' \in Seq(Chunks)
    BY <2>1, <2>2, SubSeqProperties
  <2>4. rest' = <<>> /\ capacity' = 1
    BY <1>7 DEF Spine!Shrink, Spine!Forget
  <2>5. SpineTypes'
    BY <1>5, <2>3, <2>4, EmptySeq DEF SpineTypes
  <2>. QED
    BY <1>2, <1>3, <2>5 DEF TInv
<1>8. CASE Spine!Root
  <2>1. rest' = collection /\ capacity' = 1 /\ collection' = collection
    BY <1>8 DEF Spine!Root
  <2>2. SpineTypes'
    BY <1>4, <1>5, <2>1 DEF SpineTypes
  <2>. QED
    BY <1>2, <1>3, <2>2 DEF TInv
<1>9. CASE Spine!CloseSpine \/ Spine!JoinLevel \/ Spine!Return
  <2>1. rest' = rest /\ capacity' = capacity /\ collection' = collection
    BY <1>9 DEF Spine!CloseSpine, Spine!JoinLevel, Spine!Return
  <2>2. SpineTypes'
    BY <1>4, <2>1 DEF SpineTypes
  <2>. QED
    BY <1>2, <1>3, <2>2 DEF TInv
<1>. QED
  BY <1>6, <1>7, <1>8, <1>9 DEF MoveSpine

LEMMA CallLevelKeeps == TInv /\ CallLevel => TInv'
<1> SUFFICES ASSUME TInv, CallLevel
             PROVE  TInv'
  OBVIOUS
<1>1. /\ stage = "opening" /\ rest # <<>>
      /\ chunks' = Slice(rest, 0, capacity) /\ limit' = capacity
      /\ phase' = "called" /\ UNCHANGED spineVars
  BY DEF CallLevel, Called
<1>2. rest \in Seq(Chunks) /\ capacity \in Nat
  BY Powers DEF TInv, SpineTypes
<1>3. chunks' \in Seq(Chunks)
  BY <1>1, <1>2, Sliced
<1>4. Given'
  BY <1>1, <1>2, <1>3, OwnRange DEF Given
<1>5. IInv' /\ Judged'
  BY <1>1, <1>4 DEF IInv, Accepted, RootIsThePaddedTree, Judged
<1>6. SpineTypes' /\ OfTheLevel'
  BY <1>1 DEF TInv, SpineTypes, OfTheLevel, spineVars
<1>. QED
  BY <1>5, <1>6 DEF TInv

LEMMA OverKeeps == Over => IInv' /\ Judged' /\ OfTheLevel'
BY EmptySeq DEF Over, IInv, Given, Accepted, RootIsThePaddedTree, Judged, OfTheLevel

LEMMA TakeLevelKeeps == TInv /\ TakeLevel => TInv'
<1> SUFFICES ASSUME TInv, TakeLevel
             PROVE  TInv'
  OBVIOUS
<1>1. IInv' /\ Judged' /\ OfTheLevel'
  BY OverKeeps DEF TakeLevel
<1>2. /\ collection \in Seq(Chunks) /\ collection' = collection
      /\ rest \in Seq(Chunks) /\ rest' = Slice(rest, capacity, Len(rest))
      /\ capacity' = 4 * capacity
  BY DEF TInv, SpineTypes, TakeLevel
<1>3. PICK k \in Nat : capacity = pow2[k]
  BY DEF TInv, SpineTypes
<1>4. capacity \in Nat /\ Len(rest) \in Int
  <2>1. capacity \in Nat
    BY <1>3, Powers
  <2> HIDE DEF Chunks
  <2>2. Len(rest) \in Int
    BY <1>2, LenProperties
  <2>. QED
    BY <2>1, <2>2
<1>5. rest' \in Seq(Chunks)
  BY <1>2, <1>4, Sliced
<1>6. capacity' = pow2[(k + 1) + 1] /\ (k + 1) + 1 \in Nat
  <2>1. k + 1 \in Nat /\ pow2[k + 1] = 2 * pow2[k]
    BY Powers
  <2>2. pow2[(k + 1) + 1] = 2 * pow2[k + 1]
    BY <2>1, Powers
  <2>. QED
    BY <1>2, <1>3, <1>4, <2>1, <2>2
<1>7. SpineTypes'
  BY <1>2, <1>5, <1>6 DEF SpineTypes
<1>. QED
  BY <1>1, <1>7 DEF TInv

LEMMA RefuseTreeKeeps == TInv /\ RefuseTree => TInv'
<1> SUFFICES ASSUME TInv, RefuseTree
             PROVE  TInv'
  OBVIOUS
<1>1. IInv' /\ Judged' /\ OfTheLevel'
  BY OverKeeps DEF RefuseTree
<1>2. SpineTypes'
  BY DEF TInv, SpineTypes, RefuseTree
<1>. QED
  BY <1>1, <1>2 DEF TInv

LEMMA TreesStutterKeeps == TInv /\ UNCHANGED allVars => TInv'
<1> SUFFICES ASSUME TInv, UNCHANGED allVars
             PROVE  TInv'
  OBVIOUS
<1>1. UNCHANGED vars /\ UNCHANGED spineVars
  BY DEF allVars
<1>2. IInv'
  BY <1>1, StutterKeeps DEF TInv
<1>3. Judged' /\ SpineTypes' /\ OfTheLevel'
  BY <1>1 DEF TInv, Judged, SpineTypes, OfTheLevel, vars, spineVars, Misfit, Overfull
<1>. QED
  BY <1>2, <1>3 DEF TInv

LEMMA TreesStepKeeps == TInv /\ [TreesNext]_allVars => TInv'
BY StepBoundedKeeps, RootBoundedKeeps, MoveSpineKeeps, CallLevelKeeps, TakeLevelKeeps,
   RefuseTreeKeeps, TreesStutterKeeps
   DEF TreesNext

LEMMA TreesInvariantHolds == TreesSpec => []TInv
BY TreesInitHolds, TreesStepKeeps, PTL DEF TreesSpec

---------------------------------------------------------------------------
(* The spine of padded trees is implemented. *)

LEMMA TakeLevelOpens == TInv /\ TakeLevel => Spine!OpenLevel
<1> SUFFICES ASSUME TInv, TakeLevel
             PROVE  Spine!OpenLevel
  OBVIOUS
<1>1. stage = "opening" /\ phase = "returned" /\ subtrees' = Append(subtrees, level[1])
  BY DEF TakeLevel
<1>2. rest # <<>> /\ chunks = Slice(rest, 0, capacity) /\ limit = capacity /\ ~ Misfit
  BY <1>1 DEF TInv, OfTheLevel, Judged
<1>3. PICK k \in Nat : capacity = pow2[k]
  BY DEF TInv, SpineTypes
<1>4. Width = capacity
  <2>1. capacity \in Int
    BY <1>3, Powers
  <2>2. Width = NextPow2(capacity)
    BY <1>2, <2>1, InputsAssumption DEF Width
  <2>. QED
    BY <1>3, <2>2, PowersStay
<1>5. level[1] = Spine!PaddedRoot(Slice(rest, 0, capacity), capacity)
  BY <1>1, <1>2, <1>4, SamePadding DEF TInv, IInv, RootIsThePaddedTree
<1>6. \A i \in DOMAIN Slice(rest, 0, capacity) : Slice(rest, 0, capacity)[i] \notin Misshapen
  BY <1>2 DEF Misfit
<1>7. /\ rest' = Slice(rest, capacity, Len(rest)) /\ capacity' = 4 * capacity
      /\ UNCHANGED <<collection, stage, node>>
  BY DEF TakeLevel
<1>. QED
  BY <1>1, <1>2, <1>5, <1>6, <1>7, SameSlice DEF Spine!OpenLevel

LEMMA RefuseTreeRefuses == TInv /\ RefuseTree => Spine!RefuseLevel
<1> SUFFICES ASSUME TInv, RefuseTree
             PROVE  Spine!RefuseLevel
  OBVIOUS
<1>1. /\ stage = "opening" /\ phase = "refused" /\ stage' = "refused"
      /\ UNCHANGED <<collection, rest, capacity, subtrees, node>>
  BY DEF RefuseTree
<1>2. rest # <<>> /\ chunks = Slice(rest, 0, capacity) /\ limit = capacity
  BY <1>1 DEF TInv, OfTheLevel
<1>3. rest \in Seq(Chunks) /\ capacity \in Nat
  BY Powers DEF TInv, SpineTypes
<1>4. Len(Slice(rest, 0, capacity)) <= capacity /\ Len(Slice(rest, 0, capacity)) \in Nat
  <2>1. capacity - 0 = capacity /\ 0 <= capacity
    BY <1>3
  <2>2. Slice(rest, 0, capacity) \in Seq(Chunks)
    BY <1>3, Sliced
  <2>. QED
    BY <1>3, <2>1, <2>2, Sliced, LenProperties
<1>5. ~ Overfull
  BY <1>2, <1>3, <1>4 DEF Overfull
<1>6. \E i \in DOMAIN Slice(rest, 0, capacity) : Slice(rest, 0, capacity)[i] \in Misshapen
  BY <1>1, <1>2, <1>5 DEF TInv, Judged, Misfit
<1>. QED
  BY <1>1, <1>2, <1>6, SameSlice DEF Spine!RefuseLevel

LEMMA StepsAreOfTheSpine == TInv /\ [TreesNext]_allVars => [Spine!Next]_Spine!vars
<1> SUFFICES ASSUME TInv, [TreesNext]_allVars
             PROVE  Spine!Next \/ UNCHANGED Spine!vars
  OBVIOUS
<1>1. CASE RootBounded \/ StepBounded \/ CallLevel \/ UNCHANGED allVars
  BY <1>1 DEF RootBounded, StepBounded, CallLevel, Called, allVars, spineVars, Spine!vars
<1>2. CASE MoveSpine
  BY <1>2 DEF MoveSpine, Spine!Next
<1>3. CASE TakeLevel
  BY <1>3, TakeLevelOpens DEF Spine!Next
<1>4. CASE RefuseTree
  BY <1>4, RefuseTreeRefuses DEF Spine!Next
<1>. QED
  BY <1>1, <1>2, <1>3, <1>4 DEF TreesNext

(* Called by a layout or for a level of the spine, merkleize gives the root  *)
(* of the padded tree, whatever was called before (trees.py:43-122).        *)
THEOREM TreesTheorem == TreesSpec => []RootIsThePaddedTree
<1>1. TInv => RootIsThePaddedTree
  BY DEF TInv, IInv
<1>. QED
  BY <1>1, TreesInvariantHolds, PTL

(* Rooting each level by a call of merkleize, with its capacity as the limit  *)
(* (trees.py:168), is rooting it as a padded tree, for any data.              *)
THEOREM LevelsTheorem == TreesSpec => LevelsArePaddedTrees
<1>1. TreesInit => Spine!Init
  BY DEF TreesInit
<1>. QED
  BY <1>1, StepsAreOfTheSpine, TreesInvariantHolds, PTL DEF TreesSpec, LevelsArePaddedTrees, Spine!Spec

---------------------------------------------------------------------------
(* What an index leads to in a tree, and where the nodes of a padded tree   *)
(* are found in one that holds it.                                         *)

LEMMA SameIndices ==
  /\ Spine!pow2 = pow2 /\ Spine!shifts = shifts /\ Spine!spine = spine
  /\ \A i : Spine!Parent(i) = Parent(i)
  /\ \A i, k : Spine!Bit(i, k) = Bit(i, k)
  /\ \A c : Spine!ProgressiveChunk(c) = ProgressiveChunk(c)
<1>1. Spine!pow2 = pow2
  BY DEF Spine!pow2, pow2
<1>2. \A i : Spine!Parent(i) = Parent(i)
  BY DEF Spine!Parent, Parent
<1>3. Spine!shifts = shifts
  BY DEF Spine!shifts, shifts, Spine!Parent, Parent
<1>4. \A i, k : Spine!Bit(i, k) = Bit(i, k)
  BY <1>3 DEF Spine!Bit, Bit
<1>5. \A i, b : Spine!Child(i, b) = Child(i, b)
  BY DEF Spine!Child, Child
<1>6. Spine!spine = spine
  BY DEF Spine!spine, spine, Spine!pow2, pow2, Spine!Child, Child
<1>7. \A c : Spine!ProgressiveChunk(c) = ProgressiveChunk(c)
  BY <1>1, <1>5, <1>6 DEF Spine!ProgressiveChunk, ProgressiveChunk
<1>. QED
  BY <1>1, <1>2, <1>3, <1>4, <1>6, <1>7

(* The node an index leads to, from the node above it. *)
LEMMA NodeUnfolds ==
  ASSUME NEW tree
  PROVE  \A i \in Nat :
           Spine!NodeAt(tree, i) =
             IF i <= 1 THEN tree
             ELSE IF Spine!NodeAt(tree, Parent(i)) \in Spine!Leaves THEN Absent
             ELSE Spine!NodeAt(tree, Parent(i))[IF Bit(i, 0) THEN 2 ELSE 1]
<1> DEFINE with == [tree |-> tree, leaves |-> Spine!Leaves, absent |-> Absent]
<1> DEFINE next(F, i) == IF i <= 1 THEN tree
                         ELSE IF F[Parent(i)] \in Spine!Leaves THEN Absent
                         ELSE F[Parent(i)][IF Bit(i, 0) THEN 2 ELSE 1]
<1>1. PICK F : F = [i \in Nat |-> Unfolded("node", with, F, i)]
  BY SolutionExists DEF Kinds, Climbing
<1>2. \A i : Unfolded("node", with, F, i) = next(F, i)
  BY DEF Unfolded
<1>3. F = [i \in Nat |-> next(F, i)]
  <2> HIDE DEF next, with
  <2>. QED
    BY <1>1, <1>2
<1> DEFINE found == CHOOSE f : f = [i \in Nat |-> next(f, i)]
<1>4. found = [i \in Nat |-> next(found, i)]
  <2> HIDE DEF next
  <2>. QED
    BY <1>3
<1>5. \A i : Spine!NodeAt(tree, i) = found[i]
  BY SameIndices DEF Spine!NodeAt
<1>6. ASSUME NEW i \in Nat
      PROVE  found[i] = next(found, i)
  <2> HIDE DEF found, next
  <2>. QED
    BY <1>4
<1>. QED
  BY <1>5, <1>6

LEMMA OddBit ==
  ASSUME NEW p \in Nat \ {0}
  PROVE  ~ Bit(2 * p, 0) /\ Bit(2 * p + 1, 0)
<1>1. ASSUME NEW i \in Nat \ {0}
      PROVE  Bit(i, 0) <=> i % 2 = 1
  <2>1. shifts[i] = <<i>> \o shifts[Parent(i)] /\ Parent(i) \in Nat
    <3>1. i \in Nat /\ i # 0 /\ Parent(i) \in Nat
      BY DEF Parent
    <3>. QED
      BY <3>1, ShiftsUnfold
  <2>2. shifts[Parent(i)] \in Seq(Nat) /\ <<i>> \in Seq(Nat) /\ Len(<<i>>) = 1 /\ <<i>>[1] = i
    BY <2>1, ShiftsAreNumbers
  <2>3. 0 < Len(shifts[i]) /\ shifts[i][1] = i
    BY <2>1, <2>2, ConcatProperties, LenProperties
  <2>4. 0 + 1 = 1
    OBVIOUS
  <2>. QED
    BY <2>3, <2>4 DEF Bit
<1>2. 2 * p \in Nat \ {0} /\ 2 * p + 1 \in Nat \ {0}
  OBVIOUS
<1>3. (2 * p) % 2 = 0 /\ (2 * p + 1) % 2 = 1
  OBVIOUS
<1>. QED
  BY <1>1, <1>2, <1>3

(* Below a leaf there is nothing, and below a hash are its two nodes. *)
LEMMA NodesBelow ==
  ASSUME NEW tree, NEW p \in Nat \ {0}
  PROVE  /\ Spine!NodeAt(tree, p) \in Spine!Leaves =>
              Spine!NodeAt(tree, 2 * p) = Absent /\ Spine!NodeAt(tree, 2 * p + 1) = Absent
         /\ \A left, right : Spine!NodeAt(tree, p) = Pair(left, right) =>
              Spine!NodeAt(tree, 2 * p) = left /\ Spine!NodeAt(tree, 2 * p + 1) = right
<1>1. 2 * p \in Nat /\ 2 * p + 1 \in Nat /\ ~ (2 * p <= 1) /\ ~ (2 * p + 1 <= 1)
  OBVIOUS
<1>2. Parent(2 * p) = p /\ Parent(2 * p + 1) = p
  BY Halves
<1>3. \A i \in {2 * p, 2 * p + 1} :
        Spine!NodeAt(tree, i) = IF Spine!NodeAt(tree, p) \in Spine!Leaves THEN Absent
                                ELSE Spine!NodeAt(tree, p)[IF Bit(i, 0) THEN 2 ELSE 1]
  BY <1>1, <1>2, NodeUnfolds
<1>4. ASSUME NEW left, NEW right
      PROVE  /\ Pair(left, right) \notin Spine!Leaves
             /\ Pair(left, right)[1] = left /\ Pair(left, right)[2] = right
  <2>1. \A l, r : DOMAIN Pair(l, r) = 1..2
    BY DEF Pair
  <2>. QED
    BY <2>1, LeavesAssumption DEF Pair
<1>. QED
  BY <1>3, <1>4, OddBit

(* Nor is there anything further down. *)
LEMMA NothingBelow ==
  ASSUME NEW tree, NEW p \in Nat \ {0}, Spine!NodeAt(tree, p) \in Spine!Leaves
  PROVE  \A h \in Nat : Spine!NodeAt(tree, (2 * p) * pow2[h]) = Absent
<1> DEFINE S == {h \in Nat : Spine!NodeAt(tree, (2 * p) * pow2[h]) = Absent}
<1>1. 0 \in S
  <2>1. (2 * p) * pow2[0] = 2 * p
    BY Powers
  <2>. QED
    BY <2>1, NodesBelow
<1>2. ASSUME NEW h \in Nat, h \in S
      PROVE  h + 1 \in S
  <2> DEFINE q == (2 * p) * pow2[h]
  <2>1. pow2[h] \in Nat \ {0} /\ pow2[h + 1] = 2 * pow2[h]
    BY Powers
  <2>2. q \in Nat \ {0} /\ (2 * p) * pow2[h + 1] = 2 * q
    BY <2>1
  <2>3. Spine!NodeAt(tree, q) \in Spine!Leaves
    BY <1>2 DEF Spine!Leaves
  <2> HIDE DEF q
  <2>4. Spine!NodeAt(tree, 2 * q) = Absent
    BY <2>2, <2>3, NodesBelow
  <2>. QED
    BY <2>2, <2>4
<1>3. Nat \subseteq S
  <2> HIDE DEF S
  <2>. QED
    BY <1>1, <1>2, FromZeroUp
<1>. QED
  BY <1>3

(* Where a padded tree is, its nodes of every height are beneath. *)
LEMMA LayersBelow ==
  ASSUME NEW tree, NEW p \in Nat \ {0}, NEW input, NEW d \in Nat,
         Spine!NodeAt(tree, p) = Layers(input)[d][0]
  PROVE  \A h \in Nat : h <= d =>
           \A r \in Nat : r < pow2[h] =>
             Spine!NodeAt(tree, p * pow2[h] + r) = Layers(input)[d - h][r]
<1> DEFINE Found(h) == \A r \in Nat : r < pow2[h] =>
                         Spine!NodeAt(tree, p * pow2[h] + r) = Layers(input)[d - h][r]
           S == {h \in Nat : h <= d => Found(h)}
<1>1. 0 \in S
  <2>1. ASSUME NEW r \in Nat, r < pow2[0]
        PROVE  Spine!NodeAt(tree, p * pow2[0] + r) = Layers(input)[d - 0][r]
    <3>1. r = 0 /\ p * pow2[0] + r = p /\ d - 0 = d
      BY <2>1, Powers
    <3>. QED
      BY <3>1
  <2>. QED
    BY <2>1
<1>2. ASSUME NEW h \in Nat, h \in S
      PROVE  h + 1 \in S
  <2> SUFFICES ASSUME h + 1 <= d
               PROVE  Found(h + 1)
    OBVIOUS
  <2>1. Found(h)
    BY <1>2
  <2> HIDE DEF S
  <2> DEFINE g == d - (h + 1)
  <2>2. g \in Nat /\ d - h = g + 1
    OBVIOUS
  <2> HIDE DEF g
  <2>3. pow2[h] \in Nat \ {0} /\ pow2[h + 1] = 2 * pow2[h]
    BY Powers
  <2>4. ASSUME NEW r \in Nat, r < pow2[h + 1]
        PROVE  Spine!NodeAt(tree, p * pow2[h + 1] + r) = Layers(input)[g][r]
    <3> DEFINE q == r \div 2
               above == p * pow2[h] + q
    <3>1. q \in Nat /\ q < pow2[h] /\ (r = 2 * q \/ r = 2 * q + 1)
      BY <2>3, <2>4
    <3> HIDE DEF q
    <3>2. p * pow2[h] \in Nat \ {0}
      BY <2>3
    <3>3. above \in Nat \ {0}
      BY <3>1, <3>2
    <3>4. p * (2 * pow2[h]) = 2 * (p * pow2[h])
      BY <2>3
    <3>6. r = 2 * q => p * pow2[h + 1] + r = 2 * above
      BY <2>3, <3>1, <3>2, <3>4
    <3>7. r = 2 * q + 1 => p * pow2[h + 1] + r = 2 * above + 1
      BY <2>3, <3>1, <3>2, <3>4
    <3>8. Spine!NodeAt(tree, above) = Layers(input)[g + 1][q]
      BY <2>1, <2>2, <3>1
    <3> HIDE DEF above
    <3>9. Layers(input)[g + 1][q] = Pair(Layers(input)[g][2 * q], Layers(input)[g][2 * q + 1])
      BY <2>2, <3>1, LayersUnfold
    <3>10. /\ Spine!NodeAt(tree, 2 * above) = Layers(input)[g][2 * q]
           /\ Spine!NodeAt(tree, 2 * above + 1) = Layers(input)[g][2 * q + 1]
      BY <3>3, <3>8, <3>9, NodesBelow
    <3>. QED
      BY <3>1, <3>6, <3>7, <3>10
  <2>. QED
    BY <2>4 DEF g
<1>3. Nat \subseteq S
  <2> HIDE DEF S
  <2>. QED
    BY <1>1, <1>2, FromZeroUp
<1>. QED
  BY <1>3

---------------------------------------------------------------------------
(* Slices of the collection. *)

SliceEnd(seq, stop) == IF stop < Len(seq) THEN stop ELSE Len(seq)

SliceIs(seq, start, stop) ==
  /\ Slice(seq, start, stop) \in Seq(Chunks)
  /\ Len(Slice(seq, start, stop)) \in Nat
  /\ Len(Slice(seq, start, stop)) =
       IF start < SliceEnd(seq, stop) THEN SliceEnd(seq, stop) - start ELSE 0
  /\ \A i \in 1..Len(Slice(seq, start, stop)) : Slice(seq, start, stop)[i] = seq[start + i]

LEMMA SliceElements ==
  ASSUME NEW seq \in Seq(Chunks), NEW start \in Nat, NEW stop \in Nat
  PROVE  SliceIs(seq, start, stop)
<1> HIDE DEF Chunks
<1>1. Len(seq) \in Nat /\ \A i \in 1..Len(seq) : seq[i] \in Chunks
  BY LenProperties
<1> DEFINE last == SliceEnd(seq, stop)
<1>2. last \in Nat /\ last <= Len(seq)
  BY <1>1 DEF SliceEnd
<1>3. Slice(seq, start, stop) = SubSeq(seq, start + 1, last)
  BY DEF Slice, SliceEnd
<1> HIDE DEF last
<1>4. \A i \in (start + 1)..last : seq[i] \in Chunks
  BY <1>1, <1>2
<1> DEFINE part == SubSeq(seq, start + 1, last)
<1>5. /\ part \in Seq(Chunks)
      /\ Len(part) = IF start + 1 <= last THEN last - (start + 1) + 1 ELSE 0
      /\ \A i \in 1..(last - (start + 1) + 1) : part[i] = seq[(start + 1) + i - 1]
  BY <1>2, <1>4, SubSeqProperties
<1> HIDE DEF part
<1>6. Len(part) = IF start < last THEN last - start ELSE 0
  BY <1>2, <1>5
<1>7. ASSUME NEW i \in 1..Len(part)
      PROVE  part[i] = seq[start + i]
  <2>1. i \in 1..(last - (start + 1) + 1) /\ (start + 1) + i - 1 = start + i
    BY <1>2, <1>6
  <2>. QED
    BY <1>5, <2>1
<1>8. Len(part) \in Nat
  BY <1>2, <1>6
<1>. QED
  BY <1>3, <1>5, <1>6, <1>7, <1>8 DEF SliceIs, last, part

(* What is sliced off the rest of a sequence is a slice of the sequence. *)
LEMMA SlicesOfTheRest ==
  ASSUME NEW seq \in Seq(Chunks), NEW passed \in Nat, NEW width \in Nat
  PROVE  LET left == Slice(seq, passed, Len(seq))
         IN  /\ Slice(left, 0, width) = Slice(seq, passed, passed + width)
             /\ Slice(left, width, Len(left)) = Slice(seq, passed + width, Len(seq))
             /\ left = <<>> <=> Len(seq) <= passed
<1> DEFINE left == Slice(seq, passed, Len(seq))
           all == Len(seq)
<1>1. all \in Nat
  <2> HIDE DEF Chunks
  <2>. QED
    BY LenProperties
<1>2. SliceIs(seq, passed, all)
  BY <1>1, SliceElements
<1>3. /\ left \in Seq(Chunks) /\ Len(left) \in Nat
      /\ Len(left) = IF passed < all THEN all - passed ELSE 0
      /\ \A i \in 1..Len(left) : left[i] = seq[passed + i]
  BY <1>1, <1>2 DEF SliceIs, SliceEnd
<1> HIDE DEF left, Chunks
<1>4. SliceIs(left, 0, width) /\ SliceIs(left, width, Len(left))
  BY <1>3, SliceElements
<1>5. SliceIs(seq, passed, passed + width) /\ SliceIs(seq, passed + width, all)
  BY <1>1, SliceElements
<1>6. Slice(left, 0, width) = Slice(seq, passed, passed + width)
  <2> DEFINE x == Slice(left, 0, width)
             y == Slice(seq, passed, passed + width)
  <2>1. x \in Seq(Chunks) /\ y \in Seq(Chunks)
    BY <1>4, <1>5 DEF SliceIs
  <2>2. /\ Len(x) = IF 0 < SliceEnd(left, width) THEN SliceEnd(left, width) - 0 ELSE 0
        /\ \A i \in 1..Len(x) : x[i] = left[0 + i]
    BY <1>4 DEF SliceIs
  <2>3. /\ Len(y) = IF passed < SliceEnd(seq, passed + width)
                    THEN SliceEnd(seq, passed + width) - passed ELSE 0
        /\ \A i \in 1..Len(y) : y[i] = seq[passed + i]
    BY <1>5 DEF SliceIs
  <2> HIDE DEF x, y
  <2>4. Len(x) = Len(y) /\ Len(x) \in Nat /\ Len(x) <= Len(left)
    BY <1>1, <1>3, <2>2, <2>3 DEF SliceEnd
  <2>5. ASSUME NEW i \in 1..Len(x)
        PROVE  x[i] = y[i]
    <3>1. 0 + i = i /\ i \in 1..Len(left) /\ i \in 1..Len(y)
      BY <1>3, <2>4
    <3>. QED
      BY <1>3, <2>2, <2>3, <3>1
  <2>6. x = y
    BY <2>1, <2>4, <2>5, SeqEqual
  <2>. QED
    BY <2>6 DEF x, y
<1>7. Slice(left, width, Len(left)) = Slice(seq, passed + width, all)
  <2> DEFINE x == Slice(left, width, Len(left))
             y == Slice(seq, passed + width, all)
  <2>1. x \in Seq(Chunks) /\ y \in Seq(Chunks)
    BY <1>4, <1>5 DEF SliceIs
  <2>2. /\ Len(x) = IF width < SliceEnd(left, Len(left)) THEN SliceEnd(left, Len(left)) - width ELSE 0
        /\ \A i \in 1..Len(x) : x[i] = left[width + i]
    BY <1>4 DEF SliceIs
  <2>3. /\ Len(y) = IF passed + width < SliceEnd(seq, all)
                    THEN SliceEnd(seq, all) - (passed + width) ELSE 0
        /\ \A i \in 1..Len(y) : y[i] = seq[(passed + width) + i]
    BY <1>5 DEF SliceIs
  <2> HIDE DEF x, y
  <2>4. SliceEnd(left, Len(left)) = Len(left) /\ SliceEnd(seq, all) = all
    BY <1>1, <1>3 DEF SliceEnd
  <2>5. Len(x) = Len(y) /\ Len(x) \in Nat /\ (Len(x) # 0 => width + Len(x) = Len(left))
    BY <1>1, <1>3, <2>2, <2>3, <2>4
  <2>6. ASSUME NEW i \in 1..Len(x)
        PROVE  x[i] = y[i]
    <3>1. width + i \in 1..Len(left) /\ i \in 1..Len(y) /\ passed + (width + i) = (passed + width) + i
      BY <1>3, <2>5
    <3>. QED
      BY <1>3, <2>2, <2>3, <3>1
  <2>7. x = y
    BY <2>1, <2>5, <2>6, SeqEqual
  <2>. QED
    BY <2>7 DEF x, y
<1>8. left = <<>> <=> all <= passed
  <2>1. left = <<>> <=> Len(left) = 0
    BY <1>3, EmptySeq
  <2>. QED
    BY <1>1, <1>3, <2>1
<1>. QED
  BY <1>6, <1>7, <1>8 DEF left

(* The leaves of a slice are those of the sequence from where it starts. *)
LEMMA LeavesOfSlice ==
  ASSUME NEW seq \in Seq(Chunks), NEW start \in Nat, NEW stop \in Nat,
         NEW i \in Nat, start + i < stop
  PROVE  Leaf(Slice(seq, start, stop), i) = Leaf(seq, start + i)
<1> HIDE DEF Chunks
<1>1. Len(seq) \in Nat
  BY LenProperties
<1> DEFINE part == Slice(seq, start, stop)
<1>2. SliceIs(seq, start, stop)
  BY SliceElements
<1>3. /\ Len(part) = IF start < SliceEnd(seq, stop) THEN SliceEnd(seq, stop) - start ELSE 0
      /\ \A k \in 1..Len(part) : part[k] = seq[start + k]
  BY <1>2 DEF SliceIs
<1> HIDE DEF part
<1>4. i < Len(part) <=> start + i < Len(seq)
  BY <1>1, <1>3 DEF SliceEnd
<1>5. CASE i < Len(part)
  <2>1. i + 1 \in 1..Len(part) /\ start + (i + 1) = (start + i) + 1
    BY <1>1, <1>3, <1>5 DEF SliceEnd
  <2>2. part[i + 1] = seq[(start + i) + 1]
    BY <1>3, <2>1
  <2>. QED
    BY <1>4, <1>5, <2>2 DEF Leaf, part
<1>6. CASE ~ (i < Len(part))
  BY <1>4, <1>6 DEF Leaf, part
<1>. QED
  BY <1>5, <1>6

---------------------------------------------------------------------------
(* Where the progressive collection is on the way down, and on the way up. *)

Held(seq, n) == Slice(seq, spine[n].passed, spine[n + 1].passed)
LevelRoot(seq, n) == PaddedRoot(Held(seq, n), pow2[spine[n].depth])
LevelRoots(seq, n) == [k \in 1..n |-> LevelRoot(seq, k - 1)]

(* The level above the nth did not hold all there is. *)
Begun(seq, n) == n = 0 \/ spine[n - 1].passed < Len(seq)

GoneDown(seq, n, roots, width, left) ==
  /\ Begun(seq, n)
  /\ roots = LevelRoots(seq, n)
  /\ width = pow2[spine[n].depth]
  /\ left = Slice(seq, spine[n].passed, Len(seq))

(* The spine nodes from the mth down to the zero node past the last level. *)
Hangs(up, seq, m, n) ==
  /\ up[n] = ZeroChunk
  /\ \A k \in m..(n - 1) : up[k] = Pair(LevelRoot(seq, k), up[k + 1])

ComeUp(seq, m, n, up, roots, top) ==
  /\ Begun(seq, n) /\ Len(seq) <= spine[n].passed
  /\ m <= n
  /\ roots = LevelRoots(seq, m)
  /\ Hangs(up, seq, m, n) /\ top = up[m]

PlaceInv ==
  /\ Len(collection) <= MaxChunks
  /\ stage = "opening" => \E n \in Nat : GoneDown(collection, n, subtrees, capacity, rest)
  /\ stage \in {"joining", "returned"} =>
       \E n \in Nat, m \in Nat : \E up :
         /\ ComeUp(collection, m, n, up, subtrees, node)
         /\ stage = "returned" => m = 0

LEMMA RootsSoFar ==
  ASSUME NEW seq, NEW n \in Nat
  PROVE  /\ Len(LevelRoots(seq, n)) = n
         /\ LevelRoots(seq, n + 1) = Append(LevelRoots(seq, n), LevelRoot(seq, n))
         /\ SubSeq(LevelRoots(seq, n + 1), 1, n) = LevelRoots(seq, n)
         /\ LevelRoots(seq, n + 1)[n + 1] = LevelRoot(seq, n)
         /\ LevelRoots(seq, n) = <<>> <=> n = 0
<1> DEFINE S == {LevelRoot(seq, k) : k \in Nat}
           x == LevelRoots(seq, n)
           y == LevelRoots(seq, n + 1)
<1>1. ASSUME NEW m \in Nat
      PROVE  /\ LevelRoots(seq, m) \in Seq(S) /\ Len(LevelRoots(seq, m)) = m
             /\ \A k \in 1..m : LevelRoots(seq, m)[k] = LevelRoot(seq, k - 1)
  <2>1. \A k \in 1..m : k - 1 \in Nat /\ LevelRoot(seq, k - 1) \in S
    OBVIOUS
  <2>2. LevelRoots(seq, m) \in [1..m -> S]
    BY <2>1 DEF LevelRoots
  <2> HIDE DEF S
  <2>3. LevelRoots(seq, m) \in Seq(S)
    BY <2>2, SeqDef
  <2>4. DOMAIN LevelRoots(seq, m) = 1..m
    BY DEF LevelRoots
  <2>5. Len(LevelRoots(seq, m)) = m
    BY <2>3, <2>4, LenProperties
  <2>. QED
    BY <2>3, <2>5 DEF LevelRoots
<1>2. LevelRoot(seq, n) \in S
  OBVIOUS
<1> HIDE DEF S
<1>3. n + 1 \in Nat /\ (n + 1) - 1 = n /\ n + 1 \in 1..(n + 1)
  OBVIOUS
<1>4. /\ x \in Seq(S) /\ Len(x) = n /\ \A k \in 1..n : x[k] = LevelRoot(seq, k - 1)
      /\ y \in Seq(S) /\ Len(y) = n + 1 /\ \A k \in 1..(n + 1) : y[k] = LevelRoot(seq, k - 1)
  BY <1>1, <1>3
<1> HIDE DEF x, y
<1>5. y[n + 1] = LevelRoot(seq, n)
  BY <1>3, <1>4
<1>6. y = Append(x, LevelRoot(seq, n))
  <2> DEFINE z == Append(x, LevelRoot(seq, n))
  <2>1. /\ z \in Seq(S) /\ Len(z) = n + 1
        /\ \A k \in 1..n : z[k] = x[k]
        /\ z[n + 1] = LevelRoot(seq, n)
    BY <1>2, <1>4, AppendProperties
  <2> HIDE DEF z
  <2>2. ASSUME NEW k \in 1..(n + 1)
        PROVE  y[k] = z[k]
    <3>1. k \in 1..n \/ k = n + 1
      OBVIOUS
    <3>. QED
      BY <1>4, <1>5, <2>1, <3>1
  <2>3. y = z
    BY <1>4, <2>1, <2>2, SeqEqual
  <2>. QED
    BY <2>3 DEF z
<1>7. SubSeq(y, 1, n) = x
  <2> DEFINE z == SubSeq(y, 1, n)
  <2>1. \A k \in 1..n : y[k] \in S
    BY <1>4, LenProperties
  <2>2. z \in Seq(S) /\ Len(z) = (IF 1 <= n THEN n - 1 + 1 ELSE 0)
        /\ \A k \in 1..(n - 1 + 1) : z[k] = y[1 + k - 1]
    BY <2>1, SubSeqProperties
  <2> HIDE DEF z
  <2>3. Len(z) = n
    BY <2>2
  <2>4. ASSUME NEW k \in 1..n
        PROVE  z[k] = x[k]
    <3>1. k \in 1..(n - 1 + 1) /\ 1 + k - 1 = k /\ k \in 1..(n + 1)
      OBVIOUS
    <3>. QED
      BY <1>4, <2>2, <3>1
  <2>5. z = x
    BY <1>4, <2>2, <2>3, <2>4, SeqEqual
  <2>. QED
    BY <2>5 DEF z
<1>8. x = <<>> <=> n = 0
  BY <1>4, EmptySeq
<1>. QED
  BY <1>4, <1>5, <1>6, <1>7, <1>8 DEF x, y

(* Opening a level takes the level's chunks off what is left. *)
LEMMA GoesDown ==
  ASSUME NEW seq \in Seq(Chunks), NEW n \in Nat, NEW roots, NEW width, NEW left,
         GoneDown(seq, n, roots, width, left), left # <<>>
  PROVE  GoneDown(seq, n + 1, Append(roots, PaddedRoot(Slice(left, 0, width), width)),
                  4 * width, Slice(left, width, Len(left)))
<1> HIDE DEF Chunks
<1> DEFINE passed == spine[n].passed
           depth == spine[n].depth
<1>1. /\ passed \in Nat /\ depth \in Nat
      /\ spine[n + 1].passed = passed + pow2[depth]
      /\ spine[n + 1].depth = depth + 2
  BY Levelled DEF LevelIs
<1>2. /\ roots = LevelRoots(seq, n) /\ width = pow2[depth]
      /\ left = Slice(seq, passed, Len(seq))
  BY DEF GoneDown
<1> HIDE DEF passed, depth
<1>3. pow2[depth] \in Nat /\ pow2[depth + 2] = 4 * pow2[depth]
  <2>1. depth + 1 \in Nat /\ (depth + 1) + 1 = depth + 2
    BY <1>1
  <2>2. pow2[depth] \in Nat /\ pow2[depth + 1] = 2 * pow2[depth]
    BY <1>1, Powers
  <2>3. pow2[(depth + 1) + 1] = 2 * pow2[depth + 1]
    BY <2>1, Powers
  <2>. QED
    BY <2>1, <2>2, <2>3
<1>4. /\ Slice(left, 0, width) = Slice(seq, passed, passed + width)
      /\ Slice(left, width, Len(left)) = Slice(seq, passed + width, Len(seq))
      /\ left = <<>> <=> Len(seq) <= passed
  BY <1>1, <1>2, <1>3, SlicesOfTheRest
<1>5. PaddedRoot(Slice(left, 0, width), width) = LevelRoot(seq, n)
  BY <1>1, <1>2, <1>4 DEF LevelRoot, Held, passed, depth
<1>6. Append(roots, PaddedRoot(Slice(left, 0, width), width)) = LevelRoots(seq, n + 1)
  BY <1>2, <1>5, RootsSoFar
<1>7. Begun(seq, n + 1)
  <2>1. Len(seq) \in Nat
    BY LenProperties
  <2>2. passed < Len(seq) /\ (n + 1) - 1 = n
    BY <1>1, <1>4, <2>1
  <2>. QED
    BY <2>2 DEF Begun, passed
<1>8. Slice(left, width, Len(left)) = Slice(seq, spine[n + 1].passed, Len(seq))
  BY <1>1, <1>2, <1>4
<1>9. 4 * width = pow2[spine[n + 1].depth]
  BY <1>1, <1>2, <1>3
<1>. QED
  BY <1>6, <1>7, <1>8, <1>9 DEF GoneDown

(* Past the data hangs the zero node. *)
LEMMA TurnsBack ==
  ASSUME NEW seq \in Seq(Chunks), NEW n \in Nat, NEW roots, NEW width,
         GoneDown(seq, n, roots, width, <<>>)
  PROVE  \E up : ComeUp(seq, n, n, up, roots, ZeroChunk)
<1> DEFINE up == [k \in {n} |-> ZeroChunk]
<1>1. spine[n].passed \in Nat
  BY Levelled DEF LevelIs
<1>2. Slice(seq, spine[n].passed, Len(seq)) = <<>>
  BY DEF GoneDown
<1>3. Len(seq) <= spine[n].passed
  <2>1. 0 \in Nat
    OBVIOUS
  <2>. QED
    BY <1>1, <1>2, <2>1, SlicesOfTheRest
<1>4. up[n] = ZeroChunk /\ n..(n - 1) = {}
  OBVIOUS
<1> HIDE DEF up
<1>5. Hangs(up, seq, n, n)
  BY <1>4 DEF Hangs
<1>6. ComeUp(seq, n, n, up, roots, ZeroChunk)
  BY <1>3, <1>4, <1>5 DEF GoneDown, ComeUp
<1>. QED
  BY <1>6

(* Each level opened is joined in turn, the deepest first. *)
LEMMA ComesUp ==
  ASSUME NEW seq, NEW n \in Nat, NEW m \in Nat, NEW up, NEW roots, NEW top,
         ComeUp(seq, m, n, up, roots, top), roots # <<>>
  PROVE  /\ m - 1 \in Nat
         /\ \E over : ComeUp(seq, m - 1, n, over, SubSeq(roots, 1, Len(roots) - 1),
                             Pair(roots[Len(roots)], top))
<1>1. /\ roots = LevelRoots(seq, m) /\ m <= n
      /\ up[n] = ZeroChunk /\ top = up[m]
      /\ \A k \in m..(n - 1) : up[k] = Pair(LevelRoot(seq, k), up[k + 1])
  BY DEF ComeUp, Hangs
<1>2. m # 0
  BY <1>1, RootsSoFar
<1> DEFINE l == m - 1
<1>3. l \in Nat /\ l + 1 = m
  BY <1>2
<1>4. /\ Len(roots) = m /\ SubSeq(roots, 1, l) = LevelRoots(seq, l)
      /\ roots[m] = LevelRoot(seq, l)
  <2>1. roots = LevelRoots(seq, l + 1)
    BY <1>1, <1>3
  <2> HIDE DEF l
  <2>. QED
    BY <1>3, <2>1, RootsSoFar
<1> HIDE DEF l
<1> DEFINE over == [k \in l..n |-> IF k = l THEN Pair(LevelRoot(seq, l), top) ELSE up[k]]
<1>5. /\ over[l] = Pair(LevelRoot(seq, l), top)
      /\ \A k \in m..n : over[k] = up[k]
  BY <1>1, <1>3
<1> HIDE DEF over
<1>6. Hangs(over, seq, l, n)
  <2>1. over[n] = ZeroChunk
    BY <1>1, <1>5
  <2>2. ASSUME NEW k \in l..(n - 1)
        PROVE  over[k] = Pair(LevelRoot(seq, k), over[k + 1])
    <3>1. CASE k = l
      <4>1. over[k + 1] = up[m] /\ up[m] = top
        BY <1>1, <1>3, <1>5, <3>1
      <4>. QED
        BY <1>5, <3>1, <4>1
    <3>2. CASE k # l
      <4>1. k \in m..(n - 1) /\ k \in m..n /\ k + 1 \in m..n
        BY <1>3, <3>2
      <4>. QED
        BY <1>1, <1>5, <4>1
    <3>. QED
      BY <3>1, <3>2
  <2>. QED
    BY <2>1, <2>2 DEF Hangs
<1>7. ComeUp(seq, l, n, over, SubSeq(roots, 1, Len(roots) - 1), Pair(roots[Len(roots)], top))
  <2>1. Len(roots) - 1 = l /\ l <= n
    BY <1>1, <1>3, <1>4
  <2>. QED
    BY <1>4, <1>5, <1>6, <2>1 DEF ComeUp
<1>. QED
  BY <1>3, <1>7 DEF l

LEMMA PlaceStarts == Spine!Init => PlaceInv
<1>1. Len(<<>>) = 0
  BY EmptySeq
<1>. QED
  BY <1>1, DataAssumption DEF Spine!Init, PlaceInv

LEMMA PlaceKept == TInv /\ PlaceInv /\ [Spine!Next]_Spine!vars => PlaceInv'
<1> SUFFICES ASSUME TInv, PlaceInv, [Spine!Next]_Spine!vars
             PROVE  PlaceInv'
  OBVIOUS
<1>1. collection \in Seq(Chunks) /\ Len(collection) <= MaxChunks
  BY DEF TInv, SpineTypes, PlaceInv
<1>2. Len(collection) \in Nat
  <2> HIDE DEF Chunks
  <2>. QED
    BY <1>1, LenProperties
<1>3. CASE Spine!Grow
  <2>1. PICK chunk \in Data[Len(collection) + 1] : collection' = Append(collection, chunk)
    BY <1>3 DEF Spine!Grow
  <2>2. Len(collection) < MaxChunks /\ stage' = "still"
    BY <1>3 DEF Spine!Grow
  <2>3. Len(collection) + 1 \in 1..MaxChunks
    BY <1>2, <2>2, DataAssumption
  <2>4. chunk \in Chunks
    BY <2>1, <2>3 DEF Chunks
  <2>5. Len(collection') = Len(collection) + 1
    <3> HIDE DEF Chunks
    <3>. QED
      BY <1>1, <2>1, <2>4, AppendProperties
  <2>. QED
    BY <2>2, <2>3, <2>5 DEF PlaceInv
<1>4. CASE Spine!Shrink
  <2>1. collection' = SubSeq(collection, 1, Len(collection) - 1) /\ stage' = "still"
    BY <1>4 DEF Spine!Shrink
  <2>2. \A i \in 1..(Len(collection) - 1) : collection[i] \in Chunks
    <3> HIDE DEF Chunks
    <3>. QED
      BY <1>1, LenProperties
  <2> DEFINE k == Len(collection) - 1
  <2>3. k \in Int /\ k <= MaxChunks
    BY <1>1, <1>2, DataAssumption
  <2>4. Len(collection') = IF 1 <= k THEN k - 1 + 1 ELSE 0
    <3> HIDE DEF Chunks
    <3>. QED
      BY <2>1, <2>2, <2>3, SubSeqProperties
  <2>5. Len(collection') <= MaxChunks
    <3> HIDE DEF k
    <3>. QED
      BY <2>3, <2>4, DataAssumption
  <2>. QED
    BY <2>1, <2>5 DEF PlaceInv
<1>5. CASE Spine!Root
  <2>1. /\ stage' = "opening" /\ collection' = collection
        /\ rest' = collection /\ capacity' = 1 /\ subtrees' = <<>>
    BY <1>5 DEF Spine!Root
  <2>2. subtrees' = LevelRoots(collection, 0)
    BY <2>1, RootsSoFar
  <2>3. capacity' = pow2[spine[0].depth] /\ spine[0].passed = 0
    BY <2>1, SpineStarts, Powers
  <2>4. Slice(collection, 0, Len(collection)) = collection
    <3> DEFINE part == Slice(collection, 0, Len(collection))
    <3>1. SliceIs(collection, 0, Len(collection))
      BY <1>1, <1>2, SliceElements
    <3>2. /\ part \in Seq(Chunks) /\ Len(part) = Len(collection)
          /\ \A i \in 1..Len(part) : part[i] = collection[0 + i]
      BY <1>2, <3>1 DEF SliceIs, SliceEnd
    <3> HIDE DEF part, Chunks
    <3>3. \A i \in 1..Len(part) : part[i] = collection[i]
      BY <3>2
    <3>4. part = collection
      BY <1>1, <3>2, <3>3, SeqEqual
    <3>. QED
      BY <3>4 DEF part
  <2>5. GoneDown(collection, 0, subtrees', capacity', rest')
    BY <2>1, <2>2, <2>3, <2>4 DEF GoneDown, Begun
  <2>. QED
    BY <1>1, <2>1, <2>5 DEF PlaceInv
<1>6. CASE Spine!OpenLevel
  <2>1. PICK n \in Nat : GoneDown(collection, n, subtrees, capacity, rest)
    BY <1>6 DEF PlaceInv, Spine!OpenLevel
  <2>2. /\ rest # <<>>
        /\ subtrees' = Append(subtrees, Spine!PaddedRoot(Spine!Slice(rest, 0, capacity), capacity))
        /\ rest' = Spine!Slice(rest, capacity, Len(rest))
        /\ capacity' = 4 * capacity
        /\ collection' = collection /\ stage' = stage /\ stage = "opening"
    BY <1>6 DEF Spine!OpenLevel
  <2>3. /\ subtrees' = Append(subtrees, PaddedRoot(Slice(rest, 0, capacity), capacity))
        /\ rest' = Slice(rest, capacity, Len(rest))
    BY <2>2, SamePadding, SameSlice
  <2>4. GoneDown(collection, n + 1, subtrees', capacity', rest')
    BY <1>1, <2>1, <2>2, <2>3, GoesDown
  <2>5. n + 1 \in Nat
    OBVIOUS
  <2>. QED
    BY <1>1, <2>2, <2>4, <2>5 DEF PlaceInv
<1>7. CASE Spine!RefuseLevel
  BY <1>1, <1>7 DEF PlaceInv, Spine!RefuseLevel
<1>8. CASE Spine!CloseSpine
  <2>1. PICK n \in Nat : GoneDown(collection, n, subtrees, capacity, rest)
    BY <1>8 DEF PlaceInv, Spine!CloseSpine
  <2>2. /\ rest = <<>> /\ stage' = "joining" /\ node' = ZeroChunk
        /\ collection' = collection /\ subtrees' = subtrees
    BY <1>8 DEF Spine!CloseSpine
  <2>3. PICK up : ComeUp(collection, n, n, up, subtrees, ZeroChunk)
    BY <1>1, <2>1, <2>2, TurnsBack
  <2>. QED
    BY <1>1, <2>2, <2>3 DEF PlaceInv
<1>9. CASE Spine!JoinLevel
  <2>0. PICK n \in Nat, m \in Nat : \E up : ComeUp(collection, m, n, up, subtrees, node)
    BY <1>9 DEF PlaceInv, Spine!JoinLevel
  <2>1. PICK up : ComeUp(collection, m, n, up, subtrees, node)
    BY <2>0
  <2>2. /\ subtrees # <<>> /\ stage' = stage /\ stage = "joining" /\ collection' = collection
        /\ node' = Pair(subtrees[Len(subtrees)], node)
        /\ subtrees' = SubSeq(subtrees, 1, Len(subtrees) - 1)
    BY <1>9 DEF Spine!JoinLevel, Spine!Pair, Pair
  <2>3. m - 1 \in Nat /\ \E over : ComeUp(collection, m - 1, n, over, subtrees', node')
    BY <2>1, <2>2, ComesUp
  <2>. QED
    BY <1>1, <2>2, <2>3 DEF PlaceInv
<1>10. CASE Spine!Return
  <2>0. PICK n \in Nat, m \in Nat : \E up : ComeUp(collection, m, n, up, subtrees, node)
    BY <1>10 DEF PlaceInv, Spine!Return
  <2>1. PICK up : ComeUp(collection, m, n, up, subtrees, node)
    BY <2>0
  <2>2. /\ subtrees = <<>> /\ stage' = "returned" /\ collection' = collection
        /\ node' = node /\ subtrees' = subtrees
    BY <1>10 DEF Spine!Return
  <2>3. m = 0
    BY <2>1, <2>2, RootsSoFar DEF ComeUp
  <2>. QED
    BY <1>1, <2>1, <2>2, <2>3 DEF PlaceInv
<1>11. CASE UNCHANGED Spine!vars
  BY <1>11 DEF PlaceInv, Spine!vars
<1>. QED
  BY <1>3, <1>4, <1>5, <1>6, <1>7, <1>8, <1>9, <1>10, <1>11 DEF Spine!Next

---------------------------------------------------------------------------
(* A chunk keeps its place. *)

(* The levels the data fills are those that were opened. *)
LEMMA LevelsOpened ==
  ASSUME TInv, PlaceInv, NEW n \in Nat, Begun(collection, n), Len(collection) <= spine[n].passed
  PROVE  Spine!Levels = n
<1>1. Len(collection) \in Nat /\ Len(collection) <= MaxChunks /\ MaxChunks \in Nat
  <2>1. collection \in Seq(Chunks)
    BY DEF TInv, SpineTypes
  <2>2. Len(collection) \in Nat
    <3> HIDE DEF Chunks
    <3>. QED
      BY <2>1, LenProperties
  <2>. QED
    BY <2>2, DataAssumption DEF PlaceInv
<1> DEFINE Fits(k) == Len(collection) <= spine[k].passed /\ Begun(collection, k)
<1>2. n \in 0..MaxChunks
  <2>1. CASE n = 0
    BY <1>1, <2>1
  <2>2. CASE n # 0
    <3>1. n - 1 \in Nat
      BY <2>2
    <3>2. n - 1 <= spine[n - 1].passed /\ spine[n - 1].passed \in Nat
      BY <3>1, Levelled DEF LevelIs
    <3>. QED
      BY <1>1, <2>2, <3>2 DEF Begun
  <2>. QED
    BY <2>1, <2>2
<1>3. ASSUME NEW j \in Nat, NEW k \in Nat, Fits(j), Fits(k), j < k
      PROVE  FALSE
  <2>1. k # 0 /\ k - 1 \in Nat /\ j <= k - 1
    BY <1>3
  <2>2. spine[j].passed <= spine[k - 1].passed
    BY <2>1, LevelsRise
  <2>3. spine[j].passed \in Nat /\ spine[k - 1].passed \in Nat
    BY <2>1, Levelled DEF LevelIs
  <2>. QED
    BY <1>1, <1>3, <2>1, <2>2, <2>3 DEF Begun
<1>4. Spine!Levels = CHOOSE k \in 0..MaxChunks : Fits(k)
  BY SameIndices DEF Spine!Levels, Begun
<1>5. Fits(n)
  OBVIOUS
<1> HIDE DEF Fits
<1>6. \A k \in 0..MaxChunks : Fits(k) => k = n
  <2> SUFFICES ASSUME NEW k \in 0..MaxChunks, Fits(k)
               PROVE  k = n
    OBVIOUS
  <2>1. k \in Nat
    BY <1>1
  <2>2. ~ (k < n) /\ ~ (n < k)
    BY <1>3, <1>5, <2>1
  <2>. QED
    BY <2>1, <2>2
<1>. QED
  BY <1>2, <1>4, <1>5, <1>6

(* The spine nodes are where their levels say. *)
LEMMA SpineHangs ==
  ASSUME NEW seq, NEW n \in Nat, NEW up, Hangs(up, seq, 0, n)
  PROVE  \A k \in 0..n : Spine!NodeAt(Pair(up[0], Mixin), spine[k].node) = up[k]
<1> DEFINE tree == Pair(up[0], Mixin)
           S == {k \in Nat : k <= n => Spine!NodeAt(tree, spine[k].node) = up[k]}
<1>1. 0 \in S
  <2>1. Spine!NodeAt(tree, 1) = Pair(up[0], Mixin)
    BY NodeUnfolds
  <2>2. 1 \in Nat \ {0} /\ 2 * 1 = 2
    OBVIOUS
  <2>3. spine[0].node = 2
    BY SpineStarts
  <2> HIDE DEF tree
  <2>4. Spine!NodeAt(tree, 2) = up[0]
    BY <2>1, <2>2, NodesBelow
  <2>. QED
    BY <2>3, <2>4
<1> HIDE DEF tree
<1>2. ASSUME NEW k \in Nat, k \in S
      PROVE  k + 1 \in S
  <2> SUFFICES ASSUME k + 1 <= n
               PROVE  Spine!NodeAt(tree, spine[k + 1].node) = up[k + 1]
    OBVIOUS
  <2>1. Spine!NodeAt(tree, spine[k].node) = up[k]
    BY <1>2
  <2>2. k \in 0..(n - 1)
    OBVIOUS
  <2>3. up[k] = Pair(LevelRoot(seq, k), up[k + 1])
    BY <2>2 DEF Hangs
  <2>4. spine[k].node \in Nat \ {0} /\ spine[k + 1].node = 2 * spine[k].node + 1
    BY Levelled DEF LevelIs
  <2>. QED
    BY <2>1, <2>3, <2>4, NodesBelow
<1>3. Nat \subseteq S
  <2> HIDE DEF S
  <2>. QED
    BY <1>1, <1>2, FromZeroUp
<1>. QED
  BY <1>3 DEF tree

(* The leaf a chunk's number alone leads to holds the chunk. *)
LEMMA ChunkFound ==
  ASSUME NEW seq \in Seq(Chunks), NEW n \in Nat, NEW up, Hangs(up, seq, 0, n),
         NEW c \in Nat, c < spine[n].passed
  PROVE  Spine!NodeAt(Pair(up[0], Mixin), ProgressiveChunk(c)) = Leaf(seq, c)
<1> HIDE DEF Chunks
<1> DEFINE tree == Pair(up[0], Mixin)
<1>1. PICK k \in 0..(n - 1) : Reaches(k, c)
  BY EveryChunkHeld
<1> DEFINE passed == spine[k].passed
           depth == spine[k].depth
           over == spine[k].node
           r == c - passed
<1>2. /\ k \in Nat /\ k \in 0..n
      /\ passed \in Nat /\ depth \in Nat /\ over \in Nat \ {0}
      /\ spine[k + 1].passed = passed + pow2[depth]
  BY <1>1, Levelled DEF LevelIs
<1>3. pow2[depth] \in Nat
  BY <1>2, Powers
<1>4. passed <= c /\ c < passed + pow2[depth]
  BY <1>1, <1>2 DEF Reaches
<1>5. ProgressiveChunk(c) = (2 * over) * pow2[depth] + r
  BY <1>1, <1>2, ChunkInLevel
<1>6. Spine!NodeAt(tree, over) = up[k]
  <2>1. \A j \in 0..n : Spine!NodeAt(Pair(up[0], Mixin), spine[j].node) = up[j]
    BY SpineHangs
  <2>. QED
    BY <1>2, <2>1
<1>7. up[k] = Pair(LevelRoot(seq, k), up[k + 1])
  BY <1>1 DEF Hangs
<1>8. LevelRoot(seq, k) = Layers(Held(seq, k))[depth][0]
  BY <1>2, PaddedAt DEF LevelRoot
<1>9. Held(seq, k) = Slice(seq, passed, passed + pow2[depth])
  BY <1>2 DEF Held
<1> HIDE DEF tree, passed, depth, over
<1>10. r \in Nat /\ r < pow2[depth] /\ passed + r = c
  BY <1>2, <1>3, <1>4
<1> HIDE DEF r
<1>11. Spine!NodeAt(tree, 2 * over) = Layers(Held(seq, k))[depth][0]
  BY <1>2, <1>6, <1>7, <1>8, NodesBelow
<1>12. 2 * over \in Nat \ {0} /\ depth <= depth /\ depth - depth = 0
  BY <1>2
<1>13. Spine!NodeAt(tree, (2 * over) * pow2[depth] + r) = Layers(Held(seq, k))[depth - depth][r]
  BY <1>2, <1>10, <1>11, <1>12, LayersBelow
<1>14. Layers(Held(seq, k))[0][r] = Leaf(Held(seq, k), r)
  BY <1>10, LayersUnfold
<1>15. Leaf(Held(seq, k), r) = Leaf(seq, c)
  <2>1. passed + pow2[depth] \in Nat /\ passed + r < passed + pow2[depth]
    BY <1>2, <1>3, <1>10
  <2> DEFINE stop == passed + pow2[depth]
  <2> HIDE DEF stop
  <2>2. stop \in Nat /\ passed + r < stop
    BY <2>1 DEF stop
  <2>3. Leaf(Slice(seq, passed, stop), r) = Leaf(seq, passed + r)
    BY <1>2, <1>10, <2>2, LeavesOfSlice
  <2>. QED
    BY <1>9, <1>10, <2>3 DEF stop
<1>. QED
  BY <1>5, <1>12, <1>13, <1>14, <1>15 DEF tree

LEMMA PlacesAreKept == TInv /\ PlaceInv => ChunksKeepTheirPlace
<1> SUFFICES ASSUME TInv, PlaceInv, stage = "returned"
             PROVE  /\ \A c \in 0..(spine[Spine!Levels].passed - 1) :
                         Spine!NodeAt(Pair(node, Mixin), ProgressiveChunk(c)) = Leaf(collection, c)
                    /\ Spine!NodeAt(Pair(node, Mixin), spine[Spine!Levels].node) = ZeroChunk
                    /\ Spine!NodeAt(Pair(node, Mixin),
                                    ProgressiveChunk(spine[Spine!Levels].passed)) = Absent
  <2>1. \A l, r : Spine!Pair(l, r) = Pair(l, r)
    BY DEF Spine!Pair, Pair
  <2>2. \A s, i : Spine!Leaf(s, i) = Leaf(s, i)
    BY DEF Spine!Leaf, Leaf
  <2>. QED
    BY <2>1, <2>2, SameIndices DEF ChunksKeepTheirPlace, Spine!ChunksKeepTheirPlace
<1>0. PICK n \in Nat : \E up : ComeUp(collection, 0, n, up, subtrees, node)
  BY DEF PlaceInv
<1>1. PICK up : ComeUp(collection, 0, n, up, subtrees, node)
  BY <1>0
<1>2. /\ Hangs(up, collection, 0, n) /\ node = up[0]
      /\ Begun(collection, n) /\ Len(collection) <= spine[n].passed
  BY <1>1 DEF ComeUp
<1>3. Spine!Levels = n
  BY <1>2, LevelsOpened
<1>4. collection \in Seq(Chunks)
  BY DEF TInv, SpineTypes
<1>5. /\ spine[n].passed \in Nat /\ spine[n].depth \in Nat /\ spine[n].node \in Nat \ {0}
      /\ spine[n + 1].passed = spine[n].passed + pow2[spine[n].depth]
  BY Levelled DEF LevelIs
<1>6. ASSUME NEW c \in 0..(spine[n].passed - 1)
      PROVE  Spine!NodeAt(Pair(node, Mixin), ProgressiveChunk(c)) = Leaf(collection, c)
  <2>1. c \in Nat /\ c < spine[n].passed
    BY <1>5
  <2> HIDE DEF Chunks
  <2>. QED
    BY <1>2, <1>4, <2>1, ChunkFound
<1>7. Spine!NodeAt(Pair(node, Mixin), spine[n].node) = ZeroChunk
  <2>1. n \in 0..n /\ up[n] = ZeroChunk
    BY <1>2 DEF Hangs
  <2>. QED
    BY <1>2, <2>1, SpineHangs
<1>8. Spine!NodeAt(Pair(node, Mixin), ProgressiveChunk(spine[n].passed)) = Absent
  <2>1. pow2[spine[n].depth] \in Nat \ {0}
    BY <1>5, Powers
  <2>2. Reaches(n, spine[n].passed)
    BY <1>5, <2>1 DEF Reaches
  <2>3. ProgressiveChunk(spine[n].passed)
          = (2 * spine[n].node) * pow2[spine[n].depth] + (spine[n].passed - spine[n].passed)
    BY <1>5, <2>2, ChunkInLevel
  <2>4. /\ spine[n].passed - spine[n].passed = 0
        /\ (2 * spine[n].node) * pow2[spine[n].depth] \in Nat
    BY <1>5, <2>1
  <2>5. ProgressiveChunk(spine[n].passed) = (2 * spine[n].node) * pow2[spine[n].depth]
    BY <2>3, <2>4
  <2>6. Spine!NodeAt(Pair(node, Mixin), spine[n].node) \in Spine!Leaves
    BY <1>7 DEF Spine!Leaves
  <2>. QED
    BY <1>5, <2>5, <2>6, NothingBelow
<1>. QED
  BY <1>3, <1>6, <1>7, <1>8

(* However long the collection grows or shrinks to, once it is rooted every  *)
(* chunk is found in the tree at the index its number alone gives, what the *)
(* last level does not fill is zero, and past that level there is one zero  *)
(* node with nothing beneath it: a proof outlives an append                 *)
(* (trees.py:147, gindex.py:100).                                           *)
THEOREM PlacesTheorem == TreesSpec => []ChunksKeepTheirPlace
<1>1. TreesInit => PlaceInv
  BY PlaceStarts DEF TreesInit
<1>2. TInv /\ PlaceInv /\ [TreesNext]_allVars => PlaceInv'
  BY StepsAreOfTheSpine, PlaceKept
<1>. QED
  BY <1>1, <1>2, PlacesAreKept, TreesInvariantHolds, PTL DEF TreesSpec
=============================================================================

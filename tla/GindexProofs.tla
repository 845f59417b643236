---------------------------- MODULE GindexProofs ----------------------------
(***************************************************************************)
(* Facts about generalized indices and powers of two that the theorems of  *)
(* verification and of trees rest on: recursive functions are what their   *)
(* definitions say, a splice of two indices can be undone, and every chunk *)
(* of a progressive spine is in one of its levels.                         *)
(***************************************************************************)
EXTENDS Gindex, SequenceTheorems, WellFoundedInduction, TLAPS

(* Every non-empty set of naturals has a least element. *)
LEMMA Least ==
  ASSUME NEW S \in SUBSET Nat, S # {}
  PROVE  \E x \in S : \A y \in S : x <= y
<1> DEFINE Less == {r \in Nat \X Nat : r[1] < r[2]}
<1>1. OpToRel(<, Nat) = Less
  BY DEF OpToRel
<1>2. IsWellFoundedOn(Less, Nat)
  BY <1>1, NatLessThanWellFounded
<1> HIDE DEF Less
<1>3. PICK x \in S : \A y \in S : ~ (<<y, x>> \in Less)
  BY <1>2, WFMin, Zenon
<1>4. \A y \in S : ~ (y < x)
  BY <1>3 DEF Less
<1> QED
  BY <1>4

(* What holds of zero and is handed on holds of every number. *)
LEMMA FromZeroUp ==
  ASSUME NEW S, 0 \in S, \A n \in Nat : n \in S => n + 1 \in S
  PROVE  Nat \subseteq S
<1> DEFINE missing == Nat \ S
<1> SUFFICES ASSUME missing # {}
             PROVE  FALSE
  OBVIOUS
<1>1. PICK n \in missing : \A m \in missing : n <= m
  <2>1. missing \in SUBSET Nat
    OBVIOUS
  <2> HIDE DEF missing
  <2>. QED
    BY <2>1, Least
<1>2. n \in Nat /\ n # 0 /\ n - 1 \in Nat
  OBVIOUS
<1>3. n - 1 \notin missing /\ (n - 1) + 1 = n
  BY <1>1, <1>2
<1>4. n \in S
  BY <1>2, <1>3
<1>. QED
  BY <1>4

(* A node below the root, its parent and its sibling (gindex.py:42, 52). *)
LEMMA HalfOf ==
  ASSUME NEW n \in Nat, n > 1
  PROVE  /\ Parent(n) \in Nat /\ 1 <= Parent(n) /\ Parent(n) < n
         /\ n = 2 * Parent(n) \/ n = 2 * Parent(n) + 1
         /\ Sibling(n) \in Nat /\ Sibling(n) > 1 /\ Sibling(n) # n
         /\ Parent(Sibling(n)) = Parent(n) /\ Sibling(Sibling(n)) = n
         /\ {n, Sibling(n)} = {2 * Parent(n), 2 * Parent(n) + 1}
  BY DEF Parent, Sibling

(* The two children of a node. *)
LEMMA Halves ==
  ASSUME NEW p \in Nat, p > 0
  PROVE  /\ Parent(2 * p) = p /\ Parent(2 * p + 1) = p
         /\ Sibling(2 * p) = 2 * p + 1 /\ Sibling(2 * p + 1) = 2 * p
  BY DEF Parent, Sibling

---------------------------------------------------------------------------
(* The recursive functions over indices, levels and exponents have          *)
(* solutions, found one argument at a time.  Each is told by its kind and  *)
(* by what it starts with.                                                 *)

Climbing == {"path", "shifts", "node"}
Kinds == Climbing \cup {"power", "spine", "doubled", "layers", "stepped"}

Before(kind, i) == IF kind \in Climbing THEN Parent(i) ELSE i - 1

Opened(above) ==
  [passed |-> above.passed + pow2[above.depth],
   depth  |-> above.depth + 2,
   node   |-> Child(above.node, TRUE)]

Unfolded(kind, with, f, i) ==
  CASE kind = "path" -> IF i <= 1 THEN {} ELSE {i} \cup f[Parent(i)]
    [] kind = "shifts" -> IF i = 0 THEN <<>> ELSE <<i>> \o f[Parent(i)]
    [] kind = "node" ->
         IF i <= 1 THEN with.tree
         ELSE IF f[Parent(i)] \in with.leaves THEN with.absent
         ELSE f[Parent(i)][IF Bit(i, 0) THEN 2 ELSE 1]
    [] kind = "power" -> IF i = 0 THEN 1 ELSE 2 * f[i - 1]
    [] kind = "spine" ->
         IF i = 0 THEN [passed |-> 0, depth |-> 0, node |-> 2] ELSE Opened(f[i - 1])
    [] kind = "doubled" -> IF i = 0 THEN with ELSE <<f[i - 1], f[i - 1]>>
    [] kind = "layers" ->
         IF i = 0 THEN with ELSE [j \in Nat |-> <<f[i - 1][2 * j], f[i - 1][2 * j + 1]>>]
    [] kind = "stepped" -> IF i = 0 THEN with.first ELSE with.step[i][f[i - 1]]

UpTo(kind, with, f, n) == f = [i \in 0..n |-> Unfolded(kind, with, f, i)]

(* What an argument is unfolded to is smaller. *)
LEMMA BeforeIsLess ==
  ASSUME NEW kind, NEW n \in Nat, n > 0
  PROVE  Before(kind, n) \in Nat /\ Before(kind, n) < n
  BY DEF Before, Parent

(* A solution up to n unfolds at every index up to n. *)
LEMMA UpToUnfolds ==
  ASSUME NEW kind, NEW with, NEW f, NEW n \in Nat, UpTo(kind, with, f, n), NEW i \in 0..n
  PROVE  f[i] = Unfolded(kind, with, f, i)
  BY Zenon DEF UpTo

(* One unfolding looks at one smaller argument and at nothing else. *)
LEMMA UnfoldedAlike ==
  ASSUME NEW kind \in Kinds, NEW with,
         NEW f, NEW g, NEW i \in Nat, i > 0 => f[Before(kind, i)] = g[Before(kind, i)]
  PROVE  Unfolded(kind, with, f, i) = Unfolded(kind, with, g, i)
<1>1. CASE i = 0
  BY <1>1 DEF Unfolded
<1>2. CASE i > 0 /\ kind \in Climbing
  <2>1. f[Parent(i)] = g[Parent(i)]
    BY <1>2 DEF Before
  <2> QED
    BY <1>2, <2>1 DEF Unfolded, Climbing
<1>3. CASE i > 0 /\ kind \notin Climbing
  <2>1. f[i - 1] = g[i - 1]
    BY <1>3 DEF Before
  <2>2. kind \in {"power", "spine", "doubled", "layers", "stepped"}
    BY <1>3 DEF Kinds
  <2> QED
    BY <1>3, <2>1, <2>2 DEF Unfolded
<1> QED
  BY <1>1, <1>2, <1>3

(* There is a solution up to every index. *)
LEMMA UpToExists ==
  ASSUME NEW kind \in Kinds, NEW with
  PROVE  \A n \in Nat : \E f : UpTo(kind, with, f, n)
<1> DEFINE Bad == {n \in Nat : ~ \E f : UpTo(kind, with, f, n)}
<1> SUFFICES ASSUME Bad # {} PROVE FALSE
  OBVIOUS
<1>1. PICK n \in Bad : \A m \in Bad : n <= m
  <2>1. Bad \in SUBSET Nat
    OBVIOUS
  <2> HIDE DEF Bad
  <2> QED
    BY <2>1, Least
<1>2. CASE n = 0
  <2> DEFINE f == [i \in 0..0 |-> Unfolded(kind, with, <<>>, i)]
  <2>1. \A i \in 0..0 : Unfolded(kind, with, <<>>, i) = Unfolded(kind, with, f, i)
    <3> SUFFICES ASSUME NEW i \in 0..0 PROVE Unfolded(kind, with, <<>>, i) = Unfolded(kind, with, f, i)
      OBVIOUS
    <3>1. i \in Nat /\ ~ (i > 0)
      OBVIOUS
    <3> HIDE DEF f
    <3> QED
      BY <3>1, UnfoldedAlike
  <2>2. f = [i \in 0..0 |-> Unfolded(kind, with, <<>>, i)]
    OBVIOUS
  <2> HIDE DEF f
  <2>3. UpTo(kind, with, f, 0)
    BY <2>1, <2>2 DEF UpTo
  <2> QED
    BY <1>1, <1>2, <2>3
<1>3. CASE n > 0
  <2>1. n - 1 \in Nat /\ n - 1 \notin Bad
    BY <1>1, <1>3
  <2>2. PICK f : UpTo(kind, with, f, n - 1)
    BY <2>1
  <2> DEFINE g == [i \in 0..n |-> Unfolded(kind, with, f, i)]
  <2>3. \A i \in 0..(n - 1) : f[i] = Unfolded(kind, with, f, i)
    BY <2>1, <2>2, UpToUnfolds
  <2>4. \A i \in 0..n : Unfolded(kind, with, f, i) = Unfolded(kind, with, g, i)
    <3> SUFFICES ASSUME NEW i \in 0..n PROVE Unfolded(kind, with, f, i) = Unfolded(kind, with, g, i)
      OBVIOUS
    <3>1. i > 0 => Before(kind, i) \in 0..(n - 1) /\ Before(kind, i) \in 0..n
      BY BeforeIsLess, <1>1
    <3>2. i > 0 => g[Before(kind, i)] = f[Before(kind, i)]
      BY <2>3, <3>1
    <3> HIDE DEF g
    <3> QED
      BY <3>2, UnfoldedAlike
  <2>5. g = [i \in 0..n |-> Unfolded(kind, with, f, i)]
    OBVIOUS
  <2> HIDE DEF g
  <2>6. g = [i \in 0..n |-> Unfolded(kind, with, g, i)]
    BY <2>4, <2>5
  <2>7. UpTo(kind, with, g, n)
    BY <2>6 DEF UpTo
  <2> QED
    BY <2>7, <1>1
<1> QED
  BY <1>1, <1>2, <1>3

(* Solutions agree wherever both are defined. *)
LEMMA UpToAgree ==
  ASSUME NEW kind \in Kinds, NEW with, NEW m \in Nat, NEW n \in Nat, m <= n,
         NEW f, NEW g, UpTo(kind, with, f, m), UpTo(kind, with, g, n)
  PROVE  \A i \in 0..m : f[i] = g[i]
<1> DEFINE Bad == {i \in 0..m : f[i] # g[i]}
<1> SUFFICES ASSUME Bad # {} PROVE FALSE
  OBVIOUS
<1>1. PICK i \in Bad : \A j \in Bad : i <= j
  <2>1. Bad \in SUBSET Nat
    OBVIOUS
  <2> HIDE DEF Bad
  <2> QED
    BY <2>1, Least
<1>2. f[i] = Unfolded(kind, with, f, i) /\ g[i] = Unfolded(kind, with, g, i)
  BY <1>1, UpToUnfolds
<1>3. i > 0 => Before(kind, i) \in 0..m /\ Before(kind, i) < i
  BY <1>1, BeforeIsLess
<1>4. i > 0 => f[Before(kind, i)] = g[Before(kind, i)]
  BY <1>1, <1>3
<1> QED
  BY <1>1, <1>2, <1>4, UnfoldedAlike

(* There is a solution over all indices. *)
LEMMA SolutionExists ==
  ASSUME NEW kind \in Kinds, NEW with
  PROVE  \E g : g = [i \in Nat |-> Unfolded(kind, with, g, i)]
<1> DEFINE upTo(n) == CHOOSE f : UpTo(kind, with, f, n)
           g == [i \in Nat |-> upTo(i)[i]]
<1>1. \A n \in Nat : UpTo(kind, with, upTo(n), n)
  BY UpToExists
<1> HIDE DEF upTo
<1>2. ASSUME NEW i \in Nat
      PROVE  g[i] = Unfolded(kind, with, g, i)
  <2>1. upTo(i)[i] = Unfolded(kind, with, upTo(i), i)
    BY <1>1, UpToUnfolds
  <2>2. i > 0 => upTo(i)[Before(kind, i)] = g[Before(kind, i)]
    <3> SUFFICES ASSUME i > 0 PROVE upTo(i)[Before(kind, i)] = g[Before(kind, i)]
      OBVIOUS
    <3>1. Before(kind, i) \in Nat /\ Before(kind, i) <= i /\ Before(kind, i) \in 0..Before(kind, i)
      BY BeforeIsLess
    <3>2. upTo(i)[Before(kind, i)] = upTo(Before(kind, i))[Before(kind, i)]
      BY <1>1, <3>1, UpToAgree
    <3> QED
      BY <3>1, <3>2
  <2>3. g[i] = upTo(i)[i]
    OBVIOUS
  <2> HIDE DEF g
  <2>4. Unfolded(kind, with, upTo(i), i) = Unfolded(kind, with, g, i)
    BY <2>2, UnfoldedAlike
  <2> QED
    BY <2>1, <2>3, <2>4
<1>3. g = [i \in Nat |-> g[i]]
  OBVIOUS
<1> HIDE DEF g
<1>4. g = [i \in Nat |-> Unfolded(kind, with, g, i)]
  BY <1>2, <1>3
<1> QED
  BY <1>4

(* From one value to the next by steps of its own, as far as there are steps. *)
Climbs(f, n, S, first, step) ==
  /\ f = [i \in 0..n |-> IF i = 0 THEN first ELSE step[i][f[i - 1]]]
  /\ \A i \in 0..n : f[i] \in S

LEMMA StepsTaken ==
  ASSUME NEW n \in Nat, NEW S, NEW first \in S, NEW step, \A i \in 1..n : step[i] \in [S -> S]
  PROVE  \E f : Climbs(f, n, S, first, step)
<1> DEFINE with == [first |-> first, step |-> step]
<1>1. PICK f : UpTo("stepped", with, f, n)
  BY UpToExists DEF Kinds
<1>2. f = [i \in 0..n |-> Unfolded("stepped", with, f, i)]
  BY <1>1 DEF UpTo
<1>3. f = [i \in 0..n |-> IF i = 0 THEN first ELSE step[i][f[i - 1]]]
  <2>1. with.first = first /\ with.step = step
    OBVIOUS
  <2> HIDE DEF with
  <2>2. \A i \in 0..n : Unfolded("stepped", with, f, i) =
                          IF i = 0 THEN first ELSE step[i][f[i - 1]]
    BY <2>1 DEF Unfolded
  <2>. QED
    BY <1>2, <2>2
<1> DEFINE inside == {i \in Nat : i <= n => f[i] \in S}
<1>4. \A i \in 0..n : f[i] = IF i = 0 THEN first ELSE step[i][f[i - 1]]
  BY <1>3
<1> HIDE DEF with
<1>5. 0 \in inside
  BY <1>4
<1>6. ASSUME NEW i \in Nat, i \in inside
      PROVE  i + 1 \in inside
  <2>1. ASSUME i + 1 <= n
        PROVE  f[i + 1] \in S
    <3>1. i + 1 \in 0..n /\ i + 1 # 0 /\ (i + 1) - 1 = i /\ i + 1 \in 1..n /\ i <= n
      BY <2>1
    <3>2. f[i + 1] = step[i + 1][f[i]] /\ f[i] \in S
      BY <1>4, <1>6, <3>1
    <3>. QED
      BY <3>1, <3>2
  <2>. QED
    BY <2>1
<1>7. Nat \subseteq inside
  <2> HIDE DEF inside
  <2>. QED
    BY <1>5, <1>6, FromZeroUp
<1>8. \A i \in 0..n : f[i] \in S
  <2>1. \A i \in 0..n : i \in Nat /\ i <= n
    OBVIOUS
  <2>. QED
    BY <1>7, <2>1
<1>9. Climbs(f, n, S, first, step)
  BY <1>3, <1>8 DEF Climbs
<1>. QED
  BY <1>9

(* path is its own unfolding, at every index. *)
LEMMA PathUnfolds ==
  \A i \in Nat : path[i] = IF i <= 1 THEN {} ELSE {i} \cup path[Parent(i)]
<1>1. PICK g : g = [i \in Nat |-> Unfolded("path", <<>>, g, i)]
  BY SolutionExists DEF Kinds, Climbing
<1>2. g = [i \in Nat |-> IF i <= 1 THEN {} ELSE {i} \cup g[Parent(i)]]
  BY <1>1 DEF Unfolded
<1>3. path = [i \in Nat |-> IF i <= 1 THEN {} ELSE {i} \cup path[Parent(i)]]
  BY <1>2, Zenon DEF path
<1> QED
  BY <1>3, Zenon

(* So is kind is left of an index as it is shifted. *)
LEMMA ShiftsUnfold ==
  \A i \in Nat : shifts[i] = IF i = 0 THEN <<>> ELSE <<i>> \o shifts[Parent(i)]
<1>1. PICK g : g = [i \in Nat |-> Unfolded("shifts", <<>>, g, i)]
  BY SolutionExists DEF Kinds, Climbing
<1>2. g = [i \in Nat |-> IF i = 0 THEN <<>> ELSE <<i>> \o g[Parent(i)]]
  BY <1>1 DEF Unfolded
<1>3. shifts = [i \in Nat |-> IF i = 0 THEN <<>> ELSE <<i>> \o shifts[Parent(i)]]
  BY <1>2, Zenon DEF shifts
<1> QED
  BY <1>3, Zenon

(* They are numbers. *)
LEMMA ShiftsAreNumbers == \A i \in Nat : shifts[i] \in Seq(Nat)
<1> DEFINE Bad == {i \in Nat : shifts[i] \notin Seq(Nat)}
<1> SUFFICES ASSUME Bad # {} PROVE FALSE
  OBVIOUS
<1>1. PICK n \in Bad : \A m \in Bad : n <= m
  <2>1. Bad \in SUBSET Nat
    OBVIOUS
  <2> HIDE DEF Bad
  <2> QED
    BY <2>1, Least
<1>2. n \in Nat /\ shifts[n] \notin Seq(Nat)
  OBVIOUS
<1>3. n # 0
  BY <1>2, ShiftsUnfold, EmptySeq
<1>4. Parent(n) \in Nat /\ Parent(n) < n
  BY <1>2, <1>3 DEF Parent
<1>5. shifts[Parent(n)] \in Seq(Nat)
  BY <1>1, <1>4
<1>6. <<n>> \o shifts[Parent(n)] \in Seq(Nat)
  BY <1>2, <1>5, ConcatProperties
<1> QED
  BY <1>2, <1>3, <1>6, ShiftsUnfold

(* So is a power of two. *)
LEMMA PowersUnfold == \A k \in Nat : pow2[k] = IF k = 0 THEN 1 ELSE 2 * pow2[k - 1]
<1>1. PICK g : g = [i \in Nat |-> Unfolded("power", <<>>, g, i)]
  BY SolutionExists DEF Kinds, Climbing
<1>2. g = [i \in Nat |-> IF i = 0 THEN 1 ELSE 2 * g[i - 1]]
  BY <1>1 DEF Unfolded
<1>3. pow2 = [i \in Nat |-> IF i = 0 THEN 1 ELSE 2 * pow2[i - 1]]
  BY <1>2, Zenon DEF pow2
<1> QED
  BY <1>3, Zenon

(* And so is a level of a spine. *)
LEMMA SpineUnfolds ==
  \A n \in Nat : spine[n] = IF n = 0 THEN [passed |-> 0, depth |-> 0, node |-> 2]
                            ELSE Opened(spine[n - 1])
<1>1. PICK g : g = [i \in Nat |-> Unfolded("spine", <<>>, g, i)]
  BY SolutionExists DEF Kinds, Climbing
<1>2. g = [i \in Nat |-> IF i = 0 THEN [passed |-> 0, depth |-> 0, node |-> 2]
                         ELSE Opened(g[i - 1])]
  BY <1>1 DEF Unfolded
<1>3. spine = [i \in Nat |-> IF i = 0 THEN [passed |-> 0, depth |-> 0, node |-> 2]
                             ELSE Opened(spine[i - 1])]
  BY <1>2 DEF spine, Opened
<1> QED
  BY <1>3, Zenon

---------------------------------------------------------------------------
(* Powers of two. *)

LEMMA Powers ==
  /\ pow2[0] = 1
  /\ \A k \in Nat : pow2[k] \in Nat \ {0} /\ pow2[k + 1] = 2 * pow2[k] /\ k < pow2[k]
<1> DEFINE S == {k \in Nat : pow2[k] \in Nat \ {0} /\ k < pow2[k]}
<1>1. pow2[0] = 1
  BY PowersUnfold
<1>2. ASSUME NEW k \in Nat
      PROVE  pow2[k + 1] = 2 * pow2[k]
  <2>1. k + 1 \in Nat /\ k + 1 # 0 /\ (k + 1) - 1 = k
    OBVIOUS
  <2>. QED
    BY <2>1, PowersUnfold
<1>3. 0 \in S
  BY <1>1
<1>4. ASSUME NEW k \in Nat, k \in S
      PROVE  k + 1 \in S
  BY <1>2, <1>4
<1>5. Nat \subseteq S
  <2> HIDE DEF S
  <2>. QED
    BY <1>3, <1>4, FromZeroUp
<1>. QED
  BY <1>1, <1>2, <1>5

LEMMA PowersRise ==
  ASSUME NEW j \in Nat, NEW k \in Nat
  PROVE  /\ j < k <=> pow2[j] < pow2[k]
         /\ j <= k <=> pow2[j] <= pow2[k]
<1>1. ASSUME NEW n \in Nat
      PROVE  \A m \in Nat : pow2[n] < pow2[(n + m) + 1]
  <2> DEFINE S == {m \in Nat : pow2[n] < pow2[(n + m) + 1]}
  <2>1. 0 \in S
    BY Powers
  <2>2. ASSUME NEW m \in Nat, m \in S
        PROVE  m + 1 \in S
    <3>1. /\ (n + m) + 1 \in Nat /\ (n + (m + 1)) + 1 = ((n + m) + 1) + 1
          /\ pow2[n] < pow2[(n + m) + 1]
      BY <2>2
    <3>2. /\ pow2[((n + m) + 1) + 1] = 2 * pow2[(n + m) + 1]
          /\ pow2[(n + m) + 1] \in Nat /\ pow2[n] \in Nat
      BY <3>1, Powers
    <3>. QED
      BY <3>1, <3>2
  <2>3. Nat \subseteq S
    <3> HIDE DEF S
    <3>. QED
      BY <2>1, <2>2, FromZeroUp
  <2>. QED
    BY <2>3
<1>2. ASSUME NEW n \in Nat, NEW m \in Nat, n < m
      PROVE  pow2[n] < pow2[m]
  <2>1. (m - n) - 1 \in Nat /\ (n + ((m - n) - 1)) + 1 = m
    BY <1>2
  <2>. QED
    BY <1>1, <2>1
<1>3. pow2[j] \in Nat /\ pow2[k] \in Nat
  BY Powers
<1>4. CASE j < k
  BY <1>2, <1>3, <1>4
<1>5. CASE k < j
  BY <1>2, <1>3, <1>5
<1>6. CASE j = k
  BY <1>3, <1>6
<1>. QED
  BY <1>4, <1>5, <1>6

LEMMA PowersMultiply ==
  ASSUME NEW j \in Nat, NEW k \in Nat
  PROVE  pow2[j + k] = pow2[j] * pow2[k]
<1> DEFINE S == {m \in Nat : pow2[j + m] = pow2[j] * pow2[m]}
<1>1. 0 \in S
  BY Powers
<1>2. ASSUME NEW m \in Nat, m \in S
      PROVE  m + 1 \in S
  <2>1. /\ j + m \in Nat /\ j + (m + 1) = (j + m) + 1
        /\ pow2[j + m] = pow2[j] * pow2[m]
    BY <1>2
  <2>2. /\ pow2[(j + m) + 1] = 2 * pow2[j + m] /\ pow2[m + 1] = 2 * pow2[m]
        /\ pow2[j] \in Nat /\ pow2[m] \in Nat
    BY <2>1, Powers
  <2>3. 2 * (pow2[j] * pow2[m]) = pow2[j] * (2 * pow2[m])
    BY <2>2
  <2>. QED
    BY <2>1, <2>2, <2>3
<1>3. Nat \subseteq S
  <2> HIDE DEF S
  <2>. QED
    BY <1>1, <1>2, FromZeroUp
<1>. QED
  BY <1>3

LEMMA PowersAdd ==
  ASSUME NEW j \in Nat, NEW k \in Nat, j <= k
  PROVE  k - j \in Nat /\ pow2[k] = pow2[j] * pow2[k - j]
<1>1. k - j \in Nat /\ j + (k - j) = k
  OBVIOUS
<1>. QED
  BY <1>1, PowersMultiply

LEMMA MoreTimes ==
  ASSUME NEW a \in Int, NEW b \in Int, NEW c \in Nat, a <= b
  PROVE  a * c \in Int /\ b * c \in Int /\ a * c <= b * c
<1>1. b - a \in Nat /\ (b - a) * c \in Nat
  OBVIOUS
<1>2. (b - a) * c = b * c - a * c
  OBVIOUS
<1>. QED
  BY <1>1, <1>2


(* What is left of a number of whole widths and a rest. *)
LEMMA Remainder ==
  ASSUME NEW times \in Nat, NEW width \in Nat \ {0}, NEW left \in Nat, left < width
  PROVE  (times * width + left) % width = left
<1> DEFINE S == {n \in Nat : (n * width + left) % width = left}
<1>1. 0 \in S
  OBVIOUS
<1>2. ASSUME NEW n \in Nat, n \in S
      PROVE  n + 1 \in S
  <2>1. (n + 1) * width + left = (n * width + left) + width
    OBVIOUS
  <2> QED
    BY <1>2, <2>1
<1>3. Nat \subseteq S
  <2> HIDE DEF S
  <2> QED
    BY <1>1, <1>2, FromZeroUp
<1> QED
  BY <1>3

---------------------------------------------------------------------------
(* Depths, and splices of one index onto another. *)

Measured(index) ==
  /\ Depth(index) \in Nat
  /\ pow2[Depth(index)] <= index /\ index < pow2[Depth(index) + 1]

(* The leading bit of an index is as high as the index is deep. *)
LEMMA DepthsMeasure == \A index \in Nat \ {0} : Measured(index)
<1> DEFINE Bad == {i \in Nat \ {0} : ~ Measured(i)}
<1> SUFFICES ASSUME Bad # {} PROVE FALSE
  OBVIOUS
<1>1. PICK n \in Bad : \A m \in Bad : n <= m
  <2>1. Bad \in SUBSET Nat
    OBVIOUS
  <2> HIDE DEF Bad
  <2> QED
    BY <2>1, Least
<1>2. n \in Nat /\ n # 0 /\ ~ Measured(n)
  OBVIOUS
<1>3. /\ shifts[n] = <<n>> \o shifts[Parent(n)]
      /\ shifts[0] = <<>>
  BY <1>2, ShiftsUnfold
<1>4. CASE n = 1
  <2>1. Parent(n) = 0
    BY <1>4 DEF Parent
  <2>2. shifts[n] = <<n>>
    <3>1. <<n>> \in Seq(Nat)
      BY <1>2
    <3> QED
      BY <1>3, <2>1, <3>1, ConcatEmptySeq
  <2>3. Depth(n) = 0
    BY <2>2 DEF Depth
  <2> QED
    BY <1>2, <1>4, <2>3, Powers DEF Measured
<1>5. CASE n > 1
  <2> DEFINE p == Parent(n)
  <2>1. p \in Nat \ {0} /\ p < n /\ (n = 2 * p \/ n = 2 * p + 1)
    BY <1>2, <1>5, HalfOf
  <2> HIDE DEF p
  <2>2. Measured(p)
    BY <1>1, <2>1
  <2>3. Depth(n) = Depth(p) + 1
    <3>1. Len(shifts[p]) \in Nat
      BY <2>2 DEF Measured, Depth
    <3>2. shifts[p] \in Seq(Nat)
      BY <2>1, ShiftsAreNumbers
    <3>3. Len(<<n>> \o shifts[p]) = 1 + Len(shifts[p])
      BY <1>2, <3>2, ConcatProperties
    <3>4. Len(shifts[n]) = 1 + Len(shifts[p])
      BY <1>3, <3>3 DEF p
    <3> QED
      BY <3>1, <3>4 DEF Depth
  <2> DEFINE d == Depth(p)
  <2>4. d \in Nat /\ pow2[d] <= p /\ p < pow2[d + 1]
    BY <2>2 DEF Measured
  <2> HIDE DEF d
  <2>5. /\ pow2[d] \in Nat /\ pow2[d + 1] = 2 * pow2[d]
        /\ pow2[(d + 1) + 1] = 2 * pow2[d + 1]
    BY <2>4, Powers
  <2>6. pow2[d + 1] <= n /\ n < pow2[(d + 1) + 1]
    BY <2>1, <2>4, <2>5
  <2> QED
    BY <1>2, <2>3, <2>4, <2>6 DEF Measured, d
<1> QED
  BY <1>2, <1>4, <1>5

(* A number is as deep as the powers of two it lies between. *)
LEMMA DepthIs ==
  ASSUME NEW index \in Nat \ {0}, NEW d \in Nat, pow2[d] <= index, index < pow2[d + 1]
  PROVE  Depth(index) = d
<1> DEFINE e == Depth(index)
<1>1. e \in Nat /\ pow2[e] <= index /\ index < pow2[e + 1]
  BY DepthsMeasure DEF Measured
<1> HIDE DEF e
<1>2. d + 1 \in Nat /\ e + 1 \in Nat
  BY <1>1
<1>3. pow2[d] \in Nat /\ pow2[e] \in Nat /\ pow2[d + 1] \in Nat /\ pow2[e + 1] \in Nat
  BY <1>1, <1>2, Powers
<1>4. pow2[d] < pow2[e + 1] /\ pow2[e] < pow2[d + 1]
  BY <1>1, <1>3
<1>5. d < e + 1 /\ e < d + 1
  BY <1>1, <1>2, <1>4, PowersRise
<1>6. e = d
  BY <1>1, <1>5
<1> QED
  BY <1>6 DEF e

(* What is spliced is as deep as both together, its upper part is the outer *)
(* index and its lower part is the inner one.                              *)
LEMMA Spliced ==
  ASSUME NEW outer \in Nat \ {0}, NEW inner \in Nat \ {0}
  PROVE  /\ Concat(outer, inner) \in Nat \ {0}
         /\ Depth(Concat(outer, inner)) = Depth(outer) + Depth(inner)
         /\ Below(Concat(outer, inner), Depth(inner)) = inner - pow2[Depth(inner)]
<1> DEFINE d == Depth(outer)
           e == Depth(inner)
<1>1. /\ d \in Nat /\ pow2[d] <= outer /\ outer < pow2[d + 1]
      /\ e \in Nat /\ pow2[e] <= inner /\ inner < pow2[e + 1]
  BY DepthsMeasure DEF Measured
<1>2. Concat(outer, inner) = outer * pow2[e] + (inner - pow2[e])
  BY DEF Concat
<1> HIDE DEF d, e
<1>3. /\ pow2[d] \in Nat \ {0} /\ pow2[d + 1] = 2 * pow2[d]
      /\ pow2[e] \in Nat \ {0} /\ pow2[e + 1] = 2 * pow2[e]
      /\ d + e \in Nat /\ pow2[d + e] = pow2[d] * pow2[e]
      /\ pow2[(d + e) + 1] = 2 * pow2[d + e]
  <2>1. d + e \in Nat /\ pow2[d + e] = pow2[d] * pow2[e]
    BY <1>1, PowersMultiply
  <2> QED
    BY <1>1, <2>1, Powers
<1> DEFINE w == pow2[e]
           r == inner - w
<1>4. w \in Nat \ {0} /\ r \in Nat /\ r < w
  BY <1>1, <1>3
<1>5. pow2[d] * w <= outer * w /\ outer * w \in Nat /\ pow2[d] * w \in Nat
  BY <1>1, <1>3, <1>4, MoreTimes
<1>6. (outer + 1) * w <= (2 * pow2[d]) * w /\ (outer + 1) * w = outer * w + w
      /\ (2 * pow2[d]) * w = 2 * (pow2[d] * w)
  <2>1. outer + 1 <= 2 * pow2[d] /\ outer + 1 \in Int /\ 2 * pow2[d] \in Int
    BY <1>1, <1>3
  <2>2. (outer + 1) * w <= (2 * pow2[d]) * w
    BY <1>4, <2>1, MoreTimes
  <2> QED
    BY <1>3, <1>4, <2>2
<1>7. Concat(outer, inner) = outer * w + r
  BY <1>2
<1> HIDE DEF w, r
<1>8. pow2[d + e] <= outer * w + r /\ outer * w + r < pow2[(d + e) + 1]
  BY <1>3, <1>4, <1>5, <1>6 DEF w
<1>9. outer * w + r \in Nat \ {0}
  <2>1. pow2[d + e] \in Nat \ {0}
    BY <1>3, Powers
  <2> QED
    BY <1>4, <1>5, <1>8, <2>1
<1>10. Depth(Concat(outer, inner)) = d + e
  BY <1>3, <1>7, <1>8, <1>9, DepthIs
<1>11. (outer * w + r) % w = r
  BY <1>4, Remainder
<1> QED
  BY <1>7, <1>9, <1>10, <1>11 DEF Below, d, e, w, r

(* Reading the bottom of a splice back at the depth of what was spliced     *)
(* gives it again, wherever it was spliced (gindex.py:78-86).              *)
THEOREM SplicesAreUndone ==
  ASSUME NEW outer \in Nat \ {0}, NEW inner \in Nat \ {0}
  PROVE  Rebase(Concat(outer, inner), Depth(inner)) = inner
<1>1. Depth(inner) \in Nat
  BY DepthsMeasure DEF Measured
<1>2. pow2[Depth(inner)] \in Nat
  BY <1>1, Powers
<1> QED
  BY <1>2, Spliced DEF Rebase

(* Splices nest: a path through three trees is one index, in whichever     *)
(* order it is put together, and a root splices onto a place unmoved        *)
(* (gindex.py:57-75).                                                      *)
THEOREM SplicesNest ==
  ASSUME NEW outer \in Nat \ {0}, NEW middle \in Nat \ {0}, NEW inner \in Nat \ {0}
  PROVE  /\ Concat(Concat(outer, middle), inner) = Concat(outer, Concat(middle, inner))
         /\ Concat(outer, 1) = outer /\ Concat(1, inner) = inner
<1> DEFINE m == pow2[Depth(middle)]
           i == pow2[Depth(inner)]
<1>1. /\ Concat(outer, middle) = outer * m + (middle - m)
      /\ Concat(middle, inner) = middle * i + (inner - i)
      /\ Concat(Concat(outer, middle), inner) = Concat(outer, middle) * i + (inner - i)
      /\ Concat(1, inner) = 1 * i + (inner - i)
  BY DEF Concat
<1>2. Depth(middle) \in Nat /\ Depth(inner) \in Nat
  BY DepthsMeasure DEF Measured
<1>3. m \in Nat /\ i \in Nat
  BY <1>2, Powers
<1>4. pow2[Depth(Concat(middle, inner))] = m * i
  BY <1>2, Spliced, PowersMultiply
<1>5. Concat(outer, Concat(middle, inner)) = outer * (m * i) + (Concat(middle, inner) - m * i)
  BY <1>4 DEF Concat
<1>6. pow2[0] = 1 /\ pow2[0 + 1] = 2
  BY Powers
<1>7. Depth(1) = 0
  BY <1>6, DepthIs
<1>8. Concat(outer, 1) = outer
  BY <1>6, <1>7 DEF Concat
<1> HIDE DEF m, i
<1>9. (outer * m + (middle - m)) * i + (inner - i)
        = outer * (m * i) + ((middle * i + (inner - i)) - m * i)
  <2>1. (outer * m) * i = outer * (m * i)
    BY <1>3
  <2>2. (middle - m) * i = middle * i - m * i
    BY <1>3
  <2>3. (outer * m + (middle - m)) * i = (outer * m) * i + (middle - m) * i
    BY <1>3
  <2>4. outer * (m * i) \in Int /\ middle * i \in Int /\ m * i \in Int
    BY <1>3
  <2> QED
    BY <1>3, <2>1, <2>2, <2>3, <2>4
<1>10. Concat(1, inner) = inner
  BY <1>1, <1>3
<1> QED
  BY <1>1, <1>5, <1>8, <1>9, <1>10

---------------------------------------------------------------------------
(* The levels of a progressive spine. *)

LevelIs(n) ==
  /\ spine[n].passed \in Nat /\ n <= spine[n].passed
  /\ spine[n].depth \in Nat
  /\ spine[n].node \in Nat \ {0}
  /\ spine[n + 1].passed = spine[n].passed + pow2[spine[n].depth]
  /\ spine[n + 1].depth = spine[n].depth + 2
  /\ spine[n + 1].node = 2 * spine[n].node + 1

LEMMA SpineStarts == spine[0] = [passed |-> 0, depth |-> 0, node |-> 2]
BY SpineUnfolds

LEMMA SpineGoesOn ==
  ASSUME NEW n \in Nat
  PROVE  spine[n + 1] = Opened(spine[n])
<1>1. n + 1 \in Nat /\ n + 1 # 0 /\ (n + 1) - 1 = n
  OBVIOUS
<1>2. spine[n + 1] = IF n + 1 = 0 THEN [passed |-> 0, depth |-> 0, node |-> 2]
                     ELSE Opened(spine[(n + 1) - 1])
  BY <1>1, SpineUnfolds
<1> QED
  BY <1>1, <1>2

(* What grows by a positive amount grows by one at least. *)
LEMMA RisesByOne ==
  ASSUME NEW n \in Nat, NEW p \in Nat, NEW w \in Nat \ {0}, n <= p
  PROVE  p + w \in Nat /\ n + 1 <= p + w
OBVIOUS

LEMMA Levelled == \A n \in Nat : LevelIs(n)
<1>1. ASSUME NEW n \in Nat
      PROVE  /\ spine[n + 1].passed = spine[n].passed + pow2[spine[n].depth]
             /\ spine[n + 1].depth = spine[n].depth + 2
             /\ spine[n + 1].node = 2 * spine[n].node + 1
  <2>1. Child(spine[n].node, TRUE) = 2 * spine[n].node + 1
    BY DEF Child
  <2>2. spine[n + 1] = Opened(spine[n])
    BY SpineGoesOn
  <2>3. /\ Opened(spine[n]).passed = spine[n].passed + pow2[spine[n].depth]
        /\ Opened(spine[n]).depth = spine[n].depth + 2
        /\ Opened(spine[n]).node = Child(spine[n].node, TRUE)
    BY DEF Opened
  <2> QED
    BY <2>1, <2>2, <2>3
<1> DEFINE S == {n \in Nat : /\ spine[n].passed \in Nat /\ n <= spine[n].passed
                             /\ spine[n].depth \in Nat
                             /\ spine[n].node \in Nat \ {0}}
<1>2. 0 \in S
  BY SpineStarts
<1>3. ASSUME NEW n \in Nat, n \in S
      PROVE  n + 1 \in S
  <2>1. /\ spine[n].passed \in Nat /\ n <= spine[n].passed
        /\ spine[n].depth \in Nat /\ spine[n].node \in Nat \ {0}
    BY <1>3
  <2>2. pow2[spine[n].depth] \in Nat \ {0}
    BY <2>1, Powers
  <2>3. spine[n + 1].passed \in Nat /\ n + 1 <= spine[n + 1].passed
    <3>1. spine[n + 1].passed = spine[n].passed + pow2[spine[n].depth]
      BY <1>1
    <3>2. /\ spine[n].passed + pow2[spine[n].depth] \in Nat
          /\ n + 1 <= spine[n].passed + pow2[spine[n].depth]
      <4> HIDE DEF S
      <4> QED
        BY <2>1, <2>2, RisesByOne
    <3> QED
      BY <3>1, <3>2
  <2>4. spine[n + 1].depth \in Nat /\ spine[n + 1].node \in Nat \ {0}
    BY <1>1, <2>1
  <2> QED
    BY <2>3, <2>4
<1>4. Nat \subseteq S
  <2> HIDE DEF S
  <2> QED
    BY <1>2, <1>3, FromZeroUp
<1> QED
  BY <1>1, <1>4 DEF LevelIs

(* A level begins where the one above it ends. *)
LEMMA LevelsRise ==
  ASSUME NEW j \in Nat, NEW k \in Nat, j <= k
  PROVE  spine[j].passed <= spine[k].passed
<1> DEFINE S == {m \in Nat : spine[j].passed <= spine[j + m].passed}
<1>1. spine[j].passed \in Nat
  BY Levelled DEF LevelIs
<1>2. 0 \in S
  BY <1>1
<1>3. ASSUME NEW m \in Nat, m \in S
      PROVE  m + 1 \in S
  <2>1. j + m \in Nat /\ j + (m + 1) = (j + m) + 1 /\ spine[j].passed <= spine[j + m].passed
    BY <1>3
  <2>2. /\ spine[(j + m) + 1].passed = spine[j + m].passed + pow2[spine[j + m].depth]
        /\ spine[j + m].passed \in Nat /\ spine[j + m].depth \in Nat
    BY <2>1, Levelled DEF LevelIs
  <2>3. pow2[spine[j + m].depth] \in Nat
    BY <2>2, Powers
  <2>4. spine[j].passed <= spine[(j + m) + 1].passed
    BY <1>1, <2>1, <2>2, <2>3
  <2> QED
    BY <2>1, <2>4
<1>4. Nat \subseteq S
  <2> HIDE DEF S
  <2> QED
    BY <1>2, <1>3, FromZeroUp
<1>5. k - j \in Nat /\ j + (k - j) = k
  OBVIOUS
<1>6. k - j \in S
  BY <1>4, <1>5
<1> QED
  BY <1>5, <1>6

Reaches(n, chunk) == spine[n].passed <= chunk /\ chunk < spine[n + 1].passed

(* Of two levels, only one holds a chunk. *)
LEMMA OneLevelHolds ==
  ASSUME NEW chunk \in Nat, NEW j \in Nat, NEW k \in Nat, Reaches(j, chunk), Reaches(k, chunk)
  PROVE  j = k
<1>1. ASSUME NEW m \in Nat, NEW n \in Nat, Reaches(m, chunk), Reaches(n, chunk), m < n
      PROVE  FALSE
  <2>1. m + 1 \in Nat /\ m + 1 <= n
    BY <1>1
  <2>2. spine[m + 1].passed <= spine[n].passed
    BY <2>1, LevelsRise
  <2>3. spine[m + 1].passed \in Nat /\ spine[n].passed \in Nat
    BY <2>1, Levelled DEF LevelIs
  <2> QED
    BY <1>1, <2>2, <2>3 DEF Reaches
<1> QED
  BY <1>1

(* A chunk that is in the reach of a level is a leaf of that level's tree.  *)
LEMMA ChunkInLevel ==
  ASSUME NEW chunk \in Nat, NEW n \in Nat, Reaches(n, chunk)
  PROVE  ProgressiveChunk(chunk)
           = (2 * spine[n].node) * pow2[spine[n].depth] + (chunk - spine[n].passed)
<1>1. n \in 0..chunk
  BY Levelled DEF LevelIs, Reaches
<1> DEFINE level == CHOOSE m \in 0..chunk : /\ spine[m].passed <= chunk
                                            /\ chunk < spine[m + 1].passed
<1>2. level \in 0..chunk /\ Reaches(level, chunk)
  BY <1>1 DEF Reaches
<1>3. ProgressiveChunk(chunk) = Child(spine[level].node, FALSE) * pow2[spine[level].depth]
                                  + (chunk - spine[level].passed)
  BY DEF ProgressiveChunk
<1> HIDE DEF level
<1>4. level = n
  BY <1>2, OneLevelHolds
<1>5. 2 * spine[n].node + 0 = 2 * spine[n].node
  BY Levelled DEF LevelIs
<1> QED
  BY <1>3, <1>4, <1>5 DEF Child

(* Every chunk passed by some level is held by one above it. *)
LEMMA EveryChunkHeld ==
  ASSUME NEW chunk \in Nat, NEW n \in Nat, chunk < spine[n].passed
  PROVE  \E k \in 0..(n - 1) : Reaches(k, chunk)
<1> DEFINE past == {m \in Nat : chunk < spine[m].passed}
<1>1. PICK m \in past : \A l \in past : m <= l
  <2>1. past \in SUBSET Nat /\ n \in past
    OBVIOUS
  <2> HIDE DEF past
  <2> QED
    BY <2>1, Least
<1>2. m \in Nat /\ chunk < spine[m].passed /\ m <= n
  BY <1>1
<1>3. m # 0
  BY <1>2, SpineStarts
<1>4. m - 1 \in Nat /\ m - 1 \notin past /\ (m - 1) + 1 = m
  BY <1>1, <1>2, <1>3
<1>5. spine[m - 1].passed <= chunk
  BY <1>4, Levelled DEF LevelIs
<1>6. Reaches(m - 1, chunk)
  BY <1>2, <1>4, <1>5 DEF Reaches
<1> QED
  BY <1>2, <1>4, <1>6
=============================================================================

------------------------- MODULE MultiproofProofs --------------------------
(***************************************************************************)
(* Theorems of Multiproof, for every tree and every set of requests: what  *)
(* verifies is true of the tree, and what is true of it verifies.          *)
(*                                                                         *)
(* Facts about all the nodes of a path are proved from the least index     *)
(* that would violate them.                                                *)
(***************************************************************************)
EXTENDS Multiproof, GindexProofs, FiniteSetTheorems

---------------------------------------------------------------------------
(* The nodes of a path: from an index, by parents, down to 2 or 3. *)

PathShape(c) ==
  /\ path[c] \subseteq 2..c
  /\ c > 1 => c \in path[c] /\ (2 \in path[c] \/ 3 \in path[c])
  /\ \A x \in path[c] : Parent(x) > 1 => Parent(x) \in path[c]
  /\ \A x \in path[c] : x # c => 2 * x \in path[c] \/ 2 * x + 1 \in path[c]

(* The path of every index has that shape. *)
LEMMA PathShapes == \A c \in Nat : PathShape(c)
<1> DEFINE Bad == {c \in Nat : ~ PathShape(c)}
<1> SUFFICES ASSUME Bad # {} PROVE FALSE
  OBVIOUS
<1>1. PICK c \in Bad : \A d \in Bad : c <= d
  <2>1. Bad \in SUBSET Nat
    OBVIOUS
  <2> HIDE DEF Bad
  <2> QED
    BY <2>1, Least
<1>2. c \in Nat /\ ~ PathShape(c)
  BY <1>1
<1>3. CASE c <= 1
  <2>1. path[c] = {}
    BY <1>2, <1>3, PathUnfolds
  <2> QED
    BY <1>2, <1>3, <2>1 DEF PathShape
<1>4. CASE c > 1
  <2> DEFINE p == Parent(c)
  <2>1. p \in Nat /\ 1 <= p /\ p < c /\ (c = 2 * p \/ c = 2 * p + 1)
    BY <1>2, <1>4, HalfOf
  <2>2. path[c] = {c} \cup path[p]
    <3>1. path[c] = IF c <= 1 THEN {} ELSE {c} \cup path[Parent(c)]
      BY <1>2, PathUnfolds
    <3>2. ~ (c <= 1)
      BY <1>2, <1>4
    <3> QED
      BY <3>1, <3>2, Zenon
  <2>3. PathShape(p)
    BY <1>1, <2>1
  <2> HIDE DEF p
  <2>4. path[c] \subseteq 2..c
    BY <1>2, <1>4, <2>1, <2>2, <2>3 DEF PathShape
  <2>5. c \in path[c] /\ (2 \in path[c] \/ 3 \in path[c])
    BY <1>2, <1>4, <2>1, <2>2, <2>3 DEF PathShape
  <2>6. ASSUME NEW x \in path[c], Parent(x) > 1
        PROVE  Parent(x) \in path[c]
    BY <1>2, <1>4, <2>1, <2>2, <2>3, <2>6 DEF PathShape, p
  <2>7. ASSUME NEW x \in path[c], x # c
        PROVE  2 * x \in path[c] \/ 2 * x + 1 \in path[c]
    BY <1>2, <1>4, <2>1, <2>2, <2>3, <2>7 DEF PathShape
  <2> QED
    BY <1>2, <2>4, <2>5, <2>6, <2>7 DEF PathShape
<1> QED
  BY <1>2, <1>3, <1>4

(* The image of a finite set is finite. *)
LEMMA ImageIsFinite ==
  ASSUME NEW S, IsFiniteSet(S), NEW f, DOMAIN f = S
  PROVE  IsFiniteSet({f[x] : x \in S})
<1> DEFINE T == {f[x] : x \in S}
           g == [x \in S |-> f[x]]
<1>1. g \in Surjection(S, T)
  BY DEF Surjection
<1> QED
  BY <1>1, FS_Surjection

---------------------------------------------------------------------------
(* A finite set of naturals put in order has all of them, each once. *)

Above(S, x) == {y \in S : y > x}
Rank(S, x) == Cardinality(Above(S, x))

(* Of two elements the greater has the smaller rank. *)
LEMMA RanksDiffer ==
  ASSUME NEW S \in SUBSET Nat, IsFiniteSet(S), NEW x \in S, NEW y \in S, x < y
  PROVE  Rank(S, y) \in Nat /\ Rank(S, y) < Rank(S, x) /\ Rank(S, x) < Cardinality(S)
<1>1. /\ IsFiniteSet(Above(S, x)) /\ IsFiniteSet(Above(S, y))
      /\ Above(S, x) \in SUBSET S /\ Above(S, y) \in SUBSET Above(S, x)
  <2>1. Above(S, x) \in SUBSET S
    BY DEF Above
  <2>2. ASSUME NEW z \in Above(S, y) PROVE z \in Above(S, x)
    BY DEF Above
  <2>3. Above(S, y) \in SUBSET Above(S, x)
    BY <2>2
  <2> QED
    BY <2>1, <2>3, FS_Subset
<1>2. y \in Above(S, x) /\ y \notin Above(S, y) /\ x \notin Above(S, x)
  BY DEF Above
<1>3. Rank(S, x) \in Nat /\ Rank(S, y) \in Nat /\ Cardinality(S) \in Nat
  BY <1>1, FS_CardinalityType DEF Rank
<1>4. Rank(S, y) <= Rank(S, x) /\ (Rank(S, x) = Rank(S, y) => Above(S, x) = Above(S, y))
  BY <1>1, FS_Subset DEF Rank
<1>5. Rank(S, x) <= Cardinality(S) /\ (Cardinality(S) = Rank(S, x) => S = Above(S, x))
  BY <1>1, FS_Subset DEF Rank
<1> QED
  BY <1>2, <1>3, <1>4, <1>5

(* Every rank is a place of the order. *)
LEMMA RanksInRange ==
  ASSUME NEW S \in SUBSET Nat, IsFiniteSet(S), NEW x \in S
  PROVE  Rank(S, x) \in 0..(Cardinality(S) - 1)
<1>1. Above(S, x) \in SUBSET S /\ x \notin Above(S, x)
  BY DEF Above
<1>2. IsFiniteSet(Above(S, x)) /\ Cardinality(S) \in Nat
  BY <1>1, FS_Subset, FS_CardinalityType
<1>3. /\ Rank(S, x) \in Nat /\ Rank(S, x) <= Cardinality(S)
      /\ Cardinality(S) = Rank(S, x) => S = Above(S, x)
  BY <1>1, <1>2, FS_Subset, FS_CardinalityType DEF Rank
<1> QED
  BY <1>1, <1>2, <1>3

(* Every place of the order is some element's rank. *)
LEMMA EveryRank ==
  ASSUME NEW S \in SUBSET Nat, IsFiniteSet(S), NEW k \in 0..(Cardinality(S) - 1)
  PROVE  \E x \in S : Rank(S, x) = k
<1> DEFINE T == 0..(Cardinality(S) - 1)
           rank == [x \in S |-> Rank(S, x)]
<1>1. Cardinality(S) \in Nat
  BY FS_CardinalityType
<1>2. IsFiniteSet(T) /\ Cardinality(T) = Cardinality(S)
  BY <1>1, FS_Interval
<1>3. rank \in [S -> T]
  BY RanksInRange
<1>4. \A x, y \in S : rank[x] = rank[y] => x = y
  <2> SUFFICES ASSUME NEW x \in S, NEW y \in S, x # y
               PROVE  Rank(S, x) # Rank(S, y)
    OBVIOUS
  <2>1. x < y \/ y < x
    OBVIOUS
  <2>2. Rank(S, x) \in Nat /\ Rank(S, y) \in Nat
    BY RanksInRange, <1>1
  <2> QED
    BY <2>1, <2>2, RanksDiffer
<1> HIDE DEF rank
<1>5. rank \in Injection(S, T)
  BY <1>3, <1>4 DEF Injection, IsInjective
<1>6. rank \in Surjection(S, T)
  BY <1>2, <1>5, FS_Injection
<1>7. PICK x \in S : rank[x] = k
  BY <1>6 DEF Surjection
<1> QED
  BY <1>7 DEF rank

(* Descending lists all of a finite set, each element once (sorted in      *)
(* gindex.py:176 and verification.py:75).                                  *)
LEMMA Ordered ==
  ASSUME NEW S \in SUBSET Nat, IsFiniteSet(S)
  PROVE  /\ Descending(S) \in Seq(S)
         /\ \A x \in S : \E k \in 1..Len(Descending(S)) : Descending(S)[k] = x
         /\ \A j, k \in 1..Len(Descending(S)) :
              Descending(S)[j] = Descending(S)[k] => j = k
<1> DEFINE n == Cardinality(S)
           place(k) == CHOOSE x \in S : Rank(S, x) = k - 1
<1>1. n \in Nat
  BY FS_CardinalityType
<1>2. Descending(S) = [k \in 1..n |-> place(k)]
  BY DEF Descending, Rank, Above
<1>3. \A k \in 1..n : place(k) \in S /\ Rank(S, place(k)) = k - 1
  BY <1>1, EveryRank
<1> HIDE DEF place
<1>4. Descending(S) \in Seq(S) /\ Len(Descending(S)) = n
  BY <1>1, <1>2, <1>3, IsASeq
<1>5. ASSUME NEW x \in S
      PROVE  \E k \in 1..n : Descending(S)[k] = x
  <2>1. Rank(S, x) + 1 \in 1..n
    BY <1>1, RanksInRange
  <2>2. place(Rank(S, x) + 1) = x
    <3> DEFINE y == place(Rank(S, x) + 1)
    <3>1. y \in S /\ Rank(S, y) = Rank(S, x)
      <4>1. y \in S /\ Rank(S, y) = (Rank(S, x) + 1) - 1
        BY <1>3, <2>1
      <4>2. Rank(S, x) \in Nat
        BY <1>1, RanksInRange
      <4> QED
        BY <4>1, <4>2
    <3> HIDE DEF y
    <3>2. ~ (x < y) /\ ~ (y < x)
      BY <1>1, <3>1, RanksDiffer, RanksInRange
    <3>3. x = y
      BY <3>1, <3>2
    <3> QED
      BY <3>3 DEF y
  <2> QED
    BY <1>2, <2>1, <2>2
<1>6. ASSUME NEW j \in 1..n, NEW k \in 1..n, Descending(S)[j] = Descending(S)[k]
      PROVE  j = k
  <2>1. place(j) = place(k)
    BY <1>2, <1>6
  <2>2. j - 1 = k - 1
    BY <1>3, <2>1
  <2> QED
    BY <2>2
<1> QED
  BY <1>4, <1>5, <1>6

---------------------------------------------------------------------------
(* A finite set has the element put first, which no other is above. *)
LEMMA GreatestOfFinite ==
  ASSUME NEW S \in SUBSET Nat, IsFiniteSet(S), S # {}
  PROVE  \E x \in S : \A y \in S : y <= x
<1>1. Cardinality(S) \in Nat /\ Cardinality(S) # 0
  BY FS_CardinalityType, FS_EmptySet
<1>2. PICK x \in S : Rank(S, x) = 0
  BY <1>1, EveryRank
<1>3. IsFiniteSet(Above(S, x))
  <2>1. Above(S, x) \in SUBSET S
    BY DEF Above
  <2> QED
    BY <2>1, FS_Subset
<1>4. Above(S, x) = {}
  BY <1>2, <1>3, FS_EmptySet DEF Rank
<1> QED
  BY <1>4 DEF Above

---------------------------------------------------------------------------
(* The branch of one index. *)

Line(c) ==
  /\ shifts[c] \in Seq(Nat) /\ Len(shifts[c]) >= 1
  /\ shifts[c][1] = c /\ shifts[c][Len(shifts[c])] = 1
  /\ \A k \in 1..(Len(shifts[c]) - 1) :
       shifts[c][k] > 1 /\ shifts[c][k + 1] = Parent(shifts[c][k])
  /\ \A x : x \in path[c] <=> \E k \in 1..(Len(shifts[c]) - 1) : x = shifts[c][k]

(* What comes of an index by shifting it is itself, its parent, and so on   *)
(* up to the root: the path, and then the root (gindex.py:130).            *)
LEMMA Lines == \A c \in Nat \ {0} : Line(c)
<1> DEFINE Bad == {c \in Nat \ {0} : ~ Line(c)}
<1> SUFFICES ASSUME Bad # {} PROVE FALSE
  OBVIOUS
<1>1. PICK c \in Bad : \A d \in Bad : c <= d
  <2>1. Bad \in SUBSET Nat
    OBVIOUS
  <2> HIDE DEF Bad
  <2> QED
    BY <2>1, Least
<1>2. c \in Nat /\ c > 0 /\ ~ Line(c)
  BY <1>1
<1>3. shifts[c] = <<c>> \o shifts[Parent(c)]
  BY <1>2, ShiftsUnfold
<1>4. CASE c = 1
  <2>1. Parent(1) = 0
    BY DEF Parent
  <2>2. shifts[0] = <<>>
    BY ShiftsUnfold
  <2>3. path[1] = {}
    <3>1. path[1] = IF 1 <= 1 THEN {} ELSE {1} \cup path[Parent(1)]
      BY PathUnfolds, 1 \in Nat
    <3> QED
      BY <3>1
  <2>4. shifts[c] = <<1>>
    <3>1. <<1>> \in Seq(Nat)
      OBVIOUS
    <3> QED
      BY <1>3, <1>4, <2>1, <2>2, <3>1, ConcatEmptySeq
  <2>5. shifts[c] \in Seq(Nat) /\ Len(shifts[c]) = 1 /\ shifts[c][1] = 1
    BY <2>4
  <2> QED
    BY <1>2, <1>4, <2>3, <2>5 DEF Line
<1>5. CASE c > 1
  <2> DEFINE p == Parent(c)
             t == shifts[p]
             s == shifts[c]
  <2>1. p \in Nat /\ 1 <= p /\ p < c
    BY <1>2, <1>5, HalfOf
  <2>2. Line(p)
    BY <1>1, <2>1
  <2>3. t \in Seq(Nat) /\ Len(t) \in Nat /\ Len(t) >= 1
    BY <2>2, LenProperties DEF Line
  <2>4. path[c] = {c} \cup path[p]
    <3>1. path[c] = IF c <= 1 THEN {} ELSE {c} \cup path[p]
      BY <1>2, PathUnfolds
    <3>2. ~ (c <= 1)
      BY <1>2, <1>5
    <3> QED
      BY <3>1, <3>2, Zenon
  <2> HIDE DEF p
  <2>5. s = <<c>> \o t
    BY <1>3 DEF p
  <2> HIDE DEF t, s
  <2>6. /\ s \in Seq(Nat) /\ Len(s) = Len(t) + 1 /\ s[1] = c
        /\ \A k \in 1..Len(t) : s[k + 1] = t[k]
    <3>1. <<c>> \in Seq(Nat) /\ Len(<<c>>) = 1 /\ <<c>>[1] = c
      BY <1>2
    <3>2. \A k \in 1..Len(t) : k + 1 \in 1..(Len(t) + 1) /\ k + 1 > 1 /\ (k + 1) - 1 = k
      BY <2>3
    <3> QED
      BY <2>3, <2>5, <3>1, <3>2, ConcatProperties
  <2>7. s[Len(s)] = 1
    <3>1. t[Len(t)] = 1 /\ Len(t) \in 1..Len(t)
      BY <2>2, <2>3 DEF Line, t
    <3> QED
      BY <2>6, <3>1
  <2>8. ASSUME NEW k \in 1..(Len(s) - 1)
        PROVE  s[k] > 1 /\ s[k + 1] = Parent(s[k])
    <3>1. CASE k = 1
      <4>1. t[1] = p /\ 1 \in 1..Len(t) /\ 1 + 1 = 2
        BY <2>2, <2>3 DEF Line, t
      <4>2. s[2] = p
        BY <2>6, <4>1
      <4> QED
        BY <1>5, <2>6, <3>1, <4>2 DEF p
    <3>2. CASE k # 1
      <4> DEFINE j == k - 1
      <4>1. j \in 1..(Len(t) - 1) /\ j + 1 = k /\ j + 1 \in 1..Len(t) /\ j \in 1..Len(t)
        BY <2>3, <2>6, <2>8, <3>2
      <4> HIDE DEF j
      <4>2. t[j] > 1 /\ t[j + 1] = Parent(t[j])
        BY <2>2, <4>1 DEF Line, t
      <4>3. s[j + 1] = t[j] /\ s[(j + 1) + 1] = t[j + 1]
        BY <2>6, <4>1
      <4> QED
        BY <4>1, <4>2, <4>3
    <3> QED
      BY <3>1, <3>2
  <2>9. ASSUME NEW x
        PROVE  x \in path[c] <=> \E k \in 1..(Len(s) - 1) : x = s[k]
    <3>1. x \in path[p] <=> \E k \in 1..(Len(t) - 1) : x = t[k]
      BY <2>2 DEF Line, t
    <3>2. ASSUME x \in path[p]
          PROVE  \E k \in 1..(Len(s) - 1) : x = s[k]
      <4>1. PICK k \in 1..(Len(t) - 1) : x = t[k]
        BY <3>1, <3>2
      <4>2. k + 1 \in 1..(Len(s) - 1) /\ k \in 1..Len(t)
        BY <2>3, <2>6
      <4> QED
        BY <2>6, <4>1, <4>2
    <3>3. ASSUME x = c
          PROVE  \E k \in 1..(Len(s) - 1) : x = s[k]
      <4>1. 1 \in 1..(Len(s) - 1)
        BY <2>3, <2>6
      <4> QED
        BY <2>6, <3>3, <4>1
    <3>4. ASSUME NEW k \in 1..(Len(s) - 1), x = s[k]
          PROVE  x \in path[c]
      <4>1. CASE k = 1
        BY <2>4, <2>6, <3>4, <4>1
      <4>2. CASE k # 1
        <5> DEFINE j == k - 1
        <5>1. j \in 1..(Len(t) - 1) /\ j + 1 = k /\ j \in 1..Len(t)
          BY <2>3, <2>6, <3>4, <4>2
        <5> HIDE DEF j
        <5>2. x = t[j]
          BY <2>6, <3>4, <5>1
        <5> QED
          BY <2>4, <3>1, <5>1, <5>2
      <4> QED
        BY <4>1, <4>2
    <3> QED
      BY <2>4, <3>2, <3>3, <3>4
  <2>10. Line(c)
    BY <2>3, <2>6, <2>7, <2>8, <2>9 DEF Line, s
  <2> QED
    BY <1>2, <2>10
<1> QED
  BY <1>2, <1>4, <1>5

(* No path has both children of a node. *)
LEMMA PathsPassOneChild ==
  ASSUME NEW c \in Nat
  PROVE  \A x \in path[c] : Sibling(x) \notin path[c]
<1> DEFINE Bad == {d \in Nat : \E x \in path[d] : Sibling(x) \in path[d]}
<1> SUFFICES ASSUME Bad # {} PROVE FALSE
  OBVIOUS
<1>1. PICK d \in Bad : \A e \in Bad : d <= e
  <2>1. Bad \in SUBSET Nat
    OBVIOUS
  <2> HIDE DEF Bad
  <2> QED
    BY <2>1, Least
<1>2. PICK x \in path[d] : Sibling(x) \in path[d]
  BY <1>1
<1>3. d > 1
  <2>1. path[d] # {} /\ d \in Nat
    BY <1>1, <1>2
  <2>2. path[d] = IF d <= 1 THEN {} ELSE {d} \cup path[Parent(d)]
    BY <2>1, PathUnfolds
  <2> QED
    BY <2>1, <2>2
<1> DEFINE p == Parent(d)
<1>4. /\ p \in Nat /\ 1 <= p /\ p < d /\ Sibling(d) \in Nat /\ Sibling(d) > p /\ Sibling(d) # d
      /\ Sibling(Sibling(d)) = d
  BY <1>3, HalfOf
<1>5. path[d] = {d} \cup path[p] /\ path[p] \subseteq 2..p
  BY <1>3, <1>4, PathUnfolds, PathShapes DEF PathShape
<1>6. \A y \in path[p] : Sibling(y) \notin path[p]
  BY <1>1, <1>4
<1> HIDE DEF p
<1>7. Sibling(d) \notin path[d]
  BY <1>4, <1>5
<1>8. x \in path[p] /\ Sibling(x) = d
  BY <1>2, <1>5, <1>6, <1>7
<1>9. x \in Nat /\ x > 1 /\ x <= p
  BY <1>4, <1>5, <1>8
<1>10. Sibling(d) = x
  BY <1>8, <1>9, HalfOf
<1> QED
  BY <1>4, <1>9, <1>10

(* A sequence that falls by one place falls by any number. *)
LEMMA Falls ==
  ASSUME NEW s \in Seq(Nat), \A k \in 1..(Len(s) - 1) : s[k + 1] < s[k]
  PROVE  \A j, k \in 1..Len(s) : j < k => s[k] < s[j]
<1>0. Len(s) \in Nat /\ \A k \in 1..Len(s) : s[k] \in Nat
  BY LenProperties, ElementOfSeq
<1> DEFINE Bad(j) == {k \in 1..Len(s) : j < k /\ ~ (s[k] < s[j])}
<1> SUFFICES ASSUME NEW j \in 1..Len(s), Bad(j) # {} PROVE FALSE
  OBVIOUS
<1>1. PICK k \in Bad(j) : \A l \in Bad(j) : k <= l
  <2>1. Bad(j) \in SUBSET Nat
    OBVIOUS
  <2> HIDE DEF Bad
  <2> QED
    BY <2>1, Least
<1>2. k \in 1..Len(s) /\ j < k /\ ~ (s[k] < s[j])
  OBVIOUS
<1> DEFINE h == k - 1
<1>3. h \in 1..(Len(s) - 1) /\ h \in 1..Len(s) /\ h + 1 = k /\ j <= h /\ h < k
  BY <1>0, <1>2
<1>4. h \notin Bad(j)
  <2>1. ~ (k <= h)
    BY <1>0, <1>3
  <2> HIDE DEF Bad, h
  <2> QED
    BY <1>1, <2>1
<1>5. s[k] < s[h]
  <2> HIDE DEF h
  <2> QED
    BY <1>3
<1>6. s[h] <= s[j]
  <2> HIDE DEF h
  <2>0. j < h => s[h] < s[j]
    BY <1>3, <1>4
  <2> HIDE DEF Bad
  <2>1. CASE j = h
    <3>1. s[h] \in Nat
      BY <1>0, <1>3
    <3> QED
      BY <2>1, <3>1
  <2>2. CASE j < h
    <3>1. s[h] \in Nat /\ s[j] \in Nat
      BY <1>0, <1>3
    <3> QED
      BY <2>0, <2>2, <3>1
  <2>3. j = h \/ j < h
    <3>1. j \in Nat /\ h \in Nat
      BY <1>0, <1>3
    <3> QED
      BY <1>3, <3>1
  <2> QED
    BY <2>1, <2>2, <2>3
<1>7. s[k] \in Nat /\ s[h] \in Nat /\ s[j] \in Nat
  BY <1>0, <1>2, <1>3
<1> HIDE DEF Bad, h
<1> QED
  BY <1>2, <1>5, <1>6, <1>7

(* A sequence that falls is the descending order of what is in it. *)
LEMMA FallsInOrder ==
  ASSUME NEW s \in Seq(Nat), \A k \in 1..(Len(s) - 1) : s[k + 1] < s[k]
  PROVE  Descending({s[k] : k \in 1..Len(s)}) = s
<1> DEFINE S == {s[k] : k \in 1..Len(s)}
           n == Len(s)
<1>1. /\ n \in Nat /\ DOMAIN s = 1..n
      /\ \A k \in 1..n : s[k] \in Nat
      /\ s = [k \in 1..n |-> s[k]]
  BY LenProperties, ElementOfSeq
<1>2. \A j, k \in 1..n : j < k => s[k] < s[j]
  BY Falls
<1>3. IsFiniteSet(S) /\ S \in SUBSET Nat
  <2>1. IsFiniteSet(1..n) /\ DOMAIN s = 1..n
    <3> HIDE DEF n
    <3> QED
      BY <1>1, FS_Interval
  <2>2. IsFiniteSet(S)
    BY <2>1, ImageIsFinite
  <2> QED
    BY <1>1, <2>2
<1> HIDE DEF n
<1>4. \A k \in 1..n : s[k] \in S
  BY DEF n
<1>5. \A x \in S : \E k \in 1..n : x = s[k]
  BY DEF n
<1> HIDE DEF S
<1>6. \A k \in 1..n : Rank(S, s[k]) = k - 1
  <2> DEFINE Bad == {k \in 1..n : Rank(S, s[k]) # k - 1}
  <2> SUFFICES ASSUME Bad # {} PROVE FALSE
    OBVIOUS
  <2>1. PICK k \in Bad : \A l \in Bad : k <= l
    <3>1. Bad \in SUBSET Nat
      OBVIOUS
    <3> HIDE DEF Bad
    <3> QED
      BY <3>1, Least
  <2>2. k \in 1..n /\ Rank(S, s[k]) # k - 1
    OBVIOUS
  <2>3. CASE k = 1
    <3>1. Above(S, s[k]) = {}
      <4> SUFFICES ASSUME NEW y \in S, y > s[k] PROVE FALSE
        BY DEF Above
      <4>1. PICK j \in 1..n : y = s[j]
        BY <1>5
      <4>2. j = k \/ k < j
        BY <2>2, <2>3
      <4> QED
        BY <1>1, <1>2, <2>2, <4>1, <4>2
    <3> QED
      BY <2>2, <2>3, <3>1, FS_EmptySet DEF Rank
  <2>4. CASE k # 1
    <3> DEFINE h == k - 1
    <3>1. h \in 1..n /\ h < k /\ h + 1 = k /\ h - 1 = k - 2
      <4> HIDE DEF Bad
      <4> QED
        BY <1>1, <2>2, <2>4
    <3>2. h \notin Bad
      <4>1. ~ (k <= h)
        BY <1>1, <2>2, <3>1
      <4> HIDE DEF Bad, h
      <4> QED
        BY <2>1, <4>1
    <3> HIDE DEF h
    <3>3. Rank(S, s[h]) = h - 1
      BY <3>1, <3>2
    <3>4. Above(S, s[k]) = Above(S, s[h]) \cup {s[h]}
      <4>1. ASSUME NEW y \in S, y > s[k] PROVE y > s[h] \/ y = s[h]
        <5>1. PICK j \in 1..n : y = s[j]
          BY <1>5
        <5>2. j < k
          <6>1. ~ (k < j) /\ j # k
            BY <1>1, <1>2, <2>2, <4>1, <5>1
          <6> QED
            BY <1>1, <2>2, <6>1
        <5>3. j = h \/ j < h
          BY <3>1, <5>2
        <5> QED
          BY <1>1, <1>2, <3>1, <5>1, <5>3
      <4>2. s[k] < s[h] /\ s[h] \in S /\ s[k] \in Nat /\ s[h] \in Nat
        BY <1>1, <1>2, <1>4, <2>2, <3>1
      <4>3. ASSUME NEW y \in S PROVE y > s[k] <=> y > s[h] \/ y = s[h]
        <5>1. y \in Nat
          BY <1>3
        <5>2. y > s[k] => y > s[h] \/ y = s[h]
          BY <4>1
        <5>3. y > s[h] \/ y = s[h] => y > s[k]
          BY <4>2, <5>1
        <5> QED
          BY <5>2, <5>3
      <4> QED
        BY <4>2, <4>3 DEF Above
    <3>5. IsFiniteSet(Above(S, s[h])) /\ s[h] \notin Above(S, s[h])
      <4>1. Above(S, s[h]) \in SUBSET S
        BY DEF Above
      <4>2. ~ (s[h] > s[h])
        BY <1>1, <3>1
      <4> QED
        BY <1>3, <4>1, <4>2, FS_Subset DEF Above
    <3>6. Rank(S, s[k]) = Rank(S, s[h]) + 1
      BY <3>4, <3>5, FS_AddElement DEF Rank
    <3> QED
      BY <1>1, <2>2, <3>1, <3>3, <3>6
  <2> QED
    BY <2>3, <2>4
<1>7. Cardinality(S) = n
  <2>1. CASE n = 0
    <3>1. S = {}
      BY <1>5, <2>1
    <3> QED
      BY <2>1, <3>1, FS_EmptySet
  <2>2. CASE n # 0
    <3>1. n \in 1..n
      BY <1>1, <2>2
    <3>2. S = Above(S, s[n]) \cup {s[n]}
      <4>1. ASSUME NEW y \in S PROVE y > s[n] \/ y = s[n]
        <5>1. PICK j \in 1..n : y = s[j]
          BY <1>5
        <5>2. j = n \/ j < n
          BY <1>1, <5>1
        <5> QED
          BY <1>1, <1>2, <3>1, <5>1, <5>2
      <4> QED
        BY <1>4, <3>1, <4>1 DEF Above
    <3>3. IsFiniteSet(Above(S, s[n])) /\ s[n] \notin Above(S, s[n])
      <4>1. Above(S, s[n]) \in SUBSET S
        BY DEF Above
      <4>2. ~ (s[n] > s[n])
        BY <1>1, <3>1
      <4> QED
        BY <1>3, <4>1, <4>2, FS_Subset DEF Above
    <3>4. Cardinality(S) = Rank(S, s[n]) + 1
      BY <3>2, <3>3, FS_AddElement DEF Rank
    <3> QED
      BY <1>1, <1>6, <3>1, <3>4
  <2> QED
    BY <2>1, <2>2
<1>8. ASSUME NEW k \in 1..n
      PROVE  s[k] = CHOOSE x \in S : Rank(S, x) = k - 1
  <2>1. s[k] \in S /\ Rank(S, s[k]) = k - 1
    BY <1>4, <1>6
  <2>2. ASSUME NEW x \in S, Rank(S, x) = k - 1 PROVE x = s[k]
    <3>1. PICK j \in 1..n : x = s[j]
      BY <1>5
    <3>2. j - 1 = k - 1
      BY <1>6, <2>2, <3>1
    <3> QED
      BY <1>1, <3>1, <3>2
  <2> QED
    BY <2>1, <2>2
<1>9. Descending(S) = [k \in 1..n |-> CHOOSE x \in S : Rank(S, x) = k - 1]
  BY <1>7 DEF Descending, Rank, Above
<1>10. Descending(S) = [k \in 1..n |-> s[k]]
  BY <1>8, <1>9
<1> QED
  BY <1>1, <1>10 DEF S, n

(* The helpers of one index are its branch, in the order a branch is        *)
(* presented in (gindex.py:163).                                           *)
LEMMA HelpersOfOne ==
  ASSUME NEW c \in Nat, c > 1
  PROVE  /\ Len(Descending(Helpers({c}))) = Depth(c)
         /\ \A k \in 1..Depth(c) : Descending(Helpers({c}))[k] = Sibling(shifts[c][k])
<1> DEFINE s == shifts[c]
           d == Depth(c)
           siblings == [k \in 1..d |-> Sibling(s[k])]
<1>1. Line(c)
  BY Lines
<1>2. /\ s \in Seq(Nat) /\ d \in Nat /\ Len(s) = d + 1
      /\ \A k \in 1..d : s[k] \in Nat /\ s[k] > 1 /\ s[k + 1] = Parent(s[k])
      /\ \A x : x \in path[c] <=> \E k \in 1..d : x = s[k]
  <2>1. s \in Seq(Nat) /\ Len(s) \in Nat /\ Len(s) >= 1
    BY <1>1, LenProperties DEF Line
  <2>2. d = Len(s) - 1 /\ 1..d \subseteq 1..Len(s)
    BY <2>1 DEF Depth
  <2>3. \A k \in 1..d : s[k] \in Nat
    BY <2>1, <2>2, ElementOfSeq
  <2> QED
    BY <1>1, <2>1, <2>2, <2>3 DEF Line
<1> HIDE DEF s, d
<1>3. siblings \in Seq(Nat) /\ Len(siblings) = d
  <2>1. \A k \in 1..d : Sibling(s[k]) \in Nat
    BY <1>2, HalfOf
  <2> QED
    BY <1>2, <2>1, IsASeq
<1>4. ASSUME NEW k \in 1..(d - 1)
      PROVE  Sibling(s[k + 1]) < Sibling(s[k])
  <2>1. k \in 1..d /\ k + 1 \in 1..d
    BY <1>2
  <2>2. s[k] \in Nat /\ s[k] > 1 /\ s[k + 1] = Parent(s[k]) /\ s[k + 1] > 1 /\ s[k + 1] \in Nat
    BY <1>2, <2>1
  <2> QED
    BY <2>2 DEF Sibling, Parent
<1>5. Helpers({c}) = {siblings[k] : k \in 1..d}
  <2>1. Paths({c}) = path[c]
    BY DEF Paths
  <2>2. \A x \in path[c] : Sibling(x) \notin path[c]
    BY PathsPassOneChild
  <2>3. Helpers({c}) = {Sibling(x) : x \in path[c]}
    BY <2>1, <2>2 DEF Helpers, Branches
  <2>4. ASSUME NEW k \in 1..d PROVE siblings[k] = Sibling(s[k])
    OBVIOUS
  <2> HIDE DEF siblings
  <2>5. ASSUME NEW y
        PROVE  y \in Helpers({c}) <=> \E k \in 1..d : y = siblings[k]
    <3>1. y \in Helpers({c}) <=> \E x \in path[c] : y = Sibling(x)
      BY <2>3
    <3>2. ASSUME NEW x \in path[c], y = Sibling(x)
          PROVE  \E k \in 1..d : y = siblings[k]
      BY <1>2, <2>4, <3>2
    <3>3. ASSUME NEW k \in 1..d, y = siblings[k]
          PROVE  \E x \in path[c] : y = Sibling(x)
      BY <1>2, <2>4, <3>3
    <3> QED
      BY <3>1, <3>2, <3>3
  <2> QED
    BY <2>5
<1>6. \A k \in 1..(d - 1) : siblings[k + 1] < siblings[k]
  <2> SUFFICES ASSUME NEW k \in 1..(d - 1)
               PROVE  siblings[k + 1] < siblings[k]
    OBVIOUS
  <2>1. k \in 1..d /\ k + 1 \in 1..d
    BY <1>2
  <2>2. siblings[k] = Sibling(s[k]) /\ siblings[k + 1] = Sibling(s[k + 1])
    BY <2>1
  <2> HIDE DEF siblings
  <2> QED
    BY <1>4, <2>2
<1> HIDE DEF siblings
<1>7. Descending(Helpers({c})) = siblings
  BY <1>3, <1>5, <1>6, FallsInOrder
<1> QED
  BY <1>3, <1>7 DEF siblings, s, d

---------------------------------------------------------------------------
(* What an index set that is not refused has around it. *)

Unrelated(C) ==
  /\ C \in SUBSET Nat /\ IsFiniteSet(C) /\ C # {}
  /\ \A c \in C : c > 1
  /\ \A c, d \in C : c \in path[d] => c = d

(* Around unrelated claims: a claim is above no claim, a helper is beside  *)
(* a path and on none, and every node on a path has a child on one unless  *)
(* it is a claim.                                                          *)
LEMMA AroundClaims ==
  ASSUME NEW C, Unrelated(C)
  PROVE  /\ C \subseteq Paths(C)
         /\ \A x \in Paths(C) \cup Helpers(C) :
              /\ x \in Nat /\ x > 1
              /\ Parent(x) \in Paths(C) \cup {1}
              /\ Parent(x) \notin C \cup Helpers(C)
         /\ \A x \in Paths(C) : Sibling(x) \in Paths(C) \cup Helpers(C)
         /\ \A x \in (Paths(C) \cup {1}) \ C :
              2 * x \in Paths(C) \/ 2 * x + 1 \in Paths(C)
<1>1. \A c \in C : c \in Nat /\ PathShape(c)
  BY PathShapes DEF Unrelated
<1>2. C \subseteq Paths(C)
  BY <1>1 DEF PathShape, Paths, Unrelated
<1>3. ASSUME NEW x \in Paths(C)
      PROVE  /\ x \in Nat /\ x > 1
             /\ Parent(x) \in Paths(C) \cup {1} /\ Parent(x) \notin C
  <2>1. PICK c \in C : x \in path[c]
    BY DEF Paths
  <2>2. x \in Nat /\ x > 1 /\ x <= c
    BY <1>1, <2>1 DEF PathShape
  <2>3. Parent(x) \in Nat /\ 1 <= Parent(x) /\ Parent(x) < x
    BY <2>2, HalfOf
  <2>4. Parent(x) > 1 => Parent(x) \in path[c]
    BY <1>1, <2>1 DEF PathShape
  <2>5. Parent(x) \in Paths(C) \cup {1}
    BY <2>3, <2>4 DEF Paths
  <2>6. Parent(x) \notin C
    BY <1>1, <2>2, <2>3, <2>4 DEF Unrelated
  <2> QED
    BY <2>2, <2>5, <2>6
<1>4. ASSUME NEW x \in Helpers(C)
      PROVE  /\ x \in Nat /\ x > 1 /\ x \notin Paths(C)
             /\ Parent(x) \in Paths(C) \cup {1} /\ Parent(x) \notin C
  <2>1. PICK s \in Paths(C) : x = Sibling(s)
    BY DEF Helpers, Branches
  <2>2. s \in Nat /\ s > 1
    BY <1>3
  <2>3. x \in Nat /\ x > 1 /\ Parent(x) = Parent(s)
    BY <2>1, <2>2, HalfOf
  <2> QED
    BY <1>3, <2>3 DEF Helpers
<1>5. ASSUME NEW x \in Paths(C) \cup Helpers(C)
      PROVE  Parent(x) \notin Helpers(C)
  <2>1. Parent(x) \in Paths(C) \cup {1}
    BY <1>3, <1>4
  <2> QED
    BY <1>4, <2>1
<1>6. \A x \in Paths(C) : Sibling(x) \in Paths(C) \cup Helpers(C)
  BY DEF Helpers, Branches
<1>7. ASSUME NEW x \in Paths(C), x \notin C
      PROVE  2 * x \in Paths(C) \/ 2 * x + 1 \in Paths(C)
  <2>1. PICK c \in C : x \in path[c]
    BY DEF Paths
  <2>2. 2 * x \in path[c] \/ 2 * x + 1 \in path[c]
    BY <1>1, <1>7, <2>1 DEF PathShape
  <2> QED
    BY <2>2 DEF Paths
<1>8. 2 * 1 \in Paths(C) \/ 2 * 1 + 1 \in Paths(C)
  <2>1. PICK c \in C : TRUE
    BY DEF Unrelated
  <2>2. 2 \in path[c] \/ 3 \in path[c]
    BY <1>1, <2>1 DEF PathShape, Unrelated
  <2> QED
    BY <2>2 DEF Paths
<1> QED
  BY <1>2, <1>3, <1>4, <1>5, <1>6, <1>7, <1>8

(* A request names finitely many nodes. *)
LEMMA NodesAreFinite ==
  ASSUME NEW C, Unrelated(C)
  PROVE  IsFiniteSet(Paths(C)) /\ IsFiniteSet(C \cup Helpers(C))
<1>1. IsFiniteSet(C) /\ \A c \in C : c \in Nat /\ PathShape(c)
  BY PathShapes DEF Unrelated
<1>2. IsFiniteSet({path[c] : c \in C})
  <2> DEFINE f == [c \in C |-> path[c]]
  <2>1. IsFiniteSet({f[c] : c \in C})
    BY <1>1, ImageIsFinite
  <2>2. {f[c] : c \in C} = {path[c] : c \in C}
    OBVIOUS
  <2> QED
    BY <2>1, <2>2
<1>3. \A c \in C : IsFiniteSet(path[c])
  <2> SUFFICES ASSUME NEW c \in C PROVE IsFiniteSet(path[c])
    OBVIOUS
  <2>1. path[c] \in SUBSET (2..c) /\ c \in Int
    BY <1>1 DEF PathShape
  <2> QED
    BY <2>1, FS_Interval, FS_Subset
<1>4. IsFiniteSet(Paths(C))
  BY <1>2, <1>3, FS_UNION DEF Paths
<1>5. IsFiniteSet(Branches(C))
  <2> DEFINE f == [s \in Paths(C) |-> Sibling(s)]
  <2>1. IsFiniteSet({f[s] : s \in Paths(C)})
    BY <1>4, ImageIsFinite
  <2>2. {f[s] : s \in Paths(C)} = Branches(C)
    BY DEF Branches
  <2> QED
    BY <2>1, <2>2
<1>6. IsFiniteSet(Helpers(C))
  BY <1>5, FS_Difference DEF Helpers
<1> QED
  BY <1>1, <1>4, <1>6, FS_Union

(* Claims that are not refused are unrelated. *)
LEMMA AcceptedClaims ==
  ASSUME NEW r \in Requests, ~ Refused(r)
  PROVE  Unrelated(Claims(r)) /\ DOMAIN Given(r) = Claims(r) \cup Helpers(Claims(r))
<1>1. /\ r.indices \in Seq(Nat) /\ r.indices # <<>>
      /\ \A k \in DOMAIN r.indices : ~ (r.indices[k] <= 1)
      /\ \A j, k \in DOMAIN r.indices :
           ~ (r.indices[j] \in path[r.indices[k]] \ {r.indices[k]})
  BY RequestsAssumption DEF Refused, Related
<1>2. DOMAIN r.indices = 1..Len(r.indices) /\ Len(r.indices) \in Nat \ {0}
  BY <1>1, LenProperties, EmptySeq
<1>3. IsFiniteSet(Claims(r))
  <2>1. IsFiniteSet(DOMAIN r.indices)
    BY <1>2, FS_Interval
  <2> QED
    BY <2>1, ImageIsFinite DEF Claims
<1>4. \A k \in DOMAIN r.indices : r.indices[k] \in Nat
  BY <1>1, <1>2, ElementOfSeq
<1>5. r.indices[1] \in Claims(r)
  BY <1>2 DEF Claims
<1>6. \A c \in Claims(r) : c \in Nat /\ c > 1
  BY <1>1, <1>4 DEF Claims
<1>7. \A c, d \in Claims(r) : c \in path[d] => c = d
  BY <1>1 DEF Claims
<1> QED
  BY <1>3, <1>5, <1>6, <1>7 DEF Unrelated, Given

(* What is presented for an index is what the loop is given there: no leaf   *)
(* and no proof node stands in the way of another.                         *)
LEMMA PresentedIsGiven ==
  ASSUME NEW r \in Requests, ~ Refused(r)
  PROVE  Presented(r) = {<<i, Given(r)[i]>> : i \in DOMAIN Given(r)}
<1> DEFINE C == Claims(r)
           H == Helpers(C)
           order == HelperOrder(r)
<1>1. Unrelated(C) /\ DOMAIN Given(r) = C \cup H
  BY AcceptedClaims
<1>2. C \cap H = {}
  BY <1>1, AroundClaims DEF Helpers
<1>3. IsFiniteSet(H) /\ H \in SUBSET Nat
  <2>1. IsFiniteSet(C \cup H)
    BY <1>1, NodesAreFinite
  <2>2. H \in SUBSET (C \cup H)
    OBVIOUS
  <2>3. H \in SUBSET Nat
    BY <1>1, AroundClaims
  <2> QED
    BY <2>1, <2>2, <2>3, FS_Subset
<1>4. /\ order \in Seq(H) /\ DOMAIN order = 1..Len(order)
      /\ \A x \in H : \E k \in DOMAIN order : order[k] = x
      /\ \A j, k \in DOMAIN order : order[j] = order[k] => j = k
      /\ \A k \in DOMAIN order : order[k] \in H
  <2>1. order = Descending(H)
    BY DEF HelperOrder
  <2> HIDE DEF order
  <2>2. /\ order \in Seq(H)
        /\ \A x \in H : \E k \in 1..Len(order) : order[k] = x
        /\ \A j, k \in 1..Len(order) : order[j] = order[k] => j = k
    BY <1>3, <2>1, Ordered
  <2>3. DOMAIN order = 1..Len(order) /\ \A k \in DOMAIN order : order[k] \in H
    BY <2>2, LenProperties, ElementOfSeq
  <2> QED
    BY <2>2, <2>3
<1>5. DOMAIN r.proof = DOMAIN order
  BY <1>4, RequestsAssumption DEF Refused
<1>6. \A j, k \in DOMAIN r.indices : r.indices[j] = r.indices[k] => j = k
  BY DEF Refused, Related
<1>7. \A k \in DOMAIN r.indices : At(r.indices, r.indices[k]) = k
  BY <1>6 DEF At
<1>8. \A k \in DOMAIN order : At(order, order[k]) = k
  BY <1>4 DEF At
<1>9. \A k \in DOMAIN r.indices : r.indices[k] \in C
  BY DEF Claims
<1>10. \A i \in C : \E k \in DOMAIN r.indices : r.indices[k] = i
  BY DEF Claims
<1>11. \A i \in C : Given(r)[i] = r.leaves[At(r.indices, i)]
  BY <1>2 DEF Given
<1>12. \A i \in H : Given(r)[i] = r.proof[At(order, i)]
  BY DEF Given
<1> HIDE DEF C, H, order
<1>13. {<<r.indices[k], r.leaves[k]>> : k \in DOMAIN r.indices} = {<<i, Given(r)[i]>> : i \in C}
  <2>1. \A k \in DOMAIN r.indices : Given(r)[r.indices[k]] = r.leaves[k]
    BY <1>7, <1>9, <1>11
  <2> QED
    BY <1>9, <1>10, <2>1
<1>14. {<<order[k], r.proof[k]>> : k \in DOMAIN r.proof} = {<<i, Given(r)[i]>> : i \in H}
  <2>1. \A k \in DOMAIN order : Given(r)[order[k]] = r.proof[k]
    BY <1>4, <1>8, <1>12
  <2> QED
    BY <1>4, <1>5, <2>1
<1>15. Presented(r) = {<<i, Given(r)[i]>> : i \in C} \cup {<<i, Given(r)[i]>> : i \in H}
  BY <1>13, <1>14 DEF Presented, order
<1> QED
  BY <1>1, <1>15

---------------------------------------------------------------------------
(* The inductive invariant.  n, p and k are the nodes known, the indices   *)
(* pending and how many of them have been reached.                         *)

Wanted(r) == Paths(Claims(r)) \cup {1}

(* What is pending is what is known, each index once. *)
Listed(n, p, k) ==
  /\ p \in Seq(Nat) /\ k \in 0..Len(p)
  /\ \A j \in 1..Len(p) : p[j] \in DOMAIN n
  /\ \A i \in DOMAIN n : \E j \in 1..Len(p) : p[j] = i
  /\ \A j, l \in 1..Len(p) : p[j] = p[l] => j = l

(* What was given is kept, and only paths are built beside it. *)
Kept(r, n) ==
  /\ DOMAIN n \subseteq Wanted(r) \cup Helpers(Claims(r))
  /\ \A i \in DOMAIN Given(r) : i \in DOMAIN n /\ n[i] = Given(r)[i]

(* What was not given is the hash of its children, both measured. *)
Built(r, n) ==
  \A i \in DOMAIN n \ DOMAIN Given(r) :
    /\ 2 * i \in DOMAIN n /\ 2 * i + 1 \in DOMAIN n
    /\ n[i] = Hash(n[2 * i], n[2 * i + 1])
    /\ n[2 * i] \notin Malformed /\ n[2 * i + 1] \notin Malformed

(* A pair whose nodes have both been reached has been joined. *)
Paired(n, p, k) ==
  \A j, l \in 1..k : p[j] = Sibling(p[l]) => Parent(p[j]) \in DOMAIN n

Underway(r, n, p, k) ==
  /\ r \in Requests /\ ~ Refused(r)
  /\ Listed(n, p, k) /\ Kept(r, n) /\ Built(r, n) /\ Paired(n, p, k)

(* A refusal is of the request, or of the width of a node it gives. *)
RefusalStands(r) ==
  /\ r \in Requests
  /\ Refused(r) \/ \E i \in DOMAIN Given(r) : Given(r)[i] \in Malformed

IInv ==
  /\ phase = "refused" => RefusalStands(request)
  /\ phase = "idle" => position = 0 /\ pending = <<>>
  /\ phase \in {"running", "returned"} => Underway(request, nodes, pending, position)
  /\ phase = "returned" => position = Len(pending)
  /\ BuiltOnce

(* What is known has an index, and a parent on the way to the root. *)
LEMMA NodesAreIndices ==
  ASSUME NEW r \in Requests, ~ Refused(r), NEW n, Kept(r, n), NEW i \in DOMAIN n
  PROVE  /\ i \in Nat /\ i >= 1
         /\ i > 1 => Parent(i) \in Wanted(r) /\ Parent(i) \notin DOMAIN Given(r)
         /\ Sibling(i) \in DOMAIN n => i > 1
<1>1. \A x \in DOMAIN n : x \in Wanted(r) \cup Helpers(Claims(r))
  BY DEF Kept
<1>2. \A x \in DOMAIN n : /\ x \in Nat /\ x >= 1
                          /\ x > 1 => Parent(x) \in Wanted(r) /\ Parent(x) \notin DOMAIN Given(r)
  <2> SUFFICES ASSUME NEW x \in DOMAIN n
               PROVE  /\ x \in Nat /\ x >= 1
                      /\ x > 1 => Parent(x) \in Wanted(r) /\ Parent(x) \notin DOMAIN Given(r)
    OBVIOUS
  <2>1. Unrelated(Claims(r)) /\ DOMAIN Given(r) = Claims(r) \cup Helpers(Claims(r))
    BY AcceptedClaims
  <2>2. CASE x = 1
    BY <2>2
  <2>3. CASE x \in Paths(Claims(r)) \cup Helpers(Claims(r))
    BY <2>1, <2>3, AroundClaims DEF Wanted
  <2> QED
    BY <1>1, <2>2, <2>3 DEF Wanted
<1>3. Sibling(1) = 0
  BY DEF Sibling
<1> QED
  BY <1>2, <1>3

(* The nodes a request gives satisfy the invariant before the loop. *)
LEMMA StartsUnderway ==
  ASSUME NEW r \in Requests, ~ Refused(r)
  PROVE  /\ Underway(r, Given(r), Descending(DOMAIN Given(r)), 0)
         /\ \A j, l \in DOMAIN Descending(DOMAIN Given(r)) :
              Descending(DOMAIN Given(r))[j] = Descending(DOMAIN Given(r))[l] => j = l
<1> DEFINE S == DOMAIN Given(r)
           p == Descending(S)
<1>1. Unrelated(Claims(r)) /\ S = Claims(r) \cup Helpers(Claims(r))
  BY AcceptedClaims
<1>2. /\ Claims(r) \subseteq Wanted(r)
      /\ \A x \in S : x \in Nat
      /\ IsFiniteSet(S)
  BY <1>1, AroundClaims, NodesAreFinite DEF Wanted
<1>3. /\ p \in Seq(S)
      /\ \A x \in S : \E k \in 1..Len(p) : p[k] = x
      /\ \A j, k \in 1..Len(p) : p[j] = p[k] => j = k
  BY <1>2, Ordered
<1>4. p \in Seq(Nat) /\ Len(p) \in Nat /\ DOMAIN p = 1..Len(p)
      /\ \A j \in 1..Len(p) : p[j] \in S
  BY <1>2, <1>3, SeqMonotonic, LenProperties, ElementOfSeq
<1> HIDE DEF p, S
<1>5. Listed(Given(r), p, 0)
  BY <1>3, <1>4 DEF Listed, S
<1>6. Kept(r, Given(r)) /\ Built(r, Given(r)) /\ Paired(Given(r), p, 0)
  BY <1>1, <1>2 DEF Kept, Built, Paired, S
<1>7. \A j, l \in DOMAIN p : p[j] = p[l] => j = l
  BY <1>3, <1>4
<1>8. Underway(r, Given(r), p, 0)
  BY <1>5, <1>6 DEF Underway
<1> QED
  BY <1>7, <1>8 DEF p, S

(* Joining a pair keeps the invariant. *)
LEMMA CombineKeepsUnderway ==
  ASSUME NEW r, NEW n, NEW p, NEW k, Underway(r, n, p, k), k < Len(p),
         NEW i, i = p[k + 1], NEW q, q = Parent(i),
         Sibling(i) \in DOMAIN n, q \notin DOMAIN n,
         n[2 * q] \notin Malformed, n[2 * q + 1] \notin Malformed,
         NEW m, m = [x \in DOMAIN n \cup {q} |-> IF x = q THEN Hash(n[2 * q], n[2 * q + 1])
                                                ELSE n[x]]
  PROVE  Underway(r, m, Append(p, q), k + 1)
<1> DEFINE s == Append(p, q)
<1>1. /\ r \in Requests /\ ~ Refused(r)
      /\ Listed(n, p, k) /\ Kept(r, n) /\ Built(r, n) /\ Paired(n, p, k)
  BY DEF Underway
<1>2. p \in Seq(Nat) /\ Len(p) \in Nat /\ k \in Nat /\ k + 1 \in 1..Len(p) /\ i \in DOMAIN n
  <2>1. p \in Seq(Nat) /\ k \in 0..Len(p) /\ \A j \in 1..Len(p) : p[j] \in DOMAIN n
    BY <1>1 DEF Listed
  <2>2. Len(p) \in Nat
    BY <2>1, LenProperties
  <2>3. k \in Nat /\ k + 1 \in 1..Len(p)
    BY <2>1, <2>2
  <2> QED
    BY <2>1, <2>2, <2>3
<1>3. i \in Nat /\ i > 1 /\ q \in Wanted(r) /\ q \notin DOMAIN Given(r)
  BY <1>1, <1>2, NodesAreIndices
<1>4. q \in Nat /\ q >= 1 /\ {i, Sibling(i)} = {2 * q, 2 * q + 1}
  BY <1>3, HalfOf
<1>5. 2 * q \in DOMAIN n /\ 2 * q + 1 \in DOMAIN n
  BY <1>2, <1>4
<1>6. /\ DOMAIN m = DOMAIN n \cup {q} /\ m[q] = Hash(n[2 * q], n[2 * q + 1])
      /\ \A x \in DOMAIN n : m[x] = n[x]
  OBVIOUS
<1>7. /\ s \in Seq(Nat) /\ Len(s) = Len(p) + 1 /\ s[Len(p) + 1] = q
      /\ \A j \in 1..Len(p) : s[j] = p[j]
  BY <1>2, <1>4
<1> HIDE DEF s
<1>13. /\ 1..Len(s) = 1..Len(p) \cup {Len(p) + 1}
       /\ 1..(k + 1) \subseteq 1..Len(p)
       /\ \A j \in 1..Len(p) : p[j] \in DOMAIN n /\ j \in 1..Len(s)
       /\ Len(p) + 1 \in 1..Len(s)
  <2>1. 1..Len(s) = 1..Len(p) \cup {Len(p) + 1}
    <3>1. ASSUME NEW a \in Nat PROVE 1..(a + 1) = 1..a \cup {a + 1}
      OBVIOUS
    <3> QED
      BY <1>2, <1>7, <3>1
  <2>2. 1..(k + 1) \subseteq 1..Len(p)
    BY <1>2
  <2>3. \A j \in 1..Len(p) : p[j] \in DOMAIN n
    BY <1>1 DEF Listed
  <2> QED
    BY <2>1, <2>2, <2>3
<1>8. Listed(m, s, k + 1)
  <2>1. k + 1 \in 0..Len(s)
    BY <1>2, <1>7
  <2>2. ASSUME NEW j \in 1..Len(s) PROVE s[j] \in DOMAIN m
    BY <1>6, <1>7, <1>13
  <2>3. ASSUME NEW x \in DOMAIN m PROVE \E j \in 1..Len(s) : s[j] = x
    <3>1. CASE x = q
      BY <1>7, <1>13, <3>1
    <3>2. CASE x \in DOMAIN n
      <4>1. PICK j \in 1..Len(p) : p[j] = x
        BY <1>1, <3>2 DEF Listed
      <4> QED
        BY <1>7, <1>13, <4>1
    <3> QED
      BY <1>6, <3>1, <3>2
  <2>4. ASSUME NEW j \in 1..Len(s), NEW l \in 1..Len(s), s[j] = s[l] PROVE j = l
    <3>1. \A h \in 1..Len(p) : s[h] # q
      BY <1>1, <1>7 DEF Listed
    <3>2. CASE j \in 1..Len(p) /\ l \in 1..Len(p)
      BY <1>1, <1>7, <2>4, <3>2 DEF Listed
    <3>3. CASE j = Len(p) + 1 /\ l \in 1..Len(p)
      BY <1>7, <2>4, <3>1, <3>3
    <3>4. CASE j \in 1..Len(p) /\ l = Len(p) + 1
      BY <1>7, <2>4, <3>1, <3>4
    <3> QED
      BY <1>13, <3>2, <3>3, <3>4
  <2> QED
    BY <1>7, <2>1, <2>2, <2>3, <2>4 DEF Listed
<1>9. Kept(r, m)
  BY <1>1, <1>3, <1>6 DEF Kept
<1>10. Built(r, m)
  <2> SUFFICES ASSUME NEW x \in DOMAIN m \ DOMAIN Given(r)
               PROVE  /\ 2 * x \in DOMAIN m /\ 2 * x + 1 \in DOMAIN m
                      /\ m[x] = Hash(m[2 * x], m[2 * x + 1])
                      /\ m[2 * x] \notin Malformed /\ m[2 * x + 1] \notin Malformed
    BY DEF Built
  <2>1. CASE x = q
    BY <1>5, <1>6, <2>1
  <2>2. CASE x \in DOMAIN n
    BY <1>1, <1>6, <2>2 DEF Built
  <2> QED
    BY <1>6, <2>1, <2>2
<1>11. Paired(m, s, k + 1)
  <2> SUFFICES ASSUME NEW j \in 1..(k + 1), NEW l \in 1..(k + 1), s[j] = Sibling(s[l])
               PROVE  Parent(s[j]) \in DOMAIN m
    BY DEF Paired
  <2>1. s[j] = p[j] /\ s[l] = p[l] /\ p[j] \in DOMAIN n /\ p[l] \in DOMAIN n
    <3>1. j \in 1..Len(p) /\ l \in 1..Len(p)
      BY <1>13
    <3> QED
      BY <1>7, <1>13, <3>1
  <2>2. CASE j = k + 1
    BY <1>6, <2>1, <2>2
  <2>3. CASE l = k + 1
    BY <1>3, <1>6, <2>1, <2>3, HalfOf
  <2>4. CASE j \in 1..k /\ l \in 1..k
    BY <1>1, <1>6, <2>1, <2>4 DEF Paired
  <2> QED
    BY <1>2, <2>2, <2>3, <2>4
<1>12. Underway(r, m, s, k + 1)
  BY <1>1, <1>8, <1>9, <1>10, <1>11 DEF Underway
<1> QED
  BY <1>12 DEF s

(* Passing an index that completes no pair keeps the invariant. *)
LEMMA PassKeepsUnderway ==
  ASSUME NEW r, NEW n, NEW p, NEW k, Underway(r, n, p, k), k < Len(p),
         Sibling(p[k + 1]) \in DOMAIN n => Parent(p[k + 1]) \in DOMAIN n
  PROVE  Underway(r, n, p, k + 1)
<1>1. /\ r \in Requests /\ ~ Refused(r)
      /\ Listed(n, p, k) /\ Kept(r, n) /\ Built(r, n) /\ Paired(n, p, k)
  BY DEF Underway
<1>2. Len(p) \in Nat /\ k \in Nat /\ k + 1 \in 1..Len(p)
  BY <1>1, LenProperties DEF Listed
<1>3. \A j \in 1..Len(p) : p[j] \in DOMAIN n /\ p[j] \in Nat /\ p[j] >= 1
  BY <1>1, NodesAreIndices DEF Listed
<1>4. Paired(n, p, k + 1)
  <2> SUFFICES ASSUME NEW j \in 1..(k + 1), NEW l \in 1..(k + 1), p[j] = Sibling(p[l])
               PROVE  Parent(p[j]) \in DOMAIN n
    BY DEF Paired
  <2>1. p[j] \in DOMAIN n /\ p[l] \in DOMAIN n /\ p[l] \in Nat
    BY <1>2, <1>3
  <2>2. p[l] > 1
    BY <1>1, <2>1, NodesAreIndices
  <2>3. Sibling(p[j]) = p[l] /\ Parent(p[j]) = Parent(p[l])
    BY <2>1, <2>2, HalfOf
  <2>4. CASE j = k + 1 \/ l = k + 1
    BY <2>1, <2>3, <2>4
  <2>5. CASE j \in 1..k /\ l \in 1..k
    BY <1>1, <2>5 DEF Paired
  <2> QED
    BY <1>2, <2>4, <2>5
<1>5. Listed(n, p, k + 1)
  BY <1>1, <1>2 DEF Listed
<1> QED
  BY <1>1, <1>4, <1>5 DEF Underway

---------------------------------------------------------------------------
(* With every pending index reached, the tree over the claims is built. *)

(* No node on the way from a claim to the root is missing. *)
LEMMA AllAreBuilt ==
  ASSUME NEW r, NEW n, NEW p, Underway(r, n, p, Len(p))
  PROVE  Wanted(r) \subseteq DOMAIN n
<1> DEFINE missing == Wanted(r) \ DOMAIN n
           C == Claims(r)
<1>1. /\ r \in Requests /\ ~ Refused(r)
      /\ Listed(n, p, Len(p)) /\ Kept(r, n) /\ Paired(n, p, Len(p))
  BY DEF Underway
<1>2. Unrelated(C) /\ DOMAIN Given(r) = C \cup Helpers(C)
  BY <1>1, AcceptedClaims
<1>3. DOMAIN Given(r) \subseteq DOMAIN n
  BY <1>1 DEF Kept
<1>4. /\ IsFiniteSet(Paths(C)) /\ \A x \in Paths(C) : x \in Nat /\ x > 1
      /\ \A x \in Paths(C) : Sibling(x) \in Paths(C) \cup Helpers(C)
      /\ \A x \in Wanted(r) \ C : 2 * x \in Paths(C) \/ 2 * x + 1 \in Paths(C)
  BY <1>2, AroundClaims, NodesAreFinite DEF Wanted
<1>5. IsFiniteSet(missing) /\ missing \in SUBSET Nat
  <2>1. IsFiniteSet(Wanted(r))
    BY <1>4, FS_AddElement DEF Wanted
  <2>2. Wanted(r) \in SUBSET Nat
    BY <1>4 DEF Wanted
  <2> QED
    BY <2>1, <2>2, FS_Subset
<1> SUFFICES ASSUME missing # {} PROVE FALSE
  OBVIOUS
<1> HIDE DEF C
<1>6. PICK q \in missing : \A x \in missing : x <= q
  <2> HIDE DEF missing
  <2> QED
    BY <1>5, GreatestOfFinite
<1>7. q \in Wanted(r) \ C /\ q \in Nat /\ q >= 1 /\ q \notin DOMAIN n
  BY <1>2, <1>3, <1>4, <1>6 DEF Wanted, C
<1>8. PICK d \in Paths(C) : d = 2 * q \/ d = 2 * q + 1
  BY <1>4, <1>7
<1>9. d \in Nat /\ d > 1 /\ Parent(d) = q /\ Sibling(d) \in Nat /\ Sibling(d) > q /\ d > q
  BY <1>7, <1>8 DEF Parent, Sibling
<1>10. d \in DOMAIN n
  BY <1>6, <1>8, <1>9 DEF Wanted, C
<1>11. Sibling(d) \in DOMAIN n
  <2>1. CASE Sibling(d) \in Paths(C)
    BY <1>6, <1>9, <2>1 DEF Wanted, C
  <2>2. CASE Sibling(d) \in Helpers(C)
    BY <1>2, <1>3, <2>2
  <2> QED
    BY <1>4, <1>8, <2>1, <2>2
<1>12. PICK j \in 1..Len(p) : p[j] = d
  BY <1>1, <1>10 DEF Listed
<1>13. PICK l \in 1..Len(p) : p[l] = Sibling(d)
  BY <1>1, <1>11 DEF Listed
<1>14. p[j] = Sibling(p[l])
  BY <1>9, <1>12, <1>13, HalfOf
<1>15. q \in DOMAIN n
  BY <1>1, <1>9, <1>12, <1>13, <1>14 DEF Paired
<1> QED
  BY <1>7, <1>15

(* Every node but the root has been joined into a parent. *)
LEMMA BuiltAbove ==
  ASSUME NEW r, NEW n, NEW p, Underway(r, n, p, Len(p)), NEW i \in DOMAIN n, i # 1
  PROVE  /\ i \in Nat /\ i > 1
         /\ Parent(i) \in DOMAIN n \ DOMAIN Given(r)
         /\ n[Parent(i)] = Hash(n[2 * Parent(i)], n[2 * Parent(i) + 1])
         /\ n[i] \notin Malformed
         /\ Sibling(i) \in DOMAIN n
<1>1. r \in Requests /\ ~ Refused(r) /\ Kept(r, n) /\ Built(r, n)
  BY DEF Underway
<1>2. i \in Nat /\ i > 1 /\ Parent(i) \in Wanted(r) /\ Parent(i) \notin DOMAIN Given(r)
  BY <1>1, NodesAreIndices
<1>3. Parent(i) \in DOMAIN n
  BY <1>2, AllAreBuilt
<1>4. /\ 2 * Parent(i) \in DOMAIN n /\ 2 * Parent(i) + 1 \in DOMAIN n
      /\ n[Parent(i)] = Hash(n[2 * Parent(i)], n[2 * Parent(i) + 1])
      /\ n[2 * Parent(i)] \notin Malformed /\ n[2 * Parent(i) + 1] \notin Malformed
  BY <1>1, <1>2, <1>3 DEF Built
<1>5. {i, Sibling(i)} = {2 * Parent(i), 2 * Parent(i) + 1}
  BY <1>2, HalfOf
<1>6. n[i] \notin Malformed /\ Sibling(i) \in DOMAIN n
  BY <1>4, <1>5
<1> QED
  BY <1>2, <1>3, <1>4, <1>6

(* A root equal to the tree's makes every node over it equal, down from it. *)
LEMMA EqualRootsEqualNodes ==
  ASSUME NEW r, NEW n, NEW p, Underway(r, n, p, Len(p)), n[1] = Tree[1],
         NEW i \in DOMAIN n, i \in DOMAIN Tree
  PROVE  n[i] = Tree[i]
<1> DEFINE Bad == {x \in DOMAIN n \cap DOMAIN Tree : n[x] # Tree[x]}
<1> SUFFICES ASSUME Bad # {} PROVE FALSE
  OBVIOUS
<1>1. PICK x \in Bad : \A y \in Bad : x <= y
  <2>1. Bad \in SUBSET Nat
    BY TreeAssumption
  <2> HIDE DEF Bad
  <2> QED
    BY <2>1, Least
<1> DEFINE q == Parent(x)
<1>2. /\ x \in Nat /\ x > 1 /\ q \in DOMAIN n
      /\ n[q] = Hash(n[2 * q], n[2 * q + 1])
  BY <1>1, BuiltAbove
<1>3. q \in Nat /\ q < x /\ {x, Sibling(x)} = {2 * q, 2 * q + 1}
  BY <1>2, HalfOf
<1>4. q \in DOMAIN Tree /\ 2 * q \in DOMAIN Tree
  <2>1. x \in DOMAIN Tree \ {1}
    BY <1>1, <1>2
  <2>2. q \in DOMAIN Tree /\ Sibling(x) \in DOMAIN Tree
    BY <2>1, TreeAssumption
  <2> HIDE DEF q
  <2> QED
    BY <1>3, <2>1, <2>2
<1> HIDE DEF q
<1>5. Tree[q] = Hash(Tree[2 * q], Tree[2 * q + 1])
  BY <1>4, TreeAssumption
<1>6. n[q] = Tree[q]
  BY <1>1, <1>2, <1>3, <1>4
<1>7. n[2 * q] = Tree[2 * q] /\ n[2 * q + 1] = Tree[2 * q + 1]
  BY <1>2, <1>5, <1>6 DEF Hash
<1>8. n[x] = Tree[x]
  BY <1>3, <1>7
<1> QED
  BY <1>1, <1>8

(* Nodes of the tree, and nodes over them, build nodes of the tree. *)
LEMMA TrueNodesTrueRoot ==
  ASSUME NEW r, NEW n, NEW p, Underway(r, n, p, Len(p)),
         \A i \in DOMAIN Given(r) : i \in DOMAIN Tree /\ Given(r)[i] = Tree[i]
  PROVE  n[1] = Tree[1]
<1> DEFINE Bad == {x \in DOMAIN n : ~ (x \in DOMAIN Tree /\ n[x] = Tree[x])}
<1>1. r \in Requests /\ ~ Refused(r) /\ Kept(r, n) /\ Built(r, n) /\ 1 \in DOMAIN n
  BY AllAreBuilt DEF Underway, Wanted
<1> SUFFICES ASSUME Bad # {} PROVE FALSE
  BY <1>1
<1>2. IsFiniteSet(Bad) /\ Bad \in SUBSET Nat
  <2>1. IsFiniteSet(Paths(Claims(r))) /\ IsFiniteSet(Claims(r) \cup Helpers(Claims(r)))
    BY <1>1, AcceptedClaims, NodesAreFinite
  <2>2. IsFiniteSet((Paths(Claims(r)) \cup {1}) \cup (Claims(r) \cup Helpers(Claims(r))))
    BY <2>1, FS_AddElement, FS_Union
  <2>3. Bad \in SUBSET ((Paths(Claims(r)) \cup {1}) \cup (Claims(r) \cup Helpers(Claims(r))))
    BY <1>1 DEF Kept, Wanted
  <2>4. Bad \in SUBSET Nat
    BY <1>1, NodesAreIndices
  <2> HIDE DEF Bad
  <2> QED
    BY <2>2, <2>3, <2>4, FS_Subset
<1>3. PICK x \in Bad : \A y \in Bad : y <= x
  <2> HIDE DEF Bad
  <2> QED
    BY <1>2, GreatestOfFinite
<1>4. x \in Nat /\ x >= 1 /\ x \in DOMAIN n \ DOMAIN Given(r)
  BY <1>1, <1>3, NodesAreIndices DEF Kept
<1>5. /\ 2 * x \in DOMAIN n /\ 2 * x + 1 \in DOMAIN n
      /\ n[x] = Hash(n[2 * x], n[2 * x + 1])
  BY <1>1, <1>4 DEF Built
<1>6. /\ 2 * x \in DOMAIN Tree /\ n[2 * x] = Tree[2 * x]
      /\ n[2 * x + 1] = Tree[2 * x + 1]
  BY <1>3, <1>4, <1>5
<1>7. Parent(2 * x) = x /\ 2 * x # 1
  BY <1>4, Halves
<1>8. x \in DOMAIN Tree
  BY <1>6, <1>7, TreeAssumption
<1>9. n[x] = Tree[x]
  BY <1>5, <1>6, <1>8, TreeAssumption
<1> QED
  BY <1>3, <1>8, <1>9

---------------------------------------------------------------------------
(* A request of one index is a branch. *)

Joined(up, leaf, proof, index, n) ==
  up = [level \in 0..n |->
          IF level = 0 THEN leaf
          ELSE IF Bit(index, level - 1) THEN Hash(proof[level], up[level - 1])
          ELSE Hash(up[level - 1], proof[level])]

(* A branch can be joined as far as it reaches. *)
LEMMA JoinedExists ==
  ASSUME NEW leaf, NEW proof, NEW index
  PROVE  \A n \in Nat : \E up : Joined(up, leaf, proof, index, n)
<1> DEFINE Bad == {n \in Nat : ~ \E up : Joined(up, leaf, proof, index, n)}
<1> SUFFICES ASSUME Bad # {} PROVE FALSE
  OBVIOUS
<1>1. PICK n \in Bad : \A m \in Bad : n <= m
  <2>1. Bad \in SUBSET Nat
    OBVIOUS
  <2> HIDE DEF Bad
  <2> QED
    BY <2>1, Least
<1>2. n \in Nat /\ ~ \E up : Joined(up, leaf, proof, index, n)
  OBVIOUS
<1>3. CASE n = 0
  <2>1. Joined([level \in 0..0 |-> leaf], leaf, proof, index, 0)
    BY DEF Joined
  <2> QED
    BY <1>2, <1>3, <2>1
<1>4. CASE n # 0
  <2>1. n - 1 \in Nat /\ n - 1 \notin Bad
    BY <1>1, <1>2, <1>4
  <2>2. PICK f : Joined(f, leaf, proof, index, n - 1)
    BY <2>1
  <2> DEFINE step(up, level) ==
               IF level = 0 THEN leaf
               ELSE IF Bit(index, level - 1) THEN Hash(proof[level], up[level - 1])
               ELSE Hash(up[level - 1], proof[level])
             g == [level \in 0..n |-> step(f, level)]
  <2>3. \A level \in 0..(n - 1) : f[level] = step(f, level)
    BY <2>2, Zenon DEF Joined
  <2>4. ASSUME NEW level \in 0..n
        PROVE  step(f, level) = step(g, level)
    <3>1. CASE level = 0
      BY <3>1
    <3>2. CASE level # 0
      <4>1. level - 1 \in 0..(n - 1) /\ level - 1 \in 0..n
        BY <1>2, <3>2
      <4>2. f[level - 1] = g[level - 1]
        BY <2>3, <4>1
      <4> HIDE DEF g
      <4> QED
        BY <4>2
    <3> QED
      BY <3>1, <3>2
  <2>5. g = [level \in 0..n |-> step(f, level)]
    OBVIOUS
  <2> HIDE DEF g
  <2>6. g = [level \in 0..n |-> step(g, level)]
    <3> HIDE DEF step
    <3> QED
      BY <2>4, <2>5
  <2>7. Joined(g, leaf, proof, index, n)
    BY <2>6 DEF Joined
  <2> QED
    BY <1>2, <2>7
<1> QED
  BY <1>3, <1>4

(* What calculate_merkle_root joins, level by level. *)
LEMMA BranchRootJoins ==
  ASSUME NEW leaf, NEW proof, NEW index, Len(proof) \in Nat
  PROVE  \E up :
           /\ BranchRoot(leaf, proof, index) = up[Len(proof)] /\ up[0] = leaf
           /\ \A k \in 1..Len(proof) :
                up[k] = IF Bit(index, k - 1) THEN Hash(proof[k], up[k - 1])
                        ELSE Hash(up[k - 1], proof[k])
<1> DEFINE up == CHOOSE f : Joined(f, leaf, proof, index, Len(proof))
<1>1. Joined(up, leaf, proof, index, Len(proof))
  BY JoinedExists
<1>2. BranchRoot(leaf, proof, index) = up[Len(proof)]
  BY DEF BranchRoot, Joined
<1> HIDE DEF up
<1>3. \A level \in 0..Len(proof) :
        up[level] = IF level = 0 THEN leaf
                    ELSE IF Bit(index, level - 1) THEN Hash(proof[level], up[level - 1])
                    ELSE Hash(up[level - 1], proof[level])
  BY <1>1, Zenon DEF Joined
<1>4. \A k \in 1..Len(proof) : k \in 0..Len(proof) /\ k # 0
  OBVIOUS
<1>5. up[0] = leaf
  BY <1>3
<1> QED
  BY <1>2, <1>3, <1>4, <1>5

Alone(r) == Len(r.indices) = 1 /\ Len(r.leaves) = 1

(* What a request of one index gives: the leaf, and the branch in order. *)
GivesBranch(r, c) ==
  /\ c \in Nat /\ c > 1 /\ Claims(r) = {c}
  /\ Len(r.proof) = Depth(c)
  /\ DOMAIN Given(r) = {c} \cup Helpers({c})
  /\ Given(r)[c] = r.leaves[1]
  /\ \A k \in 1..Depth(c) : /\ Sibling(shifts[c][k]) \in Helpers({c})
                            /\ Given(r)[Sibling(shifts[c][k])] = r.proof[k]

(* The helpers are handed the nodes of the proof in the branch's order. *)
LEMMA GivenOfOne ==
  ASSUME NEW r \in Requests, ~ Refused(r), Alone(r)
  PROVE  GivesBranch(r, r.indices[1])
<1> DEFINE c == r.indices[1]
<1>1. /\ r.indices \in Seq(Nat) /\ Len(r.indices) = 1
      /\ DOMAIN r.indices = {1}
  BY RequestsAssumption, LenProperties DEF Alone
<1>2. Claims(r) = {c}
  BY <1>1 DEF Claims
<1>3. /\ Unrelated({c}) /\ DOMAIN Given(r) = {c} \cup Helpers({c})
  BY <1>2, AcceptedClaims
<1>4. c \in Nat /\ c > 1
  BY <1>3 DEF Unrelated
<1> DEFINE order == Descending(Helpers({c}))
<1>5. Len(r.proof) = Len(order)
  BY <1>2 DEF Refused, HelperOrder
<1>6. Len(order) = Depth(c) /\ \A k \in 1..Depth(c) : order[k] = Sibling(shifts[c][k])
  BY <1>4, HelpersOfOne
<1>7. IsFiniteSet(Helpers({c})) /\ Helpers({c}) \in SUBSET Nat
  <2>1. IsFiniteSet({c} \cup Helpers({c}))
    BY <1>3, NodesAreFinite
  <2>2. Helpers({c}) \in SUBSET ({c} \cup Helpers({c}))
    OBVIOUS
  <2>3. Helpers({c}) \in SUBSET Nat
    BY <1>3, AroundClaims
  <2> QED
    BY <2>1, <2>2, <2>3, FS_Subset
<1>8. /\ order \in Seq(Helpers({c})) /\ DOMAIN order = 1..Len(order)
      /\ \A j, k \in 1..Len(order) : order[j] = order[k] => j = k
      /\ \A k \in 1..Len(order) : order[k] \in Helpers({c})
  BY <1>7, Ordered, LenProperties, ElementOfSeq
<1> HIDE DEF order
<1>9. c \notin Helpers({c})
  BY <1>3, AroundClaims DEF Helpers
<1>10. Given(r)[c] = r.leaves[1]
  <2>1. At(r.indices, c) = 1
    BY <1>1 DEF At
  <2> QED
    BY <1>2, <1>9, <2>1 DEF Given
<1>11. ASSUME NEW k \in 1..Depth(c)
       PROVE  /\ Sibling(shifts[c][k]) \in Helpers({c})
              /\ Given(r)[Sibling(shifts[c][k])] = r.proof[k]
  <2>1. order[k] = Sibling(shifts[c][k]) /\ order[k] \in Helpers({c})
    BY <1>6, <1>8
  <2>2. At(order, order[k]) = k
    <3>1. \A j \in DOMAIN order : order[j] = order[k] => j = k
      BY <1>6, <1>8
    <3>2. k \in DOMAIN order
      BY <1>6, <1>8
    <3> QED
      BY <3>1, <3>2 DEF At
  <2>3. Given(r)[order[k]] = r.proof[At(order, order[k])]
    BY <1>2, <2>1 DEF Given, HelperOrder, order
  <2> QED
    BY <2>1, <2>2, <2>3
<1> QED
  BY <1>2, <1>3, <1>4, <1>5, <1>6, <1>10, <1>11 DEF GivesBranch

(* The loop, over one index, joins what calculate_merkle_root joins. *)
LEMMA LoopIsABranch ==
  ASSUME NEW r, NEW n, NEW p, Underway(r, n, p, Len(p)), Alone(r)
  PROVE  /\ ~ BranchRefused(r.leaves[1], r.proof, r.indices[1])
         /\ n[1] = BranchRoot(r.leaves[1], r.proof, r.indices[1])
<1> DEFINE c == r.indices[1]
           s == shifts[c]
           d == Depth(c)
<1>1. r \in Requests /\ ~ Refused(r) /\ Kept(r, n)
  BY DEF Underway
<1>2. /\ c \in Nat /\ c > 1 /\ Claims(r) = {c} /\ Len(r.proof) = d
      /\ DOMAIN Given(r) = {c} \cup Helpers({c})
      /\ Given(r)[c] = r.leaves[1]
      /\ \A k \in 1..d : /\ Sibling(s[k]) \in Helpers({c})
                         /\ Given(r)[Sibling(s[k])] = r.proof[k]
  <2>1. GivesBranch(r, c)
    BY <1>1, GivenOfOne
  <2> HIDE DEF c
  <2> QED
    BY <2>1 DEF GivesBranch
<1>3. \A i \in DOMAIN Given(r) : i \in DOMAIN n /\ n[i] = Given(r)[i]
  BY <1>1 DEF Kept
<1> HIDE DEF c
<1>4. Line(c) /\ s \in Seq(Nat) /\ Len(s) \in Nat /\ Len(s) = d + 1
  <2>1. Line(c)
    BY <1>2, Lines
  <2>2. s \in Seq(Nat) /\ Len(s) \in Nat
    BY <2>1, LenProperties DEF Line
  <2> QED
    BY <2>1, <2>2 DEF Depth
<1>5. d \in Nat
  BY <1>4 DEF Line, Depth
<1> HIDE DEF d
<1>6. /\ s[1] = c /\ s[d + 1] = 1
      /\ \A k \in 1..d : s[k] \in Nat /\ s[k] > 1 /\ s[k + 1] = Parent(s[k])
  <2>1. \A k \in 1..d : s[k] \in Nat
    BY <1>4, <1>5, ElementOfSeq
  <2>2. s[1] = c /\ s[Len(s)] = 1
    BY <1>4 DEF Line
  <2>3. \A k \in 1..(Len(s) - 1) : s[k] > 1 /\ s[k + 1] = Parent(s[k])
    BY <1>4 DEF Line
  <2>4. Len(s) - 1 = d
    BY <1>4, <1>5
  <2> HIDE DEF s
  <2> QED
    BY <1>4, <2>1, <2>2, <2>3, <2>4
<1> HIDE DEF s
<1>7. ~ BranchRefused(r.leaves[1], r.proof, c)
  <2>1. \A k \in DOMAIN r.proof : k \in 1..d
    BY <1>1, <1>2, RequestsAssumption
  <2>2. ASSUME NEW i \in DOMAIN Given(r) PROVE Given(r)[i] \notin Malformed
    <3>1. Unrelated({c})
      BY <1>1, <1>2, AcceptedClaims
    <3>2. i \in Paths({c}) \cup Helpers({c})
      BY <1>2, <3>1, AroundClaims
    <3>3. i # 1
      BY <3>1, <3>2, AroundClaims
    <3>4. i \in DOMAIN n /\ n[i] = Given(r)[i]
      BY <1>3
    <3> QED
      BY <3>3, <3>4, BuiltAbove
  <2>3. r.leaves[1] \notin Malformed
    BY <1>2, <2>2
  <2>4. \A k \in DOMAIN r.proof : r.proof[k] \notin Malformed
    BY <1>2, <2>1, <2>2
  <2> QED
    BY <1>2, <2>3, <2>4 DEF BranchRefused, d
<1>8. PICK up : /\ BranchRoot(r.leaves[1], r.proof, c) = up[d] /\ up[0] = r.leaves[1]
                /\ \A k \in 1..d : up[k] = IF Bit(c, k - 1) THEN Hash(r.proof[k], up[k - 1])
                                           ELSE Hash(up[k - 1], r.proof[k])
  <2> DEFINE proof == r.proof
  <2>1. Len(proof) \in Nat
    BY <1>2, <1>5
  <2> HIDE DEF proof
  <2>2. PICK up : /\ BranchRoot(r.leaves[1], proof, c) = up[Len(proof)] /\ up[0] = r.leaves[1]
                  /\ \A k \in 1..Len(proof) :
                       up[k] = IF Bit(c, k - 1) THEN Hash(proof[k], up[k - 1])
                               ELSE Hash(up[k - 1], proof[k])
    BY <2>1, BranchRootJoins
  <2>3. Len(proof) = d
    BY <1>2 DEF proof
  <2> QED
    BY <2>2, <2>3 DEF proof
<1> DEFINE Good(k) == s[k + 1] \in DOMAIN n /\ n[s[k + 1]] = up[k]
           Bad == {k \in 0..d : ~ Good(k)}
<1>9. Good(0)
  BY <1>2, <1>3, <1>6, <1>8
<1>10. ASSUME NEW k \in 1..d, Good(k - 1)
       PROVE  Good(k)
  <2> DEFINE x == s[k]
             q == Parent(x)
  <2>1. x \in Nat /\ x > 1 /\ s[k + 1] = q
    BY <1>6
  <2>2. x \in DOMAIN n /\ n[x] = up[k - 1]
    <3>1. (k - 1) + 1 = k
      OBVIOUS
    <3> QED
      BY <1>10, <3>1
  <2>3. Sibling(x) \in DOMAIN n /\ n[Sibling(x)] = r.proof[k]
    BY <1>2, <1>3 DEF s
  <2> HIDE DEF x
  <2>4. q \in DOMAIN n /\ n[q] = Hash(n[2 * q], n[2 * q + 1])
    BY <2>1, <2>2, BuiltAbove
  <2>5. Bit(c, k - 1) <=> x % 2 = 1
    <3>1. k - 1 < Len(s) /\ (k - 1) + 1 = k
      BY <1>4, <1>5
    <3> QED
      BY <3>1 DEF Bit, s, x
  <2>6. CASE x % 2 = 1
    <3>1. x = 2 * q + 1 /\ Sibling(x) = 2 * q
      BY <2>1, <2>6 DEF Parent, Sibling
    <3> HIDE DEF q
    <3>2. up[k] = Hash(r.proof[k], up[k - 1])
      BY <1>8, <2>5, <2>6
    <3> QED
      BY <2>1, <2>2, <2>3, <2>4, <3>1, <3>2
  <2>7. CASE x % 2 # 1
    <3>1. x = 2 * q /\ Sibling(x) = 2 * q + 1
      BY <2>1, <2>7 DEF Parent, Sibling
    <3> HIDE DEF q
    <3>2. up[k] = Hash(up[k - 1], r.proof[k])
      BY <1>8, <2>5, <2>7
    <3> QED
      BY <2>1, <2>2, <2>3, <2>4, <3>1, <3>2
  <2> QED
    BY <2>6, <2>7
<1>11. Bad = {}
  <2> SUFFICES ASSUME Bad # {} PROVE FALSE
    OBVIOUS
  <2> HIDE DEF Good
  <2>1. PICK k \in Bad : \A l \in Bad : k <= l
    <3>1. Bad \in SUBSET Nat
      OBVIOUS
    <3> HIDE DEF Bad
    <3> QED
      BY <3>1, Least
  <2>2. k \in 0..d /\ ~ Good(k)
    OBVIOUS
  <2>3. k # 0
    BY <1>9, <2>2
  <2>4. k \in 1..d /\ k - 1 \in 0..d /\ ~ (k <= k - 1)
    BY <1>5, <2>2, <2>3
  <2>5. Good(k - 1)
    BY <2>1, <2>4
  <2> QED
    BY <1>10, <2>2, <2>4, <2>5
<1>12. Good(d)
  BY <1>5, <1>11
<1>13. n[1] = up[d]
  BY <1>6, <1>12
<1> QED
  BY <1>7, <1>8, <1>13 DEF c

(* A request of one index that is refused is no branch. *)
LEMMA RefusedIsNoBranch ==
  ASSUME NEW r, RefusalStands(r), Alone(r)
  PROVE  BranchRefused(r.leaves[1], r.proof, r.indices[1])
<1> DEFINE c == r.indices[1]
<1>1. /\ r \in Requests /\ r.indices \in Seq(Nat) /\ Len(r.indices) = 1
      /\ DOMAIN r.indices = {1} /\ c \in Nat
  BY RequestsAssumption, LenProperties, ElementOfSeq DEF RefusalStands, Alone
<1> SUFFICES ASSUME c > 1
             PROVE  BranchRefused(r.leaves[1], r.proof, c)
  BY <1>1 DEF BranchRefused
<1>2. CASE Refused(r)
  <2>1. Claims(r) = {c}
    BY <1>1 DEF Claims
  <2>2. ~ Related(r.indices)
    <3>1. r.indices # <<>>
      BY <1>1, EmptySeq
    <3> QED
      BY <1>1, <3>1 DEF Related
  <2>3. Len(r.proof) # Len(Descending(Helpers({c})))
    BY <1>2, <2>1, <2>2 DEF Refused, Alone, HelperOrder
  <2> QED
    BY <1>1, <2>3, HelpersOfOne DEF BranchRefused
<1>3. CASE ~ Refused(r)
  <2>1. PICK i \in DOMAIN Given(r) : Given(r)[i] \in Malformed
    BY <1>3 DEF RefusalStands
  <2>2. /\ DOMAIN Given(r) = {c} \cup Helpers({c}) /\ Given(r)[c] = r.leaves[1]
        /\ Len(r.proof) = Depth(c) /\ Depth(c) \in Nat
        /\ \A k \in 1..Depth(c) : Given(r)[Sibling(shifts[c][k])] = r.proof[k]
    <3>1. Len(r.proof) \in Nat
      BY <1>1, RequestsAssumption
    <3>2. GivesBranch(r, c)
      BY <1>1, <1>3, GivenOfOne
    <3> HIDE DEF c
    <3> QED
      BY <3>1, <3>2 DEF GivesBranch
  <2>3. CASE i = c
    BY <2>1, <2>2, <2>3 DEF BranchRefused
  <2>4. CASE i \in Helpers({c})
    <3>1. PICK k \in 1..Depth(c) : i = Sibling(shifts[c][k])
      <4>1. Unrelated({c})
        BY <1>1, <1>3, AcceptedClaims, GivenOfOne DEF GivesBranch
      <4>2. IsFiniteSet(Helpers({c})) /\ Helpers({c}) \in SUBSET Nat
        <5> HIDE DEF c
        <5>1. IsFiniteSet({c} \cup Helpers({c}))
          BY <4>1, NodesAreFinite
        <5>2. Helpers({c}) \in SUBSET ({c} \cup Helpers({c}))
          OBVIOUS
        <5>3. \A x \in Helpers({c}) : x \in Nat
          BY <4>1, AroundClaims
        <5> QED
          BY <5>1, <5>2, <5>3, FS_Subset
      <4>3. PICK k \in 1..Len(Descending(Helpers({c}))) : Descending(Helpers({c}))[k] = i
        BY <2>4, <4>2, Ordered
      <4> QED
        BY <1>1, <4>3, HelpersOfOne
    <3>2. r.proof[k] \in Malformed /\ k \in DOMAIN r.proof
      BY <1>1, <2>1, <2>2, <3>1, RequestsAssumption
    <3> QED
      BY <3>2 DEF BranchRefused
  <2> QED
    BY <2>2, <2>3, <2>4
<1> QED
  BY <1>2, <1>3

---------------------------------------------------------------------------
(* Every step keeps the invariant. *)

(* The invariant holds before any call. *)
LEMMA InitInvariant == Init => IInv
  BY DEF Init, IInv, BuiltOnce

(* A call keeps the invariant, refused or not. *)
LEMMA VerifyKeeps ==
  ASSUME IInv, Verify
  PROVE  IInv'
<1>1. PICK r \in Requests : Call(r)
  BY DEF Verify
<1>2. phase = "idle" /\ position = 0 /\ pending = <<>>
  BY DEF Verify, IInv
<1>3. request' = r /\ position' = 0
  BY <1>1, <1>2 DEF Call
<1>4. CASE Refused(r)
  <2>1. phase' = "refused" /\ pending' = <<>> /\ RefusalStands(request')
    BY <1>1, <1>2, <1>3, <1>4 DEF Call, RefusalStands
  <2> QED
    BY <2>1 DEF IInv, BuiltOnce
<1>5. CASE ~ Refused(r)
  <2>1. phase' = "running" /\ nodes' = Given(r) /\ pending' = Descending(DOMAIN Given(r))
    BY <1>1, <1>5 DEF Call
  <2>2. /\ Underway(r, Given(r), Descending(DOMAIN Given(r)), 0)
        /\ \A j, l \in DOMAIN Descending(DOMAIN Given(r)) :
             Descending(DOMAIN Given(r))[j] = Descending(DOMAIN Given(r))[l] => j = l
    BY <1>5, StartsUnderway
  <2>3. Underway(request, nodes, pending, position)'
    BY <1>3, <2>1, <2>2
  <2>4. BuiltOnce'
    BY <2>1, <2>2 DEF BuiltOnce
  <2> QED
    BY <2>1, <2>3, <2>4 DEF IInv
<1> QED
  BY <1>4, <1>5

(* Nothing under way is pending twice. *)
LEMMA ListedOnce ==
  ASSUME NEW r, NEW n, NEW p, NEW k, Underway(r, n, p, k)
  PROVE  \A j, l \in DOMAIN p : p[j] = p[l] => j = l
<1>1. Listed(n, p, k)
  BY DEF Underway
<1>2. DOMAIN p = 1..Len(p)
  BY <1>1, LenProperties DEF Listed
<1> QED
  BY <1>1, <1>2 DEF Listed

(* The step that joins a pair keeps the invariant. *)
LEMMA CombineKeeps ==
  ASSUME IInv, Combine
  PROVE  IInv'
<1>1. /\ phase = "running" /\ phase' = "running" /\ request' = request
      /\ Underway(request, nodes, pending, position) /\ position < Len(pending)
  BY DEF Combine, Looping, IInv
<1>2. /\ Sibling(pending[position + 1]) \in DOMAIN nodes
      /\ Parent(pending[position + 1]) \notin DOMAIN nodes
      /\ nodes[2 * Parent(pending[position + 1])] \notin Malformed
      /\ nodes[2 * Parent(pending[position + 1]) + 1] \notin Malformed
      /\ nodes' = [i \in DOMAIN nodes \cup {Parent(pending[position + 1])} |->
                    IF i = Parent(pending[position + 1])
                      THEN Hash(nodes[2 * Parent(pending[position + 1])],
                                nodes[2 * Parent(pending[position + 1]) + 1])
                      ELSE nodes[i]]
      /\ pending' = Append(pending, Parent(pending[position + 1]))
      /\ position' = position + 1
  BY Zenon DEF Combine, Joins, Index, Left, Right
<1>3. Underway(request, nodes', pending', position')
  BY <1>1, <1>2, CombineKeepsUnderway
<1>4. BuiltOnce'
  BY <1>3, ListedOnce DEF BuiltOnce
<1> QED
  BY <1>1, <1>3, <1>4 DEF IInv

(* The step that passes an index keeps the invariant. *)
LEMMA PassKeeps ==
  ASSUME IInv, Pass
  PROVE  IInv'
<1>1. /\ phase = "running" /\ phase' = "running" /\ request' = request
      /\ nodes' = nodes /\ pending' = pending /\ position' = position + 1
      /\ Underway(request, nodes, pending, position) /\ position < Len(pending)
  BY DEF Pass, Looping, IInv
<1>2. Sibling(pending[position + 1]) \in DOMAIN nodes
        => Parent(pending[position + 1]) \in DOMAIN nodes
  BY DEF Pass, Joins, Index
<1>3. Underway(request, nodes, pending, position + 1)
  BY <1>1, <1>2, PassKeepsUnderway
<1>4. BuiltOnce'
  BY <1>1 DEF BuiltOnce, IInv
<1> QED
  BY <1>1, <1>3, <1>4 DEF IInv

(* Only a node that was given can be of a wrong width: the others are       *)
(* digests.                                                                *)
LEMMA RefuseWidthKeeps ==
  ASSUME IInv, RefuseWidth
  PROVE  IInv'
<1>1. /\ phase = "running" /\ phase' = "refused" /\ request' = request /\ pending' = pending
      /\ Underway(request, nodes, pending, position) /\ position < Len(pending)
  BY DEF RefuseWidth, Looping, IInv
<1> DEFINE i == pending[position + 1]
           q == Parent(i)
<1>2. /\ Sibling(i) \in DOMAIN nodes
      /\ {nodes[2 * q], nodes[2 * q + 1]} \cap Malformed # {}
  BY DEF RefuseWidth, Joins, Index, Left, Right
<1>3. /\ request \in Requests /\ ~ Refused(request) /\ Listed(nodes, pending, position)
      /\ Kept(request, nodes) /\ Built(request, nodes)
  BY <1>1 DEF Underway
<1>4. i \in DOMAIN nodes
  BY <1>1, <1>3, LenProperties DEF Listed
<1>5. i \in Nat /\ i > 1
  BY <1>2, <1>3, <1>4, NodesAreIndices
<1>6. {i, Sibling(i)} = {2 * q, 2 * q + 1}
  BY <1>5, HalfOf
<1> HIDE DEF i, q
<1>7. PICK x \in DOMAIN nodes : nodes[x] \in Malformed
  BY <1>2, <1>4, <1>6
<1>8. x \in DOMAIN Given(request)
  <2> SUFFICES ASSUME x \notin DOMAIN Given(request) PROVE FALSE
    OBVIOUS
  <2>1. nodes[x] = Hash(nodes[2 * x], nodes[2 * x + 1])
    BY <1>3 DEF Built
  <2>2. DOMAIN nodes[x] = DOMAIN Hash(nodes[x], nodes[x])
    BY <2>1 DEF Hash
  <2> QED
    BY <1>7, <2>2, DigestsAssumption
<1>9. RefusalStands(request)
  BY <1>3, <1>7, <1>8 DEF Kept, RefusalStands
<1> QED
  BY <1>1, <1>9 DEF IInv, BuiltOnce

(* Every step keeps the invariant. *)
LEMMA StepInvariant == IInv /\ [Next]_vars => IInv'
<1> SUFFICES ASSUME IInv, [Next]_vars PROVE IInv'
  OBVIOUS
<1>1. CASE Verify
  BY <1>1, VerifyKeeps
<1>2. CASE Combine
  BY <1>2, CombineKeeps
<1>3. CASE Pass
  BY <1>3, PassKeeps
<1>4. CASE RefuseWidth
  BY <1>4, RefuseWidthKeeps
<1>5. CASE Return
  BY <1>5 DEF Return, IInv, BuiltOnce
<1>6. CASE UNCHANGED vars
  BY <1>6 DEF vars, IInv, BuiltOnce
<1> QED
  BY <1>1, <1>2, <1>3, <1>4, <1>5, <1>6 DEF Next

(* The invariant holds throughout (verification.py:54 on any request). *)
THEOREM Invariance == Spec => []IInv
  BY InitInvariant, StepInvariant, PTL DEF Spec

---------------------------------------------------------------------------

(* Each pair is joined once, however claims and helpers meet. *)
THEOREM PairsAreBuiltOnce == Spec => []BuiltOnce
<1>1. IInv => BuiltOnce
  BY DEF IInv
<1> QED
  BY <1>1, Invariance, PTL

(* When the loop ends it has built the root: the lookup after it finds one. *)
THEOREM RootIsAlwaysBuilt == Spec => []RootIsBuilt
<1>1. IInv => RootIsBuilt
  BY AllAreBuilt DEF IInv, RootIsBuilt, Wanted
<1> QED
  BY <1>1, Invariance, PTL

(* Whatever is presented, what verifies against a tree's root is the tree's: *)
(* claims and proof nodes both, wherever the tree reaches, and no proof node *)
(* answers for a claim (get_helper_indices leaves out what is claimed).      *)
THEOREM VerifyingIsSound == Spec => []Sound
<1>1. IInv => Sound
  <2> SUFFICES ASSUME IInv, Accepted, NEW p \in Presented(request), p[1] \in DOMAIN Tree
               PROVE  p[2] = Tree[p[1]]
    BY DEF Sound
  <2>1. Underway(request, nodes, pending, Len(pending)) /\ nodes[1] = Tree[1]
    BY DEF IInv, Accepted
  <2>3. PICK i \in DOMAIN Given(request) : p = <<i, Given(request)[i]>>
    BY <2>1, PresentedIsGiven DEF Underway
  <2>2. i \in DOMAIN nodes /\ nodes[i] = Given(request)[i]
    BY <2>1 DEF Underway, Kept
  <2> QED
    BY <2>1, <2>2, <2>3, EqualRootsEqualNodes
<1> QED
  BY <1>1, Invariance, PTL

(* A true claim with a true proof verifies. *)
THEOREM VerifyingIsComplete == Spec => []Complete
<1>1. IInv => Complete
  <2> SUFFICES ASSUME IInv, phase = "returned",
                      \A p \in Presented(request) : p[1] \in DOMAIN Tree /\ p[2] = Tree[p[1]]
               PROVE  nodes[1] = Tree[1]
    BY DEF Complete
  <2>1. Underway(request, nodes, pending, Len(pending))
    BY DEF IInv
  <2>2. Presented(request) = {<<i, Given(request)[i]>> : i \in DOMAIN Given(request)}
    BY <2>1, PresentedIsGiven DEF Underway
  <2>3. ASSUME NEW i \in DOMAIN Given(request)
        PROVE  i \in DOMAIN Tree /\ Given(request)[i] = Tree[i]
    <3>1. <<i, Given(request)[i]>> \in Presented(request)
      BY <2>2
    <3> QED
      BY <3>1
  <2> QED
    BY <2>1, <2>3, TrueNodesTrueRoot
<1> QED
  BY <1>1, Invariance, PTL

(* No node that is not a chunk gets into an answer. *)
THEOREM EveryGivenNodeIsMeasured == Spec => []EveryNodeMeasured
<1>1. IInv => EveryNodeMeasured
  <2> SUFFICES ASSUME IInv, phase = "returned", NEW p \in Presented(request)
               PROVE  p[2] \notin Malformed
    BY DEF EveryNodeMeasured
  <2>1. Underway(request, nodes, pending, Len(pending))
    BY DEF IInv
  <2>4. PICK i \in DOMAIN Given(request) : p = <<i, Given(request)[i]>>
    BY <2>1, PresentedIsGiven DEF Underway
  <2>2. /\ request \in Requests /\ ~ Refused(request)
        /\ i \in DOMAIN nodes /\ nodes[i] = Given(request)[i]
    BY <2>1 DEF Underway, Kept
  <2>3. i # 1
    <3>1. /\ Unrelated(Claims(request))
          /\ i \in Claims(request) \cup Helpers(Claims(request))
      BY <2>2, AcceptedClaims
    <3>2. i > 1
      BY <3>1, AroundClaims
    <3> QED
      BY <3>2
  <2> QED
    BY <2>1, <2>2, <2>3, <2>4, BuiltAbove
<1> QED
  BY <1>1, Invariance, PTL

(* A multiproof of one index and a plain branch are one thing: the same     *)
(* requests are refused, and the same root comes of the others (the last   *)
(* line of get_helper_indices' promise, gindex.py:163).                    *)
THEOREM OneIndexTheorem == Spec => []OneIndexIsABranch
<1>1. IInv => OneIndexIsABranch
  <2> SUFFICES ASSUME IInv, phase \in {"refused", "returned"}, Alone(request)
               PROVE  IF BranchRefused(request.leaves[1], request.proof, request.indices[1])
                        THEN phase = "refused"
                        ELSE /\ phase = "returned"
                             /\ nodes[1] = BranchRoot(request.leaves[1], request.proof,
                                                      request.indices[1])
    BY DEF OneIndexIsABranch, Alone
  <2>1. CASE phase = "refused"
    BY <2>1, RefusedIsNoBranch DEF IInv
  <2>2. CASE phase = "returned"
    BY <2>2, LoopIsABranch DEF IInv
  <2> QED
    BY <2>1, <2>2
<1> QED
  BY <1>1, Invariance, PTL
============================================================================

----------------------------- MODULE TypeProofs -----------------------------
(***************************************************************************)
(* Of Declarations: that a lineage keeps one tree (OneTreePerLineage), that *)
(* no class spans nothing (SpansArePositive), and that compatibility is an *)
(* agreement on trees (CompatibilityIsAnAgreement), for every program.  Of *)
(* Numbers: that units never mix (UnitsNeverMix), tallies are exact        *)
(* (TalliesAreExact) and no side decides an answer, but for bits of a class *)
(* and of its subclass (SidesAgree), for every program, every width of the *)
(* tables and every set of plain operands.                                 *)
(*                                                                         *)
(* The inductive invariant grows with them.  IInv: the order a class asks  *)
(* its bases in holds the whole order of each, and each was held when it   *)
(* was declared.  SpansInv: a class is made of older ones, and a struct of *)
(* those that tell their widths.  TreesInv: the options of a union fit.  As*)
(* a class is made of older ones, what is worked out from its parts (its   *)
(* width, its tree, what it is compatible with) is found by induction on   *)
(* its number.  NumbersInv: by IInv derivation is transitive, so a unit is *)
(* kept through any chain of operations.                                   *)
(***************************************************************************)
EXTENDS Numbers, FiniteSetTheorems, WellFoundedInduction, SequenceTheorems, TLAPS

(* The classes so far, in their order. *)
ClassesStand ==
  /\ session \in DOMAIN Programs
  /\ Len(classes) \in Nat
  /\ classes = [c \in 1..Len(classes) |-> classes[c]]

(* An order of bases is of classes that stand, with every base's own order. *)
LinesAreClosed ==
  \A c \in Ids :
    /\ classes[c].mro \in Seq(Ids)
    /\ \A a \in ToSet(classes[c].mro) : ToSet(classes[a].mro) \subseteq ToSet(classes[c].mro)

(* A class derives from older ones alone. *)
BasesCameFirst == \A c \in Ids : \A b \in ToSet(classes[c].mro) : b < c

(* What a base says for itself is what the class presents. *)
BasesAreKept ==
  \A c \in Ids : \A b \in ToSet(classes[c].mro), p \in TypeParameters :
    classes[b].own[p] \in {Unsaid, None, Presented(c, p)}

IInv == ClassesStand /\ LinesAreClosed /\ BasesCameFirst /\ BasesAreKept

---------------------------------------------------------------------------
(* Orders of bases. *)

(* Every non-empty set of naturals has a least element. *)
LEMMA Least ==
  ASSUME NEW S \in SUBSET Nat, S # {}
  PROVE  \E x \in S : \A y \in S : x <= y
<1> DEFINE Less == {r \in Nat \X Nat : r[1] < r[2]}
<1>1. OpToRel(<, Nat) = Less
  BY DEF OpToRel
<1>2. IsWellFoundedOn(Less, Nat)
  BY <1>1, NatLessThanWellFounded
<1> HIDE DEF Less
<1>3. PICK x \in S : \A y \in S : ~ (<<y, x>> \in Less)
  BY <1>2, WFMin, Zenon
<1>4. \A y \in S : ~ (y < x)
  BY <1>3 DEF Less
<1> QED
  BY <1>4

(* The first class of an order that says anything is one of the order, and  *)
(* it says something (getattr along the __mro__).                          *)
LEMMA SaidBySome ==
  ASSUME NEW mro, NEW n \in Nat, DOMAIN mro = 1..n, NEW p, Inherited(mro, p) # None
  PROVE  \E b \in ToSet(mro) : Inherited(mro, p) = classes[b].own[p] /\ classes[b].own[p] # Unsaid
<1> DEFINE said == {i \in DOMAIN mro : classes[mro[i]].own[p] # Unsaid}
<1>1. said # {} /\ Inherited(mro, p) = classes[mro[Min(said)]].own[p]
  BY DEF Inherited
<1>2. said \in SUBSET Nat /\ said # {}
  <2>1. 1..n \subseteq Nat
    OBVIOUS
  <2>2. said \subseteq 1..n
    OBVIOUS
  <2>. QED
    BY <1>1, <2>1, <2>2
<1>3. Min(said) \in said
  BY <1>2, Least DEF Min
<1>. QED
  BY <1>1, <1>3 DEF ToSet

(* The one or two bases of a class are classes that stand. *)
LEMMA BasesStand ==
  ASSUME NEW bases \in Seq(Nat), Len(bases) <= 2, bases # <<>>, ToSet(bases) \subseteq Ids
  PROVE  bases[1] \in Ids /\ (Len(bases) # 1 => bases[2] \in Ids)
<1>1. Len(bases) \in {1, 2} /\ DOMAIN bases = 1..Len(bases)
  <2>1. Len(bases) \in Nat /\ Len(bases) # 0 /\ DOMAIN bases = 1..Len(bases)
    BY EmptySeq, LenProperties
  <2>. QED
    BY <2>1
<1>2. \A i \in 1..Len(bases) : bases[i] \in Ids
  BY <1>1 DEF ToSet
<1>. QED
  BY <1>1, <1>2

(* An order of bases has in it all that either base's order has. *)
LEMMA OrdersAreWhole ==
  ASSUME IInv, NEW bases \in Seq(Nat), Len(bases) <= 2, ToSet(bases) \subseteq Ids,
         NEW mro \in Orders(bases)
  PROVE  /\ mro \in Seq(Ids)
         /\ \A a \in ToSet(mro) : ToSet(classes[a].mro) \subseteq ToSet(mro)
<1>1. CASE bases = <<>>
  BY <1>1 DEF Orders, ToSet
<1>2. CASE bases # <<>>
  <2> DEFINE first == Lineage(bases[1])
  <2> DEFINE second == IF Len(bases) = 1 THEN <<>> ELSE Lineage(bases[2])
  <2> DEFINE all == ToSet(first) \cup ToSet(second)
  <2>1. bases[1] \in Ids /\ (Len(bases) # 1 => bases[2] \in Ids)
    BY <1>2, BasesStand
  <2>2. ASSUME NEW b \in Ids
        PROVE  /\ ToSet(Lineage(b)) = {b} \cup ToSet(classes[b].mro)
               /\ ToSet(Lineage(b)) \subseteq Ids
               /\ \A a \in ToSet(Lineage(b)) : ToSet(classes[a].mro) \subseteq ToSet(Lineage(b))
    <3>1. classes[b].mro \in Seq(Ids)
      BY DEF IInv, LinesAreClosed
    <3>2. ToSet(Lineage(b)) = {b} \cup ToSet(classes[b].mro)
      <4>1. Lineage(b) = <<b>> \o classes[b].mro
        BY DEF Lineage
      <4>2. /\ DOMAIN Lineage(b) = 1..(Len(classes[b].mro) + 1)
            /\ Lineage(b)[1] = b
            /\ \A i \in 1..Len(classes[b].mro) : Lineage(b)[i + 1] = classes[b].mro[i]
        BY <3>1, <4>1
      <4>3. DOMAIN classes[b].mro = 1..Len(classes[b].mro) /\ Len(classes[b].mro) \in Nat
        BY <3>1
      <4>4. \A i \in DOMAIN Lineage(b) :
              i = 1 \/ (i - 1 \in 1..Len(classes[b].mro) /\ i = (i - 1) + 1)
        BY <4>2, <4>3
      <4>5. ToSet(Lineage(b)) \subseteq {b} \cup ToSet(classes[b].mro)
        <5>1. \A i \in DOMAIN Lineage(b) : Lineage(b)[i] \in {b} \cup ToSet(classes[b].mro)
          <6> SUFFICES ASSUME NEW i \in DOMAIN Lineage(b), i # 1
                       PROVE  Lineage(b)[i] \in ToSet(classes[b].mro)
            BY <4>2
          <6>1. i - 1 \in 1..Len(classes[b].mro) /\ Lineage(b)[(i - 1) + 1] = classes[b].mro[i - 1]
            BY <4>2, <4>4
          <6>. QED
            BY <4>3, <4>4, <6>1 DEF ToSet
        <5>. QED
          BY <5>1 DEF ToSet
      <4>6. \A i \in 1..Len(classes[b].mro) : i + 1 \in DOMAIN Lineage(b)
        BY <4>2, <4>3
      <4>7. 1 \in DOMAIN Lineage(b)
        BY <4>2, <4>3
      <4>8. {b} \cup ToSet(classes[b].mro) \subseteq ToSet(Lineage(b))
        <5>1. b \in ToSet(Lineage(b))
          BY <4>2, <4>7 DEF ToSet
        <5>2. \A i \in DOMAIN classes[b].mro : classes[b].mro[i] \in ToSet(Lineage(b))
          BY <4>2, <4>3, <4>6 DEF ToSet
        <5>. QED
          BY <5>1, <5>2 DEF ToSet
      <4>. QED
        BY <4>5, <4>8
    <3>3. ToSet(classes[b].mro) \subseteq Ids
      BY <3>1 DEF ToSet
    <3>. QED
      BY <3>2, <3>3 DEF IInv, LinesAreClosed
  <2>3. all \subseteq Ids /\ \A a \in all : ToSet(classes[a].mro) \subseteq all
    <3>1. CASE Len(bases) = 1
      <4>1. all = ToSet(first)
        BY <3>1 DEF ToSet
      <4>. QED
        BY <2>1, <2>2, <4>1
    <3>2. CASE Len(bases) # 1
      <4>1. all = ToSet(Lineage(bases[1])) \cup ToSet(Lineage(bases[2]))
        BY <3>2
      <4>. QED
        BY <2>1, <2>2, <3>2, <4>1
    <3>. QED
      BY <3>1, <3>2
  <2>4. mro \in SetToSeqs(all)
    BY <1>2 DEF Orders, Linearizations
  <2>5. IsFiniteSet(all) /\ Cardinality(all) \in Nat
    <3>1. IsFiniteSet(Ids)
      <4>1. Len(classes) \in Nat /\ Ids = 1..Len(classes)
        BY DEF IInv, ClassesStand, Ids
      <4>. QED
        BY <4>1, FS_Interval
    <3>. QED
      BY <2>3, <3>1, FS_Subset, FS_CardinalityType
  <2>6. mro \in [1..Cardinality(all) -> all] /\ IsInjective(mro)
    BY <2>4, <2>5 DEF SetToSeqs, IsInjective
  <2>7. \A a \in all : \E i \in 1..Cardinality(all) : mro[i] = a
    <3>1. mro \in Injection(1..Cardinality(all), all)
      BY <2>6 DEF Injection
    <3>2. Cardinality(1..Cardinality(all)) = Cardinality(all)
      BY <2>5, FS_Interval
    <3>3. mro \in Surjection(1..Cardinality(all), all)
      BY <2>5, <3>1, <3>2, FS_Injection, Zenon
    <3>. QED
      BY <3>3 DEF Surjection
  <2>8. ToSet(mro) = all
    <3> HIDE DEF all
    <3>1. DOMAIN mro = 1..Cardinality(all) /\ \A i \in 1..Cardinality(all) : mro[i] \in all
      BY <2>6
    <3>. QED
      BY <2>7, <3>1 DEF ToSet
  <2>9. mro \in Seq(Ids)
    <3>1. mro \in [1..Cardinality(all) -> Ids]
      BY <2>3, <2>6
    <3> HIDE DEF all
    <3>2. PICK n \in Nat : n = Cardinality(all)
      BY <2>5
    <3>3. mro \in UNION {[1..k -> Ids] : k \in Nat}
      BY <3>1, <3>2, Zenon
    <3>. QED
      BY <3>3, SeqDef, Zenon
  <2>. QED
    BY <2>3, <2>8, <2>9
<1>. QED
  BY <1>1, <1>2


---------------------------------------------------------------------------
(* The invariant. *)

(* A lineage keeps what an ancestor presents, since whoever said it is an   *)
(* ancestor of every descendant.                                           *)
LEMMA KeptIsOneTree ==
  ASSUME IInv
  PROVE  OneTreePerLineage
<1> SUFFICES ASSUME NEW c \in Ids, NEW a \in ToSet(classes[c].mro), NEW p \in TypeParameters,
                    Presented(a, p) # None
             PROVE  Presented(c, p) = Presented(a, p)
  BY DEF OneTreePerLineage
<1>1. a \in Ids /\ classes[a].mro \in Seq(Ids)
  BY DEF IInv, LinesAreClosed, ToSet
<1>2. \E b \in {a} \cup ToSet(classes[a].mro) :
        Presented(a, p) = classes[b].own[p] /\ classes[b].own[p] # Unsaid
  <2>1. CASE classes[a].own[p] # Unsaid
    BY <2>1 DEF Presented, Resolved
  <2>2. CASE classes[a].own[p] = Unsaid
    <3>1. Presented(a, p) = Inherited(classes[a].mro, p)
      BY <2>2 DEF Presented, Resolved
    <3>2. PICK n \in Nat : DOMAIN classes[a].mro = 1..n
      BY <1>1
    <3>. QED
      BY <3>1, <3>2, SaidBySome
  <2>. QED
    BY <2>1, <2>2
<1>3. ToSet(classes[a].mro) \subseteq ToSet(classes[c].mro)
  BY DEF IInv, LinesAreClosed
<1>. QED
  BY <1>2, <1>3 DEF IInv, BasesAreKept

(* A class added changes nothing of those that stand. *)
LEMMA ClassAdded ==
  ASSUME ClassesStand, NEW class, classes' = Append(classes, class), UNCHANGED session
  PROVE  /\ ClassesStand'
         /\ Ids' = Ids \cup {Len(classes) + 1}
         /\ Len(classes) + 1 \notin Ids
         /\ \A c \in Ids : classes'[c] = classes[c]
         /\ classes'[Len(classes) + 1] = class
<1> DEFINE n == Len(classes)
<1>1. n \in Nat /\ DOMAIN classes = 1..n
  BY DEF ClassesStand
<1>2. classes \in Seq({classes[c] : c \in 1..n} \cup {class})
  <2>1. classes \in [1..n -> {classes[c] : c \in 1..n} \cup {class}]
    BY DEF ClassesStand
  <2>. QED
    BY <1>1, <2>1, SeqDef
<1>3. /\ Len(classes') = n + 1
      /\ \A c \in 1..n : classes'[c] = classes[c]
      /\ classes'[n + 1] = class
      /\ classes' \in Seq({classes[c] : c \in 1..n} \cup {class})
  BY <1>2, AppendProperties
<1>4. DOMAIN classes' = 1..(n + 1) /\ classes' = [c \in 1..(n + 1) |-> classes'[c]]
  <2> DEFINE S == {classes[c] : c \in 1..n} \cup {class}
  <2> HIDE DEF S
  <2>1. classes' \in [1..Len(classes') -> S]
    BY <1>3, LenProperties, Zenon DEF S
  <2>. QED
    BY <1>3, <2>1
<1>. QED
  BY <1>1, <1>3, <1>4 DEF ClassesStand, Ids

(* What an order of standing classes says, it says for good. *)
LEMMA SaidForGood ==
  ASSUME \A c \in Ids : classes'[c] = classes[c], NEW mro \in Seq(Ids), NEW p
  PROVE  Inherited(mro, p)' = Inherited(mro, p)
<1> DEFINE said == {i \in DOMAIN mro : classes[mro[i]].own[p] # Unsaid}
<1> DEFINE saidAfter == {i \in DOMAIN mro : classes'[mro[i]].own[p] # Unsaid}
<1>1. \A i \in DOMAIN mro : classes'[mro[i]] = classes[mro[i]]
  OBVIOUS
<1>2. said = saidAfter
  BY <1>1
<1>3. Inherited(mro, p) = IF said = {} THEN None ELSE classes[mro[Min(said)]].own[p]
  BY DEF Inherited
<1>4. Inherited(mro, p)' =
        IF saidAfter = {} THEN None ELSE classes'[mro[Min(saidAfter)]].own[p]
  BY DEF Inherited
<1>5. said # {} => Min(said) \in DOMAIN mro
  <2>1. said \in SUBSET Nat
    OBVIOUS
  <2>. QED
    BY <2>1, Least DEF Min
<1> HIDE DEF said, saidAfter
<1>6. CASE said = {}
  BY <1>2, <1>3, <1>4, <1>6
<1>7. CASE said # {}
  <2>1. Inherited(mro, p) = classes[mro[Min(said)]].own[p]
    BY <1>3, <1>7
  <2>2. Inherited(mro, p)' = classes'[mro[Min(said)]].own[p]
    BY <1>2, <1>4, <1>7
  <2>. QED
    BY <1>1, <1>5, <1>7, <2>1, <2>2
<1>. QED
  BY <1>6, <1>7


(* A class whose bases stand, in an order Python asks them in, and that was *)
(* held to each of them, keeps the invariant.                              *)
LEMMA HeldClassKeepsInv ==
  ASSUME IInv, NEW d, d.bases \in Seq(Nat), Len(d.bases) <= 2, ToSet(d.bases) \subseteq Ids,
         NEW mro \in Orders(d.bases), NEW own, NEW fields,
         HeldToBases(own, mro), Declare(d, mro, own, fields)
  PROVE  IInv'
<1> DEFINE n == Len(classes)
<1>1. /\ mro \in Seq(Ids)
      /\ \A a \in ToSet(mro) : ToSet(classes[a].mro) \subseteq ToSet(mro)
  BY OrdersAreWhole
<1>2. /\ ClassesStand'
      /\ Ids' = Ids \cup {n + 1} /\ n + 1 \notin Ids
      /\ \A c \in Ids : classes'[c] = classes[c]
      /\ classes'[n + 1].mro = mro /\ classes'[n + 1].own = own
  <2> DEFINE class == [shape |-> d.shape, mro |-> mro, own |-> own,
                       bracket |-> d.bracket, fields |-> fields]
  <2>1. classes' = Append(classes, class) /\ UNCHANGED session
    BY DEF Declare
  <2>2. class.mro = mro /\ class.own = own
    OBVIOUS
  <2> HIDE DEF class
  <2>3. ClassesStand
    BY DEF IInv
  <2>. QED
    BY <2>1, <2>2, <2>3, ClassAdded
<1>3. \A c \in Ids : classes[c].mro \in Seq(Ids) /\ ToSet(classes[c].mro) \subseteq Ids
  BY DEF IInv, LinesAreClosed, ToSet
<1>4. ToSet(mro) \subseteq Ids
  BY <1>1 DEF ToSet
<1>5. LinesAreClosed'
  <2> SUFFICES ASSUME NEW c \in Ids'
               PROVE  /\ classes'[c].mro \in Seq(Ids')
                      /\ \A a \in ToSet(classes'[c].mro) :
                           ToSet(classes'[a].mro) \subseteq ToSet(classes'[c].mro)
    BY DEF LinesAreClosed
  <2>1. Seq(Ids) \subseteq Seq(Ids')
    BY <1>2, SeqMonotonic
  <2>2. CASE c \in Ids
    BY <1>2, <1>3, <2>1, <2>2 DEF IInv, LinesAreClosed
  <2>3. CASE c = n + 1
    BY <1>1, <1>2, <1>4, <2>1, <2>3
  <2>. QED
    BY <1>2, <2>2, <2>3
<1>6. BasesAreKept'
  <2> SUFFICES ASSUME NEW c \in Ids', NEW b \in ToSet(classes'[c].mro), NEW p \in TypeParameters
               PROVE  classes'[b].own[p] \in {Unsaid, None, Presented(c, p)'}
    BY DEF BasesAreKept
  <2>1. CASE c \in Ids
    <3>1. Presented(c, p)' = Presented(c, p)
      <4>1. classes[c].mro \in Seq(Ids) /\ classes'[c] = classes[c]
        BY <1>2, <1>3, <2>1
      <4>2. Inherited(classes[c].mro, p)' = Inherited(classes[c].mro, p)
        BY <1>2, <4>1, SaidForGood
      <4>. QED
        BY <4>1, <4>2 DEF Presented, Resolved
    <3>. QED
      BY <1>2, <1>3, <2>1, <3>1 DEF IInv, BasesAreKept
  <2>2. CASE c = n + 1
    <3>1. Inherited(mro, p)' = Inherited(mro, p)
      BY <1>1, <1>2, SaidForGood
    <3>2. Presented(c, p)' = Resolved(own, mro, p)
      BY <1>2, <2>2, <3>1 DEF Presented, Resolved
    <3>. QED
      BY <1>2, <1>4, <2>2, <3>2 DEF HeldToBases
  <2>. QED
    BY <1>2, <2>1, <2>2
<1>7. BasesCameFirst'
  <2>1. \A c \in Ids : c < n + 1
    BY DEF IInv, ClassesStand, Ids
  <2>2. \A c \in Ids : \A b \in ToSet(classes[c].mro) : b < c
    BY DEF IInv, BasesCameFirst
  <2> HIDE DEF n
  <2>. QED
    BY <1>2, <1>4, <2>1, <2>2 DEF BasesCameFirst
<1>. QED
  BY <1>2, <1>5, <1>6, <1>7 DEF IInv

(* Every declaration of a program is held to its bases, whatever it adds.   *)
LEMMA DeclaringKeepsInv ==
  ASSUME IInv, Declaring
  PROVE  IInv'
<1>1. PICK d \in Programs[session][Len(classes) + 1] :
        /\ ToSet(d.bases) \subseteq Ids
        /\ \/ DeclareUint(d)
           \/ DeclareBitsOrBytes(d)
           \/ Parametrize(d)
           \/ DeclareSequence(d)
           \/ DeclareContainer(d)
           \/ DeclareProgressiveContainer(d)
           \/ DeclareUnion(d)
  BY DEF Declaring
<1>2. d.bases \in Seq(Nat) /\ Len(d.bases) <= 2
  <2>1. session \in DOMAIN Programs /\ Len(classes) + 1 \in DOMAIN Programs[session]
    BY DEF Declaring, IInv, ClassesStand
  <2>. QED
    BY <2>1, ProgramsAssumption
<1>3. ASSUME NEW mro \in AllowedOrders(d), NEW fields, Declare(d, mro, d.own, fields)
      PROVE  IInv'
  <2>1. mro \in Orders(d.bases) /\ HeldToBases(d.own, mro)
    BY <1>3 DEF AllowedOrders
  <2>. QED
    BY <1>1, <1>2, <1>3, <2>1, HeldClassKeepsInv
<1>4. CASE DeclareUint(d)
  BY <1>3, <1>4 DEF DeclareUint
<1>5. CASE DeclareBitsOrBytes(d)
  BY <1>3, <1>5 DEF DeclareBitsOrBytes
<1>6. CASE Parametrize(d)
  <2> DEFINE own == [SaysNothing EXCEPT !["ELEMENT_TYPE"] = d.bracket]
  <2>1. <<>> \in Orders(d.bases)
    BY <1>6 DEF Parametrize, Orders
  <2>2. HeldToBases(own, <<>>)
    BY DEF HeldToBases, ToSet
  <2>3. Declare(d, <<>>, own, <<>>)
    BY <1>6 DEF Parametrize
  <2>. QED
    BY <1>1, <1>2, <2>1, <2>2, <2>3, HeldClassKeepsInv
<1>7. CASE DeclareSequence(d)
  <2>1. PICK mro \in AllowedOrders(d) :
          HeldToBases(WithElements(d), mro) /\ Declare(d, mro, WithElements(d), <<>>)
    BY <1>7 DEF DeclareSequence
  <2>2. mro \in Orders(d.bases)
    BY DEF AllowedOrders
  <2>. QED
    BY <1>1, <1>2, <2>1, <2>2, HeldClassKeepsInv
<1>8. CASE DeclareContainer(d)
  BY <1>3, <1>8 DEF DeclareContainer
<1>9. CASE DeclareProgressiveContainer(d)
  BY <1>3, <1>9 DEF DeclareProgressiveContainer
<1>10. CASE DeclareUnion(d)
  BY <1>3, <1>10 DEF DeclareUnion
<1>. QED
  BY <1>1, <1>4, <1>5, <1>6, <1>7, <1>8, <1>9, <1>10

(* Nothing is declared at first. *)
LEMMA InitHasInv ==
  ASSUME DeclarationsInit
  PROVE  IInv
<1>1. classes = <<>> /\ session \in DOMAIN Programs
  BY DEF DeclarationsInit
<1>2. Len(classes) = 0 /\ Ids = {} /\ classes = [c \in 1..0 |-> classes[c]]
  BY <1>1 DEF Ids
<1>. QED
  BY <1>1, <1>2 DEF IInv, ClassesStand, LinesAreClosed, BasesCameFirst, BasesAreKept

(* Where nothing is declared, what stands stays. *)
LEMMA StutterKeepsInv ==
  ASSUME IInv, UNCHANGED declarationVars
  PROVE  IInv'
<1>1. classes' = classes /\ session' = session
  BY DEF declarationVars
<1>2. ClassesStand'
  BY <1>1 DEF IInv, ClassesStand
<1>3. LinesAreClosed'
  BY <1>1 DEF IInv, LinesAreClosed, Ids
<1>4. BasesAreKept'
  <2>1. Ids' = Ids
    BY <1>1 DEF Ids
  <2>2. \A mro, p : Inherited(mro, p)' = Inherited(mro, p)
    BY <1>1 DEF Inherited
  <2>3. \A c, p : Presented(c, p)' = Presented(c, p)
    BY <1>1, <2>2 DEF Presented, Resolved
  <2>. QED
    BY <1>1, <2>1, <2>3 DEF IInv, BasesAreKept
<1>5. BasesCameFirst'
  BY <1>1 DEF IInv, BasesCameFirst, Ids
<1>. QED
  BY <1>2, <1>3, <1>4, <1>5 DEF IInv

(* However programs declare, subclass and parametrize, a class keeps every  *)
(* parameter its ancestors present: hold_to_bases, asked of every base that *)
(* said one, is enough.                                                    *)
THEOREM LineageTheorem == DeclarationsSpec => []OneTreePerLineage
<1>1. DeclarationsInit => IInv
  BY InitHasInv
<1>2. IInv /\ [Declaring]_declarationVars => IInv'
  BY DeclaringKeepsInv, StutterKeepsInv
<1>3. IInv => OneTreePerLineage
  BY KeptIsOneTree
<1>. QED
  BY <1>1, <1>2, <1>3, PTL DEF DeclarationsSpec

---------------------------------------------------------------------------
(* Folding: the widths of fields, and fields over fields. *)

LEMMA FromZeroUp ==
  ASSUME NEW S, 0 \in S, \A n \in Nat : n \in S => n + 1 \in S
  PROVE  Nat \subseteq S
<1> DEFINE missing == Nat \ S
<1> SUFFICES ASSUME missing # {}
             PROVE  FALSE
  OBVIOUS
<1>1. PICK n \in missing : \A m \in missing : n <= m
  <2>1. missing \in SUBSET Nat
    OBVIOUS
  <2> HIDE DEF missing
  <2>. QED
    BY <2>1, Least
<1>2. n \in Nat /\ n # 0 /\ n - 1 \in Nat
  OBVIOUS
<1>3. n - 1 \notin missing /\ (n - 1) + 1 = n
  BY <1>1, <1>2
<1>. QED
  BY <1>1, <1>2, <1>3

(* One step of a total, or of settling fields. *)
Onward(step, before, next) ==
  IF step = "total" THEN Plus(before, next) ELSE Restated(before, next)

Folded(F, step, first, s, n) ==
  F = [m \in 0..n |-> IF m = 0 THEN first ELSE Onward(step, F[m - 1], s[m])]

LEMMA FoldExists ==
  ASSUME NEW step, NEW first, NEW s, NEW n \in Nat
  PROVE  \E F : Folded(F, step, first, s, n)
<1> DEFINE S == {m \in Nat : \E F : Folded(F, step, first, s, m)}
<1>1. 0 \in S
  <2>1. Folded([m \in 0..0 |-> first], step, first, s, 0)
    BY DEF Folded
  <2>. QED
    BY <2>1
<1>2. ASSUME NEW m \in Nat, m \in S
      PROVE  m + 1 \in S
  <2>1. PICK F : Folded(F, step, first, s, m)
    BY <1>2
  <2> DEFINE G == [k \in 0..(m + 1) |-> IF k = m + 1 THEN Onward(step, F[m], s[m + 1]) ELSE F[k]]
  <2>2. \A k \in 0..m : F[k] = IF k = 0 THEN first ELSE Onward(step, F[k - 1], s[k])
    BY <2>1 DEF Folded
  <2>3. ASSUME NEW k \in 0..(m + 1)
        PROVE  G[k] = IF k = 0 THEN first ELSE Onward(step, G[k - 1], s[k])
    <3>1. k # 0 => k - 1 \in 0..(m + 1) /\ G[k - 1] = F[k - 1]
      OBVIOUS
    <3>2. CASE k = m + 1
      BY <3>1, <3>2
    <3>3. CASE k # m + 1
      <4>1. k \in 0..m /\ G[k] = F[k]
        BY <3>3
      <4>. QED
        BY <2>2, <3>1, <4>1
    <3>. QED
      BY <3>2, <3>3
  <2>4. Folded(G, step, first, s, m + 1)
    <3>1. G = [k \in 0..(m + 1) |-> G[k]]
      OBVIOUS
    <3> HIDE DEF G
    <3>. QED
      BY <2>3, <3>1 DEF Folded
  <2> HIDE DEF G
  <2>. QED
    BY <2>4
<1>3. Nat \subseteq S
  <2> HIDE DEF S
  <2>. QED
    BY <1>1, <1>2, FromZeroUp
<1>. QED
  BY <1>3

(* Adding up wide widths comes to a wide one, or to one that varies. *)
LEMMA TotalIsWide ==
  ASSUME NEW widths, NEW n \in Nat \ {0}, Len(widths) = n,
         \A f \in 1..n : widths[f] \in {Varies} \cup (Nat \ {0})
  PROVE  TotalWidth(widths) \in {Varies} \cup (Nat \ {0})
<1> DEFINE total == CHOOSE F : F = [m \in 0..n |-> IF m = 0 THEN 0 ELSE Plus(F[m - 1], widths[m])]
<1>1. total = [m \in 0..n |-> IF m = 0 THEN 0 ELSE Plus(total[m - 1], widths[m])]
  <2>1. PICK F : Folded(F, "total", 0, widths, n)
    BY FoldExists
  <2>2. F = [m \in 0..n |-> IF m = 0 THEN 0 ELSE Plus(F[m - 1], widths[m])]
    BY <2>1 DEF Folded, Onward
  <2>. QED
    BY <2>2
<1>2. TotalWidth(widths) = total[n]
  BY DEF TotalWidth
<1> HIDE DEF total
<1>3. Varies \notin Int
  BY WidthsAssumption
<1> DEFINE S == {m \in Nat : m \in 1..n => total[m] \in {Varies} \cup (Nat \ {0})}
<1>4. 0 \in S
  OBVIOUS
<1>5. ASSUME NEW m \in Nat, m \in S
      PROVE  m + 1 \in S
  <2> SUFFICES ASSUME m + 1 \in 1..n
               PROVE  total[m + 1] \in {Varies} \cup (Nat \ {0})
    OBVIOUS
  <2>1. total[m + 1] = Plus(total[m], widths[m + 1])
    BY <1>1
  <2>2. total[m] \in {Varies} \cup Nat
    <3>1. CASE m = 0
      BY <1>1, <3>1
    <3>2. CASE m # 0
      BY <1>5, <3>2
    <3>. QED
      BY <3>1, <3>2
  <2>3. widths[m + 1] \in {Varies} \cup (Nat \ {0})
    OBVIOUS
  <2>. QED
    BY <1>3, <2>1, <2>2, <2>3 DEF Plus
<1>6. Nat \subseteq S
  <2> HIDE DEF S
  <2>. QED
    BY <1>4, <1>5, FromZeroUp
<1>. QED
  BY <1>2, <1>6

(* Fields in an order, each of a name of its own and of a type declared     *)
(* before a class.                                                         *)
FieldsAreOlder(fields, c) ==
  /\ Len(fields) \in Nat
  /\ fields = [f \in 1..Len(fields) |-> fields[f]]
  /\ \A f \in 1..Len(fields) : fields[f].type \in 1..(c - 1)
  /\ \A f, g \in 1..Len(fields) : fields[f].name = fields[g].name => f = g

LEMMA RestatedIsOlder ==
  ASSUME NEW c \in Nat, NEW fields, FieldsAreOlder(fields, c),
         NEW field, field.type \in 1..(c - 1)
  PROVE  FieldsAreOlder(Restated(fields, field), c)
<1> DEFINE n == Len(fields)
<1> DEFINE S == {fields[f] : f \in 1..n} \cup {field}
<1>1. n \in Nat /\ fields \in [1..n -> S]
  BY DEF FieldsAreOlder
<1>2. fields \in Seq(S) /\ DOMAIN fields = 1..n
  BY <1>1, SeqDef
<1>3. \A x \in S : x.type \in 1..(c - 1)
  BY DEF FieldsAreOlder
<1> HIDE DEF S, n
<1>4. ASSUME NEW s \in Seq(S), \A f, g \in 1..Len(s) : s[f].name = s[g].name => f = g
      PROVE  FieldsAreOlder(s, c)
  <2>1. Len(s) \in Nat /\ s \in [1..Len(s) -> S]
    BY LenProperties
  <2>. QED
    BY <1>3, <1>4, <2>1 DEF FieldsAreOlder
<1>5. field \in S /\ \A f, g \in 1..n : fields[f].name = fields[g].name => f = g
  BY DEF S, n, FieldsAreOlder
<1>6. CASE field.name \in Names(fields)
  <2> DEFINE restated ==
        [f \in DOMAIN fields |-> IF fields[f].name = field.name THEN field ELSE fields[f]]
  <2>1. restated \in [1..n -> S]
    BY <1>1, <1>2, <1>5
  <2>2. \A f \in 1..n : restated[f].name = fields[f].name
    BY <1>2
  <2>3. Restated(fields, field) = restated
    BY <1>6 DEF Restated
  <2> HIDE DEF restated
  <2>4. restated \in Seq(S) /\ Len(restated) = n
    BY <1>1, <2>1, SeqDef, LenProperties
  <2>5. \A f, g \in 1..n : restated[f].name = restated[g].name => f = g
    BY <1>5, <2>2
  <2>. QED
    BY <1>4, <2>3, <2>4, <2>5
<1>7. CASE field.name \notin Names(fields)
  <2> DEFINE appended == Append(fields, field)
  <2>1. /\ appended \in Seq(S) /\ Len(appended) = n + 1
        /\ \A f \in 1..n : appended[f] = fields[f]
        /\ appended[n + 1] = field
    BY <1>2, <1>5, AppendProperties DEF n
  <2>2. \A f \in 1..n : fields[f].name # field.name
    BY <1>2, <1>7 DEF Names
  <2>3. \A f \in 1..(n + 1) : f \in 1..n \/ f = n + 1
    BY <1>1
  <2>4. Restated(fields, field) = appended
    BY <1>7 DEF Restated
  <2> HIDE DEF appended
  <2>5. \A f, g \in 1..(n + 1) : appended[f].name = appended[g].name => f = g
    BY <1>5, <2>1, <2>2, <2>3
  <2>. QED
    BY <1>4, <2>1, <2>4, <2>5
<1>. QED
  BY <1>6, <1>7

LEMMA SettledIsOlder ==
  ASSUME NEW c \in Nat, NEW fields, FieldsAreOlder(fields, c), NEW body, FieldsAreOlder(body, c)
  PROVE  FieldsAreOlder(Settled(fields, body), c)
<1> DEFINE n == Len(body)
<1> DEFINE settled ==
      CHOOSE F : F = [m \in 0..n |-> IF m = 0 THEN fields ELSE Restated(F[m - 1], body[m])]
<1>1. n \in Nat /\ \A f \in 1..n : body[f].type \in 1..(c - 1)
  BY DEF FieldsAreOlder
<1>2. settled = [m \in 0..n |-> IF m = 0 THEN fields ELSE Restated(settled[m - 1], body[m])]
  <2>1. PICK F : Folded(F, "settle", fields, body, n)
    BY <1>1, FoldExists
  <2>2. F = [m \in 0..n |-> IF m = 0 THEN fields ELSE Restated(F[m - 1], body[m])]
    BY <2>1 DEF Folded, Onward
  <2>. QED
    BY <2>2
<1>3. Settled(fields, body) = settled[n]
  BY DEF Settled
<1> HIDE DEF settled, n
<1> DEFINE S == {m \in Nat : m \in 0..n => FieldsAreOlder(settled[m], c)}
<1>4. 0 \in S
  BY <1>1, <1>2
<1>5. ASSUME NEW m \in Nat, m \in S
      PROVE  m + 1 \in S
  <2> SUFFICES ASSUME m + 1 \in 0..n
               PROVE  FieldsAreOlder(settled[m + 1], c)
    OBVIOUS
  <2>1. settled[m + 1] = Restated(settled[m], body[m + 1])
    BY <1>1, <1>2
  <2>2. FieldsAreOlder(settled[m], c) /\ body[m + 1].type \in 1..(c - 1)
    BY <1>1, <1>5
  <2>. QED
    BY <2>1, <2>2, RestatedIsOlder
<1>6. Nat \subseteq S
  <2> HIDE DEF S
  <2>. QED
    BY <1>4, <1>5, FromZeroUp
<1>. QED
  BY <1>1, <1>3, <1>6

---------------------------------------------------------------------------
(* Widths. *)

OptionsAreOlder(options, c) == \A s \in DOMAIN options : options[s] \in 1..(c - 1)

(* A class is made of classes declared before it. *)
PartsCameFirst ==
  \A c \in Ids :
    /\ classes[c].own["ELEMENT_TYPE"] \in {Unsaid, None} \cup 1..(c - 1)
    /\ classes[c].bracket \in {None} \cup 1..(c - 1)
    /\ FieldsAreOlder(classes[c].fields, c)
    /\ \/ classes[c].own["OPTIONS"] \in {Unsaid, None}
       \/ OptionsAreOlder(classes[c].own["OPTIONS"], c)

(* No body fixes an exact count of zero. *)
CountsArePositive ==
  \A c \in Ids : classes[c].own["LENGTH"] \in {Unsaid, None} \cup (Nat \ {0})

(* A uint has one of the widths there are, and a struct has fields, every    *)
(* one of which told its width when the struct was settled.                *)
WidthsAreSettled ==
  \A c \in Ids :
    /\ Shape(c) = "uint" => Presented(c, "BITS") \in UintWidths
    /\ Shape(c) \in {"container", "progressive_container"} =>
         /\ Len(classes[c].fields) # 0
         /\ \A f \in 1..Len(classes[c].fields) : fixedSize[classes[c].fields[f].type] # Undeclared

Shapes == {"uint", "boolean", "byte_vector", "byte_list", "bit_vector", "bit_list",
           "progressive_bit_list", "vector", "list", "progressive_list",
           "container", "progressive_container", "union"}

(* A class is of one of the shapes, a layout places every field, and a      *)
(* union has options.                                                      *)
IsUnion(options) == options # None /\ DOMAIN options \subseteq Int

LayoutsStand ==
  \A c \in Ids :
    /\ Shape(c) \in Shapes
    /\ Shape(c) = "progressive_container" =>
         IsLayout(Presented(c, "ACTIVE_FIELDS"), Len(classes[c].fields))
    /\ Shape(c) = "union" => IsUnion(Presented(c, "OPTIONS"))

PartsInv == IInv /\ PartsCameFirst /\ CountsArePositive
SpansInv == PartsInv /\ WidthsAreSettled /\ LayoutsStand

(* What a class presents for itself is what it or an older class said. *)
LEMMA PresentedIsSaid ==
  ASSUME IInv, NEW c \in Ids, NEW p, Presented(c, p) # None
  PROVE  \E b \in Ids : b <= c /\ Presented(c, p) = classes[b].own[p] /\ classes[b].own[p] # Unsaid
<1>1. CASE classes[c].own[p] # Unsaid
  <2>1. c <= c
    BY DEF IInv, ClassesStand, Ids
  <2>. QED
    BY <1>1, <2>1 DEF Presented, Resolved
<1>2. CASE classes[c].own[p] = Unsaid
  <2>1. Presented(c, p) = Inherited(classes[c].mro, p)
    BY <1>2 DEF Presented, Resolved
  <2>2. classes[c].mro \in Seq(Ids)
    BY DEF IInv, LinesAreClosed
  <2>3. PICK n \in Nat : DOMAIN classes[c].mro = 1..n
    BY <2>2
  <2>4. PICK b \in ToSet(classes[c].mro) :
          Inherited(classes[c].mro, p) = classes[b].own[p] /\ classes[b].own[p] # Unsaid
    BY <2>1, <2>3, SaidBySome
  <2>5. b \in Ids /\ b < c
    BY <2>2 DEF IInv, BasesCameFirst, ToSet
  <2>6. b \in Nat /\ c \in Nat
    BY <2>5 DEF IInv, ClassesStand, Ids
  <2>. QED
    BY <2>1, <2>4, <2>5, <2>6
<1>. QED
  BY <1>1, <1>2

(* What is older than a class is older than every later one. *)
LEMMA Shorter ==
  ASSUME NEW b \in Nat, NEW c \in Nat, b <= c
  PROVE  1..(b - 1) \subseteq 1..(c - 1)
OBVIOUS

LEMMA PartsAreOlder ==
  ASSUME PartsInv, NEW c \in Ids
  PROVE  /\ c \in Nat \ {0}
         /\ 1..(c - 1) \subseteq Ids
         /\ Presented(c, "LENGTH") \in {None} \cup (Nat \ {0})
         /\ Presented(c, "ELEMENT_TYPE") \in {None} \cup 1..(c - 1)
         /\ FieldsAreOlder(classes[c].fields, c)
         /\ Presented(c, "OPTIONS") # None => OptionsAreOlder(Presented(c, "OPTIONS"), c)
<1>1. IInv /\ FieldsAreOlder(classes[c].fields, c)
  BY DEF PartsInv, PartsCameFirst
<1>2. Ids \subseteq Nat \ {0} /\ 1..(c - 1) \subseteq Ids
  BY DEF PartsInv, IInv, ClassesStand, Ids
<1>3. Presented(c, "LENGTH") \in {None} \cup (Nat \ {0})
  <2> SUFFICES ASSUME Presented(c, "LENGTH") # None
               PROVE  Presented(c, "LENGTH") \in {None} \cup (Nat \ {0})
    OBVIOUS
  <2>1. PICK b \in Ids : /\ Presented(c, "LENGTH") = classes[b].own["LENGTH"]
                         /\ classes[b].own["LENGTH"] # Unsaid
    BY <1>1, PresentedIsSaid
  <2>. QED
    BY <2>1 DEF PartsInv, CountsArePositive
<1>4. Presented(c, "ELEMENT_TYPE") \in {None} \cup 1..(c - 1)
  <2> SUFFICES ASSUME Presented(c, "ELEMENT_TYPE") # None
               PROVE  Presented(c, "ELEMENT_TYPE") \in {None} \cup 1..(c - 1)
    OBVIOUS
  <2>1. PICK b \in Ids : /\ b <= c
                         /\ Presented(c, "ELEMENT_TYPE") = classes[b].own["ELEMENT_TYPE"]
                         /\ classes[b].own["ELEMENT_TYPE"] # Unsaid
    BY <1>1, PresentedIsSaid
  <2>2. classes[b].own["ELEMENT_TYPE"] \in {Unsaid, None} \cup 1..(b - 1)
    BY DEF PartsInv, PartsCameFirst
  <2>3. 1..(b - 1) \subseteq 1..(c - 1)
    BY <1>2, <2>1, Shorter
  <2>. QED
    BY <2>1, <2>2, <2>3
<1>5. ASSUME Presented(c, "OPTIONS") # None
      PROVE  OptionsAreOlder(Presented(c, "OPTIONS"), c)
  <2>1. PICK b \in Ids : /\ b <= c
                         /\ Presented(c, "OPTIONS") = classes[b].own["OPTIONS"]
                         /\ classes[b].own["OPTIONS"] # Unsaid
    BY <1>1, <1>5, PresentedIsSaid
  <2>2. OptionsAreOlder(classes[b].own["OPTIONS"], b)
    BY <1>5, <2>1 DEF PartsInv, PartsCameFirst
  <2>3. 1..(b - 1) \subseteq 1..(c - 1)
    BY <1>2, <2>1, Shorter
  <2>. QED
    BY <2>1, <2>2, <2>3 DEF OptionsAreOlder
<1>. QED
  BY <1>1, <1>2, <1>3, <1>4, <1>5

(* The width of a class is worked out from those of older classes. *)
LEMMA WidthReadsParts ==
  ASSUME PartsInv, NEW c \in Ids, NEW F, NEW G, \A b \in 1..(c - 1) : F[b] = G[b]
  PROVE  WidthOf(classes[c], Presents(c), F) = WidthOf(classes[c], Presents(c), G)
<1> DEFINE fields == classes[c].fields
<1>1. \A f \in DOMAIN fields : fields[f].type \in 1..(c - 1)
  BY PartsAreOlder DEF FieldsAreOlder
<1>2. [f \in DOMAIN fields |-> F[fields[f].type]] = [f \in DOMAIN fields |-> G[fields[f].type]]
  BY <1>1
<1>3. Presents(c)["ELEMENT_TYPE"] \in {None} \cup 1..(c - 1)
  BY PartsAreOlder DEF Presents, Attributes, TypeParameters
<1>4. Presents(c)["ELEMENT_TYPE"] # None =>
        F[Presents(c)["ELEMENT_TYPE"]] = G[Presents(c)["ELEMENT_TYPE"]]
  BY <1>3
<1>. QED
  BY <1>2, <1>4 DEF WidthOf

Sized(F, m) == F = [c \in 1..m |-> WidthOf(classes[c], Presents(c), F)]

LEMMA SizesUnfold ==
  PartsInv => \A c \in Ids : fixedSize[c] = WidthOf(classes[c], Presents(c), fixedSize)
<1> SUFFICES ASSUME PartsInv
             PROVE  \A c \in Ids : fixedSize[c] = WidthOf(classes[c], Presents(c), fixedSize)
  OBVIOUS
<1> DEFINE n == Len(classes)
<1>1. n \in Nat /\ Ids = 1..n
  BY DEF PartsInv, IInv, ClassesStand, Ids
<1> HIDE DEF n
<1> DEFINE S == {m \in Nat : m <= n => \E F : Sized(F, m)}
<1>2. 0 \in S
  <2>1. Sized([c \in 1..0 |-> 0], 0)
    BY DEF Sized
  <2>. QED
    BY <2>1
<1>3. ASSUME NEW m \in Nat, m \in S
      PROVE  m + 1 \in S
  <2> SUFFICES ASSUME m + 1 <= n
               PROVE  \E F : Sized(F, m + 1)
    OBVIOUS
  <2>1. PICK F : Sized(F, m)
    BY <1>1, <1>3
  <2> DEFINE G == [c \in 1..(m + 1) |-> IF c = m + 1 THEN WidthOf(classes[c], Presents(c), F) ELSE F[c]]
  <2>2. \A c \in 1..m : F[c] = WidthOf(classes[c], Presents(c), F)
    BY <2>1 DEF Sized
  <2>3. ASSUME NEW c \in 1..(m + 1)
        PROVE  G[c] = WidthOf(classes[c], Presents(c), G)
    <3>1. c \in Ids /\ \A b \in 1..(c - 1) : F[b] = G[b]
      BY <1>1
    <3>2. WidthOf(classes[c], Presents(c), F) = WidthOf(classes[c], Presents(c), G)
      <4> HIDE DEF G
      <4>. QED
        BY <3>1, WidthReadsParts
    <3>3. G[c] = WidthOf(classes[c], Presents(c), F)
      BY <2>2
    <3>. QED
      BY <3>2, <3>3
  <2>4. G = [c \in 1..(m + 1) |-> G[c]]
    OBVIOUS
  <2> HIDE DEF G
  <2>5. Sized(G, m + 1)
    BY <2>3, <2>4 DEF Sized
  <2>. QED
    BY <2>5
<1>4. Nat \subseteq S
  <2> HIDE DEF S
  <2>. QED
    BY <1>2, <1>3, FromZeroUp
<1>5. PICK F : Sized(F, n)
  BY <1>1, <1>4
<1>6. F = [c \in Ids |-> WidthOf(classes[c], Presents(c), F)]
  BY <1>1, <1>5 DEF Sized
<1>7. fixedSize = [c \in Ids |-> WidthOf(classes[c], Presents(c), fixedSize)]
  BY <1>6 DEF fixedSize
<1>. QED
  BY <1>7

LEMMA QuotientIsPositive ==
  ASSUME NEW x \in Nat, NEW y \in Nat \ {0}, y <= x
  PROVE  x \div y \in Nat \ {0}
<1> DEFINE q == x \div y
<1>1. q \in Int /\ x = y * q + (x % y) /\ x % y \in 0..(y - 1)
  OBVIOUS
<1> HIDE DEF q
<1>2. q <= 0 => y * q <= 0
  BY <1>1
<1>3. q > 0
  BY <1>1, <1>2
<1>. QED
  BY <1>1, <1>3 DEF q

(* A width no older class owes or spans nothing with is itself neither. *)
LEMMA WidthIsPositive ==
  ASSUME SpansInv, NEW c \in Ids,
         \A b \in 1..(c - 1) : fixedSize[b] \in {Varies, Undeclared} \cup (Nat \ {0})
  PROVE  fixedSize[c] \in {Varies, Undeclared} \cup (Nat \ {0})
<1> DEFINE T == classes[c]
<1> DEFINE presents == Presents(c)
<1> DEFINE length == presents["LENGTH"]
<1> DEFINE element == presents["ELEMENT_TYPE"]
<1>1. fixedSize[c] = WidthOf(T, presents, fixedSize)
  BY SizesUnfold DEF SpansInv
<1>2. /\ length \in {None} \cup (Nat \ {0})
      /\ element \in {None} \cup 1..(c - 1)
      /\ FieldsAreOlder(T.fields, c)
  BY PartsAreOlder DEF SpansInv, Presents, Attributes, TypeParameters
<1>3. /\ T.shape = "uint" => presents["BITS"] \in UintWidths
      /\ T.shape \in {"container", "progressive_container"} =>
           /\ Len(T.fields) # 0
           /\ \A f \in 1..Len(T.fields) : fixedSize[T.fields[f].type] # Undeclared
  BY DEF SpansInv, WidthsAreSettled, Presents, Attributes, Shape
<1>4. BitsPerByte \in Nat \ {0}
  BY WidthsAssumption
<1> HIDE DEF T, presents
<1>5. CASE T.shape = "uint"
  <2>1. presents["BITS"] \in Nat /\ BitsPerByte <= presents["BITS"]
    BY <1>3, <1>5, UintWidthsAssumption
  <2>2. presents["BITS"] \div BitsPerByte \in Nat \ {0}
    BY <1>4, <2>1, QuotientIsPositive
  <2>. QED
    BY <1>1, <1>5, <2>2 DEF WidthOf
<1>6. CASE T.shape = "boolean"
  BY <1>1, <1>6 DEF WidthOf
<1>7. CASE T.shape = "byte_vector"
  <2>1. fixedSize[c] = Times(1, length)
    BY <1>1, <1>7 DEF WidthOf
  <2>. QED
    BY <1>2, <2>1, WidthsAssumption DEF Times
<1>8. CASE T.shape = "bit_vector"
  <2>1. fixedSize[c] = IF length = None THEN Undeclared ELSE CeilDiv(length, BitsPerByte)
    BY <1>1, <1>8 DEF WidthOf
  <2>2. length # None => CeilDiv(length, BitsPerByte) \in Nat \ {0}
    <3> SUFFICES ASSUME length # None
                 PROVE  CeilDiv(length, BitsPerByte) \in Nat \ {0}
      OBVIOUS
    <3>1. length + BitsPerByte - 1 \in Nat /\ BitsPerByte <= length + BitsPerByte - 1
      BY <1>2, <1>4
    <3>. QED
      BY <1>4, <3>1, QuotientIsPositive DEF CeilDiv
  <2>. QED
    BY <2>1, <2>2
<1>9. CASE T.shape = "vector"
  <2>1. fixedSize[c] = IF element = None THEN Undeclared ELSE Times(fixedSize[element], length)
    BY <1>1, <1>9 DEF WidthOf
  <2>2. ASSUME NEW width \in {Varies, Undeclared} \cup (Nat \ {0})
        PROVE  Times(width, length) \in {Varies, Undeclared} \cup (Nat \ {0})
    BY <1>2 DEF Times
  <2>. QED
    BY <1>2, <2>1, <2>2
<1>10. CASE T.shape \in {"container", "progressive_container"}
  <2> DEFINE widths == [f \in DOMAIN T.fields |-> fixedSize[T.fields[f].type]]
  <2>1. fixedSize[c] = TotalWidth(widths)
    BY <1>1, <1>10 DEF WidthOf
  <2>2. /\ Len(T.fields) \in Nat \ {0} /\ DOMAIN T.fields = 1..Len(T.fields)
        /\ \A f \in 1..Len(T.fields) : T.fields[f].type \in 1..(c - 1)
    BY <1>2, <1>3, <1>10 DEF FieldsAreOlder
  <2>3. \A f \in 1..Len(T.fields) : widths[f] \in {Varies} \cup (Nat \ {0})
    BY <1>3, <1>10, <2>2
  <2>4. Len(widths) = Len(T.fields)
    BY <2>2
  <2> HIDE DEF widths
  <2>. QED
    BY <2>1, <2>2, <2>3, <2>4, TotalIsWide
<1>11. CASE T.shape \notin {"uint", "boolean", "byte_vector", "bit_vector", "vector",
                            "container", "progressive_container"}
  BY <1>1, <1>11 DEF WidthOf
<1>. QED
  BY <1>5, <1>6, <1>7, <1>8, <1>9, <1>10, <1>11

LEMMA WidthsArePositive ==
  ASSUME SpansInv
  PROVE  SpansArePositive
<1> DEFINE S == {m \in Nat : \A c \in Ids : c <= m =>
                   fixedSize[c] \in {Varies, Undeclared} \cup (Nat \ {0})}
<1>1. Ids \subseteq Nat \ {0}
  BY DEF SpansInv, PartsInv, IInv, ClassesStand, Ids
<1>2. 0 \in S
  BY <1>1
<1>3. ASSUME NEW m \in Nat, m \in S
      PROVE  m + 1 \in S
  <2> SUFFICES ASSUME NEW c \in Ids, c = m + 1
               PROVE  fixedSize[c] \in {Varies, Undeclared} \cup (Nat \ {0})
    BY <1>1, <1>3
  <2>1. 1..(c - 1) \subseteq Ids
    BY PartsAreOlder DEF SpansInv
  <2>2. \A b \in 1..(c - 1) : fixedSize[b] \in {Varies, Undeclared} \cup (Nat \ {0})
    BY <1>3, <2>1
  <2>. QED
    BY <2>2, WidthIsPositive
<1>4. Nat \subseteq S
  <2> HIDE DEF S
  <2>. QED
    BY <1>2, <1>3, FromZeroUp
<1>. QED
  BY <1>1, <1>4, WidthsAssumption DEF SpansArePositive

---------------------------------------------------------------------------
(* What a declaration adds. *)

(* What a class presents it presents for good, and so its width is its own. *)
LEMMA PresentedForGood ==
  ASSUME IInv, \A c \in Ids : classes'[c] = classes[c], NEW c \in Ids, NEW p
  PROVE  Presented(c, p)' = Presented(c, p)
<1>1. classes[c].mro \in Seq(Ids) /\ classes'[c] = classes[c]
  BY DEF IInv, LinesAreClosed
<1>2. Inherited(classes[c].mro, p)' = Inherited(classes[c].mro, p)
  BY <1>1, SaidForGood
<1>. QED
  BY <1>1, <1>2 DEF Presented, Resolved

LEMMA SizesStand ==
  ASSUME PartsInv, PartsInv', Ids \subseteq Ids', \A c \in Ids : classes'[c] = classes[c]
  PROVE  \A c \in Ids : fixedSize'[c] = fixedSize[c]
<1> DEFINE S == {m \in Nat : \A c \in Ids : c <= m => fixedSize'[c] = fixedSize[c]}
<1>1. /\ Ids \subseteq Nat \ {0}
      /\ \A m \in Nat, c \in Ids : c <= m + 1 => c <= m \/ c = m + 1
  <2>1. Ids \subseteq Nat \ {0}
    BY DEF PartsInv, IInv, ClassesStand, Ids
  <2>2. \A m, c \in Nat : c <= m + 1 => c <= m \/ c = m + 1
    OBVIOUS
  <2>. QED
    BY <2>1, <2>2
<1>2. 0 \in S
  BY <1>1
<1>3. (\A c \in Ids : fixedSize[c] = WidthOf(classes[c], Presents(c), fixedSize))'
  BY SizesUnfold, PTL
<1>4. ASSUME NEW c \in Ids
      PROVE  /\ Presents(c)' = Presents(c)
             /\ fixedSize[c] = WidthOf(classes[c], Presents(c), fixedSize)
             /\ fixedSize'[c] = WidthOf(classes[c], Presents(c), fixedSize')
  <2>1. \A p : Presented(c, p)' = Presented(c, p)
    BY PresentedForGood DEF PartsInv
  <2>2. Presents(c)' = Presents(c)
    BY <2>1 DEF Presents
  <2>3. fixedSize'[c] = WidthOf(classes'[c], Presents(c)', fixedSize')
    BY <1>3
  <2>. QED
    BY <2>2, <2>3, SizesUnfold
<1>5. ASSUME NEW m \in Nat, m \in S
      PROVE  m + 1 \in S
  <2>1. ASSUME NEW c \in Ids, c = m + 1
        PROVE  fixedSize'[c] = fixedSize[c]
    <3>1. \A b \in 1..(c - 1) : b \in Ids /\ b <= m
      BY <1>1, <2>1, PartsAreOlder
    <3>2. \A b \in 1..(c - 1) : fixedSize'[b] = fixedSize[b]
      BY <1>5, <3>1
    <3>3. WidthOf(classes[c], Presents(c), fixedSize') = WidthOf(classes[c], Presents(c), fixedSize)
      BY <3>2, WidthReadsParts
    <3>. QED
      BY <1>4, <3>3
  <2>2. \A c \in Ids : c <= m + 1 => fixedSize'[c] = fixedSize[c]
    BY <1>1, <1>5, <2>1
  <2>. QED
    BY <2>2
<1>6. Nat \subseteq S
  <2> HIDE DEF S
  <2>. QED
    BY <1>2, <1>5, FromZeroUp
<1>. QED
  BY <1>1, <1>6

(* What is asked of a class for the widths to stay as they are. *)
FitsIn(class) ==
  /\ class.mro \in Seq(Ids)
  /\ class.own["ELEMENT_TYPE"] \in {Unsaid, None} \cup 1..Len(classes)
  /\ class.own["LENGTH"] \in {Unsaid, None} \cup (Nat \ {0})
  /\ class.bracket \in {None} \cup 1..Len(classes)
  /\ FieldsAreOlder(class.fields, Len(classes) + 1)
  /\ class.shape \in Shapes
  /\ class.shape = "uint" => Resolved(class.own, class.mro, "BITS") \in UintWidths
  /\ class.shape \in {"container", "progressive_container"} =>
       Len(class.fields) # 0 /\ HaveWidths(class.fields)
  /\ \/ class.own["OPTIONS"] \in {Unsaid, None}
     \/ OptionsAreOlder(class.own["OPTIONS"], Len(classes) + 1)
  /\ class.shape = "progressive_container" =>
       IsLayout(Resolved(class.own, class.mro, "ACTIVE_FIELDS"), Len(class.fields))
  /\ class.shape = "union" =>
       LET options == Resolved(class.own, class.mro, "OPTIONS")
       IN  IsUnion(options) /\ PairsFit(options)

LEMMA FittingClassKeepsSpans ==
  ASSUME SpansInv, IInv', NEW class, classes' = Append(classes, class), UNCHANGED session,
         FitsIn(class)
  PROVE  SpansInv'
<1> DEFINE n == Len(classes)
<1>1. /\ n \in Nat /\ Ids = 1..n /\ Ids' = Ids \cup {n + 1}
      /\ \A c \in Ids : classes'[c] = classes[c]
      /\ classes'[n + 1] = class
  <2>1. ClassesStand
    BY DEF SpansInv, PartsInv, IInv
  <2>2. n \in Nat /\ Ids = 1..n
    BY <2>1 DEF ClassesStand, Ids
  <2>. QED
    BY <2>1, <2>2, ClassAdded
<1>2. (n + 1) - 1 = n /\ \A c \in Ids' : c \in Ids \/ c = n + 1
  BY <1>1
<1> HIDE DEF n
<1>3. PartsCameFirst'
  <2> SUFFICES ASSUME NEW c \in Ids'
               PROVE  /\ classes'[c].own["ELEMENT_TYPE"] \in {Unsaid, None} \cup 1..(c - 1)
                      /\ classes'[c].bracket \in {None} \cup 1..(c - 1)
                      /\ FieldsAreOlder(classes'[c].fields, c)
                      /\ \/ classes'[c].own["OPTIONS"] \in {Unsaid, None}
                         \/ OptionsAreOlder(classes'[c].own["OPTIONS"], c)
    BY DEF PartsCameFirst
  <2>1. CASE c \in Ids
    BY <1>1, <2>1 DEF SpansInv, PartsInv, PartsCameFirst
  <2>2. CASE c = n + 1
    BY <1>1, <1>2, <2>2 DEF FitsIn, n
  <2>. QED
    BY <1>2, <2>1, <2>2
<1>4. CountsArePositive'
  <2> SUFFICES ASSUME NEW c \in Ids'
               PROVE  classes'[c].own["LENGTH"] \in {Unsaid, None} \cup (Nat \ {0})
    BY DEF CountsArePositive
  <2>1. CASE c \in Ids
    BY <1>1, <2>1 DEF SpansInv, PartsInv, CountsArePositive
  <2>2. CASE c = n + 1
    BY <1>1, <2>2 DEF FitsIn
  <2>. QED
    BY <1>2, <2>1, <2>2
<1>5. PartsInv /\ PartsInv'
  BY <1>3, <1>4 DEF SpansInv, PartsInv
<1>6. \A c \in Ids : fixedSize'[c] = fixedSize[c]
  BY <1>1, <1>5, SizesStand
<1>7. ASSUME NEW p
      PROVE  /\ \A c \in Ids : Presented(c, p)' = Presented(c, p)
             /\ \A c \in Ids' : c = n + 1 => Presented(c, p)' = Resolved(class.own, class.mro, p)
  <2>1. Inherited(class.mro, p)' = Inherited(class.mro, p)
    BY <1>1, SaidForGood DEF FitsIn
  <2>2. ASSUME NEW c \in Ids', c = n + 1
        PROVE  Presented(c, p)' = Resolved(class.own, class.mro, p)
    BY <1>1, <2>1, <2>2 DEF Presented, Resolved
  <2>. QED
    BY <1>1, <2>2, PresentedForGood DEF SpansInv, PartsInv
<1>8. WidthsAreSettled'
  <2> SUFFICES ASSUME NEW c \in Ids'
               PROVE  /\ classes'[c].shape = "uint" => Presented(c, "BITS")' \in UintWidths
                      /\ classes'[c].shape \in {"container", "progressive_container"} =>
                           /\ Len(classes'[c].fields) # 0
                           /\ \A f \in 1..Len(classes'[c].fields) :
                                fixedSize'[classes'[c].fields[f].type] # Undeclared
    BY DEF WidthsAreSettled, Shape
  <2>1. CASE c \in Ids
    <3>1. classes'[c] = classes[c] /\ Presented(c, "BITS")' = Presented(c, "BITS")
      BY <1>1, <1>7, <2>1
    <3>2. \A f \in 1..Len(classes[c].fields) : classes[c].fields[f].type \in Ids
      BY <1>5, <2>1, PartsAreOlder DEF FieldsAreOlder
    <3>. QED
      BY <1>6, <2>1, <3>1, <3>2 DEF SpansInv, WidthsAreSettled, Shape
  <2>2. CASE c = n + 1
    <3>1. Presented(c, "BITS")' = Resolved(class.own, class.mro, "BITS")
      BY <1>7, <2>2
    <3>2. /\ DOMAIN class.fields = 1..Len(class.fields)
          /\ \A f \in 1..Len(class.fields) : class.fields[f].type \in Ids
      BY <1>1, <1>2 DEF FitsIn, FieldsAreOlder, n
    <3>3. classes'[c] = class
      BY <1>1, <2>2
    <3>4. class.shape \in {"container", "progressive_container"} =>
            /\ Len(class.fields) # 0
            /\ \A f \in 1..Len(class.fields) : fixedSize'[class.fields[f].type] # Undeclared
      BY <1>6, <3>2 DEF FitsIn, HaveWidths
    <3>5. class.shape = "uint" => Presented(c, "BITS")' \in UintWidths
      BY <3>1 DEF FitsIn
    <3>. QED
      BY <3>3, <3>4, <3>5
  <2>. QED
    BY <1>2, <2>1, <2>2
<1>9. LayoutsStand'
  <2> SUFFICES ASSUME NEW c \in Ids'
               PROVE  /\ classes'[c].shape \in Shapes
                      /\ classes'[c].shape = "progressive_container" =>
                           IsLayout(Presented(c, "ACTIVE_FIELDS")', Len(classes'[c].fields))
                      /\ classes'[c].shape = "union" => IsUnion(Presented(c, "OPTIONS")')
    BY DEF LayoutsStand, Shape
  <2>1. CASE c \in Ids
    BY <1>1, <1>7, <2>1 DEF SpansInv, LayoutsStand, Shape
  <2>2. CASE c = n + 1
    BY <1>1, <1>7, <2>2 DEF FitsIn
  <2>. QED
    BY <1>2, <2>1, <2>2
<1>. QED
  BY <1>5, <1>8, <1>9 DEF SpansInv

(* A sequence takes its elements from its body, or of a base in brackets. *)
LEMMA ElementsAreOlder ==
  ASSUME PartsInv, NEW d, d.bases \in Seq(Nat), ToSet(d.bases) \subseteq Ids,
         DOMAIN d.own = Attributes,
         d.own["ELEMENT_TYPE"] \in {Unsaid, None} \cup 1..Len(classes)
  PROVE  /\ WithElements(d)["ELEMENT_TYPE"] \in {Unsaid, None} \cup 1..Len(classes)
         /\ WithElements(d)["LENGTH"] = d.own["LENGTH"]
         /\ WithElements(d)["OPTIONS"] = d.own["OPTIONS"]
<1> DEFINE bases == d.bases
<1> DEFINE inBrackets == {b \in DOMAIN bases : classes[bases[b]].bracket # None}
<1>1. CASE ~ (d.own["ELEMENT_TYPE"] = Unsaid /\ inBrackets # {})
  BY <1>1 DEF WithElements
<1>2. CASE d.own["ELEMENT_TYPE"] = Unsaid /\ inBrackets # {}
  <2> DEFINE b == bases[Min(inBrackets)]
  <2>1. WithElements(d) = [d.own EXCEPT !["ELEMENT_TYPE"] = classes[b].bracket]
    BY <1>2 DEF WithElements
  <2>2. Min(inBrackets) \in inBrackets
    <3>1. inBrackets \in SUBSET Nat /\ inBrackets # {}
      BY <1>2
    <3> HIDE DEF inBrackets
    <3>. QED
      BY <3>1, Least DEF Min
  <2>3. b \in Ids /\ classes[b].bracket # None
    BY <2>2 DEF ToSet
  <2> HIDE DEF b
  <2>4. classes[b].bracket \in 1..(b - 1)
    BY <2>3 DEF PartsInv, PartsCameFirst
  <2>5. 1..(b - 1) \subseteq 1..Len(classes)
    BY <2>3 DEF PartsInv, IInv, ClassesStand, Ids
  <2>6. /\ "ELEMENT_TYPE" \in DOMAIN d.own /\ "LENGTH" \in DOMAIN d.own
        /\ "OPTIONS" \in DOMAIN d.own
    BY DEF Attributes, TypeParameters
  <2>. QED
    BY <2>1, <2>4, <2>5, <2>6
<1>. QED
  BY <1>1, <1>2

(* Fields older than a class are older than every later one. *)
LEMMA OlderStill ==
  ASSUME NEW c \in Nat, NEW d \in Nat, c <= d, NEW fields, FieldsAreOlder(fields, c)
  PROVE  FieldsAreOlder(fields, d)
<1>1. 1..(c - 1) \subseteq 1..(d - 1)
  BY Shorter
<1>. QED
  BY <1>1 DEF FieldsAreOlder

(* A struct's fields, restated or not, are of classes that stand. *)
LEMMA SettledFieldsAreOlder ==
  ASSUME PartsInv, NEW d, d.bases \in Seq(Nat), Len(d.bases) <= 2, ToSet(d.bases) \subseteq Ids,
         FieldsAreOlder(d.fields, Len(classes) + 1)
  PROVE  FieldsAreOlder(SettledFields(d), Len(classes) + 1)
<1> DEFINE n == Len(classes)
<1>1. n \in Nat /\ n + 1 \in Nat /\ Ids = 1..n
  BY DEF PartsInv, IInv, ClassesStand, Ids
<1> HIDE DEF n
<1>2. ASSUME NEW b \in Ids
      PROVE  FieldsAreOlder(classes[b].fields, n + 1)
  <2>1. b \in Nat /\ b <= n + 1
    BY <1>1
  <2>. QED
    BY <1>1, <2>1, OlderStill DEF PartsInv, PartsCameFirst
<1>3. CASE d.bases = <<>>
  BY <1>3 DEF SettledFields
<1>4. CASE d.bases # <<>>
  <2>1. d.bases[1] \in Ids /\ (Len(d.bases) # 1 => d.bases[2] \in Ids)
    BY <1>4, BasesStand
  <2>2. FieldsAreOlder(FieldsOf(d.bases), n + 1)
    <3>1. CASE Len(d.bases) = 1
      BY <1>2, <2>1, <3>1 DEF FieldsOf
    <3>2. CASE Len(d.bases) # 1
      <4>1. FieldsOf(d.bases) = Settled(classes[d.bases[2]].fields, classes[d.bases[1]].fields)
        BY <3>2 DEF FieldsOf
      <4>. QED
        BY <1>1, <1>2, <2>1, <3>2, <4>1, SettledIsOlder
    <3>. QED
      BY <3>1, <3>2
  <2>3. SettledFields(d) = Settled(FieldsOf(d.bases), d.fields)
    BY <1>4 DEF SettledFields
  <2>. QED
    BY <1>1, <2>2, <2>3, SettledIsOlder DEF n
<1>. QED
  BY <1>3, <1>4

(* A layout with a last position set is of some field. *)
LEMMA LayoutsHaveFields ==
  ASSUME NEW active, NEW count, IsLayout(active, count)
  PROVE  count # 0
<1> DEFINE set == {p \in DOMAIN active : active[p] = 1}
<1>1. active \in Seq({0, 1}) /\ Len(active) \in 1..MaxActiveFields /\ Last(active) = 1
  BY DEF IsLayout
<1>2. Len(active) \in Nat \ {0} /\ DOMAIN active = 1..Len(active)
  BY <1>1
<1>3. Len(active) \in set
  BY <1>1, <1>2 DEF Last
<1>4. IsFiniteSet(set)
  <2>1. IsFiniteSet(1..Len(active)) /\ set \subseteq 1..Len(active)
    BY <1>2, FS_Interval
  <2>. QED
    BY <2>1, FS_Subset
<1>5. Cardinality(set) # 0
  <2> HIDE DEF set
  <2>. QED
    BY <1>3, <1>4, FS_EmptySet
<1>. QED
  BY <1>5 DEF IsLayout

(* Whatever a declaration adds fits in. *)
LEMMA DeclaredFits ==
  ASSUME SpansInv, Declaring
  PROVE  \E class : FitsIn(class) /\ classes' = Append(classes, class) /\ UNCHANGED session
<1> DEFINE n == Len(classes)
<1>1. PICK d \in Programs[session][n + 1] :
        /\ ToSet(d.bases) \subseteq Ids
        /\ \/ DeclareUint(d)
           \/ DeclareBitsOrBytes(d)
           \/ Parametrize(d)
           \/ DeclareSequence(d)
           \/ DeclareContainer(d)
           \/ DeclareProgressiveContainer(d)
           \/ DeclareUnion(d)
  BY DEF Declaring
<1>2. IInv /\ PartsInv /\ n \in Nat /\ Ids = 1..n
  BY DEF SpansInv, PartsInv, IInv, ClassesStand, Ids
<1>4. n + 1 \in DOMAIN Programs[session] /\ session \in DOMAIN Programs
  BY <1>2 DEF Declaring, IInv, ClassesStand
<1>5. /\ d.bases \in Seq(Nat) /\ Len(d.bases) <= 2
      /\ DOMAIN d.own = Attributes
      /\ d.own["LENGTH"] \in {Unsaid, None} \cup Int
      /\ d.own["ELEMENT_TYPE"] \in {Unsaid, None} \cup 1..n
      /\ d.bracket \in {None} \cup 1..n
      /\ FieldsAreOlder(d.fields, n + 1)
      /\ d.own["OPTIONS"] \in {Unsaid, None} \/ OptionsAreOlder(d.own["OPTIONS"], n + 1)
  <2> DEFINE k == n + 1
  <2>1. k - 1 = n
    BY <1>2
  <2> HIDE DEF k
  <2>2. k \in DOMAIN Programs[session] /\ d \in Programs[session][k]
    BY <1>4 DEF k
  <2>3. /\ d.bases \in Seq(Nat) /\ Len(d.bases) <= 2
        /\ DOMAIN d.own = Attributes
        /\ d.own["LENGTH"] \in {Unsaid, None} \cup Int
        /\ d.own["ELEMENT_TYPE"] \in {Unsaid, None} \cup 1..(k - 1)
        /\ d.bracket \in {None} \cup 1..(k - 1)
    BY <1>4, <2>2, ProgramsAssumption
  <2>4. FieldsAreOlder(d.fields, k)
    BY <1>4, <2>2, ProgramsAssumption DEF FieldsAreOlder
  <2>5. d.own["OPTIONS"] \in {Unsaid, None} \/ OptionsAreOlder(d.own["OPTIONS"], k)
    BY <1>4, <2>2, ProgramsAssumption DEF OptionsAreOlder
  <2>. QED
    BY <2>1, <2>3, <2>4, <2>5 DEF k
<1> DEFINE class(mro, own, fields) ==
      [shape |-> d.shape, mro |-> mro, own |-> own, bracket |-> d.bracket, fields |-> fields]
<1>6. ASSUME NEW mro, NEW own, NEW fields, Declare(d, mro, own, fields),
             FitsIn(class(mro, own, fields))
      PROVE  \E new : FitsIn(new) /\ classes' = Append(classes, new) /\ UNCHANGED session
  <2>1. classes' = Append(classes, class(mro, own, fields)) /\ UNCHANGED session
    BY <1>6 DEF Declare
  <2> HIDE DEF class
  <2>. QED
    BY <1>6, <2>1
<1>7. ASSUME NEW mro \in AllowedOrders(d)
      PROVE  mro \in Seq(Ids) /\ d.own["LENGTH"] \in {Unsaid, None} \cup (Nat \ {0})
  <2>1. mro \in Orders(d.bases) /\ Narrowed(d.own)
    BY DEF AllowedOrders
  <2>2. mro \in Seq(Ids)
    BY <1>1, <1>2, <1>5, <2>1, OrdersAreWhole
  <2>. QED
    BY <1>5, <2>1, <2>2 DEF Narrowed
<1>8. FieldsAreOlder(<<>>, n + 1)
  BY DEF FieldsAreOlder
<1>9. CASE DeclareUint(d)
  <2>1. PICK mro \in AllowedOrders(d) :
          d.shape = "uint" /\ Resolved(d.own, mro, "BITS") \in UintWidths /\ Declare(d, mro, d.own, <<>>)
    BY <1>9 DEF DeclareUint
  <2>2. FitsIn(class(mro, d.own, <<>>))
    BY <1>5, <1>7, <1>8, <2>1 DEF FitsIn, Shapes
  <2>. QED
    BY <1>6, <2>1, <2>2
<1>10. CASE DeclareBitsOrBytes(d)
  <2>1. PICK mro \in AllowedOrders(d) : Declare(d, mro, d.own, <<>>)
    BY <1>10 DEF DeclareBitsOrBytes
  <2>2. FitsIn(class(mro, d.own, <<>>))
    BY <1>5, <1>7, <1>8, <1>10 DEF FitsIn, Shapes, DeclareBitsOrBytes
  <2>. QED
    BY <1>6, <2>1, <2>2
<1>15. CASE DeclareUnion(d)
  <2>1. PICK mro \in AllowedOrders(d) :
          LET options == Resolved(d.own, mro, "OPTIONS")
          IN  /\ options # None /\ DOMAIN options \subseteq MinSelector..MaxSelector
              /\ PairsFit(options)
              /\ Declare(d, mro, d.own, <<>>)
    BY <1>15 DEF DeclareUnion
  <2>2. IsUnion(Resolved(d.own, mro, "OPTIONS")) /\ d.shape = "union"
    BY <1>15, <2>1 DEF IsUnion, DeclareUnion
  <2>3. FitsIn(class(mro, d.own, <<>>))
    BY <1>5, <1>7, <1>8, <2>1, <2>2 DEF FitsIn, Shapes
  <2>. QED
    BY <1>6, <2>1, <2>3
<1>13. CASE DeclareContainer(d)
  <2>1. PICK mro \in AllowedOrders(d) : Declare(d, mro, d.own, SettledFields(d))
    BY <1>13 DEF DeclareContainer
  <2>2. FieldsAreOlder(SettledFields(d), n + 1)
    BY <1>1, <1>2, <1>5, SettledFieldsAreOlder
  <2>3. Len(SettledFields(d)) # 0 /\ HaveWidths(SettledFields(d)) /\ d.shape = "container"
    <3>1. SettledFields(d) # <<>> /\ HaveWidths(SettledFields(d)) /\ d.shape = "container"
      BY <1>13 DEF DeclareContainer
    <3>2. ASSUME Len(SettledFields(d)) = 0
          PROVE  FALSE
      <4>1. SettledFields(d) = [f \in 1..0 |-> SettledFields(d)[f]]
        BY <2>2, <3>2 DEF FieldsAreOlder
      <4>2. \A s : s = [f \in 1..0 |-> s[f]] => s = <<>>
        OBVIOUS
      <4>. QED
        BY <3>1, <4>1, <4>2
    <3>. QED
      BY <3>1, <3>2
  <2>4. FitsIn(class(mro, d.own, SettledFields(d)))
    BY <1>5, <1>7, <2>2, <2>3 DEF FitsIn, Shapes
  <2>. QED
    BY <1>6, <2>1, <2>4
<1>14. CASE DeclareProgressiveContainer(d)
  <2>1. PICK mro \in AllowedOrders(d) :
          /\ IsLayout(Resolved(d.own, mro, "ACTIVE_FIELDS"), Len(SettledFields(d)))
          /\ Declare(d, mro, d.own, SettledFields(d))
    BY <1>14 DEF DeclareProgressiveContainer
  <2>2. FieldsAreOlder(SettledFields(d), n + 1)
    BY <1>1, <1>2, <1>5, SettledFieldsAreOlder
  <2>3. /\ Len(SettledFields(d)) # 0 /\ HaveWidths(SettledFields(d))
        /\ d.shape = "progressive_container"
    BY <1>14, <2>1, LayoutsHaveFields DEF DeclareProgressiveContainer
  <2>4. FitsIn(class(mro, d.own, SettledFields(d)))
    BY <1>5, <1>7, <2>1, <2>2, <2>3 DEF FitsIn, Shapes
  <2>. QED
    BY <1>6, <2>1, <2>4
<1>11. CASE Parametrize(d)
  <2> DEFINE own == [SaysNothing EXCEPT !["ELEMENT_TYPE"] = d.bracket]
  <2>1. /\ d.bracket \in Ids /\ Declare(d, <<>>, own, <<>>)
        /\ d.shape \in {"vector", "list", "progressive_list"}
    BY <1>11 DEF Parametrize
  <2>2. own["ELEMENT_TYPE"] = d.bracket /\ own["LENGTH"] = Unsaid /\ own["OPTIONS"] = Unsaid
    BY DEF SaysNothing, Attributes, TypeParameters
  <2> HIDE DEF own
  <2>3. FitsIn(class(<<>>, own, <<>>))
    BY <1>2, <1>5, <1>8, <2>1, <2>2 DEF FitsIn, Shapes
  <2>. QED
    BY <1>6, <2>1, <2>3
<1>12. CASE DeclareSequence(d)
  <2>1. PICK mro \in AllowedOrders(d) : Declare(d, mro, WithElements(d), <<>>)
    BY <1>12 DEF DeclareSequence
  <2>2. /\ WithElements(d)["ELEMENT_TYPE"] \in {Unsaid, None} \cup 1..n
        /\ WithElements(d)["LENGTH"] = d.own["LENGTH"]
        /\ WithElements(d)["OPTIONS"] = d.own["OPTIONS"]
    BY <1>1, <1>2, <1>5, ElementsAreOlder
  <2>3. d.shape \in {"vector", "list", "progressive_list"}
    BY <1>12 DEF DeclareSequence
  <2>4. FitsIn(class(mro, WithElements(d), <<>>))
    BY <1>5, <1>7, <1>8, <2>2, <2>3 DEF FitsIn, Shapes
  <2>. QED
    BY <1>6, <2>1, <2>4
<1>. QED
  BY <1>1, <1>9, <1>10, <1>11, <1>12, <1>13, <1>14, <1>15

LEMMA DeclaringKeepsSpans ==
  ASSUME SpansInv, Declaring
  PROVE  SpansInv'
<1>1. PICK class : FitsIn(class) /\ classes' = Append(classes, class) /\ UNCHANGED session
  BY DeclaredFits
<1>2. IInv'
  BY DeclaringKeepsInv DEF SpansInv, PartsInv
<1>. QED
  BY <1>1, <1>2, FittingClassKeepsSpans

(* Where nothing is declared, spans stay. *)
LEMMA StutterKeepsSpans ==
  ASSUME SpansInv, UNCHANGED declarationVars
  PROVE  SpansInv'
<1>1. classes' = classes /\ IInv /\ IInv'
  BY StutterKeepsInv DEF SpansInv, PartsInv, declarationVars
<1>2. Ids' = Ids /\ PartsInv'
  BY <1>1 DEF SpansInv, PartsInv, PartsCameFirst, CountsArePositive, Ids
<1>3. \A c \in Ids : \A p : Presented(c, p)' = Presented(c, p)
  BY <1>1, PresentedForGood
<1>4. \A c \in Ids : fixedSize'[c] = fixedSize[c]
  BY <1>1, <1>2, SizesStand DEF SpansInv
<1>5. \A c \in Ids : \A f \in 1..Len(classes[c].fields) : classes[c].fields[f].type \in Ids
  BY PartsAreOlder DEF SpansInv, FieldsAreOlder
<1>6. WidthsAreSettled'
  BY <1>1, <1>2, <1>3, <1>4, <1>5 DEF SpansInv, WidthsAreSettled, Shape
<1>7. LayoutsStand'
  BY <1>1, <1>2, <1>3 DEF SpansInv, LayoutsStand, Shape
<1>. QED
  BY <1>2, <1>6, <1>7 DEF SpansInv

(* No class spans nothing, whatever it is made of and however it inherits:   *)
(* a struct is settled out of fields that tell their widths, an exact count *)
(* is of one at least, and what a class declares is declared for good.     *)
THEOREM SpansTheorem == DeclarationsSpec => []SpansArePositive
<1>1. DeclarationsInit => SpansInv
  <2> SUFFICES ASSUME DeclarationsInit
               PROVE  SpansInv
    OBVIOUS
  <2>1. IInv /\ Ids = {}
    BY InitHasInv DEF DeclarationsInit, Ids
  <2>. QED
    BY <2>1 DEF SpansInv, PartsInv, PartsCameFirst, CountsArePositive, WidthsAreSettled, LayoutsStand
<1>2. SpansInv /\ [Declaring]_declarationVars => SpansInv'
  BY DeclaringKeepsSpans, StutterKeepsSpans
<1>3. SpansInv => SpansArePositive
  BY WidthsArePositive
<1>. QED
  BY <1>1, <1>2, <1>3, PTL DEF DeclarationsSpec

---------------------------------------------------------------------------
(* Compatibility, worked out from older classes. *)

(* The positions a layout sets, and the ordinal of the field at each. *)
PositionsOf(active) == {p \in DOMAIN active : active[p] = 1}
OrdinalAt(active, p) == Cardinality({q \in PositionsOf(active) : q <= p})

LEMMA OrdinalsTellApart ==
  ASSUME NEW active, NEW n, IsLayout(active, n)
  PROVE  /\ PositionsOf(active) \subseteq Nat
         /\ \A p \in PositionsOf(active) : OrdinalAt(active, p) \in 1..n
         /\ \A p, q \in PositionsOf(active) :
              OrdinalAt(active, p) = OrdinalAt(active, q) => p = q
<1> DEFINE set == PositionsOf(active)
           upTo(p) == {q \in set : q <= p}
<1>1. set \subseteq 1..Len(active) /\ Len(active) \in Nat /\ Cardinality(set) = n
  BY DEF IsLayout, PositionsOf
<1>2. IsFiniteSet(set) /\ set \subseteq Nat
  <2>1. IsFiniteSet(1..Len(active)) /\ 1..Len(active) \subseteq Nat
    BY <1>1, FS_Interval
  <2>. QED
    BY <1>1, <2>1, FS_Subset
<1> HIDE DEF set
<1>3. ASSUME NEW p \in set
      PROVE  /\ IsFiniteSet(upTo(p)) /\ p \in upTo(p)
             /\ Cardinality(upTo(p)) \in 1..n
  <2>1. upTo(p) \subseteq set /\ p \in upTo(p)
    BY <1>2
  <2> HIDE DEF upTo
  <2>2. IsFiniteSet(upTo(p)) /\ Cardinality(upTo(p)) <= n
    BY <1>1, <1>2, <2>1, FS_Subset
  <2>3. Cardinality(upTo(p)) \in Nat /\ Cardinality(upTo(p)) # 0 /\ n \in Nat
    BY <1>1, <1>2, <2>1, <2>2, FS_CardinalityType, FS_EmptySet
  <2>. QED
    BY <2>1, <2>2, <2>3
<1>4. ASSUME NEW p \in set, NEW q \in set, p < q, Cardinality(upTo(p)) = Cardinality(upTo(q))
      PROVE  FALSE
  <2>1. upTo(p) \subseteq upTo(q) /\ q \notin upTo(p)
    <3>1. ~ (q <= p) /\ \A x \in set : x <= p => x <= q
      BY <1>2, <1>4
    <3>. QED
      BY <3>1
  <2>2. q \in upTo(q) /\ IsFiniteSet(upTo(q))
    BY <1>3
  <2> HIDE DEF upTo
  <2>3. upTo(p) = upTo(q)
    BY <1>4, <2>1, <2>2, FS_Subset
  <2>. QED
    BY <2>1, <2>2, <2>3
<1>5. \A p, q \in set : p < q \/ q < p \/ p = q
  BY <1>2
<1>6. \A p : OrdinalAt(active, p) = Cardinality(upTo(p))
  BY DEF OrdinalAt, set
<1>7. \A p \in set : OrdinalAt(active, p) \in 1..n
  BY <1>3, <1>6
<1>8. \A p, q \in set : OrdinalAt(active, p) = OrdinalAt(active, q) => p = q
  BY <1>4, <1>5, <1>6
<1>. QED
  BY <1>2, <1>7, <1>8 DEF set

(* At a position a layout sets is a field of the class. *)
LEMMA FieldsArePlaced ==
  ASSUME SpansInv, NEW c \in Ids, Shape(c) = "progressive_container"
  PROVE  LET active == Presented(c, "ACTIVE_FIELDS")
             placed == FieldsByPosition(c)
         IN  /\ DOMAIN placed = PositionsOf(active)
             /\ \A p \in PositionsOf(active) :
                  /\ OrdinalAt(active, p) \in 1..Len(classes[c].fields)
                  /\ placed[p] = classes[c].fields[OrdinalAt(active, p)]
             /\ \A p, q \in PositionsOf(active) : placed[p].name = placed[q].name => p = q
<1> DEFINE active == Presented(c, "ACTIVE_FIELDS")
           fields == classes[c].fields
           placed == FieldsByPosition(c)
<1>1. IsLayout(active, Len(fields))
  BY DEF SpansInv, LayoutsStand
<1>2. placed = [p \in PositionsOf(active) |-> fields[OrdinalAt(active, p)]]
  BY DEF FieldsByPosition, PositionsOf, OrdinalAt
<1>3. \A f, g \in 1..Len(fields) : fields[f].name = fields[g].name => f = g
  BY PartsAreOlder DEF SpansInv, FieldsAreOlder
<1> HIDE DEF active, fields, placed
<1>4. /\ \A p \in PositionsOf(active) : OrdinalAt(active, p) \in 1..Len(fields)
      /\ \A p, q \in PositionsOf(active) : OrdinalAt(active, p) = OrdinalAt(active, q) => p = q
  BY <1>1, OrdinalsTellApart
<1>5. \A p, q \in PositionsOf(active) : placed[p].name = placed[q].name => p = q
  BY <1>2, <1>3, <1>4
<1>. QED
  BY <1>2, <1>4, <1>5 DEF active, fields, placed

LEMMA PlacedAreOlder ==
  ASSUME SpansInv, NEW c \in Ids, Shape(c) = "progressive_container"
  PROVE  \A p \in DOMAIN FieldsByPosition(c) : FieldsByPosition(c)[p].type \in 1..(c - 1)
<1>1. FieldsAreOlder(classes[c].fields, c)
  BY PartsAreOlder DEF SpansInv
<1>. QED
  BY <1>1, FieldsArePlaced DEF FieldsAreOlder

(* Asked the other way round, of answers given the other way round, whether *)
(* two classes fit is answered alike.                                      *)
LEMMA FitMirrors ==
  ASSUME SpansInv, NEW l \in Ids, NEW r \in Ids, NEW F, NEW G,
         \A a \in 1..(l - 1), b \in 1..(r - 1) : F[a][b] = G[b][a]
  PROVE  Fit(l, r, F) = Fit(r, l, G)
<1>1. /\ FieldsAreOlder(classes[l].fields, l) /\ FieldsAreOlder(classes[r].fields, r)
      /\ Presented(l, "ELEMENT_TYPE") \in {None} \cup 1..(l - 1)
      /\ Presented(r, "ELEMENT_TYPE") \in {None} \cup 1..(r - 1)
      /\ Presented(l, "OPTIONS") # None => OptionsAreOlder(Presented(l, "OPTIONS"), l)
      /\ Presented(r, "OPTIONS") # None => OptionsAreOlder(Presented(r, "OPTIONS"), r)
  BY PartsAreOlder DEF SpansInv
<1>2. ElementsAgree(l, r, F) <=> ElementsAgree(r, l, G)
  BY <1>1 DEF ElementsAgree
<1>3. FieldsAgree(l, r, F) <=> FieldsAgree(r, l, G)
  <2> DEFINE left == classes[l].fields
             right == classes[r].fields
  <2>1. /\ DOMAIN left = 1..Len(left) /\ DOMAIN right = 1..Len(right)
        /\ \A f \in 1..Len(left), g \in 1..Len(right) : F[left[f].type][right[g].type] = G[right[g].type][left[f].type]
    BY <1>1 DEF FieldsAreOlder
  <2>2. FieldsAgree(l, r, F) <=> /\ Len(left) = Len(right)
                                /\ \A f \in DOMAIN left :
                                     left[f].name = right[f].name /\ F[left[f].type][right[f].type]
    BY DEF FieldsAgree
  <2>3. FieldsAgree(r, l, G) <=> /\ Len(right) = Len(left)
                                /\ \A f \in DOMAIN right :
                                     right[f].name = left[f].name /\ G[right[f].type][left[f].type]
    BY DEF FieldsAgree
  <2> HIDE DEF left, right
  <2>4. ASSUME Len(left) = Len(right), NEW f \in 1..Len(left)
        PROVE  F[left[f].type][right[f].type] = G[right[f].type][left[f].type]
    BY <2>1, <2>4
  <2>5. CASE Len(left) = Len(right)
    <3>1. DOMAIN left = DOMAIN right /\ DOMAIN left = 1..Len(left)
      BY <2>1, <2>5
    <3>. QED
      BY <2>2, <2>3, <2>4, <2>5, <3>1, Zenon
  <2>6. CASE Len(left) # Len(right)
    BY <2>2, <2>3, <2>6
  <2>. QED
    BY <2>5, <2>6
<1>4. Shape(l) = "progressive_container" /\ Shape(r) = "progressive_container" =>
        (LayoutsAgree(l, r, F) <=> LayoutsAgree(r, l, G))
  <2> SUFFICES ASSUME Shape(l) = "progressive_container", Shape(r) = "progressive_container"
               PROVE  LayoutsAgree(l, r, F) <=> LayoutsAgree(r, l, G)
    OBVIOUS
  <2> DEFINE left == FieldsByPosition(l)
             right == FieldsByPosition(r)
  <2>1. /\ \A p \in DOMAIN left : left[p].type \in 1..(l - 1)
        /\ \A q \in DOMAIN right : right[q].type \in 1..(r - 1)
    BY PlacedAreOlder
  <2>2. \A p \in DOMAIN left, q \in DOMAIN right : F[left[p].type][right[q].type] = G[right[q].type][left[p].type]
    BY <2>1
  <2>. QED
    BY <2>2 DEF LayoutsAgree
<1>5. OptionsAgree(l, r, F) <=> OptionsAgree(r, l, G)
  BY <1>1 DEF OptionsAgree, OptionsAreOlder
<1>6. Shape(l) = Shape(r) => (ParametersAgree(l, r, F) <=> ParametersAgree(r, l, G))
  BY <1>2, <1>3, <1>4, <1>5 DEF ParametersAgree, CapacitiesAgree
<1>. QED
  BY <1>6 DEF Fit

(* Whether a class fits is worked out from what older ones fit. *)
LEMMA FitReadsParts ==
  ASSUME SpansInv, NEW l \in Ids, NEW r \in Ids, NEW F, NEW G, \A a \in 1..(l - 1) : F[a] = G[a]
  PROVE  Fit(l, r, F) = Fit(l, r, G)
<1> DEFINE mirror == [b \in Ids |-> [a \in Ids |-> F[a][b]]]
<1>1. 1..(l - 1) \subseteq Ids /\ 1..(r - 1) \subseteq Ids
  BY PartsAreOlder DEF SpansInv
<1>2. \A a \in 1..(l - 1), b \in 1..(r - 1) : F[a][b] = mirror[b][a] /\ G[a][b] = mirror[b][a]
  BY <1>1
<1> HIDE DEF mirror
<1>3. Fit(l, r, F) = Fit(r, l, mirror)
  BY <1>2, FitMirrors
<1>4. Fit(l, r, G) = Fit(r, l, mirror)
  BY <1>2, FitMirrors
<1>. QED
  BY <1>3, <1>4

---------------------------------------------------------------------------
(* What is worked out from older classes: the tree a class declares,       *)
(* whether it owes anything, and which classes it is compatible with.      *)

Derived(kind, c, F) ==
  CASE kind = "tree" -> TreeOf(classes[c], Presents(c), F)
    [] kind = "whole" -> WholeOf(classes[c], Presents(c), F)
    [] kind = "fit" -> [r \in Ids |-> Fit(c, r, F)]

Derives(F, kind, m) == F = [c \in 1..m |-> Derived(kind, c, F)]

LEMMA DerivedReadsParts ==
  ASSUME SpansInv, NEW kind \in {"tree", "whole", "fit"}, NEW c \in Ids, NEW F, NEW G, \A b \in 1..(c - 1) : F[b] = G[b]
  PROVE  Derived(kind, c, F) = Derived(kind, c, G)
<1> DEFINE T == classes[c]
           presents == Presents(c)
           element == presents["ELEMENT_TYPE"]
           options == presents["OPTIONS"]
<1>1. /\ FieldsAreOlder(T.fields, c)
      /\ element \in {None} \cup 1..(c - 1)
      /\ options # None => OptionsAreOlder(options, c)
      /\ T.shape = "union" => options # None
  BY PartsAreOlder
     DEF SpansInv, LayoutsStand, IsUnion, Shape, Presents, Attributes, TypeParameters
<1>2. \A f \in DOMAIN T.fields : F[T.fields[f].type] = G[T.fields[f].type]
  BY <1>1 DEF FieldsAreOlder
<1>3. element # None => F[element] = G[element]
  BY <1>1
<1>4. T.shape = "union" => \A s \in DOMAIN options : F[options[s]] = G[options[s]]
  BY <1>1 DEF OptionsAreOlder
<1> HIDE DEF T, presents
<1>5. TreeOf(T, presents, F) = TreeOf(T, presents, G)
  <2>1. [f \in DOMAIN T.fields |-> [name |-> T.fields[f].name, type |-> F[T.fields[f].type]]]
          = [f \in DOMAIN T.fields |-> [name |-> T.fields[f].name, type |-> G[T.fields[f].type]]]
    BY <1>2
  <2>2. T.shape = "union" =>
          [s \in DOMAIN options |-> F[options[s]]] = [s \in DOMAIN options |-> G[options[s]]]
    BY <1>4
  <2>3. (IF element = None THEN None ELSE F[element]) = (IF element = None THEN None ELSE G[element])
    BY <1>3
  <2>. QED
    BY <2>1, <2>2, <2>3 DEF TreeOf
<1>6. WholeOf(T, presents, F) = WholeOf(T, presents, G)
  BY <1>2, <1>3, <1>4 DEF WholeOf
<1>7. \A r \in Ids : Fit(c, r, F) = Fit(c, r, G)
  BY FitReadsParts
<1>. QED
  BY <1>5, <1>6, <1>7 DEF Derived, T, presents

LEMMA DerivedExists ==
  ASSUME SpansInv, NEW kind \in {"tree", "whole", "fit"}
  PROVE  \E F : F = [c \in Ids |-> Derived(kind, c, F)]
<1> DEFINE n == Len(classes)
<1>1. n \in Nat /\ Ids = 1..n
  BY DEF SpansInv, PartsInv, IInv, ClassesStand, Ids
<1> HIDE DEF n
<1> DEFINE S == {m \in Nat : m <= n => \E F : Derives(F, kind, m)}
<1>2. 0 \in S
  <2>1. Derives([c \in 1..0 |-> 0], kind, 0)
    BY DEF Derives
  <2>. QED
    BY <2>1
<1>3. ASSUME NEW m \in Nat, m \in S
      PROVE  m + 1 \in S
  <2> SUFFICES ASSUME m + 1 <= n
               PROVE  \E F : Derives(F, kind, m + 1)
    OBVIOUS
  <2>1. PICK F : Derives(F, kind, m)
    BY <1>1, <1>3
  <2> DEFINE G == [c \in 1..(m + 1) |-> IF c = m + 1 THEN Derived(kind, c, F) ELSE F[c]]
  <2>2. \A c \in 1..m : F[c] = Derived(kind, c, F)
    BY <2>1 DEF Derives
  <2>3. ASSUME NEW c \in 1..(m + 1)
        PROVE  G[c] = Derived(kind, c, G)
    <3>1. c \in Ids /\ \A b \in 1..(c - 1) : F[b] = G[b]
      BY <1>1
    <3>2. Derived(kind, c, F) = Derived(kind, c, G)
      <4> HIDE DEF G
      <4>. QED
        BY <3>1, DerivedReadsParts
    <3>3. G[c] = Derived(kind, c, F)
      BY <2>2
    <3>. QED
      BY <3>2, <3>3
  <2>4. G = [c \in 1..(m + 1) |-> G[c]]
    OBVIOUS
  <2> HIDE DEF G
  <2>5. Derives(G, kind, m + 1)
    BY <2>3, <2>4 DEF Derives
  <2>. QED
    BY <2>5
<1>4. Nat \subseteq S
  <2> HIDE DEF S
  <2>. QED
    BY <1>2, <1>3, FromZeroUp
<1>. QED
  BY <1>1, <1>4 DEF Derives

LEMMA TreesUnfold ==
  ASSUME SpansInv, NEW c \in Ids
  PROVE  /\ treeOf[c] = TreeOf(classes[c], Presents(c), treeOf)
         /\ isWhole[c] = WholeOf(classes[c], Presents(c), isWhole)
         /\ \A r \in Ids : compatible[c][r] = Fit(c, r, compatible)
<1>1. treeOf = [b \in Ids |-> TreeOf(classes[b], Presents(b), treeOf)]
  <2>1. PICK F : F = [b \in Ids |-> Derived("tree", b, F)]
    BY DerivedExists
  <2>2. F = [b \in Ids |-> TreeOf(classes[b], Presents(b), F)]
    BY <2>1 DEF Derived
  <2>. QED
    BY <2>2 DEF treeOf
<1>2. isWhole = [b \in Ids |-> WholeOf(classes[b], Presents(b), isWhole)]
  <2>1. PICK F : F = [b \in Ids |-> Derived("whole", b, F)]
    BY DerivedExists
  <2>2. F = [b \in Ids |-> WholeOf(classes[b], Presents(b), F)]
    BY <2>1 DEF Derived
  <2>. QED
    BY <2>2 DEF isWhole
<1>3. compatible = [b \in Ids |-> [r \in Ids |-> Fit(b, r, compatible)]]
  <2>1. PICK F : F = [b \in Ids |-> Derived("fit", b, F)]
    BY DerivedExists
  <2>2. F = [b \in Ids |-> [r \in Ids |-> Fit(b, r, F)]]
    BY <2>1 DEF Derived
  <2>. QED
    BY <2>2 DEF compatible
<1>. QED
  BY <1>1, <1>2, <1>3

---------------------------------------------------------------------------
(* Compatibility takes no side, and is for good. *)

LEMMA CompatibilityTakesNoSide ==
  ASSUME SpansInv
  PROVE  \A c, d \in Ids : compatible[c][d] = compatible[d][c]
<1> DEFINE S == {m \in Nat : \A c, d \in Ids : c <= m => compatible[c][d] = compatible[d][c]}
<1>1. Ids \subseteq Nat \ {0}
  BY DEF SpansInv, PartsInv, IInv, ClassesStand, Ids
<1>2. 0 \in S
  BY <1>1
<1>3. ASSUME NEW m \in Nat, m \in S
      PROVE  m + 1 \in S
  <2>1. ASSUME NEW c \in Ids, NEW d \in Ids, c = m + 1
        PROVE  compatible[c][d] = compatible[d][c]
    <3>1. \A a \in 1..(c - 1) : a \in Ids /\ a <= m
      BY <1>1, <2>1, PartsAreOlder DEF SpansInv
    <3>2. 1..(d - 1) \subseteq Ids
      BY PartsAreOlder DEF SpansInv
    <3>3. \A a \in 1..(c - 1), b \in 1..(d - 1) : compatible[a][b] = compatible[b][a]
      BY <1>3, <3>1, <3>2
    <3>4. Fit(c, d, compatible) = Fit(d, c, compatible)
      BY <3>3, FitMirrors
    <3>. QED
      BY <3>4, TreesUnfold
  <2>2. \A c \in Ids : c <= m + 1 => c <= m \/ c = m + 1
    BY <1>1
  <2>. QED
    BY <1>3, <2>1, <2>2
<1>4. Nat \subseteq S
  <2> HIDE DEF S
  <2>. QED
    BY <1>2, <1>3, FromZeroUp
<1>. QED
  BY <1>1, <1>4

(* What a later state finds of two classes that stand. *)
LEMMA FitForGood ==
  ASSUME SpansInv, \A c \in Ids : classes'[c] = classes[c],
         NEW l \in Ids, NEW r \in Ids,
         \A a \in 1..(l - 1), b \in 1..(r - 1) : compatible'[a][b] = compatible[a][b]
  PROVE  Fit(l, r, compatible)' = Fit(l, r, compatible)
<1>1. ASSUME NEW c \in Ids
      PROVE  /\ classes'[c] = classes[c] /\ Shape(c)' = Shape(c)
             /\ \A p : Presented(c, p)' = Presented(c, p)
             /\ FieldsAreOlder(classes[c].fields, c)
             /\ Presented(c, "ELEMENT_TYPE") \in {None} \cup 1..(c - 1)
             /\ Presented(c, "OPTIONS") # None => OptionsAreOlder(Presented(c, "OPTIONS"), c)
             /\ 1..(c - 1) \subseteq Ids
  BY PartsAreOlder, PresentedForGood DEF SpansInv, PartsInv, Shape
<1>2. ASSUME NEW c \in Ids
      PROVE  ByteSequence(c)' = ByteSequence(c)
  <2> DEFINE element == Presented(c, "ELEMENT_TYPE")
  <2>1. element' = element
    BY <1>1
  <2>2. element # None => Shape(element)' = Shape(element) /\ Presented(element, "BITS")' = Presented(element, "BITS")
    BY <1>1, <2>1
  <2>. QED
    BY <1>1, <2>1, <2>2 DEF ByteSequence
<1>3. ElementsAgree(l, r, compatible)' <=> ElementsAgree(l, r, compatible)
  BY <1>1 DEF ElementsAgree
<1>0. FieldsAreOlder(classes[l].fields, l) /\ FieldsAreOlder(classes[r].fields, r)
  BY <1>1
<1>4. FieldsAgree(l, r, compatible)' <=> FieldsAgree(l, r, compatible)
  <2> DEFINE left == classes[l].fields
             right == classes[r].fields
  <2>1. left' = left /\ right' = right /\ DOMAIN left = 1..Len(left) /\ DOMAIN right = 1..Len(right)
    BY <1>0, <1>1 DEF FieldsAreOlder
  <2>2. Len(left) = Len(right) =>
          \A f \in DOMAIN left :
            compatible'[left[f].type][right[f].type] = compatible[left[f].type][right[f].type]
    <3>1. Len(left) = Len(right) =>
            \A f \in DOMAIN left : left[f].type \in 1..(l - 1) /\ right[f].type \in 1..(r - 1)
      BY <1>0, <2>1 DEF FieldsAreOlder
    <3>. QED
      BY <3>1
  <2>3. FieldsAgree(l, r, compatible) <=>
          /\ Len(left) = Len(right)
          /\ \A f \in DOMAIN left :
               left[f].name = right[f].name /\ compatible[left[f].type][right[f].type]
    BY DEF FieldsAgree
  <2>4. FieldsAgree(l, r, compatible)' <=>
          /\ Len(left') = Len(right')
          /\ \A f \in DOMAIN left' :
               left'[f].name = right'[f].name /\ compatible'[left'[f].type][right'[f].type]
    BY DEF FieldsAgree
  <2> HIDE DEF left, right
  <2>. QED
    BY <2>1, <2>2, <2>3, <2>4, Zenon
<1>5. Shape(l) = "progressive_container" /\ Shape(r) = "progressive_container" =>
        (LayoutsAgree(l, r, compatible)' <=> LayoutsAgree(l, r, compatible))
  <2> SUFFICES ASSUME Shape(l) = "progressive_container", Shape(r) = "progressive_container"
               PROVE  LayoutsAgree(l, r, compatible)' <=> LayoutsAgree(l, r, compatible)
    OBVIOUS
  <2> DEFINE left == FieldsByPosition(l)
             right == FieldsByPosition(r)
  <2>1. ASSUME NEW c \in Ids
        PROVE  FieldsByPosition(c)' = FieldsByPosition(c)
    <3>1. Presented(c, "ACTIVE_FIELDS")' = Presented(c, "ACTIVE_FIELDS") /\ classes'[c] = classes[c]
      BY <1>1
    <3>. QED
      BY <3>1 DEF FieldsByPosition
  <2>2. /\ \A p \in DOMAIN left : left[p].type \in 1..(l - 1)
        /\ \A q \in DOMAIN right : right[q].type \in 1..(r - 1)
    BY PlacedAreOlder
  <2>3. \A p \in DOMAIN left, q \in DOMAIN right :
          compatible'[left[p].type][right[q].type] = compatible[left[p].type][right[q].type]
    BY <2>2
  <2>. QED
    BY <1>1, <2>1, <2>3 DEF LayoutsAgree
<1>6. OptionsAgree(l, r, compatible)' <=> OptionsAgree(l, r, compatible)
  BY <1>1 DEF OptionsAgree, OptionsAreOlder
<1>7. Shape(l) = Shape(r) => (ParametersAgree(l, r, compatible)' <=> ParametersAgree(l, r, compatible))
  BY <1>1, <1>3, <1>4, <1>5, <1>6 DEF ParametersAgree, CapacitiesAgree
<1>. QED
  BY <1>1, <1>2, <1>7 DEF Fit

LEMMA FitUnfolds == SpansInv => \A c, d \in Ids : compatible[c][d] = Fit(c, d, compatible)
BY TreesUnfold

LEMMA CompatibleForGood ==
  ASSUME SpansInv, SpansInv', Ids \subseteq Ids', \A c \in Ids : classes'[c] = classes[c]
  PROVE  \A c, d \in Ids : compatible'[c][d] = compatible[c][d]
<1> DEFINE S == {m \in Nat : \A c, d \in Ids : c <= m => compatible'[c][d] = compatible[c][d]}
<1>1. Ids \subseteq Nat \ {0} /\ \A m \in Nat, c \in Ids : c <= m + 1 => c <= m \/ c = m + 1
  <2>1. Ids \subseteq Nat \ {0}
    BY DEF SpansInv, PartsInv, IInv, ClassesStand, Ids
  <2>2. \A m, c \in Nat : c <= m + 1 => c <= m \/ c = m + 1
    OBVIOUS
  <2>. QED
    BY <2>1, <2>2
<1>2. 0 \in S
  BY <1>1
<1>3. (\A c, d \in Ids : compatible[c][d] = Fit(c, d, compatible))'
  BY FitUnfolds, PTL
<1>4. ASSUME NEW m \in Nat, m \in S
      PROVE  m + 1 \in S
  <2>1. ASSUME NEW c \in Ids, NEW d \in Ids, c = m + 1
        PROVE  compatible'[c][d] = compatible[c][d]
    <3>1. (\A a \in 1..(c - 1) : a \in Ids /\ a <= m) /\ 1..(d - 1) \subseteq Ids
      BY <1>1, <2>1, PartsAreOlder DEF SpansInv
    <3>2. \A a \in 1..(c - 1), b \in 1..(d - 1) : compatible'[a][b] = compatible[a][b]
      BY <1>4, <3>1
    <3>3. Fit(c, d, compatible)' = Fit(c, d, compatible)
      BY <3>2, FitForGood
    <3>4. compatible'[c][d] = Fit(c, d, compatible)' /\ compatible[c][d] = Fit(c, d, compatible)
      BY <1>3, FitUnfolds
    <3>. QED
      BY <3>3, <3>4
  <2>. QED
    BY <1>1, <1>4, <2>1
<1>5. Nat \subseteq S
  <2> HIDE DEF S
  <2>. QED
    BY <1>2, <1>4, FromZeroUp
<1>. QED
  BY <1>1, <1>5

---------------------------------------------------------------------------
(* Unions. *)

OptionsFit == \A c \in Ids : Shape(c) = "union" => PairsFit(Presented(c, "OPTIONS"))

TreesInv == SpansInv /\ OptionsFit

(* Pairs that fit fit for good. *)
LEMMA PairsFitForGood ==
  ASSUME SpansInv, SpansInv', Ids \subseteq Ids', \A c \in Ids : classes'[c] = classes[c],
         NEW options, \A s \in DOMAIN options : options[s] \in Ids, PairsFit(options)
  PROVE  PairsFit(options)'
<1>1. \A c, d \in Ids : compatible'[c][d] = compatible[c][d]
  BY CompatibleForGood
<1>. QED
  BY <1>1 DEF PairsFit

LEMMA OptionsOlder ==
  SpansInv => \A b \in Ids :
    Presented(b, "OPTIONS") # None => OptionsAreOlder(Presented(b, "OPTIONS"), b)
BY PartsAreOlder DEF SpansInv

LEMMA DeclaringKeepsTrees ==
  ASSUME TreesInv, Declaring
  PROVE  TreesInv'
<1> DEFINE n == Len(classes)
<1>1. PICK class : FitsIn(class) /\ classes' = Append(classes, class) /\ UNCHANGED session
  BY DeclaredFits DEF TreesInv
<1>2. SpansInv /\ SpansInv' /\ IInv
  BY DeclaringKeepsSpans DEF TreesInv, SpansInv, PartsInv
<1>3. /\ n \in Nat /\ Ids = 1..n /\ Ids' = Ids \cup {n + 1}
      /\ \A c \in Ids : classes'[c] = classes[c]
      /\ classes'[n + 1] = class
  <2>1. n \in Nat /\ Ids = 1..n /\ ClassesStand
    BY <1>2 DEF IInv, ClassesStand, Ids
  <2>. QED
    BY <1>1, <2>1, ClassAdded
<1> HIDE DEF n
<1>4. ASSUME NEW c \in Ids', classes'[c].shape = "union"
      PROVE  PairsFit(Presented(c, "OPTIONS"))'
  <2>1. PICK options : /\ options = Presented(c, "OPTIONS")'
                       /\ PairsFit(options)
                       /\ options # None /\ \A s \in DOMAIN options : options[s] \in Ids
    <3>1. CASE c \in Ids
      <4>1. Presented(c, "OPTIONS")' = Presented(c, "OPTIONS")
        BY <1>2, <1>3, <3>1, PresentedForGood
      <4>2. Shape(c) = "union" /\ IsUnion(Presented(c, "OPTIONS")) /\ PairsFit(Presented(c, "OPTIONS"))
        BY <1>2, <1>3, <1>4, <3>1 DEF TreesInv, OptionsFit, SpansInv, LayoutsStand, Shape
      <4>3. OptionsAreOlder(Presented(c, "OPTIONS"), c) /\ 1..(c - 1) \subseteq Ids
        BY <1>2, <3>1, <4>2, PartsAreOlder DEF SpansInv, IsUnion
      <4>. QED
        BY <4>1, <4>2, <4>3 DEF OptionsAreOlder, IsUnion
    <3>2. CASE c = n + 1
      <4>1. Presented(c, "OPTIONS")' = Resolved(class.own, class.mro, "OPTIONS")
        <5>1. Inherited(class.mro, "OPTIONS")' = Inherited(class.mro, "OPTIONS")
          BY <1>1, <1>2, <1>3, SaidForGood DEF FitsIn
        <5>. QED
          BY <1>3, <3>2, <5>1 DEF Presented, Resolved
      <4>2. IsUnion(Resolved(class.own, class.mro, "OPTIONS")) /\ PairsFit(Resolved(class.own, class.mro, "OPTIONS"))
        BY <1>1, <1>3, <1>4, <3>2 DEF FitsIn
      <4>3. /\ Presented(c, "OPTIONS")' # None
            /\ Presented(c, "OPTIONS")' # None => OptionsAreOlder(Presented(c, "OPTIONS")', c)
        <5>1. (\A b \in Ids : Presented(b, "OPTIONS") # None => OptionsAreOlder(Presented(b, "OPTIONS"), b))'
          BY <1>2, OptionsOlder, PTL
        <5>. QED
          BY <4>1, <4>2, <5>1 DEF IsUnion
      <4>4. 1..(c - 1) \subseteq Ids
        BY <1>3, <3>2
      <4>. QED
        BY <4>1, <4>2, <4>3, <4>4 DEF OptionsAreOlder
    <3>. QED
      BY <1>3, <3>1, <3>2
  <2>2. PairsFit(options)'
    BY <1>2, <1>3, <2>1, PairsFitForGood
  <2>. QED
    BY <2>1, <2>2 DEF PairsFit
<1>. QED
  BY <1>2, <1>4 DEF TreesInv, OptionsFit, Shape

---------------------------------------------------------------------------
(* What a tree tells. *)

LEMMA SaidInPresents ==
  ASSUME NEW c
  PROVE  \A a \in Attributes : Presents(c)[a] = Presented(c, a)
BY DEF Presents

(* The tree of a class is that of its shape. *)
TreeIsOfShape(c) ==
  LET tree == treeOf[c]
      fields == classes[c].fields
      element == Presented(c, "ELEMENT_TYPE")
      elements == IF element = None THEN None ELSE treeOf[element]
      options == Presented(c, "OPTIONS")
      laid == [f \in DOMAIN fields |-> [name |-> fields[f].name, type |-> treeOf[fields[f].type]]]
  IN  /\ Shape(c) = "uint" => tree = Basic(Presented(c, "BITS"))
      /\ Shape(c) = "boolean" => tree = Boolean
      /\ Shape(c) = "byte_vector" => tree = Vector(Basic(BitsPerByte), Presented(c, "LENGTH"))
      /\ Shape(c) = "byte_list" => tree = List(Basic(BitsPerByte), Presented(c, "LIMIT"))
      /\ Shape(c) = "bit_vector" => tree = BitVector(Presented(c, "LENGTH"))
      /\ Shape(c) = "bit_list" => tree = BitList(Presented(c, "LIMIT"))
      /\ Shape(c) = "progressive_bit_list" => tree = ProgressiveBitList
      /\ Shape(c) = "vector" => tree = Vector(elements, Presented(c, "LENGTH"))
      /\ Shape(c) = "list" => tree = List(elements, Presented(c, "LIMIT"))
      /\ Shape(c) = "progressive_list" => tree = ProgressiveList(elements)
      /\ Shape(c) = "container" => tree = Container(laid)
      /\ Shape(c) = "progressive_container" =>
           tree = ProgressiveContainer(Presented(c, "ACTIVE_FIELDS"), laid)
      /\ Shape(c) = "union" =>
           tree = CompatibleUnion([s \in DOMAIN options |-> treeOf[options[s]]])

LEMMA TreeTells ==
  ASSUME SpansInv, NEW c \in Ids
  PROVE  TreeIsOfShape(c) /\ Shape(c) \in Shapes
<1>1. treeOf[c] = TreeOf(classes[c], Presents(c), treeOf)
  BY TreesUnfold
<1>2. /\ Presents(c)["BITS"] = Presented(c, "BITS")
      /\ Presents(c)["LENGTH"] = Presented(c, "LENGTH")
      /\ Presents(c)["LIMIT"] = Presented(c, "LIMIT")
      /\ Presents(c)["ELEMENT_TYPE"] = Presented(c, "ELEMENT_TYPE")
      /\ Presents(c)["ACTIVE_FIELDS"] = Presented(c, "ACTIVE_FIELDS")
      /\ Presents(c)["OPTIONS"] = Presented(c, "OPTIONS")
  BY SaidInPresents DEF Attributes, TypeParameters
<1>3. Shape(c) \in Shapes /\ Shape(c) = classes[c].shape
  BY DEF SpansInv, LayoutsStand, Shape
<1>. QED
  BY <1>1, <1>2, <1>3 DEF TreeOf, TreeIsOfShape

LEMMA ShapesAreTold ==
  ASSUME SpansInv, NEW c \in Ids
  PROVE  treeOf[c].shape = CASE Shape(c) = "uint" -> "basic"
                             [] Shape(c) = "byte_vector" -> "vector"
                             [] Shape(c) = "byte_list" -> "list"
                             [] OTHER -> Shape(c)
<1>1. TreeIsOfShape(c) /\ Shape(c) \in Shapes
  BY TreeTells
<1>2. Shape(c) = "uint" => treeOf[c].shape = "basic"
  BY <1>1 DEF TreeIsOfShape, Basic
<1>3. /\ Shape(c) \in {"byte_vector", "vector"} => treeOf[c].shape = "vector"
      /\ Shape(c) \in {"byte_list", "list"} => treeOf[c].shape = "list"
      /\ Shape(c) = "progressive_list" => treeOf[c].shape = Shape(c)
  BY <1>1 DEF TreeIsOfShape, Vector, List, ProgressiveList
<1>4. Shape(c) \in {"boolean", "bit_vector", "bit_list", "progressive_bit_list"} =>
        treeOf[c].shape = Shape(c)
  BY <1>1 DEF TreeIsOfShape, Boolean, BitVector, BitList, ProgressiveBitList
<1>5. Shape(c) \in {"container", "progressive_container", "union"} => treeOf[c].shape = Shape(c)
  BY <1>1 DEF TreeIsOfShape, Container, ProgressiveContainer, CompatibleUnion
<1> HIDE DEF TreeIsOfShape
<1>. QED
  BY <1>1, <1>2, <1>3, <1>4, <1>5 DEF Shapes

LEMMA UintsAreTold ==
  ASSUME SpansInv, NEW c \in Ids, NEW n
  PROVE  treeOf[c] = Basic(n) <=> Shape(c) = "uint" /\ Presented(c, "BITS") = n
<1>1. Shape(c) = "uint" => treeOf[c] = Basic(Presented(c, "BITS"))
  BY TreeTells DEF TreeIsOfShape
<1>2. Shape(c) # "uint" => treeOf[c].shape # "basic"
  BY ShapesAreTold, TreeTells DEF Shapes
<1>3. Basic(n).shape = "basic" /\ \A k : Basic(k) = Basic(n) => k = n
  BY DEF Basic
<1>. QED
  BY <1>1, <1>2, <1>3

(* The parts of a class that owes nothing owe nothing. *)
LEMMA PartsAreWhole ==
  ASSUME SpansInv, NEW c \in Ids, isWhole[c]
  PROVE  LET element == Presented(c, "ELEMENT_TYPE")
             fields == classes[c].fields
             options == Presented(c, "OPTIONS")
         IN  /\ Shape(c) \in {"byte_vector", "bit_vector", "vector"} => Presented(c, "LENGTH") # None
             /\ Shape(c) \in {"byte_list", "bit_list", "list"} => Presented(c, "LIMIT") # None
             /\ Shape(c) \in {"vector", "list", "progressive_list"} =>
                  /\ element # None /\ isWhole[element]
                  /\ element \in 1..(c - 1) /\ element \in Ids
             /\ \A f \in DOMAIN fields :
                  /\ isWhole[fields[f].type]
                  /\ fields[f].type \in 1..(c - 1) /\ fields[f].type \in Ids
             /\ Shape(c) = "union" =>
                  \A s \in DOMAIN options :
                    /\ isWhole[options[s]]
                    /\ options[s] \in 1..(c - 1) /\ options[s] \in Ids
<1>1. WholeOf(classes[c], Presents(c), isWhole)
  BY TreesUnfold
<1>2. /\ Presents(c)["LENGTH"] = Presented(c, "LENGTH")
      /\ Presents(c)["LIMIT"] = Presented(c, "LIMIT")
      /\ Presents(c)["ELEMENT_TYPE"] = Presented(c, "ELEMENT_TYPE")
      /\ Presents(c)["OPTIONS"] = Presented(c, "OPTIONS")
  BY SaidInPresents DEF Attributes, TypeParameters
<1>3. /\ FieldsAreOlder(classes[c].fields, c)
      /\ Presented(c, "ELEMENT_TYPE") \in {None} \cup 1..(c - 1)
      /\ Presented(c, "OPTIONS") # None => OptionsAreOlder(Presented(c, "OPTIONS"), c)
      /\ Shape(c) = "union" => Presented(c, "OPTIONS") # None
      /\ 1..(c - 1) \subseteq Ids
  BY PartsAreOlder DEF SpansInv, LayoutsStand, IsUnion
<1>. QED
  BY <1>1, <1>2, <1>3 DEF WholeOf, Shape, FieldsAreOlder, OptionsAreOlder

(* The byte array a tree is of. *)
BytesOf(tree) ==
  CASE tree.shape = "vector" /\ tree.element = Basic(BitsPerByte) -> <<"vector", tree.length>>
    [] tree.shape = "list" /\ tree.element = Basic(BitsPerByte) -> <<"list", tree.limit>>
    [] OTHER -> <<>>

LEMMA BytesAreTold ==
  ASSUME SpansInv, NEW c \in Ids, isWhole[c]
  PROVE  ByteSequence(c) = BytesOf(treeOf[c])
<1> DEFINE element == Presented(c, "ELEMENT_TYPE")
<1>1. /\ Shape(c) \in {"byte_vector", "vector"} => Presented(c, "LENGTH") # None
      /\ Shape(c) \in {"byte_list", "list"} => Presented(c, "LIMIT") # None
      /\ Shape(c) \in {"vector", "list"} => element # None /\ element \in Ids
  BY PartsAreWhole
<1>2. Shape(c) \in {"vector", "list"} =>
        (treeOf[element] = Basic(BitsPerByte)
           <=> Shape(element) = "uint" /\ Presented(element, "BITS") = BitsPerByte)
  BY <1>1, UintsAreTold
<1>3. CASE Shape(c) = "byte_vector"
  <2>1. treeOf[c] = Vector(Basic(BitsPerByte), Presented(c, "LENGTH"))
    BY <1>3, TreeTells DEF TreeIsOfShape
  <2>2. BytesOf(treeOf[c]) = <<"vector", Presented(c, "LENGTH")>>
    BY <2>1 DEF BytesOf, Vector
  <2>. QED
    BY <1>1, <1>3, <2>2 DEF ByteSequence
<1>4. CASE Shape(c) = "byte_list"
  <2>1. treeOf[c] = List(Basic(BitsPerByte), Presented(c, "LIMIT"))
    BY <1>4, TreeTells DEF TreeIsOfShape
  <2>2. BytesOf(treeOf[c]) = <<"list", Presented(c, "LIMIT")>>
    BY <2>1 DEF BytesOf, List
  <2>. QED
    BY <1>1, <1>4, <2>2 DEF ByteSequence
<1>5. CASE Shape(c) = "vector"
  <2>1. treeOf[c] = Vector(treeOf[element], Presented(c, "LENGTH"))
    BY <1>1, <1>5, TreeTells DEF TreeIsOfShape
  <2>2. BytesOf(treeOf[c]) = IF treeOf[element] = Basic(BitsPerByte)
                               THEN <<"vector", Presented(c, "LENGTH")>> ELSE <<>>
    BY <2>1 DEF BytesOf, Vector
  <2>. QED
    BY <1>1, <1>2, <1>5, <2>2 DEF ByteSequence, Uint8Bits
<1>6. CASE Shape(c) = "list"
  <2>1. treeOf[c] = List(treeOf[element], Presented(c, "LIMIT"))
    BY <1>1, <1>6, TreeTells DEF TreeIsOfShape
  <2>2. BytesOf(treeOf[c]) = IF treeOf[element] = Basic(BitsPerByte)
                               THEN <<"list", Presented(c, "LIMIT")>> ELSE <<>>
    BY <2>1 DEF BytesOf, List
  <2>. QED
    BY <1>1, <1>2, <1>6, <2>2 DEF ByteSequence, Uint8Bits
<1>7. CASE Shape(c) \notin {"byte_vector", "byte_list", "vector", "list"}
  <2>1. treeOf[c].shape \notin {"vector", "list"}
    BY <1>7, ShapesAreTold
  <2>2. BytesOf(treeOf[c]) = <<>>
    BY <2>1 DEF BytesOf
  <2>3. ByteSequence(c) = <<>>
    BY <1>7 DEF ByteSequence
  <2>. QED
    BY <2>2, <2>3
<1>. QED
  BY <1>3, <1>4, <1>5, <1>6, <1>7

---------------------------------------------------------------------------
(* Classes of one tree. *)

(* Two classes that declare one tree, and no array of bytes, are of one     *)
(* shape, of the same parameters, and of parts that declare the same trees. *)
SameParts(c, d) ==
  LET fields(k) == classes[k].fields
      element(k) == Presented(k, "ELEMENT_TYPE")
      options(k) == Presented(k, "OPTIONS")
  IN  /\ Shape(c) = Shape(d)
      /\ Shape(c) = "uint" => Presented(c, "BITS") = Presented(d, "BITS")
      /\ Shape(c) \in {"bit_vector", "vector"} => Presented(c, "LENGTH") = Presented(d, "LENGTH")
      /\ Shape(c) \in {"bit_list", "list"} => Presented(c, "LIMIT") = Presented(d, "LIMIT")
      /\ Shape(c) \in {"vector", "list", "progressive_list"} =>
           treeOf[element(c)] = treeOf[element(d)]
      /\ Shape(c) \in {"container", "progressive_container"} =>
           /\ DOMAIN fields(c) = DOMAIN fields(d)
           /\ \A f \in DOMAIN fields(c) :
                /\ fields(c)[f].name = fields(d)[f].name
                /\ treeOf[fields(c)[f].type] = treeOf[fields(d)[f].type]
      /\ Shape(c) = "progressive_container" =>
           Presented(c, "ACTIVE_FIELDS") = Presented(d, "ACTIVE_FIELDS")
      /\ Shape(c) = "union" =>
           /\ DOMAIN options(c) = DOMAIN options(d)
           /\ \A s \in DOMAIN options(c) : treeOf[options(c)[s]] = treeOf[options(d)[s]]

LEMMA PartsAreTold ==
  ASSUME SpansInv, NEW c \in Ids, NEW d \in Ids, isWhole[c], isWhole[d],
         treeOf[c] = treeOf[d], ByteSequence(c) = <<>>
  PROVE  SameParts(c, d)
<1>1. ByteSequence(d) = <<>>
  BY BytesAreTold
<1>2. ASSUME NEW k \in Ids, isWhole[k], ByteSequence(k) = <<>>
      PROVE  Shape(k) \notin {"byte_vector", "byte_list"}
  <2>1. /\ Shape(k) = "byte_vector" => Presented(k, "LENGTH") # None
        /\ Shape(k) = "byte_list" => Presented(k, "LIMIT") # None
    BY <1>2, PartsAreWhole
  <2>2. \A x, y : <<x, y>> # <<>>
    OBVIOUS
  <2>. QED
    BY <1>2, <2>1, <2>2 DEF ByteSequence
<1>3. Shape(c) = Shape(d)
  <2>1. /\ Shape(c) \notin {"byte_vector", "byte_list"} /\ Shape(d) \notin {"byte_vector", "byte_list"}
        /\ Shape(c) \in Shapes /\ Shape(d) \in Shapes
    BY <1>1, <1>2, TreeTells
  <2>2. treeOf[c].shape = treeOf[d].shape
    OBVIOUS
  <2>. QED
    BY <2>1, <2>2, ShapesAreTold DEF Shapes
<1>4. TreeIsOfShape(c) /\ TreeIsOfShape(d)
  BY TreeTells
<1>5. Shape(c) \in {"vector", "list", "progressive_list"} =>
        Presented(c, "ELEMENT_TYPE") # None /\ Presented(d, "ELEMENT_TYPE") # None
  BY <1>3, PartsAreWhole
<1>6. Shape(c) = "uint" => Presented(c, "BITS") = Presented(d, "BITS")
  <2>1. \A m, n : Basic(m) = Basic(n) => m = n
    BY DEF Basic
  <2>. QED
    BY <1>3, <1>4, <2>1 DEF TreeIsOfShape
<1>7. /\ Shape(c) = "bit_vector" => Presented(c, "LENGTH") = Presented(d, "LENGTH")
      /\ Shape(c) = "bit_list" => Presented(c, "LIMIT") = Presented(d, "LIMIT")
  <2>1. \A m, n : (BitVector(m) = BitVector(n) => m = n) /\ (BitList(m) = BitList(n) => m = n)
    BY DEF BitVector, BitList
  <2>. QED
    BY <1>3, <1>4, <2>1 DEF TreeIsOfShape
<1>8. /\ Shape(c) = "vector" => Presented(c, "LENGTH") = Presented(d, "LENGTH")
      /\ Shape(c) = "list" => Presented(c, "LIMIT") = Presented(d, "LIMIT")
      /\ Shape(c) \in {"vector", "list", "progressive_list"} =>
           treeOf[Presented(c, "ELEMENT_TYPE")] = treeOf[Presented(d, "ELEMENT_TYPE")]
  <2>1. \A s, t, m, n : /\ Vector(s, m) = Vector(t, n) => s = t /\ m = n
                        /\ List(s, m) = List(t, n) => s = t /\ m = n
                        /\ ProgressiveList(s) = ProgressiveList(t) => s = t
    BY DEF Vector, List, ProgressiveList
  <2> DEFINE left == Presented(c, "ELEMENT_TYPE")
             right == Presented(d, "ELEMENT_TYPE")
  <2>2. CASE Shape(c) = "vector"
    <3>1. Vector(treeOf[left], Presented(c, "LENGTH")) = Vector(treeOf[right], Presented(d, "LENGTH"))
      BY <1>3, <1>4, <1>5, <2>2 DEF TreeIsOfShape
    <3>. QED
      BY <2>1, <2>2, <3>1
  <2>3. CASE Shape(c) = "list"
    <3>1. List(treeOf[left], Presented(c, "LIMIT")) = List(treeOf[right], Presented(d, "LIMIT"))
      BY <1>3, <1>4, <1>5, <2>3 DEF TreeIsOfShape
    <3>. QED
      BY <2>1, <2>3, <3>1
  <2>4. CASE Shape(c) = "progressive_list"
    <3>1. ProgressiveList(treeOf[left]) = ProgressiveList(treeOf[right])
      BY <1>3, <1>4, <1>5, <2>4 DEF TreeIsOfShape
    <3>. QED
      BY <2>1, <2>4, <3>1
  <2>. QED
    BY <2>2, <2>3, <2>4
<1>9. Shape(c) \in {"container", "progressive_container"} =>
        LET left == classes[c].fields
            right == classes[d].fields
        IN  /\ DOMAIN left = DOMAIN right
            /\ \A f \in DOMAIN left :
                 left[f].name = right[f].name /\ treeOf[left[f].type] = treeOf[right[f].type]
            /\ Shape(c) = "progressive_container" =>
                 Presented(c, "ACTIVE_FIELDS") = Presented(d, "ACTIVE_FIELDS")
  <2> DEFINE left == classes[c].fields
             right == classes[d].fields
             laid(fields) ==
               [f \in DOMAIN fields |-> [name |-> fields[f].name, type |-> treeOf[fields[f].type]]]
  <2>1. \A a, b, x, y : /\ Container(x) = Container(y) => x = y
                        /\ ProgressiveContainer(a, x) = ProgressiveContainer(b, y) => a = b /\ x = y
    BY DEF Container, ProgressiveContainer
  <2>2. Shape(c) \in {"container", "progressive_container"} =>
          /\ laid(left) = laid(right)
          /\ Shape(c) = "progressive_container" =>
               Presented(c, "ACTIVE_FIELDS") = Presented(d, "ACTIVE_FIELDS")
    <3>1. CASE Shape(c) = "container"
      <4>1. Container(laid(left)) = Container(laid(right))
        BY <1>3, <1>4, <3>1 DEF TreeIsOfShape
      <4> HIDE DEF laid
      <4>. QED
        BY <2>1, <3>1, <4>1
    <3>2. CASE Shape(c) = "progressive_container"
      <4>1. ProgressiveContainer(Presented(c, "ACTIVE_FIELDS"), laid(left))
              = ProgressiveContainer(Presented(d, "ACTIVE_FIELDS"), laid(right))
        BY <1>3, <1>4, <3>2 DEF TreeIsOfShape
      <4> HIDE DEF laid
      <4>. QED
        BY <2>1, <3>2, <4>1
    <3>. QED
      BY <3>1, <3>2
  <2> HIDE DEF left, right
  <2>3. ASSUME laid(left) = laid(right)
        PROVE  /\ DOMAIN left = DOMAIN right
               /\ \A f \in DOMAIN left :
                    left[f].name = right[f].name /\ treeOf[left[f].type] = treeOf[right[f].type]
    <3>1. DOMAIN laid(left) = DOMAIN left /\ DOMAIN laid(right) = DOMAIN right
      OBVIOUS
    <3>2. DOMAIN left = DOMAIN right
      BY <2>3, <3>1
    <3>3. ASSUME NEW f \in DOMAIN left
          PROVE  left[f].name = right[f].name /\ treeOf[left[f].type] = treeOf[right[f].type]
      <4>1. laid(left)[f] = [name |-> left[f].name, type |-> treeOf[left[f].type]]
        OBVIOUS
      <4>2. laid(right)[f] = [name |-> right[f].name, type |-> treeOf[right[f].type]]
        BY <3>2
      <4> HIDE DEF laid
      <4>. QED
        BY <2>3, <4>1, <4>2
    <3>. QED
      BY <3>2, <3>3
  <2>. QED
    BY <2>2, <2>3 DEF left, right
<1>10. Shape(c) = "union" =>
         LET left == Presented(c, "OPTIONS")
             right == Presented(d, "OPTIONS")
         IN  DOMAIN left = DOMAIN right /\ \A s \in DOMAIN left : treeOf[left[s]] = treeOf[right[s]]
  <2> DEFINE left == Presented(c, "OPTIONS")
             right == Presented(d, "OPTIONS")
             trees(options) == [s \in DOMAIN options |-> treeOf[options[s]]]
  <2>1. \A x, y : CompatibleUnion(x) = CompatibleUnion(y) => x = y
    BY DEF CompatibleUnion
  <2>2. Shape(c) = "union" => trees(left) = trees(right)
    BY <1>3, <1>4, <2>1 DEF TreeIsOfShape
  <2> HIDE DEF left, right
  <2>3. trees(left) = trees(right) =>
          DOMAIN left = DOMAIN right /\ \A s \in DOMAIN left : treeOf[left[s]] = treeOf[right[s]]
    <3>1. DOMAIN trees(left) = DOMAIN left /\ DOMAIN trees(right) = DOMAIN right
      OBVIOUS
    <3>2. /\ \A s \in DOMAIN left : trees(left)[s] = treeOf[left[s]]
          /\ \A s \in DOMAIN right : trees(right)[s] = treeOf[right[s]]
      OBVIOUS
    <3> HIDE DEF trees
    <3>. QED
      BY <3>1, <3>2
  <2>. QED
    BY <2>2, <2>3 DEF left, right
<1>. QED
  BY <1>3, <1>6, <1>7, <1>8, <1>9, <1>10 DEF SameParts

(* The classes of the trees of older ones than c are compatible alike. *)
OlderAreAlike(c) ==
  \A a \in 1..(c - 1), b, e \in Ids :
    isWhole[a] /\ isWhole[b] /\ isWhole[e] /\ treeOf[a] = treeOf[b] =>
      compatible[a][e] = compatible[b][e]

LEMMA ItselfFits ==
  ASSUME SpansInv, NEW c \in Ids
  PROVE  compatible[c][c]
BY TreesUnfold DEF Fit

LEMMA SameLength ==
  ASSUME NEW m \in Nat, NEW n \in Nat, 1..m = 1..n
  PROVE  m = n
<1>1. m = 0 \/ m \in 1..m
  OBVIOUS
<1>2. n = 0 \/ n \in 1..n
  OBVIOUS
<1>3. (m = 0 \/ m <= n) /\ (n = 0 \/ n <= m)
  BY <1>1, <1>2
<1>. QED
  BY <1>3

(* What a sequence of one shape is asked of its count. *)
CapacitiesOf(l, r) ==
  /\ Shape(l) = "vector" => CapacitiesAgree(Presented(l, "LENGTH"), Presented(r, "LENGTH"))
  /\ Shape(l) = "list" => CapacitiesAgree(Presented(l, "LIMIT"), Presented(r, "LIMIT"))

(* Two classes of one tree fit: a union of them has the same options, each  *)
(* compatible with itself, and any two were asked about when it was declared. *)
LEMMA SameTreesFit ==
  ASSUME TreesInv, NEW c \in Ids, NEW d \in Ids, isWhole[c], isWhole[d],
         treeOf[c] = treeOf[d], OlderAreAlike(c)
  PROVE  compatible[c][d]
<1>1. SpansInv
  BY DEF TreesInv
<1>2. ByteSequence(c) = ByteSequence(d)
  BY <1>1, BytesAreTold
<1>3. CASE ByteSequence(c) # <<>>
  BY <1>1, <1>2, <1>3, TreesUnfold DEF Fit
<1>4. CASE ByteSequence(c) = <<>>
  <2>1. SameParts(c, d)
    BY <1>1, <1>4, PartsAreTold
  <2>2. ASSUME NEW a \in 1..(c - 1), NEW b \in Ids, a \in Ids,
               isWhole[a], isWhole[b], treeOf[a] = treeOf[b]
        PROVE  compatible[a][b]
    <3>1. compatible[a][b] = compatible[b][b]
      BY <2>2 DEF OlderAreAlike
    <3>. QED
      BY <1>1, <3>1, ItselfFits
  <2>3. CASE Shape(c) \in {"uint", "boolean", "progressive_bit_list", "bit_vector", "bit_list"}
    <3>1. ParametersAgree(c, d, compatible)
      BY <1>1, <2>1, <2>3, PartsAreWhole DEF SameParts, ParametersAgree, CapacitiesAgree
    <3>. QED
      BY <1>1, <1>2, <1>4, <2>1, <3>1, TreesUnfold DEF Fit, SameParts
  <2>4. CASE Shape(c) \in {"vector", "list", "progressive_list"}
    <3> DEFINE left == Presented(c, "ELEMENT_TYPE")
               right == Presented(d, "ELEMENT_TYPE")
    <3>1. /\ left # None /\ right # None /\ isWhole[left] /\ isWhole[right]
          /\ left \in 1..(c - 1) /\ left \in Ids /\ right \in Ids /\ treeOf[left] = treeOf[right]
      BY <1>1, <2>1, <2>4, PartsAreWhole DEF SameParts
    <3>2. compatible[left][right]
      BY <2>2, <3>1
    <3>3. ElementsAgree(c, d, compatible)
      BY <3>1, <3>2 DEF ElementsAgree
    <3>4. CapacitiesOf(c, d)
      BY <1>1, <2>1, <2>4, PartsAreWhole DEF SameParts, CapacitiesOf, CapacitiesAgree
    <3>5. ParametersAgree(c, d, compatible)
      BY <2>4, <3>3, <3>4 DEF ParametersAgree, CapacitiesOf
    <3>. QED
      BY <1>1, <1>2, <1>4, <2>1, <3>5, TreesUnfold DEF Fit, SameParts
  <2>5. CASE Shape(c) = "container"
    <3> DEFINE left == classes[c].fields
               right == classes[d].fields
    <3>1. /\ DOMAIN left = DOMAIN right /\ DOMAIN left = 1..Len(left) /\ DOMAIN right = 1..Len(right)
          /\ Len(left) \in Nat /\ Len(right) \in Nat
      BY <1>1, <2>1, <2>5, PartsAreOlder DEF SameParts, SpansInv, FieldsAreOlder
    <3>2. ASSUME NEW f \in DOMAIN left
          PROVE  left[f].name = right[f].name /\ compatible[left[f].type][right[f].type]
      <4>1. /\ left[f].name = right[f].name /\ treeOf[left[f].type] = treeOf[right[f].type]
            /\ f \in DOMAIN right
        BY <2>1, <2>5, <3>1 DEF SameParts
      <4>2. /\ isWhole[left[f].type] /\ isWhole[right[f].type] /\ left[f].type \in 1..(c - 1)
            /\ left[f].type \in Ids /\ right[f].type \in Ids
        BY <1>1, <4>1, PartsAreWhole
      <4>. QED
        BY <2>2, <4>1, <4>2
    <3>3. Len(left) = Len(right)
      <4> HIDE DEF left, right
      <4>. QED
        BY <3>1, SameLength
    <3>4. FieldsAgree(c, d, compatible)
      BY <3>2, <3>3 DEF FieldsAgree
    <3>5. ParametersAgree(c, d, compatible)
      BY <2>5, <3>4 DEF ParametersAgree
    <3>. QED
      BY <1>1, <1>2, <1>4, <2>1, <3>5, TreesUnfold DEF Fit, SameParts
  <2>6. CASE Shape(c) = "progressive_container"
    <3> DEFINE left == FieldsByPosition(c)
               right == FieldsByPosition(d)
               active == Presented(c, "ACTIVE_FIELDS")
    <3>1. /\ active = Presented(d, "ACTIVE_FIELDS") /\ Shape(d) = "progressive_container"
          /\ active # None
      BY <1>1, <2>1, <2>6 DEF SameParts, SpansInv, LayoutsStand, IsLayout
    <3>2. DOMAIN left = PositionsOf(active) /\ DOMAIN right = PositionsOf(active)
      BY <1>1, <2>6, <3>1, FieldsArePlaced
    <3>3. ASSUME NEW p \in PositionsOf(active)
          PROVE  left[p].name = right[p].name /\ compatible[left[p].type][right[p].type]
      <4> DEFINE f == OrdinalAt(active, p)
      <4>1. /\ f \in 1..Len(classes[c].fields) /\ left[p] = classes[c].fields[f]
            /\ f \in 1..Len(classes[d].fields) /\ right[p] = classes[d].fields[f]
        BY <1>1, <2>6, <3>1, FieldsArePlaced
      <4> HIDE DEF f, left, right
      <4>2. f \in DOMAIN classes[c].fields /\ f \in DOMAIN classes[d].fields
        BY <1>1, <4>1, PartsAreOlder DEF SpansInv, FieldsAreOlder
      <4>3. left[p].name = right[p].name /\ treeOf[left[p].type] = treeOf[right[p].type]
        BY <2>1, <2>6, <4>1, <4>2 DEF SameParts
      <4>4. /\ isWhole[left[p].type] /\ isWhole[right[p].type] /\ left[p].type \in 1..(c - 1)
            /\ left[p].type \in Ids /\ right[p].type \in Ids
        BY <1>1, <4>1, <4>2, PartsAreWhole
      <4>. QED
        BY <2>2, <4>3, <4>4
    <3>4. \A p, q \in PositionsOf(active) : right[p].name = right[q].name => p = q
      BY <1>1, <3>1, FieldsArePlaced
    <3>5. LayoutsAgree(c, d, compatible)
      <4>1. \A p, q \in PositionsOf(active) : left[p].name = right[q].name => p = q
        BY <3>3, <3>4
      <4>. QED
        BY <3>1, <3>2, <3>3, <4>1 DEF LayoutsAgree
    <3>6. ParametersAgree(c, d, compatible)
      BY <2>6, <3>5 DEF ParametersAgree
    <3>. QED
      BY <1>1, <1>2, <1>4, <2>1, <3>6, TreesUnfold DEF Fit, SameParts
  <2>7. CASE Shape(c) = "union"
    <3> DEFINE left == Presented(c, "OPTIONS")
               right == Presented(d, "OPTIONS")
    <3>1. /\ DOMAIN left = DOMAIN right /\ Shape(d) = "union"
          /\ \A s \in DOMAIN left : treeOf[left[s]] = treeOf[right[s]]
      BY <2>1, <2>7 DEF SameParts
    <3>2. \A s \in DOMAIN left :
            /\ isWhole[left[s]] /\ left[s] \in 1..(c - 1) /\ left[s] \in Ids
            /\ isWhole[right[s]] /\ right[s] \in Ids
      BY <1>1, <2>7, <3>1, PartsAreWhole
    <3>3. PairsFit(right) /\ IsUnion(left) /\ IsUnion(right)
      BY <1>1, <2>7, <3>1 DEF TreesInv, OptionsFit, SpansInv, LayoutsStand
    <3>4. ASSUME NEW s \in DOMAIN left, NEW t \in DOMAIN left
          PROVE  compatible[left[s]][right[t]]
      <4>1. /\ compatible[left[s]][right[t]] = compatible[right[s]][right[t]]
            /\ right[s] \in Ids /\ right[t] \in Ids
        BY <3>1, <3>2 DEF OlderAreAlike
      <4>2. s < t \/ t < s \/ s = t
        <5>1. s \in Int /\ t \in Int
          BY <3>3 DEF IsUnion
        <5>. QED
          BY <5>1
      <4>3. compatible[right[s]][right[t]]
        <5>1. CASE s < t
          BY <3>1, <3>3, <5>1 DEF PairsFit
        <5>2. CASE t < s
          <6>1. compatible[right[t]][right[s]]
            BY <3>1, <3>3, <5>2 DEF PairsFit
          <6>. QED
            BY <1>1, <4>1, <6>1, CompatibilityTakesNoSide
        <5>3. CASE s = t
          BY <1>1, <4>1, <5>3, ItselfFits
        <5>. QED
          BY <4>2, <5>1, <5>2, <5>3
      <4>. QED
        BY <4>1, <4>3
    <3>5. OptionsAgree(c, d, compatible)
      BY <3>1, <3>3, <3>4 DEF OptionsAgree, IsUnion
    <3>6. ParametersAgree(c, d, compatible)
      BY <2>7, <3>5 DEF ParametersAgree
    <3>. QED
      BY <1>1, <1>2, <1>4, <2>1, <3>6, TreesUnfold DEF Fit, SameParts
  <2>8. Shape(c) \notin {"byte_vector", "byte_list"} /\ Shape(c) \in Shapes
    <3>1. /\ Shape(c) = "byte_vector" => Presented(c, "LENGTH") # None
          /\ Shape(c) = "byte_list" => Presented(c, "LIMIT") # None
      BY <1>1, PartsAreWhole
    <3>2. \A x, y : <<x, y>> # <<>>
      OBVIOUS
    <3>. QED
      BY <1>1, <1>4, <3>1, <3>2, TreeTells DEF ByteSequence
  <2>. QED
    BY <2>3, <2>4, <2>5, <2>6, <2>7, <2>8 DEF Shapes
<1>. QED
  BY <1>3, <1>4

(* Two classes of one tree agree with the same classes of their shape. *)
LEMMA SamePartsAgree ==
  ASSUME TreesInv, NEW c \in Ids, NEW d \in Ids, NEW e \in Ids,
         isWhole[c], isWhole[d], isWhole[e], SameParts(c, d), OlderAreAlike(c), Shape(e) = Shape(c)
  PROVE  ParametersAgree(c, e, compatible) <=> ParametersAgree(d, e, compatible)
<1>1. SpansInv /\ Shape(d) = Shape(c)
  BY DEF TreesInv, SameParts
<1>2. ASSUME NEW a \in 1..(c - 1), NEW b \in Ids, NEW x \in Ids, a \in Ids,
             isWhole[a], isWhole[b], isWhole[x], treeOf[a] = treeOf[b]
      PROVE  compatible[a][x] = compatible[b][x]
  BY <1>2 DEF OlderAreAlike
<1>3. CASE Shape(c) \in {"uint", "boolean", "progressive_bit_list", "bit_vector", "bit_list",
                         "byte_vector", "byte_list"}
  BY <1>1, <1>3 DEF SameParts, ParametersAgree, CapacitiesAgree
<1>4. CASE Shape(c) \in {"vector", "list", "progressive_list"}
  <2> DEFINE left == Presented(c, "ELEMENT_TYPE")
             right == Presented(d, "ELEMENT_TYPE")
             other == Presented(e, "ELEMENT_TYPE")
  <2>1. /\ left # None /\ right # None /\ other # None
        /\ isWhole[left] /\ isWhole[right] /\ isWhole[other]
        /\ left \in 1..(c - 1) /\ left \in Ids /\ right \in Ids /\ other \in Ids
        /\ treeOf[left] = treeOf[right]
    BY <1>1, <1>4, PartsAreWhole DEF SameParts
  <2>2. compatible[left][other] = compatible[right][other]
    BY <1>2, <2>1
  <2>3. ElementsAgree(c, e, compatible) <=> ElementsAgree(d, e, compatible)
    BY <2>1, <2>2 DEF ElementsAgree
  <2>4. CapacitiesOf(c, e) <=> CapacitiesOf(d, e)
    <3>1. /\ Shape(c) = "vector" => Presented(c, "LENGTH") = Presented(d, "LENGTH")
          /\ Shape(c) = "list" => Presented(c, "LIMIT") = Presented(d, "LIMIT")
      BY DEF SameParts
    <3>. QED
      BY <1>1, <3>1 DEF CapacitiesOf, CapacitiesAgree
  <2>5. ASSUME NEW k \in {c, d}
        PROVE  ParametersAgree(k, e, compatible) <=>
                 CapacitiesOf(k, e) /\ ElementsAgree(k, e, compatible)
    BY <1>1, <1>4 DEF ParametersAgree, CapacitiesOf
  <2>. QED
    BY <2>3, <2>4, <2>5
<1>5. CASE Shape(c) = "container"
  <2> DEFINE left == classes[c].fields
             right == classes[d].fields
             other == classes[e].fields
  <2>1. /\ DOMAIN left = DOMAIN right /\ DOMAIN left = 1..Len(left) /\ DOMAIN right = 1..Len(right)
        /\ DOMAIN other = 1..Len(other)
        /\ Len(left) \in Nat /\ Len(right) \in Nat /\ Len(other) \in Nat
    BY <1>1, <1>5, PartsAreOlder DEF SameParts, SpansInv, FieldsAreOlder
  <2>2. ASSUME NEW f \in DOMAIN left, f \in DOMAIN other
        PROVE  /\ left[f].name = right[f].name
               /\ compatible[left[f].type][other[f].type] = compatible[right[f].type][other[f].type]
    <3>1. /\ left[f].name = right[f].name /\ treeOf[left[f].type] = treeOf[right[f].type]
          /\ f \in DOMAIN right
      BY <1>5, <2>1 DEF SameParts
    <3>2. /\ isWhole[left[f].type] /\ isWhole[right[f].type] /\ left[f].type \in 1..(c - 1)
          /\ left[f].type \in Ids /\ right[f].type \in Ids
          /\ isWhole[other[f].type] /\ other[f].type \in Ids
      BY <1>1, <2>2, <3>1, PartsAreWhole
    <3>. QED
      BY <1>2, <3>1, <3>2
  <2>3. Len(left) = Len(right)
    <3> HIDE DEF left, right, other
    <3>. QED
      BY <2>1, SameLength
  <2>4. FieldsAgree(c, e, compatible) <=>
          /\ Len(left) = Len(other)
          /\ \A f \in DOMAIN left :
               left[f].name = other[f].name /\ compatible[left[f].type][other[f].type]
    BY DEF FieldsAgree
  <2>5. FieldsAgree(d, e, compatible) <=>
          /\ Len(right) = Len(other)
          /\ \A f \in DOMAIN right :
               right[f].name = other[f].name /\ compatible[right[f].type][other[f].type]
    BY DEF FieldsAgree
  <2>6. Len(left) = Len(other) => DOMAIN left = DOMAIN other
    BY <2>1
  <2> HIDE DEF left, right, other
  <2>7. FieldsAgree(c, e, compatible) <=> FieldsAgree(d, e, compatible)
    BY <2>1, <2>2, <2>3, <2>4, <2>5, <2>6, Zenon
  <2>. QED
    BY <1>1, <1>5, <2>7 DEF ParametersAgree
<1>6. CASE Shape(c) = "progressive_container"
  <2> DEFINE left == FieldsByPosition(c)
             right == FieldsByPosition(d)
             other == FieldsByPosition(e)
             active == Presented(c, "ACTIVE_FIELDS")
  <2>1. active = Presented(d, "ACTIVE_FIELDS")
    BY <1>6 DEF SameParts
  <2>2. DOMAIN left = PositionsOf(active) /\ DOMAIN right = PositionsOf(active)
    BY <1>1, <1>6, <2>1, FieldsArePlaced
  <2>3. ASSUME NEW p \in DOMAIN other
        PROVE  isWhole[other[p].type] /\ other[p].type \in Ids
    <3> DEFINE set == Presented(e, "ACTIVE_FIELDS")
               f == OrdinalAt(set, p)
    <3>1. f \in 1..Len(classes[e].fields) /\ other[p] = classes[e].fields[f]
      BY <1>1, <1>6, FieldsArePlaced
    <3> HIDE DEF f, other
    <3>2. f \in DOMAIN classes[e].fields
      BY <1>1, <3>1, PartsAreOlder DEF SpansInv, FieldsAreOlder
    <3>. QED
      BY <1>1, <3>1, <3>2, PartsAreWhole
  <2>4. ASSUME NEW p \in PositionsOf(active)
        PROVE  /\ left[p].name = right[p].name
               /\ p \in DOMAIN other =>
                    compatible[left[p].type][other[p].type] = compatible[right[p].type][other[p].type]
    <3> DEFINE f == OrdinalAt(active, p)
    <3>1. /\ f \in 1..Len(classes[c].fields) /\ left[p] = classes[c].fields[f]
          /\ f \in 1..Len(classes[d].fields) /\ right[p] = classes[d].fields[f]
      BY <1>1, <1>6, <2>1, FieldsArePlaced
    <3> HIDE DEF f, left, right, other
    <3>2. f \in DOMAIN classes[c].fields /\ f \in DOMAIN classes[d].fields
      BY <1>1, <3>1, PartsAreOlder DEF SpansInv, FieldsAreOlder
    <3>3. left[p].name = right[p].name /\ treeOf[left[p].type] = treeOf[right[p].type]
      BY <1>6, <3>1, <3>2 DEF SameParts
    <3>4. /\ isWhole[left[p].type] /\ isWhole[right[p].type] /\ left[p].type \in 1..(c - 1)
          /\ left[p].type \in Ids /\ right[p].type \in Ids
      BY <1>1, <3>1, <3>2, PartsAreWhole
    <3>. QED
      BY <1>2, <2>3, <3>3, <3>4
  <2>5. LayoutsAgree(c, e, compatible) <=> LayoutsAgree(d, e, compatible)
    <3>1. \A k : LayoutsAgree(k, e, compatible) <=>
            LET here == FieldsByPosition(k)
            IN  /\ None \notin {Presented(k, "ACTIVE_FIELDS"), Presented(e, "ACTIVE_FIELDS")}
                /\ \A p \in DOMAIN here \cap DOMAIN other :
                     here[p].name = other[p].name /\ compatible[here[p].type][other[p].type]
                /\ \A p \in DOMAIN here, q \in DOMAIN other : here[p].name = other[q].name => p = q
      BY DEF LayoutsAgree
    <3> HIDE DEF other
    <3>. QED
      BY <2>1, <2>2, <2>4, <3>1
  <2>. QED
    BY <1>1, <1>6, <2>5 DEF ParametersAgree
<1>7. CASE Shape(c) = "union"
  <2> DEFINE left == Presented(c, "OPTIONS")
             right == Presented(d, "OPTIONS")
             other == Presented(e, "OPTIONS")
  <2>1. /\ DOMAIN left = DOMAIN right /\ \A s \in DOMAIN left : treeOf[left[s]] = treeOf[right[s]]
        /\ left # None /\ right # None
    BY <1>1, <1>7 DEF SameParts, SpansInv, LayoutsStand, IsUnion
  <2>2. /\ \A s \in DOMAIN left :
             /\ isWhole[left[s]] /\ left[s] \in 1..(c - 1) /\ left[s] \in Ids
             /\ isWhole[right[s]] /\ right[s] \in Ids
        /\ \A t \in DOMAIN other : isWhole[other[t]] /\ other[t] \in Ids
    BY <1>1, <1>7, <2>1, PartsAreWhole
  <2>3. \A s \in DOMAIN left, t \in DOMAIN other :
          compatible[left[s]][other[t]] = compatible[right[s]][other[t]]
    BY <1>2, <2>1, <2>2
  <2>4. OptionsAgree(c, e, compatible) <=> OptionsAgree(d, e, compatible)
    BY <2>1, <2>3 DEF OptionsAgree
  <2>. QED
    BY <1>1, <1>7, <2>4 DEF ParametersAgree
<1>8. Shape(c) \in Shapes
  BY <1>1, TreeTells
<1>. QED
  BY <1>3, <1>4, <1>5, <1>6, <1>7, <1>8 DEF Shapes

(* Two classes of one tree are compatible with the same classes. *)
LEMMA SameTreesAgree ==
  ASSUME TreesInv, NEW c \in Ids, NEW d \in Ids, NEW e \in Ids,
         isWhole[c], isWhole[d], isWhole[e], treeOf[c] = treeOf[d], OlderAreAlike(c)
  PROVE  compatible[c][e] = compatible[d][e]
<1>1. SpansInv /\ compatible[c][d] /\ compatible[d][c]
  <2>1. SpansInv /\ compatible[c][d]
    BY SameTreesFit DEF TreesInv
  <2>2. compatible[c][d] = compatible[d][c]
    BY <2>1, CompatibilityTakesNoSide
  <2>. QED
    BY <2>1, <2>2
<1>2. compatible[c][e] = Fit(c, e, compatible) /\ compatible[d][e] = Fit(d, e, compatible)
  BY <1>1, TreesUnfold
<1>3. Fit(c, c, compatible) /\ Fit(d, c, compatible) /\ Fit(c, d, compatible) /\ Fit(d, d, compatible)
  <2>1. compatible[d][c] = Fit(d, c, compatible) /\ compatible[c][d] = Fit(c, d, compatible)
    BY <1>1, TreesUnfold
  <2>. QED
    BY <1>1, <2>1 DEF Fit
<1>4. CASE e = c \/ e = d
  BY <1>2, <1>3, <1>4
<1>5. CASE e # c /\ e # d
  <2>1. ByteSequence(c) = ByteSequence(d)
    BY <1>1, BytesAreTold
  <2>2. ByteSequence(c) = <<>> => SameParts(c, d)
    BY <1>1, PartsAreTold
  <2>3. ByteSequence(c) = <<>> /\ Shape(e) = Shape(c) =>
          (ParametersAgree(c, e, compatible) <=> ParametersAgree(d, e, compatible))
    BY <2>2, SamePartsAgree
  <2>4. Fit(c, e, compatible) <=> Fit(d, e, compatible)
    BY <1>5, <2>1, <2>2, <2>3 DEF Fit, SameParts
  <2>5. Fit(c, e, compatible) \in BOOLEAN /\ Fit(d, e, compatible) \in BOOLEAN
    BY DEF Fit
  <2>. QED
    BY <1>2, <2>4, <2>5
<1>. QED
  BY <1>4, <1>5

LEMMA TreesAgree == TreesInv => CompatibilityIsAnAgreement
<1> SUFFICES ASSUME TreesInv
             PROVE  CompatibilityIsAnAgreement
  OBVIOUS
<1>1. SpansInv /\ Ids \subseteq Nat \ {0}
  BY DEF TreesInv, SpansInv, PartsInv, IInv, ClassesStand, Ids
<1> DEFINE alike(c) == \A d, e \in Ids :
             isWhole[c] /\ isWhole[d] /\ isWhole[e] /\ treeOf[c] = treeOf[d] =>
               compatible[c][e] = compatible[d][e]
           S == {m \in Nat : \A c \in Ids : c <= m => alike(c)}
<1>2. 0 \in S
  BY <1>1
<1>3. ASSUME NEW m \in Nat, m \in S
      PROVE  m + 1 \in S
  <2>1. ASSUME NEW c \in Ids, c = m + 1
        PROVE  alike(c)
    <3>1. \A a \in 1..(c - 1) : a \in Ids /\ a <= m
      BY <1>1, <2>1, PartsAreOlder DEF SpansInv
    <3>2. OlderAreAlike(c)
      BY <1>3, <3>1 DEF OlderAreAlike
    <3>. QED
      BY <3>2, SameTreesAgree
  <2>2. \A c \in Ids : c <= m + 1 => c <= m \/ c = m + 1
    BY <1>1
  <2> HIDE DEF alike
  <2>. QED
    BY <1>3, <2>1, <2>2
<1>4. Nat \subseteq S
  <2> HIDE DEF S
  <2>. QED
    BY <1>2, <1>3, FromZeroUp
<1>5. \A c \in Ids : alike(c)
  <2> HIDE DEF alike
  <2>. QED
    BY <1>1, <1>4
<1>. QED
  BY <1>1, <1>5, CompatibilityTakesNoSide DEF CompatibilityIsAnAgreement

(* Where nothing is declared, what fits stays. *)
LEMMA StutterKeepsTrees ==
  ASSUME TreesInv, UNCHANGED declarationVars
  PROVE  TreesInv'
<1>1. SpansInv /\ SpansInv' /\ IInv /\ classes' = classes
  BY StutterKeepsSpans DEF TreesInv, SpansInv, PartsInv, declarationVars
<1>2. Ids' = Ids
  BY <1>1 DEF Ids
<1>3. ASSUME NEW c \in Ids, Shape(c) = "union"
      PROVE  PairsFit(Presented(c, "OPTIONS"))'
  <2>1. PICK options : options = Presented(c, "OPTIONS")
    OBVIOUS
  <2>2. options = Presented(c, "OPTIONS")'
    BY <1>1, <2>1, PresentedForGood
  <2>3. PairsFit(options) /\ options # None
    BY <1>1, <1>3, <2>1 DEF TreesInv, OptionsFit, SpansInv, LayoutsStand, IsUnion
  <2>4. \A s \in DOMAIN options : options[s] \in Ids
    BY <1>1, <2>1, <2>3, PartsAreOlder DEF SpansInv, OptionsAreOlder
  <2>5. PairsFit(options)'
    BY <1>1, <1>2, <2>3, <2>4, PairsFitForGood
  <2>. QED
    BY <2>2, <2>5 DEF PairsFit
<1>4. OptionsFit'
  BY <1>1, <1>2, <1>3 DEF OptionsFit, Shape
<1>. QED
  BY <1>1, <1>4 DEF TreesInv

(* Whichever is asked about the other two types answer alike, and types of  *)
(* one tree, however it is spelt, are compatible with the same types, so a *)
(* union may take one option for another of its tree (is_compatible).      *)
THEOREM AgreementTheorem == DeclarationsSpec => []CompatibilityIsAnAgreement
<1>1. DeclarationsInit => TreesInv
  <2> SUFFICES ASSUME DeclarationsInit
               PROVE  TreesInv
    OBVIOUS
  <2>1. IInv /\ Ids = {}
    BY InitHasInv DEF DeclarationsInit, Ids
  <2>. QED
    BY <2>1 DEF TreesInv, OptionsFit, SpansInv, PartsInv, PartsCameFirst, CountsArePositive,
                WidthsAreSettled, LayoutsStand
<1>2. TreesInv /\ [Declaring]_declarationVars => TreesInv'
  BY DeclaringKeepsTrees, StutterKeepsTrees
<1>. QED
  BY <1>1, <1>2, TreesAgree, PTL DEF DeclarationsSpec

---------------------------------------------------------------------------
(* Numbers. *)

Numeric == UintIds \cup BooleanIds

(* What a computation holds is an instance of a declared class. *)
TallyStands == tally # None => tally.class \in Numeric

NumbersInv == IInv /\ TallyStands /\ TalliesAreExact /\ UnitsNeverMix

(* What an answer keeps of an operand it was worked out from. *)
Keeps(answer, x) ==
  x.class \in Ids =>
    IF answer.class \in UintIds
      THEN x.class \in UintIds /\ IsSubclass(answer.class, x.class)
      ELSE x.class \in BooleanIds

Operands == Values \cup Plain \cup Flags \cup Things

---------------------------------------------------------------------------
(* Classes and instances. *)

(* Derivation goes all the way down. *)
LEMMA SubclassesOfSubclasses ==
  ASSUME IInv, NEW a \in Ids, NEW b, NEW c, IsSubclass(a, b), IsSubclass(b, c)
  PROVE  IsSubclass(a, c)
BY DEF IInv, LinesAreClosed, IsSubclass

(* A class is no plain number, flag or thing, nor an error. *)
LEMMA ClassesAreNoMarks ==
  ASSUME IInv
  PROVE  /\ Ids \subseteq Nat \ {0}
         /\ PlainInt \notin Ids /\ PlainBool \notin Ids /\ Thing \notin Ids
         /\ Raised.class \notin Ids /\ Declined.class \notin Ids
         /\ Raised # Declined /\ Raised.class # Declined.class
         /\ UintIds \cap BooleanIds = {} /\ Numeric \subseteq Ids
<1>1. Ids \subseteq Nat \ {0}
  BY DEF IInv, ClassesStand, Ids
<1>2. Raised.class = -3 /\ Declined.class = -4
  BY DEF Raised, Declined, Held
<1>. QED
  BY <1>1, <1>2 DEF PlainInt, PlainBool, Thing, UintIds, BooleanIds, Numeric

(* An operand of a class is of a numeric one. *)
LEMMA OperandsAreNumbers ==
  ASSUME IInv, NEW x \in Operands, x.class \in Ids
  PROVE  x.class \in Numeric
<1>1. CASE x \in Values
  <2>1. CASE x \in UNION {{Held(c, n) : n \in 0..MaxValue(c)} : c \in UintIds}
    <3>1. PICK c \in UintIds : x \in {Held(c, n) : n \in 0..MaxValue(c)}
      BY <2>1
    <3>. QED
      BY <3>1 DEF Held, Numeric
  <2>2. CASE x \in {Held(c, n) : c \in BooleanIds, n \in 0..1}
    <3>1. PICK c \in BooleanIds, n \in 0..1 : x = Held(c, n)
      BY <2>2
    <3>. QED
      BY <3>1 DEF Held, Numeric
  <2>. QED
    BY <1>1, <2>1, <2>2 DEF Values
<1>2. CASE x \in Plain \cup Flags \cup Things
  BY <1>2, ClassesAreNoMarks DEF Plain, Flags, Things, Held
<1>. QED
  BY <1>1, <1>2 DEF Operands

(* What is wrapped is an instance of the class, of the number given. *)
LEMMA WrapIsExact ==
  ASSUME NEW c, NEW n, Wrap(c, n) # Raised
  PROVE  Wrap(c, n).class = c /\ Wrap(c, n).number = n
BY DEF Wrap, Interned, Held

---------------------------------------------------------------------------
(* Operators. *)

(* The class resolved derives from both operands, or there is none. *)
LEMMA ResolvedDerives ==
  ASSUME IInv, NEW c \in UintIds, NEW other,
         ResolveType(c, other) \notin {Raised.class, Declined.class}
  PROVE  /\ ResolveType(c, other) \in UintIds
         /\ IsSubclass(ResolveType(c, other), c)
         /\ other.class \in Ids =>
              other.class \in UintIds /\ IsSubclass(ResolveType(c, other), other.class)
BY ClassesAreNoMarks DEF ResolveType, IsSubclass

(* A uint answers as a class derived from both, with what Python makes it. *)
LEMMA UintAnswers ==
  ASSUME IInv, NEW op, NEW self, NEW other, NEW left, NEW right, self.class \in UintIds,
         UintAnswer(op, self, other, left, right) \notin {Raised, Declined}
  PROVE  LET answer == UintAnswer(op, self, other, left, right)
         IN  /\ answer.class \in UintIds
             /\ answer.number = Exact(op, left.number, right.number)
             /\ Keeps(answer, self) /\ Keeps(answer, other)
<1> DEFINE c == ResolveType(self.class, other)
<1> DEFINE n == Exact(op, left.number, right.number)
<1>1. /\ c \notin {Raised.class, Declined.class}
      /\ UintAnswer(op, self, other, left, right) = Wrap(c, n) /\ Wrap(c, n) # Raised
  BY DEF UintAnswer
<1>2. /\ c \in UintIds /\ IsSubclass(c, self.class)
      /\ other.class \in Ids => other.class \in UintIds /\ IsSubclass(c, other.class)
  BY <1>1, ResolvedDerives
<1>3. Wrap(c, n).class = c /\ Wrap(c, n).number = n
  BY <1>1, WrapIsExact
<1> HIDE DEF c, n
<1>. QED
  BY <1>1, <1>2, <1>3 DEF Keeps, n

(* A bit answers to a bit, in the bitwise operators alone. *)
LEMMA BooleanAnswers ==
  ASSUME IInv, NEW op, NEW self, NEW other, self.class \in BooleanIds,
         BooleanAnswer(op, self, other) \notin {Raised, Declined}
  PROVE  LET answer == BooleanAnswer(op, self, other)
         IN  /\ answer.class \in BooleanIds /\ answer.class = self.class
             /\ op \in BitwiseOps
             /\ answer.number = Bitwise(op, self.number, other.number)
             /\ Keeps(answer, self) /\ Keeps(answer, other)
BY ClassesAreNoMarks DEF BooleanAnswer, Held, Keeps

(* Whoever is asked, the answer keeps both units, and no table alters it. *)
LEMMA EvaluationsKeep ==
  ASSUME IInv, NEW op, NEW left, NEW right, Evaluate(op, left, right) # Raised,
         left.class \in Ids => left.class \in Numeric,
         left.class \in Ids \/ right.class \in Numeric
  PROVE  LET answer == Evaluate(op, left, right)
         IN  /\ answer.class \in Numeric
             /\ answer.number = Exact(op, left.number, right.number)
             /\ Keeps(answer, left) /\ Keeps(answer, right)
<1>1. CASE left.class \in BooleanIds
  <2>1. /\ Evaluate(op, left, right) = BooleanAnswer(op, left, right)
        /\ BooleanAnswer(op, left, right) \notin {Raised, Declined}
    <3>1. left.class \in Ids
      BY <1>1 DEF BooleanIds
    <3>. QED
      BY <1>1, <3>1 DEF Evaluate, Answer
  <2>2. /\ Evaluate(op, left, right).class \in BooleanIds
        /\ op \in BitwiseOps
        /\ Evaluate(op, left, right).number = Bitwise(op, left.number, right.number)
        /\ Keeps(Evaluate(op, left, right), left) /\ Keeps(Evaluate(op, left, right), right)
    BY <1>1, <2>1, BooleanAnswers
  <2>3. Exact(op, left.number, right.number) = Bitwise(op, left.number, right.number)
    <3>1. op \in BitwiseOps /\ op \notin SumOps /\ op \notin {"//", "%", "<<", ">>", "**"}
      BY <2>2 DEF BitwiseOps, SumOps
    <3>. QED
      BY <3>1 DEF Exact, ShiftOps
  <2>. QED
    BY <2>2, <2>3 DEF Numeric
<1>2. CASE left.class \in UintIds
  <2>1. /\ Evaluate(op, left, right) = UintAnswer(op, left, right, left, right)
        /\ UintAnswer(op, left, right, left, right) \notin {Raised, Declined}
    <3>1. left.class \in Ids /\ left.class \notin BooleanIds
      BY <1>2, ClassesAreNoMarks DEF UintIds
    <3>. QED
      BY <1>2, <3>1 DEF Evaluate, Answer
  <2>. QED
    BY <1>2, <2>1, UintAnswers DEF Numeric
<1>3. CASE left.class \notin Ids
  <2>1. right.class \notin BooleanIds
    <3> SUFFICES ASSUME right.class \in BooleanIds
                 PROVE  FALSE
      OBVIOUS
    <3>1. Evaluate(op, left, right) = BooleanAnswer(op, right, left)
      BY <1>3 DEF Evaluate, Answer, BooleanAnswer, BooleanIds
    <3>2. BooleanAnswer(op, right, left) \in {Raised, Declined}
      BY <1>3 DEF BooleanAnswer, BooleanIds
    <3>. QED
      BY <1>3, <3>2 DEF Evaluate, Answer
  <2>2. right.class \in UintIds
    BY <1>3, <2>1 DEF Numeric
  <2>3. /\ Evaluate(op, left, right) = UintAnswer(op, right, left, left, right)
        /\ UintAnswer(op, right, left, left, right) \notin {Raised, Declined}
    BY <1>3, <2>1 DEF Evaluate, Answer
  <2>. QED
    BY <2>2, <2>3, UintAnswers DEF Numeric
<1>. QED
  BY <1>1, <1>2, <1>3 DEF Numeric

---------------------------------------------------------------------------
(* The invariant. *)

(* A tally made of a class alone. *)
LEMMA FreshTally ==
  ASSUME IInv, NEW c \in Numeric, NEW answer, NEW exact, Become(answer, exact, {c}),
         answer.class = c, answer.number = exact
  PROVE  NumbersInv'
<1>1. /\ classes' = classes /\ session' = session
      /\ tally' = [class |-> c, number |-> exact, exact |-> exact, units |-> {c}]
  BY DEF Become, declarationVars
<1>2. IInv'
  BY <1>1, StutterKeepsInv DEF declarationVars
<1>3. UintIds' = UintIds /\ BooleanIds' = BooleanIds
  BY <1>1 DEF UintIds, BooleanIds, Ids, Shape
<1>4. \A a : IsSubclass(c, a)' <=> IsSubclass(c, a)
  BY <1>1 DEF IsSubclass
<1>. QED
  BY <1>1, <1>2, <1>3, <1>4 DEF NumbersInv, TallyStands, TalliesAreExact, UnitsNeverMix,
     Numeric, IsSubclass

(* An answer that keeps the units of the tally and of every other operand. *)
LEMMA TallyKept ==
  ASSUME NumbersInv, tally # None, NEW answer, NEW exact, NEW added,
         Become(answer, exact, tally.units \cup added),
         answer.class \in Numeric, answer.number = exact, Keeps(answer, Current),
         \A u \in added : IF answer.class \in UintIds
                            THEN u \in UintIds /\ IsSubclass(answer.class, u)
                            ELSE u \in BooleanIds
  PROVE  NumbersInv'
<1>1. /\ classes' = classes /\ session' = session
      /\ tally' = [class |-> answer.class, number |-> exact, exact |-> exact,
                   units |-> tally.units \cup added]
  BY DEF Become, declarationVars
<1>2. IInv'
  BY <1>1, StutterKeepsInv DEF declarationVars, NumbersInv
<1>3. UintIds' = UintIds /\ BooleanIds' = BooleanIds
  BY <1>1 DEF UintIds, BooleanIds, Ids, Shape
<1>4. \A a, b : IsSubclass(a, b)' <=> IsSubclass(a, b)
  BY <1>1 DEF IsSubclass
<1>5. tally.class \in Numeric /\ Current.class = tally.class
  BY DEF NumbersInv, TallyStands, Current, Held
<1>6. ASSUME NEW u \in tally.units
      PROVE  IF answer.class \in UintIds THEN u \in UintIds /\ IsSubclass(answer.class, u)
             ELSE u \in BooleanIds
  <2>1. tally.class \in Ids /\ answer.class \in Ids
    BY <1>5 DEF Numeric, UintIds, BooleanIds
  <2>2. CASE answer.class \in UintIds
    <3>1. tally.class \in UintIds /\ IsSubclass(answer.class, tally.class)
      BY <1>5, <2>1, <2>2 DEF Keeps
    <3>2. u \in UintIds /\ IsSubclass(tally.class, u)
      BY <3>1 DEF NumbersInv, UnitsNeverMix
    <3>. QED
      BY <2>1, <2>2, <3>1, <3>2, SubclassesOfSubclasses DEF NumbersInv
  <2>3. CASE answer.class \notin UintIds
    <3>1. tally.class \in BooleanIds
      BY <1>5, <2>1, <2>3 DEF Keeps
    <3>2. tally.class \notin UintIds
      BY <3>1, ClassesAreNoMarks DEF NumbersInv
    <3>. QED
      BY <2>3, <3>2 DEF NumbersInv, UnitsNeverMix
  <2>. QED
    BY <2>2, <2>3
<1>7. TallyStands' /\ TalliesAreExact'
  BY <1>1, <1>3 DEF TallyStands, TalliesAreExact, Numeric
<1>8. UnitsNeverMix'
  BY <1>1, <1>3, <1>4, <1>6 DEF UnitsNeverMix
<1>. QED
  BY <1>2, <1>7, <1>8 DEF NumbersInv

(* Calling a class gives an instance of it, of the number it was called with. *)
LEMMA CallsAreExact ==
  ASSUME NEW c, NEW x
  PROVE  /\ NewUint(c, x) # Raised => NewUint(c, x).class = c /\ NewUint(c, x).number = x.number
         /\ NewBoolean(c, x) # Raised =>
              NewBoolean(c, x).class = c /\ NewBoolean(c, x).number = x.number
BY WrapIsExact DEF NewUint, NewBoolean, Held

(* An answer of a kept operand names nothing else than it keeps. *)
LEMMA CountedIsKept ==
  ASSUME NEW answer, NEW x, Keeps(answer, x)
  PROVE  \A u \in Counted(x) : IF answer.class \in UintIds
                                 THEN u \in UintIds /\ IsSubclass(answer.class, u)
                                 ELSE u \in BooleanIds
BY DEF Keeps, Counted

LEMMA CreateKeepsInv ==
  ASSUME NumbersInv, Create
  PROVE  NumbersInv'
BY CallsAreExact, FreshTally DEF Create, Become, NumbersInv, Numeric

LEMMA ConvertKeepsInv ==
  ASSUME NumbersInv, Convert
  PROVE  NumbersInv'
<1>1. Current.number = tally.exact
  BY DEF Convert, NumbersInv, TalliesAreExact, Current, Held
<1>. QED
  BY <1>1, CallsAreExact, FreshTally DEF Convert, Become, NumbersInv, Numeric

(* What the operators are given, and what the tally is. *)
LEMMA CurrentStands ==
  ASSUME NumbersInv, tally # None
  PROVE  /\ Current.class \in Numeric /\ Current.class \in Ids
         /\ Current.number = tally.exact
BY DEF NumbersInv, TallyStands, TalliesAreExact, Current, Held, Numeric, UintIds, BooleanIds

LEMMA OperateOnTheLeftKeepsInv ==
  ASSUME NumbersInv, NEW op, OperateOnTheLeft(op)
  PROVE  NumbersInv'
<1>1. PICK x : Become(Evaluate(op, Current, x), Exact(op, tally.exact, x.number),
                      tally.units \cup Counted(x))
  BY DEF OperateOnTheLeft
<1>2. tally # None /\ Evaluate(op, Current, x) # Raised
  BY <1>1 DEF OperateOnTheLeft, Become
<1>3. /\ Evaluate(op, Current, x).class \in Numeric
      /\ Evaluate(op, Current, x).number = Exact(op, tally.exact, x.number)
      /\ Keeps(Evaluate(op, Current, x), Current) /\ Keeps(Evaluate(op, Current, x), x)
  <2>1. IInv /\ Current.class \in Numeric /\ Current.class \in Ids /\ Current.number = tally.exact
    BY <1>2, CurrentStands DEF NumbersInv
  <2>. QED
    BY <1>2, <2>1, EvaluationsKeep
<1>. QED
  BY <1>1, <1>2, <1>3, CountedIsKept, TallyKept

LEMMA OperateOnTheRightKeepsInv ==
  ASSUME NumbersInv, NEW op, OperateOnTheRight(op)
  PROVE  NumbersInv'
<1>1. PICK x \in Values \cup Plain \cup Things :
        Become(Evaluate(op, x, Current), Exact(op, x.number, tally.exact),
               tally.units \cup Counted(x))
  BY DEF OperateOnTheRight
<1>2. tally # None /\ Evaluate(op, x, Current) # Raised
  BY <1>1 DEF OperateOnTheRight, Become
<1>3. /\ Evaluate(op, x, Current).class \in Numeric
      /\ Evaluate(op, x, Current).number = Exact(op, x.number, tally.exact)
      /\ Keeps(Evaluate(op, x, Current), Current) /\ Keeps(Evaluate(op, x, Current), x)
  <2>1. IInv /\ Current.class \in Numeric /\ Current.number = tally.exact
    BY <1>2, CurrentStands DEF NumbersInv
  <2>2. x.class \in Ids => x.class \in Numeric
    BY <2>1, OperandsAreNumbers DEF Operands
  <2>. QED
    BY <1>2, <2>1, <2>2, EvaluationsKeep
<1>. QED
  BY <1>1, <1>2, <1>3, CountedIsKept, TallyKept

LEMMA DivmodKeepsInv ==
  ASSUME NumbersInv, Divmod
  PROVE  NumbersInv'
<1>1. PICK x \in Values \cup Plain \cup Flags \cup Things : \E op \in DivisionOps :
        Become(Evaluate(op, Current, x), Exact(op, tally.exact, x.number),
               tally.units \cup Counted(x))
  BY DEF Divmod
<1>. PICK op \in DivisionOps :
        Become(Evaluate(op, Current, x), Exact(op, tally.exact, x.number),
               tally.units \cup Counted(x))
  BY <1>1
<1>2. tally # None /\ Evaluate(op, Current, x) # Raised
  BY DEF Divmod, Become
<1>3. /\ Evaluate(op, Current, x).class \in Numeric
      /\ Evaluate(op, Current, x).number = Exact(op, tally.exact, x.number)
      /\ Keeps(Evaluate(op, Current, x), Current) /\ Keeps(Evaluate(op, Current, x), x)
  <2>1. IInv /\ Current.class \in Numeric /\ Current.class \in Ids /\ Current.number = tally.exact
    BY <1>2, CurrentStands DEF NumbersInv
  <2>. QED
    BY <1>2, <2>1, EvaluationsKeep
<1>. QED
  BY <1>2, <1>3, CountedIsKept, TallyKept

LEMMA PowerModuloKeepsInv ==
  ASSUME NumbersInv, PowerModulo
  PROVE  NumbersInv'
<1>1. /\ IInv /\ tally # None /\ tally.class \in UintIds /\ tally.number = tally.exact
      /\ Current.class = tally.class
  BY DEF PowerModulo, NumbersInv, TalliesAreExact, Current, Held
<1>2. PICK x, m :
        /\ ResolveType(tally.class, x) \in Ids
        /\ ResolveType(ResolveType(tally.class, x), m) \in Ids
        /\ Become(Wrap(ResolveType(ResolveType(tally.class, x), m),
                       Power(tally.number, x.number, {m.number})),
                  Power(tally.exact, x.number, {m.number}),
                  tally.units \cup Counted(x) \cup Counted(m))
  BY DEF PowerModulo
<1> DEFINE c == ResolveType(tally.class, x)
<1> DEFINE d == ResolveType(c, m)
<1> DEFINE n == Power(tally.exact, x.number, {m.number})
<1>3. /\ c \in UintIds /\ IsSubclass(c, tally.class)
      /\ x.class \in Ids => x.class \in UintIds /\ IsSubclass(c, x.class)
  BY <1>1, <1>2, ClassesAreNoMarks, ResolvedDerives
<1>4. /\ d \in UintIds /\ IsSubclass(d, c)
      /\ m.class \in Ids => m.class \in UintIds /\ IsSubclass(d, m.class)
  BY <1>1, <1>2, <1>3, ClassesAreNoMarks, ResolvedDerives
<1>5. Become(Wrap(d, n), n, tally.units \cup (Counted(x) \cup Counted(m)))
  <2>1. Power(tally.number, x.number, {m.number}) = n
    BY <1>1
  <2>2. tally.units \cup (Counted(x) \cup Counted(m)) = tally.units \cup Counted(x) \cup Counted(m)
    OBVIOUS
  <2>. QED
    BY <1>2, <2>1, <2>2
<1> HIDE DEF c, d, n
<1>6. Wrap(d, n).class = d /\ Wrap(d, n).number = n
  BY <1>5, WrapIsExact DEF Become
<1>7. d \in Ids /\ d \in Numeric
  BY <1>4 DEF UintIds, Numeric
<1>8. IsSubclass(d, tally.class) /\ (x.class \in Ids => IsSubclass(d, x.class))
  BY <1>1, <1>3, <1>4, <1>7, SubclassesOfSubclasses
<1>9. \A u \in Counted(x) \cup Counted(m) : u \in UintIds /\ IsSubclass(d, u)
  BY <1>3, <1>4, <1>8 DEF Counted
<1>10. Keeps(Wrap(d, n), Current)
  BY <1>1, <1>4, <1>6, <1>8 DEF Keeps
<1>. QED
  BY <1>1, <1>4, <1>5, <1>6, <1>7, <1>9, <1>10, TallyKept

(* A declaration adds a class, and takes no unit from a tally. *)
LEMMA DeclaringKeepsTallies ==
  ASSUME NumbersInv, Declaring, UNCHANGED tally
  PROVE  NumbersInv'
<1>1. \E class : classes' = Append(classes, class) /\ UNCHANGED session
  BY DEF Declaring, DeclareUint, DeclareBitsOrBytes, Parametrize, DeclareSequence,
     DeclareContainer, DeclareProgressiveContainer, DeclareUnion, Declare
<1>2. Ids \subseteq Ids' /\ \A c \in Ids : classes'[c] = classes[c]
  BY <1>1, ClassAdded DEF NumbersInv, IInv
<1>3. UintIds \subseteq UintIds' /\ BooleanIds \subseteq BooleanIds'
  BY <1>2 DEF UintIds, BooleanIds, Shape
<1>4. \A c \in Ids : \A a : IsSubclass(c, a) => IsSubclass(c, a)'
  BY <1>2 DEF IsSubclass
<1>5. IInv'
  BY DeclaringKeepsInv DEF NumbersInv
<1>6. TallyStands' /\ TalliesAreExact'
  BY <1>3 DEF NumbersInv, TallyStands, TalliesAreExact, Numeric
<1>7. UnitsNeverMix'
  <2> SUFFICES ASSUME tally # None, NEW u \in tally.units
               PROVE  IF tally.class \in UintIds'
                        THEN u \in UintIds' /\ IsSubclass(tally.class, u)'
                        ELSE u \in BooleanIds'
    BY DEF UnitsNeverMix
  <2>1. CASE tally.class \in UintIds
    BY <1>3, <1>4, <2>1 DEF NumbersInv, UnitsNeverMix, UintIds
  <2>2. CASE tally.class \in BooleanIds
    <3>1. tally.class \notin UintIds /\ tally.class \notin UintIds'
      BY <1>2, <2>2 DEF UintIds, BooleanIds, Shape
    <3>. QED
      BY <1>3, <3>1 DEF NumbersInv, UnitsNeverMix
  <2>. QED
    BY <2>1, <2>2 DEF NumbersInv, TallyStands, Numeric
<1>. QED
  BY <1>5, <1>6, <1>7 DEF NumbersInv

(* NumbersInv holds at first and is kept by every step. *)
LEMMA NumbersInductive ==
  /\ NumbersInit => NumbersInv
  /\ NumbersInv /\ [NumbersNext]_<<classes, session, tally>> => NumbersInv'
<1>1. NumbersInit => NumbersInv
  BY InitHasInv DEF NumbersInit, NumbersInv, TallyStands, TalliesAreExact, UnitsNeverMix
<1>2. ASSUME NumbersInv, UNCHANGED <<classes, session, tally>>
      PROVE  NumbersInv'
  <2>1. IInv'
    BY <1>2, StutterKeepsInv DEF NumbersInv, declarationVars
  <2>2. UintIds' = UintIds /\ BooleanIds' = BooleanIds
    BY <1>2 DEF UintIds, BooleanIds, Ids, Shape
  <2>3. \A a, b : IsSubclass(a, b)' <=> IsSubclass(a, b)
    BY <1>2 DEF IsSubclass
  <2>. QED
    BY <1>2, <2>1, <2>2, <2>3
       DEF NumbersInv, TallyStands, TalliesAreExact, UnitsNeverMix, Numeric
<1>3. ASSUME NumbersInv, Calculating
      PROVE  NumbersInv'
  BY <1>3, CreateKeepsInv, ConvertKeepsInv, OperateOnTheLeftKeepsInv,
     OperateOnTheRightKeepsInv, DivmodKeepsInv, PowerModuloKeepsInv DEF Calculating
<1>. QED
  BY <1>1, <1>2, <1>3, DeclaringKeepsTallies DEF NumbersNext

(* No answer is of a class that a unit in it does not derive to: uints of    *)
(* sibling classes never come together, through any chain of operations    *)
(* (_resolve_type).                                                        *)
THEOREM UnitsTheorem == NumbersSpec => []UnitsNeverMix
<1>1. NumbersInv => UnitsNeverMix
  BY DEF NumbersInv
<1>. QED
  BY <1>1, NumbersInductive, PTL DEF NumbersSpec

(* What gets past a bound is the number it would be with none, however wide *)
(* the tables of shared instances are (_wrap).                             *)
THEOREM TalliesTheorem == NumbersSpec => []TalliesAreExact
<1>1. NumbersInv => TalliesAreExact
  BY DEF NumbersInv
<1>. QED
  BY <1>1, NumbersInductive, PTL DEF NumbersSpec

---------------------------------------------------------------------------
(* Sides. *)

(* No two classes derive from each other. *)
LEMMA DerivationIsOneWay ==
  ASSUME IInv, NEW a \in Ids, NEW b \in Ids, IsSubclass(a, b), IsSubclass(b, a)
  PROVE  a = b
<1>1. Ids \subseteq Nat
  BY ClassesAreNoMarks
<1>2. a # b => b < a /\ a < b
  BY DEF IInv, BasesCameFirst, IsSubclass
<1>. QED
  BY <1>1, <1>2

(* A number of a class is of a uint or a bit class. *)
LEMMA ValuesAreOfClasses ==
  ASSUME NEW x \in Values
  PROVE  x.class \in Numeric
<1>1. CASE x \in UNION {{Held(c, n) : n \in 0..MaxValue(c)} : c \in UintIds}
  <2>1. PICK c \in UintIds : x \in {Held(c, n) : n \in 0..MaxValue(c)}
    BY <1>1
  <2>. QED
    BY <2>1 DEF Held, Numeric
<1>2. CASE x \in {Held(c, n) : c \in BooleanIds, n \in 0..1}
  BY <1>2 DEF Held, Numeric
<1>. QED
  BY <1>1, <1>2 DEF Values

(* What an operand's number is. *)
LEMMA OperandsAreIntegers ==
  ASSUME IInv, NEW x \in Values \cup Plain \cup Things
  PROVE  x.number \in Int /\ (x.class \notin Ids => x.class \in {PlainInt, Thing})
<1>1. CASE x \in Values
  <2>1. CASE x \in UNION {{Held(c, n) : n \in 0..MaxValue(c)} : c \in UintIds}
    <3>1. PICK c \in UintIds : x \in {Held(c, n) : n \in 0..MaxValue(c)}
      BY <2>1
    <3>2. PICK n \in 0..MaxValue(c) : x = Held(c, n)
      BY <3>1
    <3>. QED
      BY <3>2 DEF Held, UintIds
  <2>2. CASE x \in {Held(c, n) : c \in BooleanIds, n \in 0..1}
    BY <2>2 DEF Held, BooleanIds
  <2>. QED
    BY <1>1, <2>1, <2>2 DEF Values
<1>2. CASE x \in Plain
  BY <1>2, NumbersAssumption DEF Plain, Held
<1>3. CASE x \in Things
  BY <1>3 DEF Things, Held
<1>. QED
  BY <1>1, <1>2, <1>3

(* An operator that takes no side comes to one number either way round. *)
LEMMA ExactTakesNoSide ==
  ASSUME NEW op \in BitwiseOps \cup {"+", "*"}, NEW x \in Int, NEW y \in Int
  PROVE  Exact(op, x, y) = Exact(op, y, x) /\ Exists(op, x, y) /\ Exists(op, y, x)
<1>1. Exists(op, x, y) /\ Exists(op, y, x)
  BY DEF Exists, BitwiseOps, DivisionOps, ShiftOps
<1>2. CASE op \in {"+", "*"}
  <2>1. Sums(op, x, y) = Sums(op, y, x)
    BY <1>2 DEF Sums
  <2>2. op \in SumOps
    BY <1>2 DEF SumOps
  <2>. QED
    BY <1>1, <2>1, <2>2 DEF Exact
<1>3. CASE op \in BitwiseOps
  <2>1. \A S, T : S \cap T = T \cap S /\ S \cup T = T \cup S /\ SymDiff(S, T) = SymDiff(T, S)
    BY DEF SymDiff
  <2>2. Bitwise(op, x, y) = Bitwise(op, y, x)
    BY <1>3, <2>1 DEF Bitwise, BitwiseOps
  <2>3. op \notin SumOps /\ op \notin {"//", "%"} \cup {"**"} \cup ShiftOps
    BY <1>3 DEF SumOps, BitwiseOps, ShiftOps
  <2>4. \A u, v : Exact(op, u, v) = Bitwise(op, u, v)
    BY <1>3, <2>3 DEF Exact
  <2>. QED
    BY <1>1, <2>2, <2>4
<1>. QED
  BY <1>2, <1>3

(* Two uints resolve to one class, whichever is asked. *)
LEMMA ResolutionTakesNoSide ==
  ASSUME IInv, NEW x, NEW y, x.class \in UintIds, y.class \in UintIds
  PROVE  ResolveType(x.class, y) = ResolveType(y.class, x)
<1>1. /\ x.class \in Ids /\ y.class \in Ids
      /\ x.class \notin {PlainInt, Thing} /\ y.class \notin {PlainInt, Thing}
  BY ClassesAreNoMarks DEF UintIds
<1>2. IsSubclass(x.class, y.class) /\ IsSubclass(y.class, x.class) => x.class = y.class
  BY <1>1, DerivationIsOneWay
<1>. QED
  BY <1>1, <1>2 DEF ResolveType

(* Refused is what is no more than declined. *)
Settle(answer) == IF answer = Declined THEN Raised ELSE answer

(* An operator that takes no side answers alike from both. *)
LEMMA EvaluationTakesNoSide ==
  ASSUME IInv, NEW x \in Values, NEW y \in Values \cup Plain \cup Things, x.class \in UintIds,
         NEW op \in BitwiseOps \cup {"+", "*"}
  PROVE  Evaluate(op, x, y) = Evaluate(op, y, x)
<1>1. /\ x.number \in Int /\ y.number \in Int
      /\ y.class \notin Ids => y.class \in {PlainInt, Thing}
  BY OperandsAreIntegers
<1>2. /\ Exact(op, x.number, y.number) = Exact(op, y.number, x.number)
      /\ Exists(op, x.number, y.number) /\ Exists(op, y.number, x.number)
  BY <1>1, ExactTakesNoSide
<1>3. x.class \in Ids /\ x.class \notin BooleanIds
  BY ClassesAreNoMarks DEF UintIds
<1>4. Evaluate(op, x, y) = Settle(UintAnswer(op, x, y, x, y))
  BY <1>3 DEF Evaluate, Answer, Settle
<1>5. CASE y.class \in UintIds
  <2>1. y.class \in Ids /\ y.class \notin BooleanIds
    BY <1>5, ClassesAreNoMarks DEF UintIds
  <2>2. Evaluate(op, y, x) = Settle(UintAnswer(op, y, x, y, x))
    BY <2>1 DEF Evaluate, Answer, Settle
  <2>3. ResolveType(x.class, y) = ResolveType(y.class, x)
    BY <1>5, ResolutionTakesNoSide
  <2>4. UintAnswer(op, x, y, x, y) = UintAnswer(op, y, x, y, x)
    BY <1>2, <2>3 DEF UintAnswer
  <2>. QED
    BY <1>4, <2>2, <2>4
<1>6. CASE y.class \in BooleanIds
  <2>1. y.class \in Ids /\ y.class \notin UintIds /\ y.class # PlainInt /\ y.class # Thing
    BY <1>6, ClassesAreNoMarks DEF BooleanIds
  <2>2. ResolveType(x.class, y) = Raised.class
    BY <2>1 DEF ResolveType
  <2>3. UintAnswer(op, x, y, x, y) = Raised
    BY <2>2, ClassesAreNoMarks DEF UintAnswer
  <2>4. x.class # Thing
    BY <1>3, ClassesAreNoMarks
  <2>5. Evaluate(op, y, x) = Settle(BooleanAnswer(op, y, x))
    BY <1>6, <2>1 DEF Evaluate, Answer, Settle
  <2>6. BooleanAnswer(op, y, x) = Raised
    BY <1>3, <2>4 DEF BooleanAnswer
  <2>. QED
    BY <1>4, <2>3, <2>5, <2>6
<1>7. CASE y.class \notin Ids
  <2>1. Evaluate(op, y, x) = Settle(UintAnswer(op, x, y, y, x))
    BY <1>3, <1>7 DEF Evaluate, Answer, Settle
  <2>2. UintAnswer(op, x, y, x, y) = UintAnswer(op, x, y, y, x)
    BY <1>2 DEF UintAnswer
  <2>. QED
    BY <1>4, <2>1, <2>2
<1>. QED
  <2>1. y.class \in Ids => y.class \in Numeric
    BY OperandsAreNumbers DEF Operands
  <2>. QED
    BY <1>5, <1>6, <1>7, <2>1 DEF Numeric

(* A bit answers alike from both sides, or a bit of a class derived from it  *)
(* refuses it on one of them.                                              *)
LEMMA BitsTakeNoSide ==
  ASSUME IInv, NEW x \in Values, NEW y \in Values \cup Plain \cup Things,
         x.class \in BooleanIds, NEW op \in BitwiseOps \cup {"+", "*"}
  PROVE  \/ Evaluate(op, x, y) = Evaluate(op, y, x)
         \/ /\ BitAndItsKind(x.class, y.class)
            /\ Raised \in {Evaluate(op, x, y), Evaluate(op, y, x)}
<1>1. /\ x.class \in Ids /\ x.class \notin UintIds
      /\ x.class # PlainInt /\ x.class # Thing
  BY ClassesAreNoMarks DEF BooleanIds
<1>2. Evaluate(op, x, y) = Settle(BooleanAnswer(op, x, y))
  BY <1>1 DEF Evaluate, Answer, Settle
<1>3. CASE y.class \notin Ids
  <2>1. Evaluate(op, y, x) = Settle(BooleanAnswer(op, x, y))
    BY <1>3 DEF Evaluate, Answer, Settle
  <2> QED
    BY <1>2, <2>1
<1>4. CASE y.class \in UintIds
  <2>1. y.class \in Ids /\ y.class \notin BooleanIds /\ y.class # PlainInt /\ y.class # Thing
    BY <1>4, ClassesAreNoMarks DEF UintIds
  <2>2. BooleanAnswer(op, x, y) = Raised
    BY <2>1 DEF BooleanAnswer
  <2>3. Evaluate(op, y, x) = Settle(UintAnswer(op, y, x, y, x))
    BY <2>1 DEF Evaluate, Answer, Settle
  <2>4. ResolveType(y.class, x) = Raised.class
    BY <1>1 DEF ResolveType
  <2>5. UintAnswer(op, y, x, y, x) = Raised
    BY <2>4, ClassesAreNoMarks DEF UintAnswer
  <2> QED
    BY <1>2, <2>2, <2>3, <2>5
<1>5. CASE y.class \in BooleanIds
  <2>1. y.class \in Ids /\ y.class # Thing
    BY <1>5, ClassesAreNoMarks DEF BooleanIds
  <2>2. Evaluate(op, y, x) = Settle(BooleanAnswer(op, y, x))
    BY <1>5, <2>1 DEF Evaluate, Answer, Settle
  <2>3. CASE op \notin BitwiseOps
    <3>1. BooleanAnswer(op, x, y) = Raised /\ BooleanAnswer(op, y, x) = Raised
      BY <1>1, <2>1, <2>3 DEF BooleanAnswer
    <3> QED
      BY <1>2, <2>2, <3>1
  <2>4. CASE op \in BitwiseOps /\ x.class = y.class
    <3>1. x.number \in Int /\ y.number \in Int
      BY OperandsAreIntegers
    <3>2. Exact(op, x.number, y.number) = Exact(op, y.number, x.number)
      BY <3>1, ExactTakesNoSide
    <3>3. op \notin SumOps /\ op \notin {"//", "%"} \cup {"**"} \cup ShiftOps
      BY <2>4 DEF SumOps, BitwiseOps, ShiftOps
    <3>4. \A u, v : Exact(op, u, v) = Bitwise(op, u, v)
      BY <2>4, <3>3 DEF Exact
    <3>5. BooleanAnswer(op, x, y) = BooleanAnswer(op, y, x)
      BY <1>1, <1>5, <2>1, <2>4, <3>2, <3>4 DEF BooleanAnswer
    <3> QED
      BY <1>2, <2>2, <3>5
  <2>5. CASE op \in BitwiseOps /\ x.class # y.class
    <3>1. ~ IsSubclass(y.class, x.class) \/ ~ IsSubclass(x.class, y.class)
      BY <1>1, <2>1, <2>5, DerivationIsOneWay
    <3>2. ~ IsSubclass(y.class, x.class) => Evaluate(op, x, y) = Raised
      BY <1>2, <2>1 DEF BooleanAnswer, Settle
    <3>3. ~ IsSubclass(x.class, y.class) => Evaluate(op, y, x) = Raised
      BY <1>1, <2>2 DEF BooleanAnswer, Settle
    <3> QED
      BY <1>5, <2>5, <3>1, <3>2, <3>3 DEF BitAndItsKind
  <2> QED
    BY <2>3, <2>4, <2>5
<1> QED
  <2>1. y.class \in Ids => y.class \in Numeric
    BY OperandsAreNumbers DEF Operands
  <2> QED
    BY <1>3, <1>4, <1>5, <2>1 DEF Numeric

(* Whether two operands compare is asked of either alike. *)
LEMMA ComparabilityTakesNoSide ==
  ASSUME IInv, NEW x \in Values, NEW y \in Values, x.class \in Numeric, y.class \in Numeric
  PROVE  Comparable(x, y) <=> Comparable(y, x)
<1>1. UintIds \cap BooleanIds = {} /\ Raised.class \notin Ids /\ Declined.class \notin Ids
  BY ClassesAreNoMarks
<1>2. \A u, v \in Numeric : Numeric \subseteq Ids /\ u \notin {PlainInt, Thing}
  BY ClassesAreNoMarks
<1>3. CASE x.class \in UintIds /\ y.class \in UintIds
  BY <1>1, <1>3, ResolutionTakesNoSide DEF Comparable, RequireRelation
<1>4. CASE x.class \in BooleanIds /\ y.class \in BooleanIds
  BY <1>4 DEF Comparable
<1>5. CASE x.class \in UintIds /\ y.class \in BooleanIds
  <2>1. ResolveType(x.class, y) = Raised.class
    BY <1>1, <1>2, <1>5 DEF ResolveType
  <2>. QED
    BY <1>1, <1>5, <2>1 DEF Comparable, RequireRelation
<1>6. CASE x.class \in BooleanIds /\ y.class \in UintIds
  <2>1. ResolveType(y.class, x) = Raised.class
    BY <1>1, <1>2, <1>6 DEF ResolveType
  <2>. QED
    BY <1>1, <1>6, <2>1 DEF Comparable, RequireRelation
<1>. QED
  BY <1>3, <1>4, <1>5, <1>6 DEF Numeric

(* The numbers of the two sides are ordered one way. *)
LEMMA OrderTakesNoSide ==
  ASSUME NEW x \in Int, NEW y \in Int
  PROVE  /\ Ordered("==", x, y) = Ordered("==", y, x)
         /\ Ordered("<", x, y) = Ordered(">", y, x)
         /\ Ordered("<=", x, y) = Ordered(">=", y, x)
BY DEF Ordered

(* A comparison is answered alike, or refused, from both sides. *)
LEMMA ComparisonTakesNoSide ==
  ASSUME IInv, NEW x \in Values, NEW y \in Values \cup Plain \cup Things
  PROVE  /\ Compare("==", x, y) = Compare("==", y, x)
         /\ Compare("<", x, y) = Compare(">", y, x)
         /\ Compare("<=", x, y) = Compare(">=", y, x)
<1>1. x.number \in Int /\ y.number \in Int
  BY OperandsAreIntegers
<1>2. x.class \in Ids /\ x.class \in Numeric
  BY ValuesAreOfClasses, ClassesAreNoMarks
<1>3. CASE y.class \notin Ids
  BY <1>1, <1>2, <1>3, OrderTakesNoSide DEF Compare
<1>4. CASE y.class \in Ids
  <2>1. y.class \in Numeric /\ y \in Values
    <3>1. y \notin Plain \cup Things
      BY <1>4, ClassesAreNoMarks DEF Plain, Things, Held
    <3>. QED
      BY <1>4, <3>1, OperandsAreNumbers DEF Operands
  <2>2. Comparable(x, y) <=> Comparable(y, x)
    BY <1>2, <2>1, ComparabilityTakesNoSide
  <2>. QED
    BY <1>1, <1>2, <2>2, OrderTakesNoSide DEF Compare
<1>. QED
  BY <1>3, <1>4

(* Of numbers of declared classes and plain integers, which stands on the   *)
(* left decides no sum, product, bitwise operator or comparison, nor its   *)
(* refusal (the reflected operators of uint.py), but for bits of a class   *)
(* and of its subclass, which one side may refuse (boolean.py:293).        *)
THEOREM SidesTheorem == NumbersSpec => []SidesAgree
<1>1. NumbersInv => SidesAgree
  <2> SUFFICES ASSUME IInv, NEW x \in Values, NEW y \in Values \cup Plain \cup Things
               PROVE  /\ \A op \in BitwiseOps \cup {"+", "*"} :
                           \/ Evaluate(op, x, y) = Evaluate(op, y, x)
                           \/ /\ BitAndItsKind(x.class, y.class)
                              /\ Raised \in {Evaluate(op, x, y), Evaluate(op, y, x)}
                      /\ Compare("==", x, y) = Compare("==", y, x)
                      /\ Compare("<", x, y) = Compare(">", y, x)
                      /\ Compare("<=", x, y) = Compare(">=", y, x)
    BY DEF NumbersInv, SidesAgree
  <2>1. x.class \in Numeric
    BY ValuesAreOfClasses
  <2> QED
    BY <2>1, EvaluationTakesNoSide, BitsTakeNoSide, ComparisonTakesNoSide DEF Numeric
<1>. QED
  BY <1>1, NumbersInductive, PTL DEF NumbersSpec
=============================================================================

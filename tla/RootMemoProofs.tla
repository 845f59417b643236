-------------------------- MODULE RootMemoProofs ---------------------------
(***************************************************************************)
(* Theorems of RootMemo, for every value graph of its three levels and     *)
(* every bound.  The argument: a step raises the version of what it begins *)
(* to change, so a witnessed pair goes on describing its value (MemosKept);*)
(* a hit then hands back the root the contents have, and every step of     *)
(* RootMemo is a step of RootService.                                      *)
(***************************************************************************)
EXTENDS RootMemo, SequenceTheorems, TLAPS

(***************************************************************************)
(* What one step may do to one value, so that no pair witnessed of it goes *)
(* wrong: raise its version, or write it while its mutation is open, or    *)
(* leave it alone.                                                         *)
(***************************************************************************)
Respects(ver, dat, busy, ver2, dat2, busy2, o) ==
  \/ ver2[o] = ver[o] + 1
  \/ ver2[o] = ver[o] /\ o \in busy
  \/ ver2[o] = ver[o] /\ dat2[o] = dat[o] /\ o \notin busy2

(* A packed value's memo survives steps that write it only inside an open  *)
(* mutation and raise its version to open one.                             *)
LEMMA PackedStaysKept ==
  ASSUME NEW ver, NEW dat, NEW busy, NEW ver2, NEW dat2, NEW busy2, NEW p, NEW w, NEW r,
         ver[p] \in Nat, Respects(ver, dat, busy, ver2, dat2, busy2, p),
         PackedKept(ver, dat, busy, p, w, r)
  PROVE  PackedKept(ver2, dat2, busy2, p, w, r)
  BY DEF Respects, PackedKept

(* The same for a list, whose elements must be respected too. *)
LEMMA ListStaysKept ==
  ASSUME NEW ver, NEW dat, NEW busy, NEW ver2, NEW dat2, NEW busy2, NEW s, NEW w, NEW r,
         ver[s] \in Nat, Respects(ver, dat, busy, ver2, dat2, busy2, s),
         \A i \in DOMAIN dat[s] : /\ ver[dat[s][i]] \in Nat
                                  /\ Respects(ver, dat, busy, ver2, dat2, busy2, dat[s][i]),
         ListKept(ver, dat, busy, s, w, r)
  PROVE  ListKept(ver2, dat2, busy2, s, w, r)
<1>1. w.version \in Nat /\ w.version <= ver2[s]
  BY DEF Respects, ListKept
<1>2. ASSUME w.version = ver2[s]
      PROVE  /\ dat2[s] = dat[s] /\ s \notin busy2
             /\ r = [i \in DOMAIN dat[s] |-> r[i]]
             /\ \A i \in DOMAIN dat[s] : PackedKept(ver, dat, busy, dat[s][i], w.parts[i], r[i])
  BY <1>2 DEF Respects, ListKept
<1>3. ASSUME w.version = ver2[s], NEW i \in DOMAIN dat[s]
      PROVE  PackedKept(ver2, dat2, busy2, dat[s][i], w.parts[i], r[i])
  BY <1>2, <1>3, PackedStaysKept
<1> QED
  BY <1>1, <1>2, <1>3 DEF ListKept

(* The same for a struct, over its fields and the elements of its list     *)
(* fields.                                                                 *)
LEMMA StructStaysKept ==
  ASSUME NEW ver, NEW dat, NEW busy, NEW ver2, NEW dat2, NEW busy2, NEW t, NEW w, NEW r,
         ver[t] \in Nat, Respects(ver, dat, busy, ver2, dat2, busy2, t),
         \A f \in NestedFields : /\ ver[dat[t][f]] \in Nat
                                 /\ Respects(ver, dat, busy, ver2, dat2, busy2, dat[t][f]),
         \A f \in ListFields : \A i \in DOMAIN dat[dat[t][f]] :
           /\ ver[dat[dat[t][f]][i]] \in Nat
           /\ Respects(ver, dat, busy, ver2, dat2, busy2, dat[dat[t][f]][i]),
         StructKept(ver, dat, busy, t, w, r)
  PROVE  StructKept(ver2, dat2, busy2, t, w, r)
<1>1. w.version \in Nat /\ w.version <= ver2[t]
  BY DEF Respects, StructKept
<1>2. ASSUME w.version = ver2[t]
      PROVE  /\ dat2[t] = dat[t] /\ t \notin busy2
             /\ r = [f \in Field |-> r[f]]
             /\ \A f \in LeafFields : r[f] = dat[t][f]
             /\ \A f \in PackedFields : PackedKept(ver, dat, busy, dat[t][f], w.parts[f], r[f])
             /\ \A f \in ListFields : ListKept(ver, dat, busy, dat[t][f], w.parts[f], r[f])
  BY <1>2 DEF Respects, StructKept
<1>3. ASSUME w.version = ver2[t], NEW f \in PackedFields
      PROVE  PackedKept(ver2, dat2, busy2, dat[t][f], w.parts[f], r[f])
  BY <1>2, <1>3, PackedStaysKept DEF NestedFields
<1>4. ASSUME w.version = ver2[t], NEW f \in ListFields
      PROVE  ListKept(ver2, dat2, busy2, dat[t][f], w.parts[f], r[f])
  BY <1>2, <1>4, ListStaysKept DEF NestedFields
<1> QED
  BY <1>1, <1>2, <1>3, <1>4 DEF StructKept

---------------------------------------------------------------------------
(* Types. *)

(* What a live value holds is live. *)
LEMMA LiveBeneath ==
  ASSUME TypeOK
  PROVE  /\ \A s \in live \cap Lists : \A i \in DOMAIN data[s] : data[s][i] \in Packed \cap live
         /\ \A t \in live \cap Structs :
              /\ \A f \in LeafFields : data[t][f] \in Byte
              /\ \A f \in PackedFields : data[t][f] \in Packed \cap live
              /\ \A f \in ListFields : data[t][f] \in Lists \cap live
<1>1. \A s \in live \cap Lists : data[s] \in Seq(Packed \cap live)
  BY DEF TypeOK, Admits
<1>2. \A s \in live \cap Lists : \A i \in DOMAIN data[s] : data[s][i] \in Packed \cap live
  BY <1>1
<1>3. \A t \in live \cap Structs : \A f \in Field : data[t][f] \in FieldCells(live, f)
  BY DEF TypeOK, Admits, StructContents
<1> QED
  BY <1>2, <1>3, KindsAssumption DEF FieldCells, Field

(* What a class admits it goes on admitting as values come to live. *)
LEMMA AdmitsGrows ==
  ASSUME NEW alive, NEW alive2, alive \subseteq alive2
  PROVE  /\ \A o, d : Admits(alive, o, d) => Admits(alive2, o, d)
         /\ WorkingCopies(alive) \subseteq WorkingCopies(alive2)
<1>1. Seq(Packed \cap alive) \subseteq Seq(Packed \cap alive2)
  BY SeqMonotonic
<1>2. StructContents(alive) \subseteq StructContents(alive2)
  BY DEF StructContents, FieldCells
<1> QED
  BY <1>1, <1>2 DEF Admits, WorkingCopies

(* The innermost open mutation is of a live value, on a copy its type      *)
(* admits.                                                                 *)
LEMMA OpenTyped ==
  ASSUME TypeOK, open # <<>>
  PROVE  /\ Len(open) \in DOMAIN open
         /\ Current.object \in live \ Frozen
         /\ Current.object \in Object
         /\ Admits(live, Current.object, Current.working)
         /\ Admits(live, Current.object, data[Current.object])
<1>1. open \in Seq([object : live \ Frozen, working : WorkingCopies(live)])
  BY DEF TypeOK
<1>2. Len(open) \in 1..Len(open) /\ DOMAIN open = 1..Len(open)
  BY <1>1, EmptySeq, LenProperties
<1>3. Current \in [object : live \ Frozen, working : WorkingCopies(live)]
  BY <1>1, <1>2, ElementOfSeq DEF Current
<1> QED
  BY <1>2, <1>3 DEF TypeOK, Current

(* All of a sequence but its last item. *)
LEMMA FrontTyped ==
  ASSUME NEW S, NEW q \in Seq(S), q # <<>>
  PROVE  /\ SubSeq(q, 1, Len(q) - 1) \in Seq(S)
         /\ Len(SubSeq(q, 1, Len(q) - 1)) = Len(q) - 1
         /\ \A k \in DOMAIN SubSeq(q, 1, Len(q) - 1) :
              k \in DOMAIN q /\ SubSeq(q, 1, Len(q) - 1)[k] = q[k]
<1>1. /\ Len(q) \in Nat \ {0}
      /\ DOMAIN q = 1..Len(q)
      /\ \A i \in 1..Len(q) : q[i] \in S
  BY EmptySeq, LenProperties, ElementOfSeq
<1>2. /\ SubSeq(q, 1, Len(q) - 1) \in Seq(S)
      /\ Len(SubSeq(q, 1, Len(q) - 1)) = IF 1 <= Len(q) - 1 THEN Len(q) - 1 - 1 + 1 ELSE 0
      /\ \A i \in 1..(Len(q) - 1 - 1 + 1) : SubSeq(q, 1, Len(q) - 1)[i] = q[1 + i - 1]
  BY <1>1, SubSeqProperties
<1>3. DOMAIN SubSeq(q, 1, Len(q) - 1) = 1..(Len(q) - 1)
  BY <1>1, <1>2, LenProperties
<1> QED
  BY <1>1, <1>2, <1>3

(* Storing admissible contents keeps every value typed. *)
LEMMA FinishTypeOK ==
  ASSUME TypeOK, open # <<>>, NEW d, Admits(live, Current.object, d), Finish(d)
  PROVE  TypeOK'
<1> DEFINE c == Current.object
<1>1. c \in live \ Frozen /\ c \in Object
  BY OpenTyped
<1>2. DOMAIN data' = Object /\ \A o \in Object : data'[o] = IF o = c THEN d ELSE data[o]
  BY <1>1 DEF Finish, TypeOK
<1>3. \A o \in live : Admits(live, o, data'[o])
  BY <1>2 DEF TypeOK
<1>4. /\ open' \in Seq([object : live \ Frozen, working : WorkingCopies(live)])
      /\ \A k \in DOMAIN open' : k \in DOMAIN open /\ open'[k] = open[k]
  <2>1. open \in Seq([object : live \ Frozen, working : WorkingCopies(live)])
    BY DEF TypeOK
  <2>2. open' = SubSeq(open, 1, Len(open) - 1)
    BY DEF Finish
  <2> QED
    BY <2>1, <2>2, FrontTyped
<1>5. UNCHANGED <<live, version, memo>>
  BY DEF Finish
<1> QED
  BY <1>2, <1>3, <1>4, <1>5 DEF TypeOK

(* A collection admits the sequences of its own cells. *)
LEMMA CollectionAdmits ==
  ASSUME NEW o \in Packed \cup Lists, NEW d
  PROVE  Admits(live, o, d) <=> d \in Seq(Cells(o))
  BY KindsAssumption DEF Admits, Cells

(* What a collection's mutation works on is a sequence of its cells. *)
LEMMA BaseTyped ==
  ASSUME TypeOK, InCollection
  PROVE  /\ Current.object \in Packed \cup Lists
         /\ Base \in Seq(Cells(Current.object))
  BY OpenTyped, CollectionAdmits DEF InCollection, Base

(* A tuple is a sequence of its length. *)
LEMMA TupleTyped ==
  ASSUME NEW S, NEW n \in Nat, NEW q \in [1..n -> S]
  PROVE  q \in Seq(S) /\ Len(q) = n
  OBVIOUS

(* Replacing a slice yields a sequence of the expected length. *)
LEMMA SpliceTyped ==
  ASSUME NEW S, NEW q \in Seq(S), NEW new \in Seq(S),
         NEW lo \in 0..Len(q), NEW hi \in lo..Len(q)
  PROVE  /\ SubSeq(q, 1, lo) \o new \o SubSeq(q, hi + 1, Len(q)) \in Seq(S)
         /\ Len(SubSeq(q, 1, lo) \o new \o SubSeq(q, hi + 1, Len(q)))
              = Len(q) - (hi - lo) + Len(new)
<1>1. Len(q) \in Nat /\ Len(new) \in Nat /\ \A i \in 1..Len(q) : q[i] \in S
  BY LenProperties, ElementOfSeq
<1>2. lo \in Nat /\ hi \in Nat /\ lo <= hi /\ hi <= Len(q)
  BY <1>1
<1> DEFINE kept == SubSeq(q, 1, lo)
           rest == SubSeq(q, hi + 1, Len(q))
           spliced == kept \o new \o rest
<1>3. kept \in Seq(S) /\ Len(kept) = lo
  BY <1>1, <1>2, SubSeqProperties
<1>4. rest \in Seq(S) /\ Len(rest) = Len(q) - hi
  BY <1>1, <1>2, SubSeqProperties
<1> HIDE DEF kept, rest
<1>5. kept \o new \in Seq(S) /\ Len(kept \o new) = lo + Len(new)
  BY <1>3, ConcatProperties
<1>6. spliced \in Seq(S) /\ Len(spliced) = Len(kept \o new) + Len(rest)
  BY <1>4, <1>5, ConcatProperties
<1> HIDE DEF spliced
<1>7. spliced \in Seq(S) /\ Len(spliced) = Len(q) - (hi - lo) + Len(new)
  BY <1>1, <1>2, <1>4, <1>5, <1>6
<1> QED
  BY <1>7 DEF spliced, kept, rest

(* What each writer of a collection stores is typed, and is as long as it checks. *)
LEMMA ContentsTyped ==
  ASSUME NEW o, NEW d \in Contents(o)
  PROVE  d \in Seq(Cells(o)) /\ ValidLength(o, Len(d))
<1>1. PICK n \in 0..Limit(o) : d \in [1..n -> Cells(o)] /\ ValidLength(o, Len(d))
  BY DEF Contents
<1>2. n \in Nat
  BY <1>1, BoundsAssumption DEF Limit
<1> QED
  BY <1>1, <1>2, TupleTyped

(* Every way a mutation can end keeps every value typed. *)
LEMMA FinishersTypeOK ==
  ASSUME TypeOK, SetItem \/ SetSlice \/ AppendItem \/ AssignData \/ SetField
  PROVE  TypeOK'
<1> DEFINE c == Current.object
<1>1. CASE SetItem
  <2>1. PICK i \in DOMAIN Base, v \in Cells(c) : Finish([Base EXCEPT ![i] = v])
    BY <1>1 DEF SetItem
  <2>2. InCollection /\ open # <<>>
    BY <1>1 DEF SetItem, InCollection
  <2>3. [Base EXCEPT ![i] = v] \in Seq(Cells(c))
    BY <2>2, BaseTyped, LenProperties, ExceptSeq
  <2> QED
    BY <2>1, <2>2, <2>3, BaseTyped, CollectionAdmits, FinishTypeOK
<1>2. CASE SetSlice
  <2>1. InCollection /\ open # <<>>
    BY <1>2 DEF SetSlice, InCollection
  <2>2. PICK lo \in 0..Len(Base) : \E hi \in lo..Len(Base) :
          \E n \in 0..Limit(c) : \E new \in [1..n -> Cells(c)] :
            Finish(SubSeq(Base, 1, lo) \o new \o SubSeq(Base, hi + 1, Len(Base)))
    BY <1>2 DEF SetSlice
  <2>3a. PICK hi \in lo..Len(Base), n \in 0..Limit(c) : \E new \in [1..n -> Cells(c)] :
          Finish(SubSeq(Base, 1, lo) \o new \o SubSeq(Base, hi + 1, Len(Base)))
    BY <2>2
  <2>3. PICK new \in [1..n -> Cells(c)] :
          Finish(SubSeq(Base, 1, lo) \o new \o SubSeq(Base, hi + 1, Len(Base)))
    BY <2>3a
  <2>4. n \in Nat
    BY BoundsAssumption DEF Limit
  <2>5. new \in Seq(Cells(c))
    BY <2>4, TupleTyped
  <2>6. SubSeq(Base, 1, lo) \o new \o SubSeq(Base, hi + 1, Len(Base)) \in Seq(Cells(c))
    BY <2>1, <2>5, BaseTyped, SpliceTyped
  <2> QED
    BY <2>1, <2>3, <2>6, BaseTyped, CollectionAdmits, FinishTypeOK
<1>3. CASE AppendItem
  <2>1. InCollection /\ open # <<>>
    BY <1>3 DEF AppendItem, InCollection
  <2>2. PICK v \in Cells(c) : Finish(Append(Base, v))
    BY <1>3 DEF AppendItem
  <2>3. Append(Base, v) \in Seq(Cells(c))
    BY <2>1, BaseTyped, AppendProperties
  <2> QED
    BY <2>1, <2>2, <2>3, BaseTyped, CollectionAdmits, FinishTypeOK
<1>4. CASE AssignData
  <2>1. InCollection /\ open # <<>>
    BY <1>4 DEF AssignData, InCollection
  <2>2. PICK d \in Contents(c) : Finish(d)
    BY <1>4 DEF AssignData
  <2> QED
    BY <2>1, <2>2, BaseTyped, ContentsTyped, CollectionAdmits, FinishTypeOK
<1>5. CASE SetField
  <2>1. open # <<>> /\ c \in Structs
    BY <1>5 DEF SetField
  <2>2. PICK base \in {Current.working, data[c]}, f \in Field :
          \E v \in FieldCells(live, f) : Finish([base EXCEPT ![f] = v])
    BY <1>5 DEF SetField
  <2>3. PICK v \in FieldCells(live, f) : Finish([base EXCEPT ![f] = v])
    BY <2>2
  <2>4. base \in StructContents(live)
    BY <2>1, <2>2, OpenTyped DEF Admits
  <2>5. v \in Byte \cup live
    BY KindsAssumption DEF FieldCells
  <2>6. [base EXCEPT ![f] = v] \in StructContents(live)
    BY <2>4, <2>5 DEF StructContents
  <2>7. Admits(live, c, [base EXCEPT ![f] = v])
    BY <2>1, <2>6, KindsAssumption DEF Admits
  <2> QED
    BY <2>1, <2>3, <2>7, FinishTypeOK
<1> QED
  BY <1>1, <1>2, <1>3, <1>4, <1>5

(* Opening a mutation keeps every value typed. *)
LEMMA BeginTypeOK ==
  ASSUME TypeOK, NEW o \in Object, Begin(o)
  PROVE  TypeOK'
<1> DEFINE e == [object |-> o, working |-> data[o]]
<1>1. o \in live \ Frozen /\ Admits(live, o, data[o])
  BY DEF Begin, TypeOK
<1>2. data[o] \in WorkingCopies(live)
  BY <1>1 DEF Admits, WorkingCopies, Object
<1>3. /\ open \in Seq([object : live \ Frozen, working : WorkingCopies(live)])
      /\ e \in [object : live \ Frozen, working : WorkingCopies(live)]
  BY <1>1, <1>2 DEF TypeOK
<1>4. open' = Append(open, e) /\ UNCHANGED <<live, data, memo>>
  BY DEF Begin
<1>5. /\ open' \in Seq([object : live \ Frozen, working : WorkingCopies(live)])
      /\ Len(open') = Len(open) + 1 /\ DOMAIN open = 1..Len(open) /\ Len(open) \in Nat
      /\ DOMAIN open' = 1..Len(open')
      /\ \A i \in 1..Len(open) : open'[i] = open[i]
      /\ open'[Len(open) + 1] = e
  BY <1>3, <1>4, AppendProperties, LenProperties
<1>6. \A k \in DOMAIN open' : Admits(live, open'[k].object, open'[k].working)
  BY <1>1, <1>5 DEF TypeOK
<1>7. version' \in [Object -> Nat]
  BY DEF Begin, TypeOK
<1> QED
  BY <1>4, <1>5, <1>6, <1>7 DEF TypeOK

(* A refused write keeps every value typed. *)
LEMMA RefuseWriteTypeOK ==
  ASSUME TypeOK, RefuseWrite
  PROVE  TypeOK'
<1>1. /\ open \in Seq([object : live \ Frozen, working : WorkingCopies(live)]) /\ open # <<>>
      /\ open' = SubSeq(open, 1, Len(open) - 1)
      /\ UNCHANGED <<live, data, version, memo>>
  BY DEF TypeOK, RefuseWrite
<1>2. /\ open' \in Seq([object : live \ Frozen, working : WorkingCopies(live)])
      /\ \A k \in DOMAIN open' : k \in DOMAIN open /\ open'[k] = open[k]
  BY <1>1, FrontTyped
<1> QED
  BY <1>1, <1>2 DEF TypeOK

(* Steps that write one collection and leave open and live as they are. *)
LEMMA RewriteTypeOK ==
  ASSUME TypeOK, NEW o \in live \cap (Packed \cup Lists), NEW d \in Seq(Cells(o)),
         data' = [data EXCEPT ![o] = d], version' \in [Object -> Nat],
         UNCHANGED <<live, memo, open>>
  PROVE  TypeOK'
<1>1. Admits(live, o, d)
  BY CollectionAdmits
<1>2. DOMAIN data' = Object /\ \A x \in live : Admits(live, x, data'[x])
  BY <1>1 DEF TypeOK
<1> QED
  BY <1>2 DEF TypeOK

(* Popping keeps every value typed. *)
LEMMA PopTypeOK ==
  ASSUME TypeOK, NEW o \in Object, Pop(o)
  PROVE  TypeOK'
<1> DEFINE d == IF data[o] = <<>> THEN data[o] ELSE SubSeq(data[o], 1, Len(data[o]) - 1)
<1>1. o \in live \cap (Packed \cup Lists)
  BY DEF Pop
<1>2. data[o] \in Seq(Cells(o))
  BY <1>1, CollectionAdmits DEF TypeOK
<1>3. d \in Seq(Cells(o))
  BY <1>2, FrontTyped
<1>4. data' = [data EXCEPT ![o] = d]
  BY DEF Pop
<1>5. version' \in [Object -> Nat] /\ UNCHANGED <<live, memo, open>>
  BY DEF Pop, TypeOK
<1> QED
  BY <1>1, <1>3, <1>4, <1>5, RewriteTypeOK

(* Writing behind the mutators keeps every value typed. *)
LEMMA DirectWriteTypeOK ==
  ASSUME TypeOK, NEW o \in Object, DirectWrite(o)
  PROVE  TypeOK'
<1>1. PICK n \in 0..Limit(o) : \E d \in [1..n -> Cells(o)] : data' = [data EXCEPT ![o] = d]
  BY DEF DirectWrite
<1>2. PICK d \in [1..n -> Cells(o)] : data' = [data EXCEPT ![o] = d]
  BY <1>1
<1>3. n \in Nat
  BY BoundsAssumption DEF Limit
<1>4. d \in Seq(Cells(o))
  BY <1>3, TupleTyped
<1>5. o \in live \cap (Packed \cup Lists) /\ UNCHANGED <<live, memo, open>>
  BY DEF DirectWrite
<1>6. version' \in [Object -> Nat]
  BY DEF TypeOK, DirectWrite
<1> QED
  BY <1>2, <1>4, <1>5, <1>6, RewriteTypeOK

(* Rooting, and refusing to root, keep every value typed. *)
LEMMA RootTypeOK ==
  ASSUME TypeOK, NEW o \in Object, HashTreeRoot(o) \/ RefuseStale(o)
  PROVE  TypeOK'
<1>1. UNCHANGED <<live, data, version, open>> /\ DOMAIN memo' = Object
  BY DEF HashTreeRoot, RefuseStale, Remember
<1> QED
  BY <1>1 DEF TypeOK

(* New values, typed over everything then live, leave the rest as it was. *)
LEMMA AllocateTypeOK ==
  ASSUME TypeOK, NEW new, DOMAIN new \subseteq Object, Allocate(new),
         \A x \in DOMAIN new : Admits(live', x, new[x])
  PROVE  TypeOK'
<1>1. /\ live' = live \cup DOMAIN new /\ open' = open
      /\ data' = [o \in Object |-> IF o \in DOMAIN new THEN new[o] ELSE data[o]]
      /\ DOMAIN memo' = Object
  BY DEF Allocate
<1>2. \A o \in live' : Admits(live', o, data'[o])
  <2> SUFFICES ASSUME NEW o \in live' PROVE Admits(live', o, data'[o])
    OBVIOUS
  <2>1. CASE o \in DOMAIN new
    BY <1>1, <2>1
  <2>2. CASE o \notin DOMAIN new
    <3>1. o \in live /\ o \in Object /\ data'[o] = data[o]
      BY <1>1, <2>2 DEF TypeOK
    <3>2. Admits(live, o, data[o])
      BY <3>1 DEF TypeOK
    <3> QED
      BY <1>1, <3>1, <3>2, AdmitsGrows
  <2> QED
    BY <2>1, <2>2
<1>3. version' \in [Object -> Nat]
  BY DEF TypeOK, Allocate
<1>4. open' \in Seq([object : live' \ Frozen, working : WorkingCopies(live')])
  <2>1. WorkingCopies(live) \subseteq WorkingCopies(live')
    BY <1>1, AdmitsGrows
  <2>2. [object : live \ Frozen, working : WorkingCopies(live)]
          \subseteq [object : live' \ Frozen, working : WorkingCopies(live')]
    BY <1>1, <2>1
  <2>3. open \in Seq([object : live \ Frozen, working : WorkingCopies(live)])
    BY DEF TypeOK
  <2> QED
    BY <1>1, <2>2, <2>3, SeqMonotonic
<1>5. \A k \in DOMAIN open' : Admits(live', open'[k].object, open'[k].working)
  <2> SUFFICES ASSUME NEW k \in DOMAIN open PROVE Admits(live', open[k].object, open[k].working)
    BY <1>1
  <2>1. Admits(live, open[k].object, open[k].working)
    BY DEF TypeOK
  <2> QED
    BY <1>1, <2>1, AdmitsGrows
<1>6. live' \subseteq Object /\ DOMAIN data' = Object
  BY <1>1 DEF TypeOK
<1> QED
  BY <1>1, <1>2, <1>3, <1>4, <1>5, <1>6 DEF TypeOK

(* What Construct and Copy bring to live is new, typed over what is then live, *)
(* and as long as declared if what was copied is.                              *)
Newcomers(new) ==
  /\ DOMAIN new \subseteq Object \ live
  /\ Allocate(new)
  /\ \A x \in DOMAIN new : Admits(live \cup DOMAIN new, x, new[x])
  /\ CapacityKept => \A x \in DOMAIN new \ Structs : ValidLength(x, Len(new[x]))

(* Values of one class have one capacity. *)
LEMMA SameClassSameLength ==
  ASSUME NEW x, NEW y, NEW n, SameClass(x, y),
         (x \in Packed /\ y \in Packed) \/ (x \in Lists /\ y \in Lists), ValidLength(x, n)
  PROVE  ValidLength(y, n)
  BY KindsAssumption DEF SameClass, ValidLength, Limit

(* Construction adds values and disturbs none. *)
LEMMA ConstructNewcomers ==
  ASSUME TypeOK, NEW o \in Object, Construct(o)
  PROVE  \E new : Newcomers(new)
<1>1. PICK d \in IF o \in Structs THEN StructContents(live) ELSE Contents(o) :
        Allocate([x \in {o} |-> d])
  BY DEF Construct
<1>2. Admits(live, o, d)
  <2>1. CASE o \in Structs
    BY <1>1, <2>1, KindsAssumption DEF Admits
  <2>2. CASE o \notin Structs
    BY <1>1, <2>2, ContentsTyped, CollectionAdmits DEF Object
  <2> QED
    BY <2>1, <2>2
<1>3. Admits(live \cup {o}, o, d)
  BY <1>2, AdmitsGrows
<1> DEFINE new == [x \in {o} |-> d]
<1>4. o \notin Structs => ValidLength(o, Len(d))
  BY <1>1, ContentsTyped
<1>5. Newcomers(new)
  BY <1>1, <1>3, <1>4 DEF Construct, Newcomers
<1> QED
  BY <1>5

(* Copying a packed value adds values and disturbs none. *)
LEMMA CopyPackedNewcomers ==
  ASSUME TypeOK, NEW p \in live \cap Packed, CopyPacked(p)
  PROVE  \E new : Newcomers(new)
<1>1. PICK q \in Packed \ live : SameClass(p, q) /\ Allocate([x \in {q} |-> data[p]])
  BY DEF CopyPacked
<1>2. data[p] \in Seq(Byte)
  BY DEF TypeOK, Admits
<1> DEFINE new == [x \in {q} |-> data[p]]
<1>3. CapacityKept => ValidLength(q, Len(data[p]))
  BY <1>1, SameClassSameLength, KindsAssumption DEF CapacityKept
<1>4. Newcomers(new)
  BY <1>1, <1>2, <1>3, KindsAssumption DEF Newcomers, Admits, Object
<1> QED
  BY <1>4

(* Copying a list adds values and disturbs none. *)
LEMMA CopyListNewcomers ==
  ASSUME TypeOK, NEW s \in live \cap Lists, CopyList(s)
  PROVE  \E new : Newcomers(new)
<1>1. PICK twin \in Lists \ live, image \in Injection(DOMAIN data[s], Packed \ live) :
        /\ SameClass(s, twin)
        /\ \A i \in DOMAIN image : SameClass(data[s][i], image[i])
        /\ Allocate([x \in {twin} \cup Range(image) |->
                   IF x = twin THEN image
                   ELSE data[data[s][CHOOSE i \in DOMAIN image : image[i] = x]]])
  BY DEF CopyList
<1> DEFINE new == [x \in {twin} \cup Range(image) |->
                   IF x = twin THEN image
                   ELSE data[data[s][CHOOSE i \in DOMAIN image : image[i] = x]]]
<1>2. image \in [DOMAIN data[s] -> Packed \ live]
  BY DEF Injection
<1>3. Range(image) \subseteq Packed \ live
  BY <1>2 DEF Range
<1>4. Admits(live \cup DOMAIN new, twin, image)
  <2>1. data[s] \in Seq(Packed \cap live)
    BY DEF TypeOK, Admits
  <2>2. DOMAIN data[s] = 1..Len(data[s]) /\ Len(data[s]) \in Nat
    BY <2>1, LenProperties
  <2>3. image \in [1..Len(data[s]) -> Packed \cap (live \cup DOMAIN new)]
    BY <1>2, <2>2 DEF Range
  <2>4. image \in Seq(Packed \cap (live \cup DOMAIN new))
    BY <2>2, <2>3, TupleTyped
  <2> QED
    BY <2>4, KindsAssumption DEF Admits
<1>5. ASSUME NEW x \in Range(image)
      PROVE  Admits(live \cup DOMAIN new, x, new[x])
  <2>1. \E i \in DOMAIN image : image[i] = x
    BY DEF Range
  <2> DEFINE k == CHOOSE i \in DOMAIN image : image[i] = x
  <2>2. k \in DOMAIN data[s]
    BY <1>2, <2>1
  <2>3. data[s][k] \in Packed \cap live
    BY <2>2, LiveBeneath
  <2>4. data[data[s][k]] \in Seq(Byte)
    BY <2>3 DEF TypeOK, Admits
  <2>5. new[x] = data[data[s][k]]
    BY <1>3, KindsAssumption
  <2> QED
    BY <1>3, <2>4, <2>5, KindsAssumption DEF Admits
<1>6. CapacityKept => ValidLength(twin, Len(image))
  <2>1. data[s] \in Seq(Packed \cap live) /\ image \in Seq(Packed \cap (live \cup DOMAIN new))
    BY <1>4, KindsAssumption DEF TypeOK, Admits
  <2>2. Len(image) = Len(data[s])
    BY <1>2, <2>1, LenProperties
  <2> QED
    BY <1>1, <2>2, SameClassSameLength, KindsAssumption DEF CapacityKept
<1>7. ASSUME CapacityKept, NEW x \in Range(image)
      PROVE  ValidLength(x, Len(new[x]))
  <2>1. \E i \in DOMAIN image : image[i] = x
    BY DEF Range
  <2> DEFINE k == CHOOSE i \in DOMAIN image : image[i] = x
  <2>2. k \in DOMAIN data[s] /\ k \in DOMAIN image /\ image[k] = x
    BY <1>2, <2>1
  <2>3. data[s][k] \in Packed \cap live
    BY <2>2, LiveBeneath
  <2>4. ValidLength(data[s][k], Len(data[data[s][k]]))
    BY <1>7, <2>3, KindsAssumption DEF CapacityKept
  <2>5. SameClass(data[s][k], x)
    BY <1>1, <2>2
  <2>6. x \in Packed /\ new[x] = data[data[s][k]]
    BY <1>3, KindsAssumption
  <2> HIDE DEF k, new
  <2> QED
    BY <2>3, <2>4, <2>5, <2>6, SameClassSameLength
<1>8. Newcomers(new)
  BY <1>1, <1>3, <1>4, <1>5, <1>6, <1>7 DEF Newcomers, Object
<1> QED
  BY <1>8

(* The values a struct's slots hold are live packed values. *)
LEMMA HeldAtLive ==
  ASSUME TypeOK, NEW t \in live \cap Structs
  PROVE  \A slot \in Slots(t) : HeldAt(t, slot) \in Packed \cap live
<1>1. \A f \in PackedFields : HeldAt(t, <<f>>) \in Packed \cap live
  BY LiveBeneath DEF HeldAt
<1>2. \A f \in ListFields : \A i \in DOMAIN data[data[t][f]] :
        HeldAt(t, <<f, i>>) \in Packed \cap live
  BY LiveBeneath DEF HeldAt
<1> QED
  BY <1>1, <1>2 DEF Slots

(* Copying a struct adds values and disturbs none. *)
LEMMA CopyStructNewcomers ==
  ASSUME TypeOK, NEW t \in live \cap Structs, CopyStruct(t)
  PROVE  \E new : Newcomers(new)
<1> DEFINE New(twin, lists, image) ==
       [x \in {twin} \cup Range(lists) \cup Range(image) |->
         IF x = twin
           THEN [f \in Field |-> IF f \in LeafFields THEN data[t][f]
                                 ELSE IF f \in PackedFields THEN image[<<f>>]
                                 ELSE lists[f]]
         ELSE IF x \in Lists
           THEN LET f == CHOOSE g \in ListFields : lists[g] = x
                IN  [i \in DOMAIN data[data[t][f]] |-> image[<<f, i>>]]
         ELSE data[HeldAt(t, CHOOSE slot \in Slots(t) : image[slot] = x)]]
<1>1. PICK twin \in Structs \ live,
           lists \in Injection(ListFields, Lists \ live),
           image \in Injection(Slots(t), Packed \ live) :
        /\ \A f \in ListFields : SameClass(data[t][f], lists[f])
        /\ \A slot \in Slots(t) : SameClass(HeldAt(t, slot), image[slot])
        /\ Allocate(New(twin, lists, image))
  BY DEF CopyStruct
<1> DEFINE new == New(twin, lists, image)
           alive == live \cup DOMAIN new
<1>2. lists \in [ListFields -> Lists \ live] /\ image \in [Slots(t) -> Packed \ live]
  BY DEF Injection
<1>3. Range(lists) \subseteq Lists \ live /\ Range(image) \subseteq Packed \ live
  BY <1>2 DEF Range
<1>4. DOMAIN new = {twin} \cup Range(lists) \cup Range(image)
  OBVIOUS
<1>5. /\ \A f \in PackedFields : image[<<f>>] \in Packed \cap alive
      /\ \A f \in ListFields : lists[f] \in Lists \cap alive
      /\ \A f \in ListFields : \A i \in DOMAIN data[data[t][f]] :
           image[<<f, i>>] \in Packed \cap alive
  <2>1. \A slot \in Slots(t) : image[slot] \in Packed \cap alive
    BY <1>2, <1>4 DEF Range
  <2>2. \A f \in ListFields : lists[f] \in Lists \cap alive
    BY <1>2, <1>4 DEF Range
  <2> QED
    BY <2>1, <2>2 DEF Slots
<1>6. Admits(alive, twin, new[twin])
  <2> DEFINE fields == [f \in Field |-> IF f \in LeafFields THEN data[t][f]
                                        ELSE IF f \in PackedFields THEN image[<<f>>]
                                        ELSE lists[f]]
  <2>1. new[twin] = fields
    OBVIOUS
  <2>2. \A f \in Field : fields[f] \in FieldCells(alive, f)
    BY <1>5, LiveBeneath DEF FieldCells, Field
  <2>3. fields \in [Field -> Byte \cup alive]
    BY <2>2, KindsAssumption DEF FieldCells
  <2>4. fields \in StructContents(alive)
    BY <2>2, <2>3 DEF StructContents
  <2> QED
    BY <2>1, <2>4, KindsAssumption DEF Admits
<1>7. ASSUME NEW x \in Range(lists)
      PROVE  Admits(alive, x, new[x]) /\ (CapacityKept => ValidLength(x, Len(new[x])))
  <2> DEFINE f == CHOOSE g \in ListFields : lists[g] = x
             elements == [i \in DOMAIN data[data[t][f]] |-> image[<<f, i>>]]
  <2>1. f \in ListFields
    BY <1>2 DEF Range
  <2>2. data[data[t][f]] \in Seq(Packed \cap live)
    BY <2>1, LiveBeneath DEF TypeOK, Admits
  <2>3. DOMAIN data[data[t][f]] = 1..Len(data[data[t][f]]) /\ Len(data[data[t][f]]) \in Nat
    BY <2>2, LenProperties
  <2>4. elements \in [1..Len(data[data[t][f]]) -> Packed \cap alive]
    BY <1>5, <2>1, <2>3
  <2>5. elements \in Seq(Packed \cap alive)
    BY <2>3, <2>4, TupleTyped
  <2>6. x \in Lists /\ x # twin /\ new[x] = elements
    BY <1>3, <1>4, KindsAssumption
  <2>7. Admits(alive, x, new[x])
    BY <2>5, <2>6, KindsAssumption DEF Admits
  <2>8. ASSUME CapacityKept PROVE ValidLength(x, Len(new[x]))
    <3>1. Len(elements) = Len(data[data[t][f]])
      BY <2>3, <2>4, TupleTyped
    <3>2. SameClass(data[t][f], x) /\ data[t][f] \in Lists \cap live
      BY <1>1, <1>2, <2>1, LiveBeneath DEF Range
    <3>3. ValidLength(data[t][f], Len(data[data[t][f]]))
      BY <2>8, <3>2, KindsAssumption DEF CapacityKept
    <3> HIDE DEF f, elements, new
    <3> QED
      BY <2>6, <3>1, <3>2, <3>3, SameClassSameLength
  <2> QED
    BY <2>7, <2>8
<1>8. ASSUME NEW x \in Range(image)
      PROVE  Admits(alive, x, new[x]) /\ (CapacityKept => ValidLength(x, Len(new[x])))
  <2> DEFINE slot == CHOOSE s \in Slots(t) : image[s] = x
  <2>1. slot \in Slots(t)
    BY <1>2 DEF Range
  <2>2. HeldAt(t, slot) \in Packed \cap live
    BY <2>1, HeldAtLive
  <2>3. data[HeldAt(t, slot)] \in Seq(Byte)
    BY <2>2 DEF TypeOK, Admits
  <2>4. x \in Packed /\ x # twin /\ x \notin Lists /\ new[x] = data[HeldAt(t, slot)]
    BY <1>3, <1>4, KindsAssumption
  <2>5. Admits(alive, x, new[x])
    BY <2>3, <2>4, KindsAssumption DEF Admits
  <2>6. ASSUME CapacityKept PROVE ValidLength(x, Len(new[x]))
    <3>1. SameClass(HeldAt(t, slot), x)
      BY <1>1, <1>2, <2>1 DEF Range
    <3>2. ValidLength(HeldAt(t, slot), Len(data[HeldAt(t, slot)]))
      BY <2>2, <2>6, KindsAssumption DEF CapacityKept
    <3> HIDE DEF slot, new
    <3> QED
      BY <2>2, <2>4, <3>1, <3>2, SameClassSameLength
  <2> QED
    BY <2>5, <2>6
<1> HIDE DEF New
<1>9. Newcomers(new)
  BY <1>1, <1>3, <1>4, <1>6, <1>7, <1>8 DEF Newcomers, Object
<1> QED
  BY <1>9

(* Every step that adds values disturbs none. *)
LEMMA NewcomersArrive ==
  ASSUME TypeOK, NEW o \in Object, Construct(o) \/ Copy(o)
  PROVE  \E new : Newcomers(new)
<1>1. CASE Construct(o)
  BY <1>1, ConstructNewcomers
<1>2. CASE Copy(o)
  BY <1>2, CopyPackedNewcomers, CopyListNewcomers, CopyStructNewcomers DEF Copy
<1> QED
  BY <1>1, <1>2

(* Values added with admissible contents keep everything typed. *)
LEMMA NewcomersTypeOK ==
  ASSUME TypeOK, NEW new, Newcomers(new)
  PROVE  TypeOK'
<1>1. live' = live \cup DOMAIN new
  BY DEF Newcomers, Allocate
<1> QED
  BY <1>1, AllocateTypeOK DEF Newcomers

(* Nothing is live at first, so everything is typed. *)
LEMMA InitTypeOK == Init => TypeOK
<1> SUFFICES ASSUME Init PROVE TypeOK
  OBVIOUS
<1>1. open \in Seq([object : live \ Frozen, working : WorkingCopies(live)]) /\ DOMAIN open = {}
  BY EmptySeq DEF Init
<1> QED
  BY <1>1 DEF Init, ServiceInit, TypeOK

(* Every step keeps every value typed. *)
LEMMA StepTypeOK == TypeOK /\ [Next]_vars => TypeOK'
<1> SUFFICES ASSUME TypeOK, [Next]_vars PROVE TypeOK'
  OBVIOUS
<1>1. CASE \E o \in Object : Construct(o) \/ Copy(o)
  BY <1>1, NewcomersArrive, NewcomersTypeOK
<1>2. CASE \E o \in Object : Begin(o) \/ Pop(o) \/ DirectWrite(o)
  BY <1>2, BeginTypeOK, PopTypeOK, DirectWriteTypeOK
<1>3. CASE SetItem \/ SetSlice \/ AppendItem \/ AssignData \/ SetField
  BY <1>3, FinishersTypeOK
<1>4. CASE RefuseWrite
  BY <1>4, RefuseWriteTypeOK
<1>5. CASE \E o \in Object : HashTreeRoot(o) \/ RefuseStale(o)
  BY <1>5, RootTypeOK
<1>6. CASE UNCHANGED vars
  BY <1>6 DEF vars, TypeOK
<1> QED
  BY <1>1, <1>2, <1>3, <1>4, <1>5, <1>6 DEF Next

(* Every value holds what its shape declares, over live values only, in    *)
(* every reachable state: mutators, copies and refused writes included.    *)
THEOREM TypeCorrect == Spec => []TypeOK
<1>1. Init => TypeOK
  BY InitTypeOK
<1>2. TypeOK /\ [Next]_vars => TypeOK'
  BY StepTypeOK
<1> QED
  BY <1>1, <1>2, PTL DEF Spec

---------------------------------------------------------------------------
(* No stale root. *)

(* A witness that matches says the remembered root is that of the contents. *)
LEMMA KeptIsNotStale == TypeOK /\ MemosKept => NoStaleRoot
<1> SUFFICES ASSUME TypeOK, MemosKept, NEW o \in live, Hit(o)
             PROVE  memo[o].root = ColdRoot(o)
  BY DEF NoStaleRoot
<1> DEFINE w == memo[o].witness
           r == memo[o].root
<1>1. Kept(version, data, OpenObjects, o, w, r) /\ w = Witness(o)
  BY DEF Hit, MemosKept
<1> HIDE DEF w, r
<1>2. CASE o \in Packed
  <2>1. w = PackedWitness(o) /\ ColdRoot(o) = PackedRoot(o)
    BY <1>1, <1>2 DEF Witness, ColdRoot
  <2>2. PackedKept(version, data, OpenObjects, o, w, r)
    BY <1>1, <1>2 DEF Kept
  <2> QED
    BY <2>1, <2>2 DEF PackedKept, PackedWitness, PackedRoot, r
<1>3. CASE o \in Lists
  <2>1. w = ListWitness(o) /\ ColdRoot(o) = ListRoot(o)
    BY <1>1, <1>3, KindsAssumption DEF Witness, ColdRoot
  <2>2. ListKept(version, data, OpenObjects, o, w, r)
    BY <1>1, <1>3 DEF Kept
  <2>3. /\ r = [i \in DOMAIN data[o] |-> r[i]]
        /\ \A i \in DOMAIN data[o] : r[i] = data[data[o][i]]
    BY <2>1, <2>2 DEF ListKept, PackedKept, ListWitness, PackedWitness
  <2> QED
    BY <2>1, <2>3 DEF r, ListRoot, PackedRoot
<1>4. CASE o \in Structs
  <2>1. w = StructWitness(o) /\ ColdRoot(o) = StructRoot(o)
    BY <1>1, <1>4, KindsAssumption DEF Witness, ColdRoot
  <2>2. StructKept(version, data, OpenObjects, o, w, r)
    BY <1>1, <1>4 DEF Kept
  <2>3. /\ r = [f \in Field |-> r[f]]
        /\ \A f \in LeafFields : r[f] = data[o][f]
        /\ \A f \in PackedFields :
             PackedKept(version, data, OpenObjects, data[o][f], w.parts[f], r[f])
        /\ \A f \in ListFields :
             ListKept(version, data, OpenObjects, data[o][f], w.parts[f], r[f])
    BY <2>1, <2>2 DEF StructKept, StructWitness
  <2>4. \A f \in PackedFields : r[f] = PackedRoot(data[o][f])
    BY <2>1, <2>3 DEF StructWitness, NestedFields, PackedKept, PackedWitness, PackedRoot
  <2>5. ASSUME NEW f \in ListFields
        PROVE  r[f] = ListRoot(data[o][f])
    <3> DEFINE s == data[o][f]
    <3>1. w.parts[f] = ListWitness(s)
      BY <2>1, KindsAssumption DEF StructWitness, NestedFields
    <3>2. ListKept(version, data, OpenObjects, s, ListWitness(s), r[f])
      BY <2>3, <3>1
    <3>3. /\ r[f] = [i \in DOMAIN data[s] |-> r[f][i]]
          /\ \A i \in DOMAIN data[s] : r[f][i] = data[data[s][i]]
      BY <3>2 DEF ListKept, PackedKept, ListWitness, PackedWitness
    <3> QED
      BY <3>3 DEF ListRoot, PackedRoot
  <2>6. StructRoot(o) = [f \in Field |-> r[f]]
    BY <2>3, <2>4, <2>5, KindsAssumption DEF StructRoot, Field
  <2> QED
    BY <2>1, <2>3, <2>6 DEF r
<1> QED
  BY <1>2, <1>3, <1>4 DEF TypeOK, Object

(* With no stale root to reuse, or no reuse at all, rooting is rooting from cold. *)
LEMMA RootedIsCold ==
  ASSUME TypeOK, NoStaleRoot \/ Paranoid, NEW o \in live
  PROVE  Rooted(o) = ColdRoot(o)
<1>1. \A x \in live : Reused(x) => memo[x].root = ColdRoot(x)
  BY DEF Reused, NoStaleRoot
<1>2. \A p \in live \cap Packed : MemoPacked(p) = PackedRoot(p)
  BY <1>1 DEF MemoPacked, ColdRoot
<1>3. \A s \in live \cap Lists : MemoList(s) = ListRoot(s)
  <2> SUFFICES ASSUME NEW s \in live \cap Lists PROVE MemoList(s) = ListRoot(s)
    OBVIOUS
  <2>1. \A i \in DOMAIN data[s] : MemoPacked(data[s][i]) = PackedRoot(data[s][i])
    BY <1>2, LiveBeneath
  <2>2. ColdRoot(s) = ListRoot(s)
    BY KindsAssumption DEF ColdRoot
  <2> QED
    BY <1>1, <2>1, <2>2 DEF MemoList, ListRoot
<1>4. \A t \in live \cap Structs : MemoStruct(t) = StructRoot(t)
  <2> SUFFICES ASSUME NEW t \in live \cap Structs PROVE MemoStruct(t) = StructRoot(t)
    OBVIOUS
  <2>1. /\ \A f \in PackedFields : MemoPacked(data[t][f]) = PackedRoot(data[t][f])
        /\ \A f \in ListFields : MemoList(data[t][f]) = ListRoot(data[t][f])
    BY <1>2, <1>3, LiveBeneath
  <2>2. ColdRoot(t) = StructRoot(t)
    BY KindsAssumption DEF ColdRoot
  <2>3. CASE Reused(t)
    BY <1>1, <2>2, <2>3 DEF MemoStruct
  <2>4. CASE ~Reused(t)
    BY <2>1, <2>4 DEF MemoStruct, StructRoot, Field
  <2> QED
    BY <2>3, <2>4
<1> QED
  BY <1>2, <1>3, <1>4 DEF Rooted, ColdRoot, TypeOK, Object

(* What a call that finds nothing reusable remembers describes the value, as *)
(* long as no value beneath is being written.                                *)
LEMMA FreshIsKept ==
  ASSUME TypeOK, NEW o \in live, Reach(o) \cap OpenObjects = {}
  PROVE  Kept(version, data, OpenObjects, o, Witness(o), ColdRoot(o))
<1>1. \A p \in live \cap Packed : p \notin OpenObjects =>
        PackedKept(version, data, OpenObjects, p, PackedWitness(p), PackedRoot(p))
  BY DEF TypeOK, PackedKept, PackedWitness, PackedRoot
<1>2. ASSUME NEW s \in live \cap Lists, ({s} \cup ElementsOf(s)) \cap OpenObjects = {}
      PROVE  ListKept(version, data, OpenObjects, s, ListWitness(s), ListRoot(s))
  <2> DEFINE w == ListWitness(s)
             r == ListRoot(s)
  <2>1. \A i \in DOMAIN data[s] :
          /\ r[i] = PackedRoot(data[s][i]) /\ w.parts[i] = PackedWitness(data[s][i])
          /\ data[s][i] \in live \cap Packed /\ data[s][i] \notin OpenObjects
    BY <1>2, LiveBeneath DEF ListRoot, ListWitness, ElementsOf
  <2>2. w.version = version[s] /\ version[s] \in Nat /\ r = [i \in DOMAIN data[s] |-> r[i]]
    BY DEF ListRoot, ListWitness, TypeOK
  <2> HIDE DEF w, r
  <2>3. \A i \in DOMAIN data[s] :
          PackedKept(version, data, OpenObjects, data[s][i], w.parts[i], r[i])
    BY <1>1, <2>1
  <2>4. ListKept(version, data, OpenObjects, s, w, r)
    BY <1>2, <2>2, <2>3 DEF ListKept
  <2> QED
    BY <2>4 DEF w, r
<1>3. CASE o \in Packed
  BY <1>1, <1>3, KindsAssumption DEF Kept, Witness, ColdRoot, Reach
<1>4. CASE o \in Lists
  BY <1>2, <1>4, KindsAssumption DEF Kept, Witness, ColdRoot, Reach
<1>5. CASE o \in Structs
  <2> DEFINE w == StructWitness(o)
             r == StructRoot(o)
  <2>0. Reach(o) = {o} \cup PackedOf(o) \cup ListsOf(o) \cup UNION {ElementsOf(s) : s \in ListsOf(o)}
    BY <1>5, KindsAssumption DEF Reach
  <2>1. \A f \in PackedFields :
          /\ r[f] = PackedRoot(data[o][f]) /\ w.parts[f] = PackedWitness(data[o][f])
          /\ data[o][f] \in live \cap Packed /\ data[o][f] \notin OpenObjects
    BY <1>5, <2>0, LiveBeneath, KindsAssumption
       DEF StructRoot, StructWitness, PackedOf, Field, NestedFields
  <2>2. \A f \in ListFields :
          /\ r[f] = ListRoot(data[o][f]) /\ w.parts[f] = ListWitness(data[o][f])
          /\ data[o][f] \in live \cap Lists
          /\ ({data[o][f]} \cup ElementsOf(data[o][f])) \cap OpenObjects = {}
    BY <1>5, <2>0, LiveBeneath, KindsAssumption
       DEF StructRoot, StructWitness, ListsOf, Field, NestedFields
  <2>3. /\ w.version = version[o] /\ version[o] \in Nat /\ o \notin OpenObjects
        /\ r = [f \in Field |-> r[f]]
        /\ \A f \in LeafFields : r[f] = data[o][f]
    BY <2>0 DEF StructRoot, StructWitness, TypeOK, Field
  <2> HIDE DEF w, r
  <2>4. /\ \A f \in PackedFields :
             PackedKept(version, data, OpenObjects, data[o][f], w.parts[f], r[f])
        /\ \A f \in ListFields :
             ListKept(version, data, OpenObjects, data[o][f], w.parts[f], r[f])
    BY <1>1, <1>2, <2>1, <2>2
  <2>5. StructKept(version, data, OpenObjects, o, w, r)
    BY <2>3, <2>4 DEF StructKept
  <2>6. Witness(o) = w /\ ColdRoot(o) = r /\ o \notin Packed /\ o \notin Lists
    BY <1>5, KindsAssumption DEF w, r, Witness, ColdRoot
  <2> QED
    BY <2>5, <2>6 DEF Kept
<1> QED
  BY <1>3, <1>4, <1>5 DEF TypeOK, Object

(* A call is entered for live values only, each within reach of the first. *)
LEMMA VisitedIsReached ==
  ASSUME TypeOK, NEW o \in live
  PROVE  \A x \in Visited(o) : x \in live /\ Reach(x) \subseteq Reach(o)
<1>1. CASE o \in Packed
  BY <1>1 DEF Visited
<1>2. CASE o \in Lists
  <2>1. \A x \in ElementsOf(o) : x \in live \cap Packed
    BY <1>2, LiveBeneath DEF ElementsOf
  <2> QED
    BY <1>2, <2>1, KindsAssumption DEF Visited, VisitedByList, Reach
<1>3. CASE o \in Structs
  <2>1. \A x \in PackedOf(o) : x \in live \cap Packed
    BY <1>3, LiveBeneath DEF PackedOf
  <2>2. \A s \in ListsOf(o) : s \in live \cap Lists
    BY <1>3, LiveBeneath DEF ListsOf
  <2>3. \A s \in ListsOf(o) : \A x \in ElementsOf(s) : x \in live \cap Packed
    BY <2>2, LiveBeneath DEF ElementsOf
  <2>4. /\ Visited(o) \subseteq {o} \cup PackedOf(o) \cup UNION {VisitedByList(s) : s \in ListsOf(o)}
        /\ Reach(o) = {o} \cup PackedOf(o) \cup ListsOf(o)
                          \cup UNION {ElementsOf(s) : s \in ListsOf(o)}
    BY <1>3, KindsAssumption DEF Visited, Reach
  <2>5. ASSUME NEW x \in Visited(o)
        PROVE  x \in live /\ Reach(x) \subseteq Reach(o)
    <3>1. CASE x = o
      BY <3>1
    <3>2. CASE x \in PackedOf(o)
      BY <2>1, <2>4, <3>2 DEF Reach
    <3>3. ASSUME NEW s \in ListsOf(o), x \in VisitedByList(s)
          PROVE  x \in live /\ Reach(x) \subseteq Reach(o)
      <4>1. CASE x = s
        BY <2>2, <2>4, <4>1, KindsAssumption DEF Reach
      <4>2. CASE x \in ElementsOf(s)
        BY <2>3, <2>4, <4>2 DEF Reach
      <4> QED
        BY <3>3, <4>1, <4>2 DEF VisitedByList
    <3> QED
      BY <2>4, <3>1, <3>2, <3>3
  <2> QED
    BY <2>5
<1> QED
  BY <1>1, <1>2, <1>3 DEF TypeOK, Object

(* Remembering the roots of such values keeps every memo right. *)
LEMMA RememberKeeps ==
  ASSUME TypeOK, MemosKept, NEW o \in live, Reach(o) \cap OpenObjects = {},
         NEW S, S \cap live \subseteq Visited(o), Remember(S),
         UNCHANGED <<live, data, version, open>>
  PROVE  MemosKept'
<1>1. OpenObjects' = OpenObjects
  BY DEF OpenObjects
<1> SUFFICES ASSUME NEW x \in live, memo'[x] # NoMemo
             PROVE  Kept(version, data, OpenObjects, x, memo'[x].witness, memo'[x].root)
  BY <1>1 DEF MemosKept
<1>2. x \in Object
  BY DEF TypeOK
<1>3. CASE x \in S /\ ~Hit(x)
  <2>1. memo'[x].witness = Witness(x) /\ memo'[x].root = Rooted(x)
    BY <1>2, <1>3 DEF Remember
  <2>2. Rooted(x) = ColdRoot(x)
    BY KeptIsNotStale, RootedIsCold
  <2>3. Reach(x) \cap OpenObjects = {}
    BY <1>3, VisitedIsReached
  <2>4. Kept(version, data, OpenObjects, x, Witness(x), ColdRoot(x))
    BY <2>3, FreshIsKept
  <2> QED
    BY <2>1, <2>2, <2>4
<1>4. CASE ~(x \in S /\ ~Hit(x))
  BY <1>2, <1>4 DEF Remember, MemosKept
<1> QED
  BY <1>3, <1>4

(* Nothing a call is entered for contradicts what it remembers. *)
LEMMA NothingContradicted ==
  ASSUME TypeOK, MemosKept, NEW o \in live
  PROVE  ~Contradicted(o)
  BY KeptIsNotStale, RootedIsCold DEF Contradicted, NoStaleRoot

---------------------------------------------------------------------------
(* Every step respects the values that are live, and their memos with them. *)

RespectsLive ==
  \A o \in live : Respects(version, data, OpenObjects, version', data', OpenObjects', o)

(* Steps that respect every live value keep its memo true. *)
LEMMA RespectingKeepsMemos ==
  ASSUME TypeOK, MemosKept, RespectsLive,
         \A o \in live' : (o \in live /\ memo'[o] = memo[o]) \/ memo'[o] = NoMemo
  PROVE  MemosKept'
<1> SUFFICES ASSUME NEW o \in live, memo[o] # NoMemo
             PROVE  Kept(version', data', OpenObjects', o, memo[o].witness, memo[o].root)
  BY DEF MemosKept
<1>1. Kept(version, data, OpenObjects, o, memo[o].witness, memo[o].root)
  BY DEF MemosKept
<1>2. \A x \in live : version[x] \in Nat
                      /\ Respects(version, data, OpenObjects, version', data', OpenObjects', x)
  BY DEF TypeOK, RespectsLive
<1>3. CASE o \in Packed
  BY <1>1, <1>2, <1>3, PackedStaysKept, KindsAssumption DEF Kept
<1>4. CASE o \in Lists
  <2>1. \A i \in DOMAIN data[o] : data[o][i] \in live
    BY <1>4, LiveBeneath
  <2>2. ListKept(version', data', OpenObjects', o, memo[o].witness, memo[o].root)
    BY <1>1, <1>2, <1>4, <2>1, ListStaysKept DEF Kept
  <2> QED
    BY <1>4, <2>2, KindsAssumption DEF Kept
<1>5. CASE o \in Structs
  <2>1. /\ \A f \in NestedFields : data[o][f] \in live
        /\ \A f \in ListFields : \A i \in DOMAIN data[data[o][f]] : data[data[o][f]][i] \in live
    BY <1>5, LiveBeneath DEF NestedFields
  <2>2. StructKept(version', data', OpenObjects', o, memo[o].witness, memo[o].root)
    BY <1>1, <1>2, <1>5, <2>1, StructStaysKept DEF Kept
  <2> QED
    BY <1>5, <2>2, KindsAssumption DEF Kept
<1> QED
  BY <1>3, <1>4, <1>5 DEF TypeOK, Object

(* Opening a mutation raises the version it will write under. *)
LEMMA BeginRespects ==
  ASSUME TypeOK, NEW o \in Object, Begin(o)
  PROVE  RespectsLive
<1> DEFINE e == [object |-> o, working |-> data[o]]
<1>1. /\ open' = Append(open, e) /\ data' = data /\ live \subseteq Object
      /\ version' = [version EXCEPT ![o] = @ + 1] /\ version \in [Object -> Nat]
  BY DEF Begin, TypeOK
<1>2. open \in Seq([object : live \ Frozen, working : WorkingCopies(live)])
  BY DEF TypeOK
<1>3. \A k \in DOMAIN open' : open'[k] = e \/ (k \in DOMAIN open /\ open'[k] = open[k])
  <2>1. DOMAIN open = 1..Len(open) /\ Len(open) \in Nat
    BY <1>2, LenProperties
  <2>2. /\ DOMAIN open' = 1..(Len(open) + 1)
        /\ \A k \in 1..Len(open) : open'[k] = open[k]
        /\ open'[Len(open) + 1] = e
    BY <1>1, <2>1
  <2> QED
    BY <1>2, <2>1, <2>2
<1>4. OpenObjects' \subseteq OpenObjects \cup {o}
  BY <1>3 DEF OpenObjects
<1> QED
  BY <1>1, <1>4 DEF RespectsLive, Respects

(* Popping raises the version of what it writes. *)
LEMMA PopRespects ==
  ASSUME TypeOK, NEW o \in Object, Pop(o)
  PROVE  RespectsLive
<1>1. /\ OpenObjects' = OpenObjects /\ live \subseteq Object
      /\ DOMAIN data = Object /\ version \in [Object -> Nat]
      /\ version' = [version EXCEPT ![o] = @ + 1]
      /\ \A x \in Object \ {o} : data'[x] = data[x]
  BY DEF Pop, OpenObjects, TypeOK
<1> QED
  BY <1>1 DEF RespectsLive, Respects

(* Ending a mutation writes only the value that was open. *)
LEMMA ClosingRespects ==
  ASSUME TypeOK, open # <<>>, open' = SubSeq(open, 1, Len(open) - 1), version' = version,
         \A o \in Object : data'[o] = data[o] \/ o = Current.object
  PROVE  RespectsLive
<1>1. open \in Seq([object : live \ Frozen, working : WorkingCopies(live)])
  BY DEF TypeOK
<1>2. \A k \in DOMAIN open' : k \in DOMAIN open /\ open'[k] = open[k]
  BY <1>1, FrontTyped
<1>3. OpenObjects' \subseteq OpenObjects
  BY <1>2 DEF OpenObjects
<1>4. Current.object \in OpenObjects
  BY OpenTyped DEF OpenObjects, Current
<1> QED
  BY <1>3, <1>4 DEF RespectsLive, Respects, TypeOK

(* Every way of storing ends the innermost mutation. *)
LEMMA FinishersFinish ==
  ASSUME SetItem \/ SetSlice \/ AppendItem \/ AssignData \/ SetField
  PROVE  open # <<>> /\ \E d : Finish(d)
<1>1. CASE SetItem
  BY <1>1 DEF SetItem, InCollection
<1>2. CASE SetSlice
  BY <1>2 DEF SetSlice, InCollection
<1>3. CASE AppendItem
  BY <1>3 DEF AppendItem, InCollection
<1>4. CASE AssignData
  BY <1>4 DEF AssignData, InCollection
<1>5. CASE SetField
  BY <1>5 DEF SetField
<1> QED
  BY <1>1, <1>2, <1>3, <1>4, <1>5

(* Storing writes only the value that was open. *)
LEMMA FinishRespects ==
  ASSUME TypeOK, open # <<>>, NEW d, Finish(d)
  PROVE  RespectsLive
<1>1. \A o \in Object : data'[o] = data[o] \/ o = Current.object
  BY DEF Finish, TypeOK
<1> QED
  BY <1>1, ClosingRespects DEF Finish

(* Adding values writes none that was live. *)
LEMMA NewcomersRespect ==
  ASSUME TypeOK, NEW new, Newcomers(new)
  PROVE  RespectsLive /\ \A o \in live' : (o \in live /\ memo'[o] = memo[o]) \/ memo'[o] = NoMemo
<1>1. /\ DOMAIN new \subseteq Object \ live /\ live \subseteq Object
      /\ live' = live \cup DOMAIN new /\ open' = open
      /\ \A o \in Object \ DOMAIN new : /\ data'[o] = data[o]
                                        /\ version'[o] = version[o]
                                        /\ memo'[o] = memo[o]
      /\ \A o \in DOMAIN new : memo'[o] = NoMemo
  BY DEF Newcomers, Allocate, TypeOK
<1>2. OpenObjects' = OpenObjects
  BY <1>1 DEF OpenObjects
<1> QED
  BY <1>1, <1>2 DEF RespectsLive, Respects

(* A value may be rooted only while nothing beneath it is being written, and *)
(* nobody writes past the mutators.                                          *)
LEMMA StepMemosKept ==
  ASSUME ~DirectWrites, ~RootsWhileOpen, TypeOK, MemosKept, [Next]_vars
  PROVE  MemosKept'
<1>1. CASE \E o \in Object : Construct(o) \/ Copy(o)
  BY <1>1, NewcomersArrive, NewcomersRespect, RespectingKeepsMemos
<1>2. ASSUME NEW o \in Object, Begin(o) PROVE MemosKept'
  BY <1>2, BeginRespects, RespectingKeepsMemos DEF Begin
<1>3. ASSUME NEW o \in Object, Pop(o) PROVE MemosKept'
  BY <1>3, PopRespects, RespectingKeepsMemos DEF Pop
<1>4. ASSUME NEW o \in Object, DirectWrite(o) PROVE MemosKept'
  BY <1>4 DEF DirectWrite
<1>5. CASE SetItem \/ SetSlice \/ AppendItem \/ AssignData \/ SetField
  <2>1. open # <<>> /\ \E d : Finish(d)
    BY <1>5, FinishersFinish
  <2>2. RespectsLive
    BY <2>1, FinishRespects
  <2>3. UNCHANGED <<live, memo>>
    BY <2>1 DEF Finish
  <2> QED
    BY <2>2, <2>3, RespectingKeepsMemos
<1>6. CASE RefuseWrite
  <2>1. RespectsLive /\ UNCHANGED <<live, memo>>
    BY <1>6, ClosingRespects DEF RefuseWrite
  <2> QED
    BY <2>1, RespectingKeepsMemos
<1>7. ASSUME NEW o \in Object, HashTreeRoot(o) PROVE MemosKept'
  BY <1>7, RememberKeeps DEF HashTreeRoot, MayRoot
<1>8. ASSUME NEW o \in Object, RefuseStale(o) PROVE MemosKept'
  <2>1. o \in live /\ \E bad \in Visited(o) : Contradicted(bad)
    BY <1>8 DEF RefuseStale
  <2> QED
    BY <2>1, VisitedIsReached, NothingContradicted
<1>9. CASE UNCHANGED vars
  BY <1>9 DEF vars, MemosKept, OpenObjects
<1> QED
  BY <1>1, <1>2, <1>3, <1>4, <1>5, <1>6, <1>7, <1>8, <1>9 DEF Next

(* No memo is held at first. *)
LEMMA InitMemosKept == Init => MemosKept
  BY DEF Init, ServiceInit, MemosKept

(* Through mutators alone, every remembered root goes on describing its     *)
(* value for as long as its witness is not older than the value.            *)
THEOREM MemosStayKept ==
  ASSUME ~DirectWrites, ~RootsWhileOpen
  PROVE  Spec => []MemosKept
<1>1. Init => TypeOK /\ MemosKept
  BY InitTypeOK, InitMemosKept
<1>2. TypeOK /\ MemosKept /\ [Next]_vars => (TypeOK /\ MemosKept)'
  BY StepTypeOK, StepMemosKept
<1> QED
  BY <1>1, <1>2, PTL DEF Spec

(* Through mutators alone, no call ever reuses a root that is not the root  *)
(* of the contents as they stand.                                           *)
THEOREM NoRootIsStale ==
  ASSUME ~DirectWrites, ~RootsWhileOpen
  PROVE  Spec => []NoStaleRoot
<1>1. TypeOK /\ MemosKept => NoStaleRoot
  BY KeptIsNotStale
<1> QED
  BY <1>1, TypeCorrect, MemosStayKept, PTL

---------------------------------------------------------------------------
(* RootMemo implements RootService. *)

(* The abstract service starts where the memo does. *)
LEMMA InitServes == Init => ServiceInit
  BY DEF Init

(* A step is the abstract change, answer or refusal, if what is rooted is cold. *)
LEMMA StepServes ==
  ASSUME TypeOK, NoStaleRoot \/ Paranoid, [Next]_vars
  PROVE  [ServiceNext]_<<live, data, served>>
<1>1. CASE \E o \in Object : Construct(o) \/ Copy(o)
  <2>1. PICK new : Newcomers(new)
    BY <1>1, NewcomersArrive
  <2> QED
    BY <2>1 DEF Newcomers, Allocate, TypeOK, ServiceNext, Change
<1>2. ASSUME NEW o \in Object, Begin(o) PROVE ServiceNext
  BY <1>2 DEF Begin, ServiceNext, Change
<1>3. ASSUME NEW o \in Object, Pop(o) PROVE ServiceNext
  <2>1. \A x \in Object \ {o} : data'[x] = data[x]
    BY <1>3 DEF Pop, TypeOK
  <2>2. o \notin Frozen /\ live' = live /\ served' = NoAnswer
    BY <1>3, KindsAssumption DEF Pop
  <2> QED
    BY <2>1, <2>2 DEF TypeOK, ServiceNext, Change
<1>4. ASSUME NEW o \in Object, DirectWrite(o) PROVE ServiceNext
  <2>1. \A x \in Object \ {o} : data'[x] = data[x]
    BY <1>4 DEF DirectWrite, TypeOK
  <2>2. o \notin Frozen /\ live' = live /\ served' = NoAnswer
    BY <1>4, KindsAssumption DEF DirectWrite
  <2> QED
    BY <2>1, <2>2 DEF TypeOK, ServiceNext, Change
<1>5. CASE SetItem \/ SetSlice \/ AppendItem \/ AssignData \/ SetField
  <2>1. PICK d : Finish(d)
    BY <1>5, FinishersFinish
  <2>2. Current.object \notin Frozen
    BY <1>5, FinishersFinish, OpenTyped
  <2>3. /\ \A x \in Object \ {Current.object} : data'[x] = data[x]
        /\ live' = live /\ served' = NoAnswer
    BY <2>1 DEF Finish, TypeOK
  <2> QED
    BY <2>2, <2>3 DEF TypeOK, ServiceNext, Change
<1>6. CASE RefuseWrite
  BY <1>6 DEF RefuseWrite, ServiceNext, Change
<1>7. ASSUME NEW o \in Object, HashTreeRoot(o) PROVE ServiceNext
  BY <1>7, RootedIsCold DEF HashTreeRoot, ServiceNext, Answer
<1>8. ASSUME NEW o \in Object, RefuseStale(o) PROVE ServiceNext
  BY <1>8 DEF RefuseStale, ServiceNext, Refuse
<1>9. CASE UNCHANGED vars
  BY <1>9 DEF vars
<1> QED
  BY <1>1, <1>2, <1>3, <1>4, <1>5, <1>6, <1>7, <1>8, <1>9 DEF Next

(* Through mutators alone, what a caller is served is what rooting from cold *)
(* would serve, and frozen values never change.                              *)
THEOREM MutatorsServeColdRoots ==
  ASSUME ~DirectWrites, ~RootsWhileOpen
  PROVE  Spec => ServesColdRoots
<1>1. Init => ServiceInit
  BY InitServes
<1>2. TypeOK /\ NoStaleRoot /\ [Next]_vars => [ServiceNext]_<<live, data, served>>
  BY StepServes
<1> QED
  BY <1>1, <1>2, TypeCorrect, NoRootIsStale, PTL DEF Spec, ServesColdRoots, ServiceSpec

(* The paranoid mode serves cold roots whatever is written behind the       *)
(* mutators, and whenever the caller asks.                                  *)
THEOREM ParanoidServesColdRoots ==
  ASSUME Paranoid
  PROVE  Spec => ServesColdRoots
<1>1. Init => ServiceInit
  BY InitServes
<1>2. TypeOK /\ [Next]_vars => [ServiceNext]_<<live, data, served>>
  BY StepServes
<1> QED
  BY <1>1, <1>2, TypeCorrect, PTL DEF Spec, ServesColdRoots, ServiceSpec

---------------------------------------------------------------------------
(* Refusals. *)

(* Nothing is refused at first. *)
LEMMA InitUnrefused == Init => served # StaleRoot
  BY DEF Init, ServiceInit, NoAnswer, StaleRoot

(* The stale-root error comes only from the paranoid check. *)
LEMMA OnlyRefusalsRefuse ==
  ASSUME TypeOK, [Next]_vars, served' = StaleRoot
  PROVE  \/ \E o \in Object : RefuseStale(o)
         \/ UNCHANGED vars
<1>1. NoAnswer # StaleRoot /\ \A o, r : AnswerOf(o, r) # StaleRoot
  BY DEF NoAnswer, StaleRoot, AnswerOf
<1>2. CASE \E o \in Object : Construct(o) \/ Copy(o)
  BY <1>1, <1>2, NewcomersArrive DEF Newcomers, Allocate
<1>3. CASE \E o \in Object : Begin(o) \/ Pop(o) \/ DirectWrite(o)
  BY <1>1, <1>3 DEF Begin, Pop, DirectWrite
<1>4. CASE SetItem \/ SetSlice \/ AppendItem \/ AssignData \/ SetField
  BY <1>1, <1>4, FinishersFinish DEF Finish
<1>5. CASE RefuseWrite
  BY <1>1, <1>5 DEF RefuseWrite
<1>6. ASSUME NEW o \in Object, HashTreeRoot(o) PROVE FALSE
  BY <1>1, <1>6 DEF HashTreeRoot
<1> QED
  BY <1>2, <1>3, <1>4, <1>5, <1>6 DEF Next

(* Through mutators alone the paranoid mode finds nothing to refuse. *)
THEOREM MutatorsAreNeverRefused ==
  ASSUME ~DirectWrites, ~RootsWhileOpen
  PROVE  Spec => []NeverRefused
<1>1. Init => NeverRefused
  BY InitUnrefused DEF NeverRefused
<1>2. TypeOK /\ MemosKept /\ NeverRefused /\ [Next]_vars => NeverRefused'
  <2> SUFFICES ASSUME TypeOK, MemosKept, NeverRefused, [Next]_vars, served' = StaleRoot
               PROVE  FALSE
    BY DEF NeverRefused
  <2>1. ASSUME NEW o \in Object, RefuseStale(o) PROVE FALSE
    <3>1. o \in live /\ \E bad \in Visited(o) : Contradicted(bad)
      BY <2>1 DEF RefuseStale
    <3> QED
      BY <3>1, VisitedIsReached, NothingContradicted
  <2> QED
    BY <2>1, OnlyRefusalsRefuse DEF vars, NeverRefused
<1> QED
  BY <1>1, <1>2, TypeCorrect, MemosStayKept, PTL DEF Spec

(* Every refusal of the paranoid mode stands on a remembered root that is   *)
(* really wrong, whatever was written behind the mutators.                  *)
THEOREM RefusalsAreJustified == Spec => []RefusalIsJustified
<1>1. Init => RefusalIsJustified
  BY InitUnrefused DEF RefusalIsJustified
<1>2. TypeOK /\ RefusalIsJustified /\ [Next]_vars => RefusalIsJustified'
  <2> SUFFICES ASSUME TypeOK, RefusalIsJustified, [Next]_vars, served' = StaleRoot
               PROVE  RefusalIsJustified'
    BY DEF RefusalIsJustified
  <2>1. ASSUME NEW o \in Object, RefuseStale(o) PROVE RefusalIsJustified'
    <3>1. PICK bad \in Visited(o), k \in DOMAIN FinishOrder(o) :
            /\ FinishOrder(o)[k] = bad
            /\ Contradicted(bad)
            /\ \A j \in 1..(k - 1) : ~Contradicted(FinishOrder(o)[j])
            /\ Remember({FinishOrder(o)[j] : j \in 1..(k - 1)})
      BY <2>1 DEF RefuseStale
    <3>2. o \in live /\ UNCHANGED <<live, data, version, open>>
      BY <2>1 DEF RefuseStale
    <3>3. bad \in live /\ bad \in Object
      BY <3>1, <3>2, VisitedIsReached DEF TypeOK
    <3>4. Paranoid /\ Hit(bad) /\ Rooted(bad) # memo[bad].root
      BY <3>1 DEF Contradicted
    <3>5. memo[bad].root # ColdRoot(bad)
      BY <3>3, <3>4, RootedIsCold
    <3>6. memo'[bad] = memo[bad]
      BY <3>1, <3>3, <3>4 DEF Remember
    <3>7. Witness(bad)' = Witness(bad) /\ ColdRoot(bad)' = ColdRoot(bad)
      BY <3>2 DEF Witness, PackedWitness, ListWitness, StructWitness,
                  ColdRoot, PackedRoot, ListRoot, StructRoot
    <3> QED
      BY <3>2, <3>3, <3>4, <3>5, <3>6, <3>7 DEF RefusalIsJustified, Hit
  <2>2. CASE UNCHANGED vars
    <3>1. UNCHANGED <<live, data, version, memo, served>>
      BY <2>2 DEF vars
    <3>2. \A o : Witness(o)' = Witness(o) /\ ColdRoot(o)' = ColdRoot(o)
      BY <3>1 DEF Witness, PackedWitness, ListWitness, StructWitness,
                  ColdRoot, PackedRoot, ListRoot, StructRoot
    <3> QED
      BY <3>1, <3>2 DEF RefusalIsJustified, Hit
  <2> QED
    BY <2>1, <2>2, OnlyRefusalsRefuse
<1> QED
  BY <1>1, <1>2, TypeCorrect, PTL DEF Spec

---------------------------------------------------------------------------
(* Capacity.  The working copy of a byte list is written back whole, so it  *)
(* has to be as long as its value may be, however long it stays open.       *)

OpenKept ==
  \A k \in DOMAIN open : open[k].object \notin Structs =>
    ValidLength(open[k].object, Len(open[k].working))

(* What a collection's mutation works on is within its capacity. *)
LEMMA BaseFits ==
  ASSUME TypeOK, CapacityKept, OpenKept, InCollection
  PROVE  ValidLength(Current.object, Len(Base))
<1>1. Current.object \in live \ Structs /\ Len(open) \in DOMAIN open
  BY OpenTyped, KindsAssumption DEF InCollection
<1> QED
  BY <1>1 DEF Base, Current, CapacityKept, OpenKept

(* A collection is written only with a count that was checked against it. *)
LEMMA FinishersFit ==
  ASSUME TypeOK, CapacityKept, OpenKept,
         SetItem \/ SetSlice \/ AppendItem \/ AssignData \/ SetField
  PROVE  open # <<>> /\ \E d : Finish(d) /\ (Current.object \in Structs \/ ValidLength(Current.object, Len(d)))
<1> DEFINE c == Current.object
<1>1. CASE SetItem
  <2>1. PICK i \in DOMAIN Base, v \in Cells(c) : Finish([Base EXCEPT ![i] = v])
    BY <1>1 DEF SetItem
  <2>2. InCollection /\ open # <<>>
    BY <1>1 DEF SetItem, InCollection
  <2>3. Len([Base EXCEPT ![i] = v]) = Len(Base)
    BY <2>2, BaseTyped, LenProperties, ExceptSeq
  <2> QED
    BY <2>1, <2>2, <2>3, BaseFits
<1>2. CASE SetSlice
  <2>1. InCollection /\ open # <<>>
    BY <1>2 DEF SetSlice, InCollection
  <2> DEFINE Spliced(lo, hi, new) == SubSeq(Base, 1, lo) \o new \o SubSeq(Base, hi + 1, Len(Base))
  <2>2. PICK lo \in 0..Len(Base) : \E hi \in lo..Len(Base) :
          \E n \in 0..Limit(c) : \E new \in [1..n -> Cells(c)] :
            ValidLength(c, Len(Base) - (hi - lo) + n) /\ Finish(Spliced(lo, hi, new))
    BY <1>2 DEF SetSlice
  <2>3. PICK hi \in lo..Len(Base), n \in 0..Limit(c) : \E new \in [1..n -> Cells(c)] :
          ValidLength(c, Len(Base) - (hi - lo) + n) /\ Finish(Spliced(lo, hi, new))
    BY <2>2
  <2>4. PICK new \in [1..n -> Cells(c)] :
          ValidLength(c, Len(Base) - (hi - lo) + n) /\ Finish(Spliced(lo, hi, new))
    BY <2>3
  <2>5. n \in Nat
    BY BoundsAssumption DEF Limit
  <2>6. new \in Seq(Cells(c)) /\ Len(new) = n
    BY <2>5, TupleTyped
  <2>7. Len(Spliced(lo, hi, new)) = Len(Base) - (hi - lo) + Len(new)
    BY <2>1, <2>6, BaseTyped, SpliceTyped
  <2> QED
    BY <2>1, <2>4, <2>6, <2>7
<1>3. CASE AppendItem
  <2>1. InCollection /\ open # <<>>
    BY <1>3 DEF AppendItem, InCollection
  <2>2. PICK v \in Cells(c) : Finish(Append(Base, v)) /\ ValidLength(c, Len(Base) + 1)
    BY <1>3 DEF AppendItem
  <2>3. Len(Append(Base, v)) = Len(Base) + 1
    BY <2>1, BaseTyped, AppendProperties
  <2> QED
    BY <2>1, <2>2, <2>3
<1>4. CASE AssignData
  BY <1>4, ContentsTyped DEF AssignData, InCollection
<1>5. CASE SetField
  BY <1>5 DEF SetField
<1> QED
  BY <1>1, <1>2, <1>3, <1>4, <1>5

(* Ending a mutation leaves the outer ones within capacity. *)
LEMMA ClosingOpenKept ==
  ASSUME TypeOK, OpenKept, open # <<>>, open' = SubSeq(open, 1, Len(open) - 1)
  PROVE  OpenKept'
<1>1. open \in Seq([object : live \ Frozen, working : WorkingCopies(live)])
  BY DEF TypeOK
<1>2. \A k \in DOMAIN open' : k \in DOMAIN open /\ open'[k] = open[k]
  BY <1>1, FrontTyped
<1> QED
  BY <1>2 DEF OpenKept, ValidLength, Limit

(* Opening a mutation starts from a copy within capacity. *)
LEMMA BeginOpenKept ==
  ASSUME TypeOK, CapacityKept, OpenKept, NEW o \in Object, Begin(o)
  PROVE  OpenKept'
<1> DEFINE e == [object |-> o, working |-> data[o]]
<1>1. open' = Append(open, e) /\ o \in live
  BY DEF Begin
<1>2. open \in Seq([object : live \ Frozen, working : WorkingCopies(live)])
  BY DEF TypeOK
<1>3. \A k \in DOMAIN open' : open'[k] = e \/ (k \in DOMAIN open /\ open'[k] = open[k])
  <2>1. DOMAIN open = 1..Len(open) /\ Len(open) \in Nat
    BY <1>2, LenProperties
  <2>2. /\ DOMAIN open' = 1..(Len(open) + 1)
        /\ \A k \in 1..Len(open) : open'[k] = open[k]
        /\ open'[Len(open) + 1] = e
    BY <1>1, <1>2, <2>1
  <2> QED
    BY <2>1, <2>2
<1>4. o \notin Structs => ValidLength(o, Len(data[o]))
  BY <1>1 DEF CapacityKept
<1> QED
  BY <1>3, <1>4 DEF OpenKept

(* Popping keeps every value within its capacity. *)
LEMMA PopFits ==
  ASSUME TypeOK, CapacityKept, NEW o \in Object, Pop(o)
  PROVE  CapacityKept'
<1> DEFINE d == IF data[o] = <<>> THEN data[o] ELSE SubSeq(data[o], 1, Len(data[o]) - 1)
<1>1. o \in live \cap (Packed \cup Lists) /\ o \notin Pinned /\ o \notin Structs
  BY KindsAssumption DEF Pop
<1>2. data[o] \in Seq(Cells(o))
  BY <1>1, CollectionAdmits DEF TypeOK
<1>3. Len(d) \in Nat /\ Len(d) <= Len(data[o])
  BY <1>2, FrontTyped, LenProperties, EmptySeq
<1>4. ValidLength(o, Len(data[o])) /\ Limit(o) \in Nat /\ Len(data[o]) \in Nat
  BY <1>1, <1>2, BoundsAssumption, LenProperties DEF CapacityKept, Limit
<1>5. data'[o] = d /\ live' = live /\ \A x \in Object \ {o} : data'[x] = data[x]
  BY DEF Pop, TypeOK
<1> HIDE DEF d
<1>6. ValidLength(o, Len(d))
  BY <1>1, <1>3, <1>4 DEF ValidLength
<1> QED
  BY <1>5, <1>6 DEF CapacityKept, TypeOK

(* Every count a caller leaves behind was checked, even where consuming the *)
(* argument of a mutation mutated the same value.                           *)
LEMMA StepCapacityKept ==
  ASSUME ~DirectWrites, TypeOK, CapacityKept, OpenKept, [Next]_vars
  PROVE  CapacityKept' /\ OpenKept'
<1>1. CASE \E o \in Object : Construct(o) \/ Copy(o)
  <2>1. PICK new : Newcomers(new)
    BY <1>1, NewcomersArrive
  <2>2. /\ live' = live \cup DOMAIN new /\ live \subseteq Object /\ open' = open
        /\ \A x \in live' : data'[x] = IF x \in DOMAIN new THEN new[x] ELSE data[x]
        /\ \A x \in DOMAIN new \ Structs : ValidLength(x, Len(new[x]))
    BY <2>1 DEF Newcomers, Allocate, TypeOK
  <2> QED
    BY <2>2 DEF CapacityKept, OpenKept
<1>2. ASSUME NEW o \in Object, Begin(o) PROVE CapacityKept' /\ OpenKept'
  BY <1>2, BeginOpenKept DEF Begin, CapacityKept
<1>3. ASSUME NEW o \in Object, Pop(o) PROVE CapacityKept' /\ OpenKept'
  BY <1>3, PopFits DEF Pop, OpenKept
<1>4. ASSUME NEW o \in Object, DirectWrite(o) PROVE CapacityKept' /\ OpenKept'
  BY <1>4 DEF DirectWrite
<1>5. CASE SetItem \/ SetSlice \/ AppendItem \/ AssignData \/ SetField
  <2>1. PICK d : Finish(d) /\ (Current.object \in Structs \/ ValidLength(Current.object, Len(d)))
    BY <1>5, FinishersFit
  <2>2. open # <<>> /\ Current.object \in Object
    BY <1>5, FinishersFit, OpenTyped
  <2>3. /\ live' = live /\ data'[Current.object] = d
        /\ \A x \in Object \ {Current.object} : data'[x] = data[x]
    BY <2>1, <2>2 DEF Finish, TypeOK
  <2>4. CapacityKept'
    BY <2>1, <2>3 DEF CapacityKept, TypeOK
  <2>5. OpenKept'
    BY <2>1, <2>2, ClosingOpenKept DEF Finish
  <2> QED
    BY <2>4, <2>5
<1>6. CASE RefuseWrite
  BY <1>6, ClosingOpenKept DEF RefuseWrite, CapacityKept
<1>7. CASE \E o \in Object : HashTreeRoot(o) \/ RefuseStale(o)
  BY <1>7 DEF HashTreeRoot, RefuseStale, CapacityKept, OpenKept
<1>8. CASE UNCHANGED vars
  BY <1>8 DEF vars, CapacityKept, OpenKept
<1> QED
  BY <1>1, <1>2, <1>3, <1>4, <1>5, <1>6, <1>7, <1>8 DEF Next

(* A declared count or capacity holds of every value, however mutations of  *)
(* it nest.                                                                 *)
THEOREM CapacityIsKept ==
  ASSUME ~DirectWrites
  PROVE  Spec => []CapacityKept
<1>1. Init => CapacityKept /\ OpenKept
  BY DEF Init, ServiceInit, CapacityKept, OpenKept
<1>2. TypeOK /\ CapacityKept /\ OpenKept /\ [Next]_vars => (CapacityKept /\ OpenKept)'
  BY StepCapacityKept
<1> QED
  BY <1>1, <1>2, TypeCorrect, PTL DEF Spec
============================================================================

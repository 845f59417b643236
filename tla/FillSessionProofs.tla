-------------------------- MODULE FillSessionProofs --------------------------
(***************************************************************************)
(* That whatever stops and restarts, an index tells the truth              *)
(* (IndexNeverLies), a finished fill is whole (FinishedIsWhole), nothing is *)
(* written over (NothingIsWrittenOver) and filling implements the catalog  *)
(* (PublishesCatalogs): for any fixtures, calls and number of sessions.    *)
(***************************************************************************)
EXTENDS FillSession, FiniteSetTheorems, SequenceTheorems, TLAPS

(* What is collected: ids are spelled and name one case each, and a type    *)
(* name stands for one declaration.                                        *)
Collected ==
  /\ IsFiniteSet(cases)
  /\ cases \subseteq Fixtures /\ cases \subseteq attempted
  /\ ~ failed => attempted \subseteq cases
  /\ \A f \in cases :
       /\ WellSpelled(f.id) /\ f.id \in case_producers
       /\ f.name \in DOMAIN type_declarations /\ type_declarations[f.name] = f.declaration
  /\ \A f, g \in cases : f.id = g.id => f = g

SessionsStand ==
  /\ session \in 0..MaxSessions
  /\ phase \in {"down", "clearing", "filling", "writing"}
  /\ phase # "down" => session >= 1
  /\ phase # "writing" => written = 0
  /\ phase = "filling" => DOMAIN disk = {}

File(f) == [path |-> OutputFile(f), text |-> Document(f)]

(* The queue holds each case once, then what describes them. *)
QueueStands ==
  LET count == Cardinality(cases)
  IN  /\ Len(queue) = count + 3
      /\ \A k \in 1..count : \E f \in cases : queue[k] = File(f)
      /\ \A f \in cases : \E k \in 1..count : queue[k] = File(f)
      /\ queue[count + 1] = Counted /\ queue[count + 2] = Indexed /\ queue[count + 3] = Described
      /\ \A j, k \in 1..(count + 3) : queue[j].path = queue[k].path => j = k

(* The disk holds what has been written of it, and at most one torn file. *)
DiskStands ==
  /\ written \in 0..(Cardinality(cases) + 3)
  /\ \A k \in 1..written :
       queue[k].path \in DOMAIN disk /\ disk[queue[k].path] = queue[k].text
  /\ \A path \in DOMAIN disk :
       \/ \E k \in 1..written : path = queue[k].path
       \/ /\ written < Cardinality(cases) + 3
          /\ path = queue[written + 1].path /\ disk[path] = Torn

WritingStands == phase = "writing" => QueueStands /\ DiskStands

IInv == SessionsStand /\ Collected /\ WritingStands /\ IndexNeverLies /\ FinishedIsWhole

---------------------------------------------------------------------------
(* Paths and texts. *)

(* No text is torn. *)
LEMMA TextsAreNotTorn ==
  ASSUME NEW f, NEW n, NEW rows
  PROVE  Document(f) # Torn /\ [count |-> n] # Torn /\ [rows |-> rows] # Torn
<1>1. /\ DOMAIN Document(f) = {"session", "fixture"}
      /\ DOMAIN [count |-> n] = {"count"} /\ DOMAIN [rows |-> rows] = {"rows"}
  BY DEF Document
<1>2. DOMAIN Torn = {"torn"}
  BY DEF Torn
<1>. QED
  BY <1>1, <1>2

(* The dash that joins segments is in no id, so a file is of one id. *)
LEMMA FilesNameIds ==
  ASSUME NEW f \in Fixtures, NEW g \in Fixtures, WellSpelled(f.id), WellSpelled(g.id),
         OutputFile(f) = OutputFile(g)
  PROVE  f.id = g.id
<1>1. FileName(f.id) = FileName(g.id)
  BY DEF OutputFile
<1>2. f.id \in Seq(STRING) /\ g.id \in Seq(STRING)
  BY IdsAreSpelled
<1>3. DOMAIN f.id = DOMAIN g.id
  <2>1. DOMAIN FileName(f.id) = DOMAIN f.id /\ DOMAIN FileName(g.id) = DOMAIN g.id
    BY DEF FileName
  <2>. QED
    BY <1>1, <2>1
<1>4. ASSUME NEW i \in DOMAIN f.id
      PROVE  f.id[i] = g.id[i]
  <2>1. /\ FileName(f.id)[i] = IF f.id[i] = "/" THEN "-" ELSE f.id[i]
        /\ FileName(g.id)[i] = IF g.id[i] = "/" THEN "-" ELSE g.id[i]
    BY <1>3 DEF FileName
  <2>2. f.id[i] # "-" /\ g.id[i] # "-"
    BY <1>3, IdsAreSpelled DEF WellSpelled, Separators
  <2>. QED
    BY <1>1, <2>1, <2>2
<1>. QED
  BY <1>2, <1>3, <1>4

(* No vector takes the place of what describes the vectors. *)
LEMMA PathsApart ==
  ASSUME NEW f
  PROVE  /\ OutputFile(f) \notin {Readme, Index, Manifest}
         /\ Readme # Index /\ Readme # Manifest /\ Index # Manifest
<1>1. Len(OutputFile(f)) = 4 /\ Len(Readme) = 1 /\ Len(Index) = 1 /\ Len(Manifest) = 1
  BY DEF OutputFile, Readme, Index, Manifest
<1>2. Readme # Index /\ Readme # Manifest /\ Index # Manifest
  BY DEF Readme, Index, Manifest
<1>. QED
  BY <1>1, <1>2

---------------------------------------------------------------------------
(* The queue. *)

(* What a fill queues is each case once, and what describes them. *)
LEMMA FinishQueues ==
  ASSUME Collected, Finish
  PROVE  QueueStands'
<1> DEFINE count == Cardinality(cases)
<1> DEFINE entries == {File(f) : f \in cases}
<1>1. count \in Nat
  BY FS_CardinalityType DEF Collected
<1>2. PICK order \in Sorted : queue' = Vectors(order) \o <<Counted, Indexed, Described>>
  BY DEF Finish
<1>3. order \in [1..count -> cases] /\ \A i, j \in 1..count : i # j => order[i] # order[j]
  BY DEF Sorted, SetToSeqs
<1>4. \A f \in cases : \E k \in 1..count : order[k] = f
  <2>1. order \in Injection(1..count, cases)
    BY <1>3 DEF Injection, IsInjective
  <2>2. Cardinality(1..count) = count
    BY <1>1, FS_Interval
  <2>3. order \in Surjection(1..count, cases)
    BY <2>1, <2>2, FS_Injection, Zenon DEF Collected
  <2>. QED
    BY <2>3 DEF Surjection
<1>5. /\ Len(Vectors(order)) = count
      /\ Vectors(order) \in Seq(entries)
      /\ \A k \in 1..count : Vectors(order)[k] = File(order[k])
  <2>1. Vectors(order) = [k \in 1..count |-> File(order[k])]
    BY <1>3 DEF Vectors, File
  <2>2. \A k \in 1..count : File(order[k]) \in entries
    BY <1>3
  <2> HIDE DEF entries, count
  <2>. QED
    BY <1>1, <2>1, <2>2
<1>6. /\ Len(queue') = count + 3
      /\ \A k \in 1..count : queue'[k] = File(order[k])
      /\ queue'[count + 1] = Counted /\ queue'[count + 2] = Indexed /\ queue'[count + 3] = Described
  <2> DEFINE last == <<Counted, Indexed, Described>>
  <2> DEFINE S == entries \cup {Counted, Indexed, Described}
  <2>1. Len(last) = 3 /\ last \in Seq(S)
    OBVIOUS
  <2>2. Vectors(order) \in Seq(S)
    BY <1>5, SeqMonotonic
  <2>3. last[1] = Counted /\ last[2] = Indexed /\ last[3] = Described
    OBVIOUS
  <2> HIDE DEF entries, count, last, S
  <2>4. /\ Len(queue') = count + 3
        /\ \A k \in 1..(count + 3) :
             queue'[k] = IF k <= count THEN Vectors(order)[k] ELSE last[k - count]
    BY <1>2, <1>5, <2>1, <2>2, ConcatProperties DEF last
  <2>. QED
    BY <1>1, <1>5, <2>3, <2>4
<1>7. ASSUME NEW j \in 1..(count + 3), NEW k \in 1..(count + 3), queue'[j].path = queue'[k].path
      PROVE  j = k
  <2>1. \A i \in 1..count : queue'[i].path = OutputFile(order[i])
    <3> HIDE DEF count, entries
    <3>1. \A i \in 1..count : File(order[i]).path = OutputFile(order[i])
      BY DEF File
    <3>. QED
      BY <1>6, <3>1
  <2>2. /\ queue'[count + 1].path = Readme /\ queue'[count + 2].path = Index
        /\ queue'[count + 3].path = Manifest
    BY <1>6 DEF Counted, Indexed, Described
  <2>3. \A i \in 1..count : queue'[i].path \notin {Readme, Index, Manifest}
    BY <2>1, PathsApart
  <2>4. Readme # Index /\ Readme # Manifest /\ Index # Manifest
    BY PathsApart
  <2>5. \A i \in 1..(count + 3) : i \in 1..count \/ i \in {count + 1, count + 2, count + 3}
    BY <1>1
  <2>6. CASE j \in 1..count /\ k \in 1..count
    <3>1. OutputFile(order[j]) = OutputFile(order[k])
      BY <1>7, <2>1, <2>6
    <3>2. order[j] \in cases /\ order[k] \in cases
      BY <1>3, <2>6
    <3>3. order[j].id = order[k].id
      BY <3>1, <3>2, FilesNameIds DEF Collected
    <3>. QED
      BY <1>3, <2>6, <3>2, <3>3 DEF Collected
  <2>. QED
    BY <1>7, <2>2, <2>3, <2>4, <2>5, <2>6
<1>8. UNCHANGED <<session, cases>>
  BY DEF Finish, collector
<1>9. \A f : File(f)' = File(f)
  BY <1>8 DEF File, OutputFile, FileName, Document
<1>10. /\ \A k \in 1..count : \E f \in cases : queue'[k] = File(f)
       /\ \A f \in cases : \E k \in 1..count : queue'[k] = File(f)
  BY <1>3, <1>4, <1>6
<1>11. Counted' = Counted /\ Indexed' = Indexed /\ Described' = Described
  BY <1>8 DEF Counted, Indexed, Described, Row, OutputFile, FileName, Document, Readme, Index, Manifest
<1>. QED
  BY <1>6, <1>7, <1>8, <1>9, <1>10, <1>11 DEF QueueStands

---------------------------------------------------------------------------
(* The disk while a fill writes. *)

(* What is whole has been written. *)
LEMMA WholeIsWritten ==
  ASSUME QueueStands, DiskStands, NEW k \in 1..(Cardinality(cases) + 3), Cardinality(cases) \in Nat,
         Whole(queue[k].path)
  PROVE  k <= written
<1>1. PICK j \in 1..written : queue[k].path = queue[j].path
  BY DEF DiskStands, Whole
<1>2. j \in 1..(Cardinality(cases) + 3)
  BY DEF DiskStands
<1>3. j = k
  BY <1>1, <1>2 DEF QueueStands
<1>. QED
  BY <1>3

(* Once every vector has been, the vectors there are those collected. *)
LEMMA VectorsOnDisk ==
  ASSUME Collected, QueueStands, DiskStands, written >= Cardinality(cases)
  PROVE  /\ VectorPaths = {OutputFile(f) : f \in cases}
         /\ \A f \in cases : disk[OutputFile(f)] = Document(f)
<1> DEFINE count == Cardinality(cases)
<1>1. count \in Nat /\ written \in Nat
  BY FS_CardinalityType DEF Collected, DiskStands
<1>2. ASSUME NEW f \in cases
      PROVE  /\ OutputFile(f) \in DOMAIN disk /\ disk[OutputFile(f)] = Document(f)
             /\ OutputFile(f) \in VectorPaths
  <2>1. PICK k \in 1..count : queue[k] = File(f)
    BY DEF QueueStands
  <2>2. k \in 1..written
    BY <1>1
  <2>3. queue[k].path = OutputFile(f) /\ queue[k].text = Document(f)
    BY <2>1 DEF File
  <2>. QED
    BY <2>2, <2>3, PathsApart DEF DiskStands, VectorPaths
<1>3. ASSUME NEW path \in VectorPaths
      PROVE  \E f \in cases : path = OutputFile(f)
  <2>1. PICK k \in 1..(count + 3) : path = queue[k].path
    <3>1. path \in DOMAIN disk
      BY DEF VectorPaths
    <3>2. CASE \E k \in 1..written : path = queue[k].path
      BY <1>1, <3>2 DEF DiskStands
    <3>3. CASE written < count + 3 /\ path = queue[written + 1].path
      BY <1>1, <3>3
    <3>. QED
      BY <3>1, <3>2, <3>3 DEF DiskStands
  <2>2. path \notin {Readme, Index, Manifest}
    BY DEF VectorPaths
  <2>3. k \notin {count + 1, count + 2, count + 3}
    BY <2>1, <2>2 DEF QueueStands, Counted, Indexed, Described
  <2>4. k \in 1..count
    BY <1>1, <2>1, <2>3
  <2>5. PICK f \in cases : queue[k] = File(f)
    BY <2>4 DEF QueueStands
  <2>. QED
    BY <2>1, <2>5 DEF File
<1>. QED
  BY <1>2, <1>3

(* A whole index or manifest is the one written. *)
LEMMA DescribedOnDisk ==
  ASSUME Collected, QueueStands, DiskStands
  PROVE  /\ Whole(Index) =>
              written >= Cardinality(cases) + 2 /\ disk[Index] = [rows |-> {Row(f) : f \in cases}]
         /\ Whole(Manifest) => written = Cardinality(cases) + 3
         /\ written >= Cardinality(cases) + 2 => Whole(Index)
         /\ written = Cardinality(cases) + 3 =>
              Whole(Manifest) /\ disk[Manifest] = [count |-> Cardinality(cases)]
<1> DEFINE count == Cardinality(cases)
<1>1. count \in Nat /\ written \in 0..(count + 3)
  BY FS_CardinalityType DEF Collected, DiskStands
<1>2. /\ queue[count + 2].path = Index /\ queue[count + 2].text = [rows |-> {Row(f) : f \in cases}]
      /\ queue[count + 3].path = Manifest /\ queue[count + 3].text = [count |-> count]
  BY DEF QueueStands, Indexed, Described
<1>3. \A k \in 1..written :
        queue[k].path \in DOMAIN disk /\ disk[queue[k].path] = queue[k].text
  BY DEF DiskStands
<1>4. Whole(Index) => written >= count + 2
  BY <1>1, <1>2, WholeIsWritten
<1>5. Whole(Manifest) => written = count + 3
  BY <1>1, <1>2, WholeIsWritten
<1>6. written >= count + 2 => Index \in DOMAIN disk /\ disk[Index] = [rows |-> {Row(f) : f \in cases}]
  BY <1>1, <1>2, <1>3
<1>7. written = count + 3 => Manifest \in DOMAIN disk /\ disk[Manifest] = [count |-> count]
  BY <1>1, <1>2, <1>3
<1> HIDE DEF count
<1>. QED
  BY <1>4, <1>5, <1>6, <1>7, TextsAreNotTorn DEF Whole, count

(* An index written before the manifest lists every vector. *)
LEMMA WritingIndexNeverLies ==
  ASSUME Collected, QueueStands, DiskStands
  PROVE  IndexNeverLies
<1> SUFFICES ASSUME Whole(Index), NEW path \in VectorPaths
             PROVE  \E row \in disk[Index].rows : row.path = path /\ row.digest = disk[path]
  BY DEF IndexNeverLies
<1>1. written >= Cardinality(cases) + 2 /\ disk[Index] = [rows |-> {Row(f) : f \in cases}]
  BY DescribedOnDisk
<1>2. Cardinality(cases) \in Nat /\ written \in Nat
  BY FS_CardinalityType DEF Collected, DiskStands
<1>3. PICK f \in cases : path = OutputFile(f) /\ disk[path] = Document(f)
  BY <1>1, <1>2, VectorsOnDisk
<1>4. Row(f) \in disk[Index].rows
  BY <1>1
<1>. QED
  BY <1>3, <1>4 DEF Row

(* What all has been written of is whole. *)
LEMMA WrittenIsWhole ==
  ASSUME Collected, QueueStands, DiskStands, written = Cardinality(cases) + 3
  PROVE  /\ {disk[path] : path \in VectorPaths} = {Document(f) : f \in cases}
         /\ Whole(Index) /\ Whole(Manifest)
         /\ Cardinality(VectorPaths) = disk[Manifest].count
         /\ Cardinality(disk[Index].rows) = disk[Manifest].count
         /\ ~ failed => attempted = {disk[path].fixture : path \in VectorPaths}
<1> DEFINE count == Cardinality(cases)
<1>1. count \in Nat
  BY FS_CardinalityType DEF Collected
<1>2. /\ VectorPaths = {OutputFile(f) : f \in cases}
      /\ \A f \in cases : disk[OutputFile(f)] = Document(f)
  BY <1>1, VectorsOnDisk
<1>3. /\ Whole(Index) /\ disk[Index] = [rows |-> {Row(f) : f \in cases}]
      /\ Whole(Manifest) /\ disk[Manifest] = [count |-> count]
  BY <1>1, DescribedOnDisk
<1>4. \A f, g \in cases : OutputFile(f) = OutputFile(g) => f = g
  BY FilesNameIds DEF Collected
<1>5. Cardinality({OutputFile(f) : f \in cases}) = count
  <2> DEFINE name == [f \in cases |-> OutputFile(f)]
  <2>1. name \in Bijection(cases, {OutputFile(f) : f \in cases})
    BY <1>4 DEF Bijection, Injection, Surjection, IsInjective
  <2>. QED
    BY <2>1, FS_Bijection DEF ExistsBijection, Collected
<1>6. Cardinality({Row(f) : f \in cases}) = count
  <2> DEFINE name == [f \in cases |-> Row(f)]
  <2>1. \A f, g \in cases : Row(f) = Row(g) => f = g
    BY <1>4 DEF Row
  <2>2. name \in Bijection(cases, {Row(f) : f \in cases})
    BY <2>1 DEF Bijection, Injection, Surjection, IsInjective
  <2>. QED
    BY <2>2, FS_Bijection DEF ExistsBijection, Collected
<1>7. {disk[path] : path \in VectorPaths} = {Document(f) : f \in cases}
  BY <1>2
<1>8. {disk[path].fixture : path \in VectorPaths} = cases
  <2>1. \A f \in cases : disk[OutputFile(f)].fixture = f
    <3>1. \A f \in cases : Document(f).fixture = f
      BY DEF Document
    <3>. QED
      BY <1>2, <3>1
  <2>. QED
    BY <1>2, <2>1
<1>. QED
  BY <1>2, <1>3, <1>5, <1>6, <1>7, <1>8 DEF Collected

---------------------------------------------------------------------------
(* The invariant, action by action. *)

(* Where the disk stays, so does what is said of it. *)
LEMMA DiskKept ==
  ASSUME UNCHANGED disk
  PROVE  /\ IndexNeverLies' <=> IndexNeverLies
         /\ Published' = Published
BY DEF IndexNeverLies, Published, IsPublished, Whole, VectorPaths, Readme, Index, Manifest, Torn

(* Where a session keeps what it collected, so is what was collected. *)
LEMMA CollectedKept ==
  ASSUME Collected, UNCHANGED collector
  PROVE  Collected'
BY DEF Collected, collector, WellSpelled, Separators

LEMMA InitHasInv ==
  ASSUME Init
  PROVE  IInv
<1>1. DOMAIN disk = {}
  BY DEF Init
<1>2. IsFiniteSet({})
  BY FS_EmptySet
<1>. QED
  BY <1>1, <1>2, SessionsAreCounted
     DEF Init, IInv, SessionsStand, Collected, WritingStands, IndexNeverLies, FinishedIsWhole, Whole

(* A session is set up, over whatever directory it has made its own. *)
LEMMA StandUpKeepsInv ==
  ASSUME IInv, StandUp, UNCHANGED disk, DOMAIN disk = {}, written' = 0,
         session' \in 1..MaxSessions
  PROVE  IInv'
<1>1. Collected'
  BY FS_EmptySet DEF StandUp, Collected
<1>2. IndexNeverLies'
  BY DiskKept DEF IInv
<1>3. SessionsStand'
  BY DEF StandUp, SessionsStand
<1>. QED
  BY <1>1, <1>2, <1>3 DEF StandUp, IInv, WritingStands, FinishedIsWhole

LEMMA StartKeepsInv ==
  ASSUME IInv, Start
  PROVE  IInv'
<1>1. /\ UNCHANGED <<queue, written, disk>> /\ written = 0
      /\ session' \in 1..MaxSessions
  BY SessionsAreCounted
     DEF Start, StartEmpty, StartClean, RefuseLeftovers, Begin, IInv, SessionsStand
<1>2. CASE StartEmpty
  <2>1. DOMAIN disk = {}
    BY <1>2 DEF StartEmpty
  <2>. QED
    BY <1>1, <1>2, <2>1, StandUpKeepsInv DEF StartEmpty
<1>3. CASE StartClean \/ RefuseLeftovers
  <2>1. /\ UNCHANGED collector /\ outcome' # "finished"
        /\ phase' \in {"down", "clearing"}
    BY <1>3 DEF StartClean, RefuseLeftovers, Begin
  <2>2. Collected' /\ IndexNeverLies'
    BY <1>1, <2>1, CollectedKept, DiskKept DEF IInv
  <2>. QED
    BY <1>1, <2>1, <2>2 DEF IInv, SessionsStand, WritingStands, FinishedIsWhole
<1>. QED
  BY <1>2, <1>3 DEF Start

LEMMA RemoveEntryKeepsInv ==
  ASSUME IInv, RemoveEntry
  PROVE  IInv'
<1>1. PICK path \in DOMAIN disk : disk' = [p \in DOMAIN disk \ {path} |-> disk[p]]
  BY DEF RemoveEntry
<1>2. IndexNeverLies'
  <2>1. /\ DOMAIN disk' = DOMAIN disk \ {path}
        /\ \A p \in DOMAIN disk' : disk'[p] = disk[p]
    BY <1>1
  <2>2. Whole(Index)' => Whole(Index) /\ disk'[Index] = disk[Index]
    BY <2>1 DEF Whole, Index, Torn
  <2>3. VectorPaths' \subseteq VectorPaths /\ \A p \in VectorPaths' : disk'[p] = disk[p]
    BY <2>1 DEF VectorPaths, Readme, Index, Manifest
  <2>. QED
    BY <2>2, <2>3 DEF IInv, IndexNeverLies, Index
<1>3. Collected'
  BY CollectedKept DEF RemoveEntry, IInv
<1>. QED
  BY <1>2, <1>3 DEF RemoveEntry, IInv, SessionsStand, WritingStands, FinishedIsWhole

LEMMA ClearedKeepsInv ==
  ASSUME IInv, Cleared
  PROVE  IInv'
<1>1. DOMAIN disk = {}
  BY DEF Cleared
<1>. QED
  BY <1>1, StandUpKeepsInv DEF Cleared, IInv, SessionsStand

(* A call of a filler takes what it claims and, if nothing refuses it, the   *)
(* fixture.                                                                *)
LEMMA AddFixtureKeepsInv ==
  ASSUME IInv, NEW f \in Fixtures, AddFixture(f)
  PROVE  IInv'
<1>1. /\ phase = "filling" /\ attempted' = attempted \cup {f}
      /\ UNCHANGED <<session, phase, outcome, queue, written, disk>>
  BY DEF AddFixture, RefuseId, RefuseClaimed, Collect, Call
<1>2. Collected'
  <2>1. CASE RefuseId(f)
    BY <1>1, <2>1 DEF RefuseId, IInv, Collected, WellSpelled, Separators
  <2>2. ASSUME ClaimType(f)
        PROVE  /\ DOMAIN type_declarations' = DOMAIN type_declarations \cup {f.name}
               /\ \A name \in DOMAIN type_declarations :
                    type_declarations'[name] = type_declarations[name]
               /\ f.name \notin DOMAIN type_declarations =>
                    type_declarations'[f.name] = f.declaration
    BY <2>2 DEF ClaimType
  <2>3. CASE RefuseClaimed(f)
    BY <1>1, <2>2, <2>3 DEF RefuseClaimed, IInv, Collected, WellSpelled, Separators
  <2>4. CASE Collect(f)
    <3>1. /\ cases' = cases \cup {f} /\ UNCHANGED failed
          /\ case_producers' = case_producers \cup {f.id}
          /\ WellSpelled(f.id) /\ f.id \notin case_producers
          /\ f.name \in DOMAIN type_declarations => type_declarations[f.name] = f.declaration
      BY <2>4 DEF Collect, IdRefused, TypeRefused
    <3>2. IsFiniteSet(cases')
      BY <3>1, FS_AddElement DEF IInv, Collected
    <3>3. /\ \A g \in cases' : WellSpelled(g.id)' /\ g.id \in case_producers'
          /\ \A g, h \in cases' : g.id = h.id => g = h
      BY <3>1 DEF IInv, Collected, WellSpelled, Separators
    <3>4. \A g \in cases' : g.name \in DOMAIN type_declarations'
                              /\ type_declarations'[g.name] = g.declaration
      BY <2>2, <2>4, <3>1 DEF Collect, IInv, Collected
    <3>5. /\ cases' \subseteq Fixtures /\ cases' \subseteq attempted'
          /\ ~ failed' => attempted' \subseteq cases'
      BY <1>1, <3>1 DEF IInv, Collected
    <3>. QED
      BY <3>2, <3>3, <3>4, <3>5 DEF Collected
  <2>. QED
    BY <2>1, <2>3, <2>4 DEF AddFixture
<1>3. IndexNeverLies'
  BY <1>1, DiskKept DEF IInv
<1>. QED
  BY <1>1, <1>2, <1>3 DEF IInv, SessionsStand, WritingStands, FinishedIsWhole

LEMMA FinishKeepsInv ==
  ASSUME IInv, Finish
  PROVE  IInv'
<1>1. /\ phase = "filling" /\ phase' = "writing"
      /\ UNCHANGED <<session, outcome, calls, collector, written, disk>>
      /\ written = 0 /\ DOMAIN disk = {}
  BY DEF Finish, IInv, SessionsStand
<1>2. QueueStands' /\ Collected'
  BY <1>1, FinishQueues, CollectedKept DEF IInv
<1>3. Cardinality(cases)' \in Nat
  BY <1>2, FS_CardinalityType DEF Collected
<1>4. DiskStands'
  BY <1>1, <1>3 DEF DiskStands
<1>5. IndexNeverLies'
  BY <1>1, DiskKept DEF IInv
<1>. QED
  BY <1>1, <1>2, <1>4, <1>5 DEF IInv, SessionsStand, WritingStands, FinishedIsWhole

(* While files are written, what they are stays. *)
LEMMA QueueKept ==
  ASSUME QueueStands, UNCHANGED <<session, cases, queue>>
  PROVE  QueueStands'
<1>1. \A f : File(f)' = File(f)
  BY DEF File, OutputFile, FileName, Document
<1>2. Counted' = Counted /\ Indexed' = Indexed /\ Described' = Described
  BY DEF Counted, Indexed, Described, Row, OutputFile, FileName, Document, Readme, Index, Manifest
<1>. QED
  BY <1>1, <1>2 DEF QueueStands

LEMMA OpenKeepsInv ==
  ASSUME IInv, Open
  PROVE  IInv'
<1>1. /\ phase = "writing" /\ written < Len(queue) /\ ~ Opened
      /\ UNCHANGED <<session, phase, outcome, calls, collector, queue, written>>
      /\ Put(Torn)
  BY DEF Open, Unwritten
<1>2. QueueStands /\ DiskStands /\ Collected
  BY <1>1 DEF IInv, WritingStands
<1>3. QueueStands' /\ Collected'
  BY <1>1, <1>2, QueueKept, CollectedKept DEF collector
<1>4. DiskStands'
  <2> DEFINE count == Cardinality(cases)
  <2>1. count \in Nat /\ written \in 0..(count + 3) /\ written < count + 3
    BY <1>1, <1>2, FS_CardinalityType DEF Collected, DiskStands, QueueStands
  <2>2. cases' = cases /\ queue' = queue /\ written' = written
    BY <1>1 DEF collector
  <2>3. /\ DOMAIN disk' = DOMAIN disk \cup {queue[written + 1].path}
        /\ \A p \in DOMAIN disk' :
             disk'[p] = IF p = queue[written + 1].path THEN Torn ELSE disk[p]
    BY <1>1 DEF Put, Current
  <2>4. \A k \in 1..written : queue[k].path # queue[written + 1].path
    <3> SUFFICES ASSUME NEW k \in 1..written, queue[k].path = queue[written + 1].path
                 PROVE  FALSE
      OBVIOUS
    <3>1. k \in 1..(count + 3) /\ written + 1 \in 1..(count + 3) /\ k # written + 1
      BY <2>1
    <3>. QED
      BY <1>2, <3>1 DEF QueueStands
  <2>5. \A k \in 1..written :
          queue[k].path \in DOMAIN disk' /\ disk'[queue[k].path] = queue[k].text
    BY <1>2, <2>3, <2>4 DEF DiskStands
  <2>6. \A path \in DOMAIN disk' :
          \/ \E k \in 1..written : path = queue[k].path
          \/ path = queue[written + 1].path /\ disk'[path] = Torn
    BY <1>2, <2>3 DEF DiskStands
  <2> HIDE DEF count
  <2>7. Torn' = Torn /\ Cardinality(cases)' = Cardinality(cases)
    BY <2>2 DEF Torn
  <2>. QED
    BY <2>1, <2>2, <2>5, <2>6, <2>7 DEF DiskStands, count
<1>5. IndexNeverLies'
  BY <1>3, <1>4, WritingIndexNeverLies, PTL
<1>. QED
  BY <1>1, <1>3, <1>4, <1>5 DEF IInv, SessionsStand, WritingStands, FinishedIsWhole

LEMMA WriteKeepsInv ==
  ASSUME IInv, Write
  PROVE  IInv'
<1>1. /\ phase = "writing" /\ written < Len(queue) /\ Opened
      /\ UNCHANGED <<session, phase, outcome, calls, collector, queue>>
      /\ Put(Current.text) /\ written' = written + 1
  BY DEF Write, Unwritten
<1>2. QueueStands /\ DiskStands /\ Collected
  BY <1>1 DEF IInv, WritingStands
<1>3. QueueStands' /\ Collected'
  BY <1>1, <1>2, QueueKept, CollectedKept DEF collector
<1>4. DiskStands'
  <2> DEFINE count == Cardinality(cases)
  <2>1. count \in Nat /\ written \in 0..(count + 3) /\ written < count + 3
    BY <1>1, <1>2, FS_CardinalityType DEF Collected, DiskStands, QueueStands
  <2>2. cases' = cases /\ queue' = queue
    BY <1>1 DEF collector
  <2>3. /\ DOMAIN disk' = DOMAIN disk \cup {queue[written + 1].path}
        /\ \A p \in DOMAIN disk' :
             disk'[p] = IF p = queue[written + 1].path THEN queue[written + 1].text ELSE disk[p]
    BY <1>1 DEF Put, Current
  <2>4. \A k \in 1..written : queue[k].path # queue[written + 1].path
    <3> SUFFICES ASSUME NEW k \in 1..written, queue[k].path = queue[written + 1].path
                 PROVE  FALSE
      OBVIOUS
    <3>1. k \in 1..(count + 3) /\ written + 1 \in 1..(count + 3) /\ k # written + 1
      BY <2>1
    <3>. QED
      BY <1>2, <3>1 DEF QueueStands
  <2>5. \A k \in 1..(written + 1) :
          queue[k].path \in DOMAIN disk' /\ disk'[queue[k].path] = queue[k].text
    <3>1. \A k \in 1..(written + 1) : k \in 1..written \/ k = written + 1
      BY <2>1
    <3>. QED
      BY <1>2, <2>3, <2>4, <3>1 DEF DiskStands
  <2>6. \A path \in DOMAIN disk' : \E k \in 1..(written + 1) : path = queue[k].path
    <3>1. 1..written \subseteq 1..(written + 1) /\ written + 1 \in 1..(written + 1)
      BY <2>1
    <3>. QED
      BY <1>2, <2>3, <3>1 DEF DiskStands
  <2>7. written' = written + 1 /\ written + 1 \in 0..(count + 3)
    BY <1>1, <2>1
  <2> HIDE DEF count
  <2>8. Cardinality(cases)' = count
    BY <2>2 DEF count
  <2>. QED
    BY <2>2, <2>5, <2>6, <2>7, <2>8 DEF DiskStands
<1>5. IndexNeverLies'
  BY <1>3, <1>4, WritingIndexNeverLies, PTL
<1>. QED
  BY <1>1, <1>3, <1>4, <1>5 DEF IInv, SessionsStand, WritingStands, FinishedIsWhole

(* A session that ends leaves the disk as it is. *)
LEMMA EndKeepsInv ==
  ASSUME IInv, NEW how, End(how), phase # "down",
         how = "finished" => phase = "writing" /\ written = Len(queue)
  PROVE  IInv'
<1>1. /\ phase' = "down" /\ outcome' = how /\ written' = 0
      /\ UNCHANGED <<session, calls, collector, disk>>
  BY DEF End
<1>2. Collected' /\ IndexNeverLies'
  BY <1>1, CollectedKept, DiskKept DEF IInv
<1>3. FinishedIsWhole'
  <2> SUFFICES ASSUME how = "finished"
               PROVE  FinishedIsWhole'
    BY <1>1 DEF FinishedIsWhole
  <2>1. QueueStands /\ DiskStands /\ Collected /\ written = Cardinality(cases) + 3
    BY DEF IInv, WritingStands, QueueStands
  <2>2. /\ {disk[path] : path \in VectorPaths} = {Document(f) : f \in cases}
        /\ Whole(Index) /\ Whole(Manifest)
        /\ Cardinality(VectorPaths) = disk[Manifest].count
        /\ Cardinality(disk[Index].rows) = disk[Manifest].count
        /\ ~ failed => attempted = {disk[path].fixture : path \in VectorPaths}
    BY <2>1, WrittenIsWhole
  <2>3. /\ disk' = disk /\ cases' = cases /\ session' = session /\ failed' = failed
        /\ attempted' = attempted
    BY <1>1 DEF collector
  <2>4. VectorPaths' = VectorPaths /\ Index' = Index /\ Manifest' = Manifest
        /\ (Whole(Index)' <=> Whole(Index)) /\ (Whole(Manifest)' <=> Whole(Manifest))
    BY <2>3 DEF VectorPaths, Readme, Index, Manifest, Whole, Torn
  <2>5. {Document(f) : f \in cases}' = {Document(f) : f \in cases}
    BY <2>3 DEF Document
  <2>. QED
    BY <2>2, <2>3, <2>4, <2>5 DEF FinishedIsWhole
<1>. QED
  BY <1>1, <1>2, <1>3 DEF IInv, SessionsStand, WritingStands

(* IInv holds at first and is kept by every step. *)
LEMMA Inductive ==
  /\ Init => IInv
  /\ IInv /\ [Next]_vars => IInv'
<1>1. ASSUME IInv, UNCHANGED vars
      PROVE  IInv'
  <2>1. /\ UNCHANGED <<session, phase, outcome, calls, collector, queue, written, disk>>
        /\ UNCHANGED <<attempted, failed, cases, case_producers, type_declarations>>
    BY <1>1 DEF vars, collector
  <2>2. Collected' /\ IndexNeverLies'
    BY <1>1, <2>1, CollectedKept, DiskKept DEF IInv
  <2>3. WritingStands'
    <3> SUFFICES ASSUME phase = "writing"
                 PROVE  QueueStands' /\ DiskStands'
      BY <2>1 DEF WritingStands
    <3>1. QueueStands'
      BY <1>1, <2>1, QueueKept DEF IInv, WritingStands
    <3>2. DiskStands'
      BY <1>1, <2>1 DEF IInv, WritingStands, DiskStands, Torn
    <3>. QED
      BY <3>1, <3>2
  <2>4. FinishedIsWhole'
    BY <1>1, <2>1 DEF IInv, FinishedIsWhole, VectorPaths, Whole, Document, Readme, Index, Manifest, Torn
  <2>. QED
    BY <1>1, <2>1, <2>2, <2>3, <2>4 DEF IInv, SessionsStand
<1>2. ASSUME IInv, Next
      PROVE  IInv'
  <2>1. CASE Fail
    BY <1>2, <2>1, EndKeepsInv DEF Fail, Unwritten
  <2>2. CASE Leave
    BY <1>2, <2>2, EndKeepsInv DEF Leave
  <2>3. CASE Stop
    BY <1>2, <2>3, EndKeepsInv DEF Stop
  <2>. QED
    BY <1>2, <2>1, <2>2, <2>3, StartKeepsInv, RemoveEntryKeepsInv, ClearedKeepsInv,
       FinishKeepsInv, OpenKeepsInv, WriteKeepsInv, AddFixtureKeepsInv DEF Next, Proceed
<1>. QED
  BY <1>1, <1>2, InitHasInv

---------------------------------------------------------------------------
(* What a step does to the disk, and to the catalog on it. *)

(* A file is opened over no text: what is there is of another file. *)
LEMMA NothingOver ==
  ASSUME IInv, Next, phase # "clearing",
         NEW path \in DOMAIN disk, disk[path] # Torn
  PROVE  path \in DOMAIN disk' /\ disk'[path] = disk[path]
<1>1. CASE Open
  <2>1. /\ QueueStands /\ DiskStands /\ written < Len(queue)
        /\ disk' = [p \in DOMAIN disk \cup {queue[written + 1].path} |->
                     IF p = queue[written + 1].path THEN Torn ELSE disk[p]]
    BY <1>1 DEF Open, Unwritten, IInv, WritingStands, Put, Current
  <2>2. Cardinality(cases) \in Nat /\ written + 1 \in 1..(Cardinality(cases) + 3)
    BY <2>1, FS_CardinalityType DEF IInv, Collected, QueueStands, DiskStands
  <2>3. path # queue[written + 1].path
    <3>1. SUFFICES ASSUME path = queue[written + 1].path
                   PROVE  FALSE
      OBVIOUS
    <3>2. Whole(queue[written + 1].path)
      BY <3>1 DEF Whole
    <3>3. written + 1 <= written
      BY <2>1, <2>2, <3>2, WholeIsWritten
    <3>. QED
      BY <2>1, <3>3 DEF DiskStands
  <2>. QED
    BY <2>1, <2>3
<1>2. CASE Write
  <2>1. path # Current.path
    BY <1>2 DEF Write, Opened
  <2>. QED
    BY <1>2, <2>1 DEF Write, Put
<1>3. CASE ~ Open /\ ~ Write
  <2>1. ~ RemoveEntry
    BY DEF RemoveEntry
  <2>2. disk' = disk
    BY <1>3, <2>1
       DEF Next, Start, Proceed, StartEmpty, StartClean, RefuseLeftovers, Begin, Cleared, Finish,
           Fail, Leave, Stop, End, AddFixture, RefuseId, RefuseClaimed, Collect, Call
  <2>. QED
    BY <2>2
<1>. QED
  BY <1>1, <1>2, <1>3

(* A catalog is there once all has been written, and is this session's. *)
LEMMA CatalogIsTheSessions ==
  ASSUME SessionsStand, Collected, phase = "writing", QueueStands, DiskStands
  PROVE  /\ written # Cardinality(cases) + 3 => Published = {}
         /\ written = Cardinality(cases) + 3 =>
              \E documents : Consumer!IsCatalog(documents) /\ Published = {documents}
<1>1. written # Cardinality(cases) + 3 => Published = {}
  BY DescribedOnDisk DEF Published, IsPublished
<1>2. ASSUME written = Cardinality(cases) + 3
      PROVE  \E documents : Consumer!IsCatalog(documents) /\ Published = {documents}
  <2> DEFINE documents == {Document(f) : f \in cases}
  <2>1. Cardinality(cases) \in Nat /\ written >= Cardinality(cases)
    BY <1>2, FS_CardinalityType DEF Collected
  <2>2. /\ VectorPaths = {OutputFile(f) : f \in cases}
        /\ \A f \in cases : disk[OutputFile(f)] = Document(f)
    BY <2>1, VectorsOnDisk
  <2>3. Whole(Manifest) /\ Whole(Index) /\ disk[Index] = [rows |-> {Row(f) : f \in cases}]
    BY <1>2, <2>1, DescribedOnDisk
  <2>4. {row.path : row \in disk[Index].rows} = {OutputFile(f) : f \in cases}
    <3>1. disk[Index].rows = {Row(f) : f \in cases}
      BY <2>3
    <3>2. \A f \in cases : Row(f).path = OutputFile(f)
      BY DEF Row
    <3>. QED
      BY <3>1, <3>2
  <2>5. Published = {documents}
    BY <2>2, <2>3, <2>4 DEF Published, IsPublished
  <2>6. Consumer!IsCatalog(documents)
    <3>1. session \in 1..MaxSessions
      BY SessionsAreCounted DEF SessionsStand
    <3>2. documents \subseteq [session : 1..MaxSessions, fixture : Fixtures]
      BY <3>1 DEF Collected, Document
    <3>3. ASSUME NEW f \in cases, NEW g \in cases
          PROVE  /\ Document(f).session = Document(g).session
                 /\ Document(f).fixture = f /\ Document(g).fixture = g
                 /\ f.id = g.id => f = g
                 /\ f.name = g.name => f.declaration = g.declaration
      BY DEF Collected, Document
    <3>4. \A d \in documents : \E f \in cases : d = Document(f)
      OBVIOUS
    <3> HIDE DEF documents
    <3>5. ASSUME NEW d \in documents, NEW e \in documents
          PROVE  /\ d.session = e.session
                 /\ d.fixture.id = e.fixture.id => d = e
                 /\ d.fixture.name = e.fixture.name => d.fixture.declaration = e.fixture.declaration
      <4>1. PICK f \in cases : d = Document(f)
        BY <3>4
      <4>2. PICK g \in cases : e = Document(g)
        BY <3>4
      <4>. QED
        BY <4>1, <4>2, <3>3
    <3>. QED
      BY <3>2, <3>5 DEF Consumer!IsCatalog
  <2>. QED
    BY <2>5, <2>6
<1>. QED
  BY <1>1, <1>2

(* What a consumer finds while a session writes. *)
NoneOrOne ==
  Published = {} \/ \E documents : Consumer!IsCatalog(documents) /\ Published = {documents}

LEMMA OneCatalogAtMost ==
  SessionsStand /\ Collected /\ phase = "writing" /\ QueueStands /\ DiskStands => NoneOrOne
BY CatalogIsTheSessions DEF NoneOrOne

(* Filling publishes, clearing withdraws, and nothing else is seen. *)
LEMMA StepRefines ==
  ASSUME IInv, Next, IInv'
  PROVE  Consumer!Publish \/ Consumer!Withdraw \/ Published' = Published
<1>1. CASE Open \/ Write
  <2>1. /\ phase = "writing" /\ phase' = "writing" /\ written < Len(queue)
        /\ UNCHANGED <<session, cases, queue>>
    BY <1>1 DEF Open, Write, Unwritten, collector
  <2>2. Published = {}
    <3>1. written < Cardinality(cases) + 3
      BY <2>1 DEF IInv, WritingStands, QueueStands
    <3>2. Cardinality(cases) \in Nat /\ written \in Nat
      BY <2>1, FS_CardinalityType DEF IInv, Collected, WritingStands, DiskStands
    <3>. QED
      BY <2>1, <3>1, <3>2, CatalogIsTheSessions DEF IInv, WritingStands
  <2>3. (SessionsStand /\ Collected /\ phase = "writing" /\ QueueStands /\ DiskStands)'
    BY <2>1 DEF IInv, WritingStands
  <2>4. NoneOrOne'
    BY <2>3, OneCatalogAtMost, PTL
  <2>. QED
    BY <2>2, <2>4 DEF Consumer!Publish, NoneOrOne, Consumer!IsCatalog
<1>2. CASE RemoveEntry
  <2>1. PICK path \in DOMAIN disk : disk' = [p \in DOMAIN disk \ {path} |-> disk[p]]
    BY <1>2 DEF RemoveEntry
  <2>2. /\ DOMAIN disk' = DOMAIN disk \ {path}
        /\ \A p \in DOMAIN disk' : disk'[p] = disk[p]
    BY <2>1
  <2>3. ASSUME IsPublished'
        PROVE  Published' = Published
    <3>1. /\ Whole(Index) /\ Whole(Manifest) /\ disk'[Index] = disk[Index]
          /\ {row.path : row \in disk[Index].rows} = VectorPaths'
      BY <2>2, <2>3 DEF IsPublished, Whole, Index, Manifest, Torn
    <3>2. VectorPaths' \subseteq VectorPaths /\ \A p \in VectorPaths' : disk'[p] = disk[p]
      BY <2>2 DEF VectorPaths, Readme, Index, Manifest
    <3>3. VectorPaths \subseteq {row.path : row \in disk[Index].rows}
      BY <3>1 DEF IInv, IndexNeverLies
    <3>4. VectorPaths' = VectorPaths
      BY <3>1, <3>2, <3>3
    <3>5. IsPublished
      BY <3>1, <3>4 DEF IsPublished
    <3>6. {disk'[p] : p \in VectorPaths'} = {disk[p] : p \in VectorPaths}
      BY <3>2, <3>4
    <3>. QED
      BY <2>3, <3>5, <3>6 DEF Published
  <2>4. ~ IsPublished' => Published' = {}
    BY DEF Published
  <2>. QED
    BY <2>3, <2>4 DEF Consumer!Withdraw
<1>3. CASE ~ Open /\ ~ Write /\ ~ RemoveEntry
  <2>1. disk' = disk
    BY <1>3
       DEF Next, Start, Proceed, StartEmpty, StartClean, RefuseLeftovers, Begin, Cleared, Finish,
           Fail, Leave, Stop, End, AddFixture, RefuseId, RefuseClaimed, Collect, Call
  <2>. QED
    BY <2>1, DiskKept
<1>. QED
  BY <1>1, <1>2, <1>3

---------------------------------------------------------------------------
(* Theorems. *)

(* Whatever stopped and restarted, an index that can be read lists every    *)
(* vector there is, with the digest of the text that is there.             *)
THEOREM IndexTheorem == Spec => []IndexNeverLies
<1>1. IInv => IndexNeverLies
  BY DEF IInv
<1>. QED
  BY <1>1, Inductive, PTL DEF Spec

(* A session that ends by itself leaves exactly what it collected, counted, *)
(* however the cases are ordered and whatever the sessions before it left. *)
THEOREM FinishedTheorem == Spec => []FinishedIsWhole
<1>1. IInv => FinishedIsWhole
  BY DEF IInv
<1>. QED
  BY <1>1, Inductive, PTL DEF Spec

(* Text once written stays until --clean asks for it to go: no case and no  *)
(* session writes over another.                                            *)
THEOREM OverwriteTheorem == Spec => NothingIsWrittenOver
<1> DEFINE Kept ==
      \A path \in DOMAIN disk : disk[path] # Torn /\ phase # "clearing" =>
        path \in DOMAIN disk' /\ disk'[path] = disk[path]
<1>1. IInv /\ [Next]_vars => [Kept]_disk
  <2> SUFFICES ASSUME IInv, [Next]_vars, disk' # disk
               PROVE  Kept
    OBVIOUS
  <2>1. Next
    BY DEF vars
  <2>. QED
    BY <2>1, NothingOver
<1>. QED
  BY <1>1, Inductive, PTL DEF Spec, NothingIsWrittenOver

(* Filling implements the catalog: a consumer finds all of one session's    *)
(* work or nothing, and no id or type name in it means two things.         *)
THEOREM CatalogTheorem == Spec => PublishesCatalogs
<1>1. Init => Published = {}
  BY DEF Init, Published, IsPublished, Whole
<1>2. IInv /\ [Next]_vars => [Consumer!Publish \/ Consumer!Withdraw]_Published
  <2> SUFFICES ASSUME IInv, [Next]_vars
               PROVE  [Consumer!Publish \/ Consumer!Withdraw]_Published
    OBVIOUS
  <2>1. CASE Next
    BY <2>1, Inductive, StepRefines
  <2>2. CASE UNCHANGED vars
    BY <2>2, DiskKept DEF vars
  <2>. QED
    BY <2>1, <2>2
<1>. QED
  BY <1>1, <1>2, Inductive, PTL DEF Spec, PublishesCatalogs, Consumer!Spec
=============================================================================

---------------------------- MODULE FillSession -----------------------------
(***************************************************************************)
(* Filling the directory of vectors (plugin.py of src/packages/testing):   *)
(* a session that collects what its tests fill and writes it out, and what *)
(* the directory holds when a session stops anywhere and another starts.   *)
(*                                                                         *)
(* One session runs at a time.  A distributed one is refused, and two at   *)
(* once are nowhere provided for.                                          *)
(***************************************************************************)
EXTENDS Integers, FiniteSets, SequencesExt

CONSTANTS
  Fixtures,      \* what the calls of the fillers may hand to the collector
  Letters,       \* what a word of a case id is spelled with
  MaxSessions,   \* bound on the sessions started
  MaxCalls       \* bound on the calls of all their fillers

ASSUME IdsAreSpelled == "-" \notin Letters /\ \A f \in Fixtures : f.id \in Seq(STRING)
ASSUME SessionsAreCounted == MaxSessions \in Nat

VARIABLES
  session,             \* how many sessions have started
  phase,               \* down, clearing, filling or writing
  outcome,             \* how the last session ended: none yet, refused, stopped, failed, finished
  calls,               \* the calls of fillers so far
  attempted,           \* the fixtures this session's tests handed to the collector
  failed,              \* whether one of those calls was refused, which fails its test
  cases,               \* the collected ones; they are kept to compare once it is down
  case_producers,      \* the case ids claimed
  type_declarations,   \* the type names claimed, each with its declaration
  queue,               \* the files to be written, in their order
  written,             \* how many of them have been
  disk                 \* the directory: the text each path in it holds

collector == <<attempted, failed, cases, case_producers, type_declarations>>
vars == <<session, phase, outcome, calls, collector, queue, written, disk>>

---------------------------------------------------------------------------
(* Case ids, and the file an id names. *)

Separators == {"/", "_"}

(* Words of letters, joined by single separators. *)
WellSpelled(id) ==
  /\ id # <<>>
  /\ \A i \in DOMAIN id : id[i] \in Letters \cup Separators
  /\ \A i \in DOMAIN id : id[i] \in Separators =>
       /\ i > 1 /\ id[i - 1] \in Letters
       /\ i < Len(id) /\ id[i + 1] \in Letters

(* Fault: segments joined by a character that ids hold. *)
UnderscoredName(id) == [i \in DOMAIN id |-> IF id[i] = "/" THEN "_" ELSE id[i]]

(* The segments joined by a dash, which no id holds. *)
FileName(id) == [i \in DOMAIN id |-> IF id[i] = "/" THEN "-" ELSE id[i]]

(* Paths, segment by segment. *)
Readme == <<"README.md">>
Index == <<"index.json">>
Manifest == <<"manifest.json">>

OutputFile(f) == <<f.format, f.kind, f.valid, FileName(f.id)>>

Document(f) == [session |-> session, fixture |-> f]

(* A file opened for writing, whose text is not all there. *)
Torn == [torn |-> TRUE]

Row(f) == [id |-> f.id, path |-> OutputFile(f), digest |-> Document(f)]

---------------------------------------------------------------------------
(* A session starts, and makes the directory its own. *)

StandUp ==
  /\ phase' = "filling"
  /\ attempted' = {} /\ failed' = FALSE /\ cases' = {}
  /\ case_producers' = {} /\ type_declarations' = <<>>

Begin ==
  /\ phase = "down" /\ session < MaxSessions
  /\ session' = session + 1
  /\ UNCHANGED <<calls, queue, written, disk>>

(* Fault: a directory that is not empty is filled all the same. *)
StartAnyway == Begin /\ outcome' = "none" /\ StandUp

StartEmpty == Begin /\ disk = <<>> /\ outcome' = "none" /\ StandUp

(* --clean, over a directory that holds something. *)
StartClean ==
  /\ Begin
  /\ disk # <<>>
  /\ phase' = "clearing"
  /\ outcome' = "none"
  /\ UNCHANGED collector

(* Without it. *)
RefuseLeftovers ==
  /\ Begin
  /\ disk # <<>>
  /\ outcome' = "refused"
  /\ UNCHANGED <<phase, collector>>

(* Fault: only the vectors of the leftovers are removed. *)
RemoveVectors ==
  /\ phase = "clearing"
  /\ \E path \in DOMAIN disk \ {Readme, Index, Manifest} :
       disk' = [p \in DOMAIN disk \ {path} |-> disk[p]]
  /\ UNCHANGED <<session, phase, outcome, calls, collector, queue, written>>

(* The tree is removed entry by entry, in the order the system lists them. *)
RemoveEntry ==
  /\ phase = "clearing"
  /\ \E path \in DOMAIN disk : disk' = [p \in DOMAIN disk \ {path} |-> disk[p]]
  /\ UNCHANGED <<session, phase, outcome, calls, collector, queue, written>>

Cleared ==
  /\ phase = "clearing"
  /\ disk = <<>>
  /\ StandUp
  /\ UNCHANGED <<session, outcome, calls, queue, written, disk>>

---------------------------------------------------------------------------
(* add_fixture: the id is claimed, then the type name the fixture carries, *)
(* then a file is derived, and only then is the fixture collected.  What   *)
(* has been claimed when a later step refuses stays claimed.               *)

Call(f) ==
  /\ phase = "filling" /\ calls < MaxCalls
  /\ calls' = calls + 1
  /\ attempted' = attempted \cup {f}
  /\ UNCHANGED <<session, phase, outcome, queue, written, disk>>

IdRefused(f) == ~ WellSpelled(f.id) \/ f.id \in case_producers

(* A name already claimed keeps the declaration it was claimed for. *)
ClaimType(f) ==
  type_declarations' =
    [name \in DOMAIN type_declarations \cup {f.name} |->
       IF name \in DOMAIN type_declarations THEN type_declarations[name] ELSE f.declaration]

TypeRefused(f) ==
  f.name \in DOMAIN type_declarations /\ type_declarations[f.name] # f.declaration

RefuseId(f) ==
  /\ Call(f)
  /\ IdRefused(f)
  /\ failed' = TRUE
  /\ UNCHANGED <<cases, case_producers, type_declarations>>

(* Its type name stands for another type, or its test is not under the fillers. *)
RefuseClaimed(f) ==
  /\ Call(f)
  /\ ~ IdRefused(f)
  /\ TypeRefused(f) \/ ~ f.filler
  /\ case_producers' = case_producers \cup {f.id}
  /\ ClaimType(f)
  /\ failed' = TRUE
  /\ UNCHANGED cases

(* Fault: a type name is not held to the declaration it was claimed for. *)
CollectUnheld(f) ==
  /\ Call(f)
  /\ ~ IdRefused(f) /\ f.filler
  /\ case_producers' = case_producers \cup {f.id}
  /\ ClaimType(f)
  /\ cases' = cases \cup {f}
  /\ UNCHANGED failed

Collect(f) ==
  /\ Call(f)
  /\ ~ IdRefused(f) /\ ~ TypeRefused(f) /\ f.filler
  /\ case_producers' = case_producers \cup {f.id}
  /\ ClaimType(f)
  /\ cases' = cases \cup {f}
  /\ UNCHANGED failed

AddFixture(f) == RefuseId(f) \/ RefuseClaimed(f) \/ Collect(f)

---------------------------------------------------------------------------
(* write_fixtures: the vectors by path, then what describes them. *)

Sorted ==
  {order \in SetToSeqs(cases) : \A i, j \in DOMAIN order : i < j => order[i].rank < order[j].rank}

Vectors(order) ==
  [k \in DOMAIN order |-> [path |-> OutputFile(order[k]), text |-> Document(order[k])]]

Counted == [path |-> Readme, text |-> [count |-> Cardinality(cases)]]
Indexed == [path |-> Index, text |-> [rows |-> {Row(f) : f \in cases}]]
Described == [path |-> Manifest, text |-> [count |-> Cardinality(cases)]]

(* Fault: the descriptions are written before what they describe. *)
FinishDescribingFirst ==
  /\ phase = "filling"
  /\ phase' = "writing"
  /\ \E order \in Sorted : queue' = <<Counted, Indexed, Described>> \o Vectors(order)
  /\ UNCHANGED <<session, outcome, calls, collector, written, disk>>

(* The tests are over, passed or not. *)
Finish ==
  /\ phase = "filling"
  /\ phase' = "writing"
  /\ \E order \in Sorted : queue' = Vectors(order) \o <<Counted, Indexed, Described>>
  /\ UNCHANGED <<session, outcome, calls, collector, written, disk>>

Undocumented == \E f \in cases : ~ f.documented

Current == queue[written + 1]

Opened == Current.path \in DOMAIN disk /\ disk[Current.path] = Torn

Put(text) ==
  disk' = [p \in DOMAIN disk \cup {Current.path} |-> IF p = Current.path THEN text ELSE disk[p]]

Unwritten == phase = "writing" /\ written < Len(queue)

(* The document is made, and may be refused, before its file is opened. *)
Open ==
  /\ Unwritten
  /\ ~ Opened
  /\ ~ (Current.path = Readme /\ Undocumented)
  /\ Put(Torn)
  /\ UNCHANGED <<session, phase, outcome, calls, collector, queue, written>>

Write ==
  /\ Unwritten
  /\ Opened
  /\ Put(Current.text)
  /\ written' = written + 1
  /\ UNCHANGED <<session, phase, outcome, calls, collector, queue>>

End(how) ==
  /\ phase' = "down"
  /\ outcome' = how
  /\ queue' = <<>> /\ written' = 0
  /\ UNCHANGED <<session, calls, collector, disk>>

(* A refusal no table of the shipped document names. *)
Fail ==
  /\ Unwritten
  /\ Current.path = Readme /\ Undocumented
  /\ End("failed")

Leave == phase = "writing" /\ written = Len(queue) /\ End("finished")

(* The process may be killed at any time: what is on the disk stays. *)
Stop == phase # "down" /\ End("stopped")

---------------------------------------------------------------------------

Init ==
  /\ session = 0 /\ phase = "down" /\ outcome = "none" /\ calls = 0
  /\ attempted = {} /\ failed = FALSE /\ cases = {}
  /\ case_producers = {} /\ type_declarations = <<>>
  /\ queue = <<>> /\ written = 0 /\ disk = <<>>

Start == StartEmpty \/ StartClean \/ RefuseLeftovers

(* What a session does once started, other than run another test. *)
Proceed == RemoveEntry \/ Cleared \/ Finish \/ Open \/ Write \/ Fail \/ Leave

Next == Start \/ Proceed \/ (\E f \in Fixtures : AddFixture(f)) \/ Stop

(* A session once started comes to its end; no session has to be started. *)
Spec == Init /\ [][Next]_vars /\ WF_vars(Proceed)

---------------------------------------------------------------------------
(* Properties. *)

Whole(path) == path \in DOMAIN disk /\ disk[path] # Torn

VectorPaths == DOMAIN disk \ {Readme, Index, Manifest}

(* Whatever stopped and restarted, an index that can be read lists every   *)
(* vector there is, with the digest of the text that is there: no vector   *)
(* of another session is among them (plugin.py:286).                       *)
IndexNeverLies ==
  Whole(Index) => \A path \in VectorPaths :
    \E row \in disk[Index].rows : row.path = path /\ row.digest = disk[path]

(* A session that ends by itself leaves exactly what it collected, and a   *)
(* manifest counting it (test_plugin.py:446).  Refused fixtures fail their  *)
(* tests, so when none failed nothing that was filled is missing, whatever *)
(* ids and names the others had claimed.                                   *)
FinishedIsWhole ==
  outcome = "finished" /\ phase = "down" =>
    /\ {disk[path] : path \in VectorPaths} = {Document(f) : f \in cases}
    /\ Whole(Index) /\ Whole(Manifest)
    /\ Cardinality(VectorPaths) = disk[Manifest].count
    /\ Cardinality(disk[Index].rows) = disk[Manifest].count
    /\ ~ failed => attempted = {disk[path].fixture : path \in VectorPaths}

(* Text once written stays until --clean asks for it to go: neither a      *)
(* second case nor a second session writes over it (test_plugin.py:357).   *)
NothingIsWrittenOver ==
  [][\A path \in DOMAIN disk : disk[path] # Torn /\ phase # "clearing" =>
       path \in DOMAIN disk' /\ disk'[path] = disk[path]]_disk

(* A directory is a catalog when its manifest is there and its index lists *)
(* what it holds.                                                          *)
IsPublished ==
  /\ Whole(Manifest) /\ Whole(Index)
  /\ {row.path : row \in disk[Index].rows} = VectorPaths

Published == IF IsPublished THEN {{disk[path] : path \in VectorPaths}} ELSE {}

Consumer == INSTANCE Catalog WITH
  published <- Published,
  Documents <- [session : 1..MaxSessions, fixture : Fixtures]

(* Filling implements the catalog: a consumer finds all of one session's   *)
(* work or nothing, and never finds one id or type name meaning two things.*)
PublishesCatalogs == Consumer!Spec

(* Every session ends. *)
EverySessionEnds == (phase # "down") ~> (phase = "down")
============================================================================

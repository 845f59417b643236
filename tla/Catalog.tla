------------------------------ MODULE Catalog -------------------------------
(***************************************************************************)
(* What the directory of vectors is to a consumer: at any time either no   *)
(* catalog at all, or one whole catalog, the work of a single fill, in     *)
(* which an id names one vector and a type name one declaration.           *)
(* FillSession implements this specification, stops and restarts included. *)
(***************************************************************************)
CONSTANT Documents   \* the vectors fills may write, each of the session that filled it

VARIABLE published   \* the catalogs a consumer finds: one, or none

IsCatalog(documents) ==
  /\ documents \subseteq Documents
  /\ \A d, e \in documents :
       /\ d.session = e.session
       /\ d.fixture.id = e.fixture.id => d = e
       /\ d.fixture.name = e.fixture.name => d.fixture.declaration = e.fixture.declaration

Publish ==
  /\ published = {}
  /\ \E documents \in published' : IsCatalog(documents) /\ published' = {documents}

Withdraw ==
  /\ published # {}
  /\ published' = {}

Spec == published = {} /\ [][Publish \/ Withdraw]_published
============================================================================

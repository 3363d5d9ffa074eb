------------------------------ MODULE MCAccess ------------------------------
(* Instances of Access for TLC. *)
EXTENDS Access, TLC

\* Every place of these kinds with one id.
Of(group, kind) == {p \in PlacesOf(group, kind) : \A k \in DOMAIN p.ids : p.ids[k] = 1}

\* A block of a page and its copy in a snapshot, and a result, of each user.
SomePlaces == Of("nested", "page_block") \cup Of("nested", "snapshot_block")
                \cup Of("scalar", "item_summary")

\* The clients are behind one network address.
OneNetwork == [c \in Clients |-> "n"]

Symmetry == Permutations(Clients) \cup Permutations(Apis)

\* The limiter knows nothing of accounts and keys: windows are explored without them,
\* and they with one bucket of one request.
Apart ==
  \/ users = <<>> /\ \A p \in Processes : env = procs[p].env /\ \E k \in KeyIds : env = FirstEnv(k)
  \/ now = 1 /\ \A p \in Apis : Cardinality(admitted[p]) <= 1
=============================================================================

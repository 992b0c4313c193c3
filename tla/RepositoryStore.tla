--------------------------- MODULE RepositoryStore ---------------------------
(* The repository implements OptimisticStore: the table is what the write     *)
(* instance holds, the past is its whole history, and what a client has seen  *)
(* is the entity it holds, without the version.                               *)
EXTENDS UserRepositoryInvariant

\* "Not there" is neither a row's contents nor what a client has seen.
ASSUME NoneAssumption == None \notin NewRow \cup [id: Ids, data: NewRow]

DataOf(row) == [uid |-> row.uid, age |-> row.age]

TableOf(t) == [id \in Ids |-> IF IsLive(t, id) THEN DataOf(t[id]) ELSE None]
RowsOf(t) == {[id |-> id, data |-> DataOf(t[id])] : id \in LiveIds(t)}
SeenIn(e) == IF e = None THEN None ELSE [id |-> e.id, data |-> DataOf(e)]

StoreTable == TableOf(Primary)
StorePast == UNION {RowsOf(log[p]) : p \in 1..Len(log)}
StoreSeen == [c \in Clients |-> SeenIn(held[c])]

Store == INSTANCE OptimisticStore WITH table <- StoreTable, past <- StorePast, seen <- StoreSeen

\* Every behaviour of the repository is one of OptimisticStore: whatever its
\* caches and read instances serve once was in the table, no two live rows have
\* the same uid, an id is never used twice, and update() compares versions as if
\* it compared the contents with those that the caller saw.
ImplementsStore == Store!Spec
=============================================================================

--------------------------- MODULE OptimisticStore ---------------------------
(***************************************************************************)
(* What the repository promises of one table, with no caches, versions or  *)
(* messages: rows with a unique column, reads that may return any contents *)
(* the row once had, and an update that is applied only to the very        *)
(* contents that its caller saw.                                           *)
(***************************************************************************)
CONSTANTS Clients, Ids, Uids, Ages, None

Data == [uid: Uids, age: Ages]

VARIABLES
    table,  \* the contents of each row, None when there is no row
    past,   \* every [id, data] that ever was in the table
    seen    \* what each client saw last, [id, data] or None

vars == <<table, past, seen>>

Version == [id: Ids, data: Data]

Rows(t) == {[id |-> id, data |-> t[id]] : id \in {i \in Ids : t[i] # None}}

UniqueUids(t) ==
    \A i, j \in Ids : t[i] # None /\ t[j] # None /\ t[i].uid = t[j].uid => i = j

Init == /\ table \in [Ids -> Data \cup {None}]
        /\ UniqueUids(table)
        /\ past = Rows(table)
        /\ seen = [c \in Clients |-> None]

Write(t) == /\ UniqueUids(t)
            /\ table' = t
            /\ past' = past \cup Rows(t)

\* A client whose write was answered has seen what it wrote; a client that got
\* an error instead has not.
Saw(c, v) == seen' = [seen EXCEPT ![c] = v] \/ UNCHANGED seen

\* An id is used for one row only.
Fresh(id) == \A v \in past : v.id # id

Insert(c, id, d) == /\ Fresh(id)
                    /\ Write([table EXCEPT ![id] = d])
                    /\ Saw(c, [id |-> id, data |-> d])

InsertMany(rows) == /\ \A id \in DOMAIN rows : Fresh(id)
                    /\ Write([id \in Ids |-> IF id \in DOMAIN rows THEN rows[id] ELSE table[id]])
                    /\ UNCHANGED seen

Observe(c) == /\ \E v \in past : seen' = [seen EXCEPT ![c] = v]
              /\ UNCHANGED <<table, past>>

\* Compare and set: the row still has the contents that the client saw.
Replace(c, d) == /\ seen[c] # None
                 /\ table[seen[c].id] = seen[c].data
                 /\ Write([table EXCEPT ![seen[c].id] = d])
                 /\ Saw(c, [id |-> seen[c].id, data |-> d])

\* A bulk update sets one column of some rows, whatever they contain.
SetAge(ids, a) == /\ \A id \in ids : table[id] # None
                  /\ Write([id \in Ids |-> IF id \in ids THEN [table[id] EXCEPT !.age = a]
                                                         ELSE table[id]])
                  /\ UNCHANGED seen

Remove(ids) == /\ Write([id \in Ids |-> IF id \in ids THEN None ELSE table[id]])
               /\ UNCHANGED seen

Forget(clients) == /\ seen' = [c \in Clients |-> IF c \in clients THEN None ELSE seen[c]]
                   /\ UNCHANGED <<table, past>>

Next == \/ \E c \in Clients : \/ Observe(c)
                              \/ \E d \in Data : Replace(c, d)
                              \/ \E id \in Ids, d \in Data : Insert(c, id, d)
        \/ \E ids \in SUBSET Ids : \/ Remove(ids)
                                   \/ \E a \in Ages : SetAge(ids, a)
                                   \/ \E rows \in [ids -> Data] : InsertMany(rows)
        \/ \E clients \in SUBSET Clients : Forget(clients)

Spec == Init /\ [][Next]_vars
=============================================================================

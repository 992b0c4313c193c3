-------------------------- MODULE MCUserRepository --------------------------
(* Small instances of UserRepository for TLC.                                *)
EXTENDS RepositoryStore, TLC

CONSTANTS n1, n2, c1, c2, u1, u2

\* One client on each of two nodes.
OnePerNode == [c \in Clients |-> IF c = c1 THEN n1 ELSE n2]

\* Two clients that share one node's caches.
SameNode == [c \in Clients |-> n1]

\* Exchanging the nodes together with their clients, or the clients of one node,
\* changes neither of the two assignments.
NodeSymmetry == {f \in Permutations({n1, n2, c1, c2}) :
                   \/ f[n1] = n1 /\ f[c1] = c1 /\ f[n2] = n2
                   \/ f[n1] = n2 /\ f[n2] = n1 /\ f[c1] = c2}
ClientSymmetry == Permutations({c1, c2})

\* c1 writes and reads rows by their ids; c2, on the other node, reads by uid and
\* lists.  Only beginnings of calls are restricted.
Begins(c, labels) == pc[c] = "idle" /\ pc'[c] \in labels
WriterAndReader ==
    /\ ~Begins(c1, {"getByUid", "mapped", "list", "listCached"})
    /\ ~Begins(c2, {"getByID"})
    /\ log' # log => todo'[c2] = todo[c2]

Young == 1
Old == 2

\* The table when the nodes start.
SeedNone == << >>
SeedOne  == << [uid |-> u1, age |-> Young] >>
SeedOneOld == << [uid |-> u1, age |-> Old] >>
SeedTwo  == << [uid |-> u1, age |-> Young], [uid |-> u2, age |-> Old] >>
=============================================================================

------------------------ MODULE MCRedisCacheProvider ------------------------
(* A small instance of RedisCacheProvider for TLC.                           *)
EXTENDS RedisCacheProvider

CONSTANTS n1, n2, h1, h2

\* In one behaviour the processes use two of the four kinds.
KindsInUse == {t.kind : t \in {u \in Topics : \E n \in Nodes : handler[n][u] # None}}
                \cup {call[c].topic.kind : c \in {d \in Calls : call[d] # None}}

FewKinds == \/ KindsInUse' \subseteq {"invalidation", "flush_list"}
            \/ KindsInUse' \subseteq {"flush_item", "bump_epoch"}

\* n1 connects at the first attempt, only publishes, and is closed in the middle of it
\* or not at all; n2 begins after it, publishes and listens, to itself too, and may have
\* to connect again.
Roles == /\ client'[n1] > 0 => tries'[n1] = 0
         /\ client[n1] = 0 => tries'[n2] = 0
         /\ \A t \in Topics : handler'[n1][t] = None
         /\ closing[n1] = "open" /\ closing'[n1] # "open" =>
              \E c \in Calls : IsTrying(c) /\ call[c].from = n1

\* A second repository registers only for one kind.
Repositories == \A t \in Topics :
                    handler'[n2][t] = h2 => t.kind = "bump_epoch"

Bounded == FewKinds /\ Roles /\ Repositories
=============================================================================

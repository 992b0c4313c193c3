-------------------------- MODULE MCDatabaseAccess --------------------------
(* A small instance of DatabaseAccess for TLC.                               *)
EXTENDS DatabaseAccess

CONSTANTS i1, i2, g1, g2

MkGroup(name, entities, reads, writes) ==
    [name |-> name, entities |-> entities, reads |-> reads, writes |-> writes]

\* A group for User and a fallback with two write instances; the fallback alone;
\* two groups that name User; two groups of one name; two fallbacks.
SmallConfigs ==
    {<< MkGroup(g1, {"user"}, <<i1>>, <<i1>>), MkGroup(g2, {All}, <<i2>>, <<i2, i1>>) >>,
     << MkGroup(g2, {All}, <<i2>>, <<i2, i1>>), MkGroup(g1, {"user"}, << >>, <<i1, i2>>) >>,
     << MkGroup(g1, {"user"}, <<i1>>, <<i1>>), MkGroup(g2, {"user"}, <<i2>>, <<i2>>) >>,
     << MkGroup(g1, {"user"}, <<i1>>, <<i1>>), MkGroup(g1, {All}, <<i2>>, <<i2>>) >>,
     << MkGroup(g1, {All}, <<i1>>, <<i1>>), MkGroup(g2, {All}, <<i2>>, <<i2>>) >>}
=============================================================================

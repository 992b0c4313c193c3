--------------------------- MODULE ServerProvider ---------------------------
(* The server provider of one process: the groups of its configuration, the   *)
(* connections that Connect opens for them, and the way from an entity to its  *)
(* databases.                                                                   *)
EXTENDS Naturals, Sequences, FiniteSets

CONSTANTS
    Entities,    \* the names of the entities
    All,         \* the name "all"
    Instances,   \* the database instances
    GroupNames,  \* the names of the groups
    Configs,     \* the configurations that a process may be given
    MaxConnects, \* bound: the calls of Connect
    None

Group == [name : GroupNames, entities : SUBSET (Entities \cup {All}),
          reads : Seq(Instances), writes : Seq(Instances)]

ASSUME ConfigsAssumption == Configs \subseteq Seq(Group)
ASSUME AllAssumption == All \notin Entities
ASSUME NoneAssumption == None \notin [attempt : Nat, group : Nat]

VARIABLES
    config,     \* s.config
    groups,     \* s.groups: for a name the group, as the attempt and the place that made it
    opened,     \* the connections that are open
    connects,   \* the calls of Connect so far
    connected,  \* the last Connect succeeded and nobody has called Disconnect since
    ready       \* a Connect has succeeded

provider == <<config, groups, opened, connects, connected, ready>>
-----------------------------------------------------------------------------
(* The configuration.                                                         *)

IsFallback(group) == All \in group.entities

\* Mutant of AcceptsConfig: two groups may be the fallback.
AcceptsTwoFallbacks(cfg) ==
    \A i \in DOMAIN cfg : IsFallback(cfg[i]) => cfg[i].entities = {All}

\* NewServerProvider: "all" is alone in its group, and in one group only.
AcceptsConfig(cfg) ==
    /\ \A i \in DOMAIN cfg : IsFallback(cfg[i]) => cfg[i].entities = {All}
    /\ \A i, j \in DOMAIN cfg : IsFallback(cfg[i]) /\ IsFallback(cfg[j]) => i = j

Total(i) == Len(config[i].reads) + Len(config[i].writes)

\* A connection: the call of Connect that opened it, its group, its place in the
\* group's reads and then writes.
Connection(attempt, i, place) == [attempt |-> attempt, group |-> i, place |-> place]

Connections(attempt, i, k) == {Connection(attempt, i, place) : place \in 1..k}

InstanceOf(conn) == LET group == config[conn.group]
                        reads == Len(group.reads)
                    IN IF conn.place <= reads THEN group.reads[conn.place]
                       ELSE group.writes[conn.place - reads]
-----------------------------------------------------------------------------
(* From an entity to its databases.  A map is gone through in any order.      *)

Naming(e) == {m \in GroupNames : groups[m] # None /\ e \in config[groups[m].group].entities}

\* Mutant of GroupsFor: one pass takes a group that names the entity or "all".
GroupsInOnePass(e) == Naming(e) \cup Naming(All)

\* The groups that findGroupByEntity may return: none is nil.
GroupsFor(e) == IF Naming(e) # {} THEN Naming(e) ELSE Naming(All)

Reads(m) == LET g == groups[m]
            IN [p \in 1..Len(config[g.group].reads) |-> Connection(g.attempt, g.group, p)]

Writes(m) == LET g == groups[m]
                 reads == Len(config[g.group].reads)
             IN [p \in 1..Len(config[g.group].writes) |->
                    Connection(g.attempt, g.group, reads + p)]

\* What AllDatabases returns for an entity of group m.
AllDatabases(m, mode) == CASE mode = "read" -> Reads(m)
                           [] mode = "write" -> Writes(m)
                           [] OTHER -> Reads(m) \o Writes(m)

\* Mutant of WriteDatabase: the last instance takes the writes.
LastDatabase(m) == Writes(m)[Len(Writes(m))]

\* "always pick the first write connection"
WriteDatabase(m) == Writes(m)[1]

\* The connections that GetDatabase may return.
GetDatabase(e, isWrite) ==
    IF isWrite
    THEN {WriteDatabase(m) : m \in {g \in GroupsFor(e) : Writes(g) # << >>}}
    ELSE UNION {{Reads(m)[p] : p \in DOMAIN Reads(m)} : m \in GroupsFor(e)}

\* GetDatabase may return an error.
GetDatabaseFails(e, isWrite) ==
    \/ GroupsFor(e) = {}
    \/ \E m \in GroupsFor(e) : (IF isWrite THEN Writes(m) ELSE Reads(m)) = << >>
-----------------------------------------------------------------------------
ProviderInit ==
    /\ config \in {cfg \in Configs : AcceptsConfig(cfg)}
    /\ groups = [m \in GroupNames |-> None]
    /\ opened = {}
    /\ connects = 0
    /\ connected = FALSE
    /\ ready = FALSE

\* The last of the first k groups that has the name, which overwrites the others.
Registered(m, k) == {i \in 1..k : config[i].name = m
                                   /\ \A j \in 1..k : config[j].name = m => j <= i}

\* Connect gets through the groups before done, and through got instances of the
\* next one; it returns an error there, leaves open what it has opened, and does
\* not register that group.
ConnectUpTo(done, got) ==
    /\ opened' = opened \cup (UNION {Connections(connects + 1, i, Total(i)) : i \in 1..done})
                         \cup Connections(connects + 1, done + 1, got)
    /\ groups' = [m \in GroupNames |->
                    IF Registered(m, done) = {} THEN groups[m]
                    ELSE [attempt |-> connects + 1,
                          group |-> CHOOSE i \in Registered(m, done) : TRUE]]

\* A call of Connect; nothing else of the process uses the provider meanwhile.
ConnectAll ==
    /\ ~connected /\ connects < MaxConnects
    /\ connects' = connects + 1
    /\ \/ /\ ConnectUpTo(Len(config), 0)
          /\ connected' = TRUE
          /\ ready' = TRUE
       \/ /\ \E i \in DOMAIN config : \E got \in {k \in 0..Total(i) : k < Total(i)} :
                ConnectUpTo(i - 1, got)
          /\ UNCHANGED <<connected, ready>>
    /\ UNCHANGED config

\* Mutant of Closed: only the connections for writes are closed.
ClosedWrites == UNION {{Writes(m)[p] : p \in DOMAIN Writes(m)} :
                          m \in {g \in GroupNames : groups[g] # None}}

\* What Disconnect closes: the connections of the groups registered now.
Closed == UNION {Connections(groups[m].attempt, groups[m].group, Total(groups[m].group)) :
                    m \in {g \in GroupNames : groups[g] # None}}

DisconnectAll ==
    /\ connected
    /\ opened' = opened \ Closed
    /\ connected' = FALSE
    /\ UNCHANGED <<config, groups, connects, ready>>
-----------------------------------------------------------------------------
DistinctNames(cfg) == \A i, j \in DOMAIN cfg : cfg[i].name = cfg[j].name => i = j

\* A configuration that says for every entity which group it belongs to.
IsUnambiguous(cfg) ==
    /\ DistinctNames(cfg)
    /\ \A i, j \in DOMAIN cfg, e \in Entities :
         e \in cfg[i].entities /\ e \in cfg[j].entities => i = j

\* The rules for "all" leave no choice to the order of the map: an entity has one
\* group at most where no two groups name it (NewServerProvider,
\* findGroupByEntity), also after a Connect that failed halfway.
OneGroupPerEntity ==
    IsUnambiguous(config) =>
        \A e \in Entities : \A m, k \in GroupsFor(e) : m = k

\* An entity that a group names is not served by the fallback once Connect has
\* succeeded, whatever later Connects do (findGroupByEntity: "exact matches
\* first, followed by the "all" fallback").
NamedEntitiesStayHome ==
    ready /\ DistinctNames(config) =>
        \A e \in Entities, isWrite \in BOOLEAN : \A conn \in GetDatabase(e, isWrite) :
            \/ e \in config[conn.group].entities
            \/ \A i \in DOMAIN config : e \notin config[i].entities

\* After Disconnect nothing is open, if the only Connect succeeded and no two
\* groups have the same name; in each other case connections stay open that
\* nobody knows any more.
DisconnectClosesAll ==
    ready /\ ~connected /\ connects = 1 /\ DistinctNames(config) => opened = {}
=============================================================================

------------------------ MODULE DatabaseAccessProofs ------------------------
(* For every configuration, any number of goroutines, databases and          *)
(* statements: types, the one creator of a table, what an answer "not found"  *)
(* does to the breaker, and which group and instance serve an entity.         *)
EXTENDS DatabaseAccess, SequenceTheorems, TLAPS

\* A connection that the configuration has.
IsConfigured(h) == h.group \in DOMAIN config /\ h.place \in 1..Total(h.group)

\* The groups registered, and the databases that CreateTable has before it, are
\* those of the configuration.
GroupsKnown ==
    /\ \A m \in GroupNames : groups[m] # None => groups[m].group \in DOMAIN config
    /\ \A c \in Clients : \A k \in 1..Len(dbs[c]) : IsConfigured(dbs[c][k])

\* Past CREATE TABLE.
Beyond(c) == at[c] = "create" /\ stmt[c] > 1

\* Whoever is past CREATE TABLE works on a table that exists, and works on it alone.
Creators ==
    /\ \A c \in Clients : at[c] # "create" => stmt[c] = 1
    /\ \A c \in Clients : Beyond(c) => 1 \in table[Database(c)]
    /\ OneCreatorPerTable

IInv == TypeOK /\ GroupsKnown /\ Creators
-----------------------------------------------------------------------------
(* The server provider.                                                       *)

LEMMA ConfigTypes ==
    ASSUME config \in Configs
    PROVE  /\ Len(config) \in Nat
           /\ DOMAIN config = 1..Len(config)
           /\ \A i \in DOMAIN config : /\ config[i].reads \in Seq(Instances)
                                       /\ config[i].writes \in Seq(Instances)
                                       /\ Total(i) \in Nat
<1>1. config \in Seq(Group)
  BY ConfigsAssumption
<1>2. \A i \in 1..Len(config) : config[i] \in Group
  BY <1>1
<1>3. \A i \in 1..Len(config) :
        config[i].reads \in Seq(Instances) /\ config[i].writes \in Seq(Instances)
  BY <1>2 DEF Group
<1>4. Len(config) \in Nat /\ DOMAIN config = 1..Len(config)
  BY <1>1
<1>5. ASSUME NEW i \in DOMAIN config
      PROVE  Total(i) \in Nat
  <2>1. Len(config[i].reads) \in Nat /\ Len(config[i].writes) \in Nat
    BY <1>3, <1>4
  <2>2. \A a, b \in Nat : a + b \in Nat
    OBVIOUS
  <2>. QED
    BY <2>1, <2>2 DEF Total
<1>. QED
  BY <1>3, <1>4, <1>5

LEMMA InstanceTypes ==
    ASSUME config \in Configs, NEW h \in Conn, IsConfigured(h)
    PROVE  InstanceOf(h) \in Instances
<1>1. h.group \in DOMAIN config /\ h.place \in 1..Total(h.group) /\ h.place \in Nat
  BY DEF IsConfigured, Conn
<1>. DEFINE g == config[h.group]
<1>2. g.reads \in Seq(Instances) /\ g.writes \in Seq(Instances)
  BY <1>1, ConfigTypes
<1>3. Total(h.group) = Len(g.reads) + Len(g.writes)
  BY DEF Total
<1>. HIDE DEF g
<1>4. Len(g.reads) \in Nat /\ Len(g.writes) \in Nat
  BY <1>2
<1>5. CASE h.place <= Len(g.reads)
  <2>1. h.place \in 1..Len(g.reads)
    BY <1>1, <1>4, <1>5
  <2>2. g.reads[h.place] \in Instances
    BY <1>2, <2>1
  <2>. QED
    BY <1>5, <2>2 DEF InstanceOf, g
<1>6. CASE ~(h.place <= Len(g.reads))
  <2>1. h.place - Len(g.reads) \in 1..Len(g.writes)
    <3>. DEFINE r == Len(g.reads)
                w == Len(g.writes)
                p == h.place
    <3>1. r \in Nat /\ w \in Nat /\ p \in 1..(r + w) /\ ~(p <= r)
      BY <1>1, <1>3, <1>4, <1>6
    <3>. HIDE DEF r, w, p
    <3>2. p - r \in 1..w
      BY <3>1
    <3>. QED
      BY <3>2 DEF r, w, p
  <2>2. g.writes[h.place - Len(g.reads)] \in Instances
    BY <1>2, <2>1
  <2>. QED
    BY <1>6, <2>2 DEF InstanceOf, g
<1>. QED
  BY <1>5, <1>6

\* The databases of a registered group are connections of the configuration.
LEMMA GroupConnections ==
    ASSUME TypeOK, GroupsKnown, NEW m \in GroupNames, groups[m] # None
    PROVE  /\ Writes(m) \in Seq(Conn) /\ Reads(m) \in Seq(Conn)
           /\ \A k \in 1..Len(Writes(m)) : IsConfigured(Writes(m)[k])
<1>. DEFINE g == groups[m]
            r == Len(config[g.group].reads)
            w == Len(config[g.group].writes)
<1>1. g \in GroupRef /\ g.group \in DOMAIN config
  BY DEF TypeOK, GroupsKnown
<1>2. config[g.group].reads \in Seq(Instances) /\ config[g.group].writes \in Seq(Instances)
  BY <1>1, ConfigTypes DEF TypeOK
<1>3. r \in Nat /\ w \in Nat /\ Total(g.group) = r + w
  BY <1>2 DEF Total
<1>4. g.attempt \in Nat /\ g.group \in Nat
  BY <1>1 DEF GroupRef
<1>5. Reads(m) = [p \in 1..r |-> Connection(g.attempt, g.group, p)]
  BY DEF Reads
<1>6. Writes(m) = [p \in 1..w |-> Connection(g.attempt, g.group, r + p)]
  BY DEF Writes
<1>. HIDE DEF g, r, w
<1>7. \A p \in Nat : Connection(g.attempt, g.group, p) \in Conn
  BY <1>4 DEF Connection, Conn
<1>8. Reads(m) \in [1..r -> Conn] /\ Writes(m) \in [1..w -> Conn]
  <2>1. \A p \in 1..r : p \in Nat
    OBVIOUS
  <2>2. \A p \in 1..w : r + p \in Nat
    BY <1>3
  <2>. QED
    BY <1>5, <1>6, <1>7, <2>1, <2>2
<1>9. Writes(m) \in Seq(Conn) /\ Reads(m) \in Seq(Conn)
  BY <1>3, <1>8, SeqDef
<1>10. Len(Writes(m)) = w
  BY <1>3, <1>8, <1>9
<1>11. ASSUME NEW k \in 1..w
       PROVE  IsConfigured(Writes(m)[k])
  <2>1. Writes(m)[k] = [attempt |-> g.attempt, group |-> g.group, place |-> r + k]
    BY <1>6 DEF Connection
  <2>2. r + k \in 1..Total(g.group)
    BY <1>3
  <2>. QED
    BY <1>1, <2>1, <2>2 DEF IsConfigured
<1>. QED
  BY <1>9, <1>10, <1>11

\* A Connect gets through some of the groups, and the first that succeeds through all.
LEMMA ConnectAttempt ==
    ASSUME TypeOK, ConnectAll
    PROVE  \E done \in 0..Len(config), got \in Nat :
              ConnectUpTo(done, got) /\ (ready' /\ ~ready => done = Len(config))
<1>1. Len(config) \in 0..Len(config) /\ 0 \in Nat
  BY ConfigTypes DEF TypeOK
<1>2. CASE ConnectUpTo(Len(config), 0)
  BY <1>1, <1>2
<1>3. ASSUME NEW i \in DOMAIN config, NEW got \in {k \in 0..Total(i) : k < Total(i)},
             ConnectUpTo(i - 1, got), UNCHANGED ready
      PROVE  \E done \in 0..Len(config), k \in Nat :
                ConnectUpTo(done, k) /\ (ready' /\ ~ready => done = Len(config))
  <2>1. i - 1 \in 0..Len(config) /\ Total(i) \in Nat
    BY ConfigTypes DEF TypeOK
  <2>2. got \in Nat
    BY <2>1
  <2>. QED
    BY <1>3, <2>1, <2>2
<1>. QED
  BY <1>2, <1>3 DEF ConnectAll

LEMMA ConnectTypes ==
    ASSUME TypeOK, GroupsKnown, ConnectAll
    PROVE  /\ opened' \subseteq Conn
           /\ groups' \in [GroupNames -> GroupRef \cup {None}]
           /\ \A m \in GroupNames : groups'[m] # None => groups'[m].group \in DOMAIN config
           /\ connects' \in Nat /\ connected' \in BOOLEAN /\ ready' \in BOOLEAN
           /\ config' = config
<1>1. PICK done \in 0..Len(config), got \in Nat : ConnectUpTo(done, got)
  BY ConnectAttempt
<1>2. connects + 1 \in Nat /\ connects' = connects + 1
  BY DEF ConnectAll, TypeOK
<1>3. \A i \in Nat, k \in Nat : Connections(connects + 1, i, k) \subseteq Conn
  BY <1>2 DEF Connections, Connection, Conn
<1>4. \A i \in 1..done : i \in DOMAIN config /\ i \in Nat /\ Total(i) \in Nat
  <2>1. config \in Configs
    BY DEF TypeOK
  <2>2. \A i \in 1..done : i \in 1..Len(config) /\ i \in Nat
    BY <2>1, ConfigTypes
  <2>. QED
    BY <2>1, <2>2, ConfigTypes
<1>5. opened' \subseteq Conn
  <2>1. \A i \in 1..done : Connections(connects + 1, i, Total(i)) \subseteq Conn
    BY <1>3, <1>4
  <2>2. Connections(connects + 1, done + 1, got) \subseteq Conn
    BY <1>3
  <2>3. UNION {Connections(connects + 1, i, Total(i)) : i \in 1..done} \subseteq Conn
    BY <2>1
  <2>. DEFINE all == UNION {Connections(connects + 1, i, Total(i)) : i \in 1..done}
  <2>4. opened' = (opened \cup all) \cup Connections(connects + 1, done + 1, got)
    BY <1>1 DEF ConnectUpTo
  <2>5. all \subseteq Conn /\ opened \subseteq Conn
    BY <2>3 DEF TypeOK
  <2>. HIDE DEF all
  <2>. QED
    BY <2>2, <2>4, <2>5
<1>6. ASSUME NEW m \in GroupNames
      PROVE  /\ groups'[m] \in GroupRef \cup {None}
             /\ groups'[m] # None => groups'[m].group \in DOMAIN config
  <2>1. CASE Registered(m, done) = {}
    <3>1. groups'[m] = groups[m]
      BY <1>1, <2>1 DEF ConnectUpTo
    <3>. QED
      BY <3>1 DEF TypeOK, GroupsKnown
  <2>2. CASE Registered(m, done) # {}
    <3>. DEFINE i == CHOOSE j \in Registered(m, done) : TRUE
    <3>1. i \in 1..done
      BY <2>2 DEF Registered
    <3>2. groups'[m] = [attempt |-> connects + 1, group |-> i]
      BY <1>1, <2>2 DEF ConnectUpTo
    <3>. HIDE DEF i
    <3>. QED
      BY <1>2, <1>4, <3>1, <3>2 DEF GroupRef
  <2>. QED
    BY <2>1, <2>2
<1>7. groups' \in [GroupNames -> GroupRef \cup {None}]
  BY <1>1, <1>6 DEF ConnectUpTo
<1>. QED
  BY <1>2, <1>5, <1>6, <1>7 DEF ConnectAll, TypeOK
-----------------------------------------------------------------------------
(* The breaker.                                                               *)

LEMMA AdmitTypes ==
    ASSUME TypeOK, NEW c \in Clients, Admit(c)
    PROVE  /\ breaker' \in {"closed", "open", "halfOpen"}
           /\ failures' \in 0..MaxFailures
           /\ expired' \in BOOLEAN
           /\ current' \subseteq current \cup {c}
           /\ breaker' = "open" => current' = {}
           /\ breaker' = "halfOpen" => \A d, e \in current' : d = e
<1>1. CASE /\ breaker = "closed" \/ (breaker = "halfOpen" /\ current = {})
           /\ current' = current \cup {c}
           /\ UNCHANGED <<breaker, failures, expired>>
  <2>1. /\ breaker' \in {"closed", "open", "halfOpen"}
        /\ failures' \in 0..MaxFailures
        /\ expired' \in BOOLEAN
    BY <1>1 DEF TypeOK
  <2>2. breaker' # "open"
    BY <1>1
  <2>3. ASSUME breaker' = "halfOpen"
        PROVE  current' = {c}
    <3>1. current = {}
      BY <1>1, <2>3
    <3>. QED
      BY <1>1, <3>1
  <2>. QED
    BY <1>1, <2>1, <2>2, <2>3
<1>2. CASE SetState("halfOpen") /\ current' = {c}
  <2>1. 0 \in 0..MaxFailures
    BY FailuresAssumption
  <2>. QED
    BY <1>2, <2>1 DEF SetState
<1>. QED
  BY <1>1, <1>2 DEF Admit

LEMMA ReportTypes ==
    ASSUME TypeOK, NEW c \in Clients, NEW outcome \in Outcomes, Report(c, outcome)
    PROVE  /\ breaker' \in {"closed", "open", "halfOpen"}
           /\ failures' \in 0..MaxFailures
           /\ expired' \in BOOLEAN
           /\ current' \subseteq current \ {c}
           /\ breaker' = "open" => current' = {}
           /\ breaker' = "halfOpen" => \A d, e \in current' : d = e
<1>1. failures \in Nat /\ 0 \in 0..MaxFailures
  BY FailuresAssumption DEF TypeOK
<1>2. ~ReadyToTrip(failures + 1) => failures + 1 \in 0..MaxFailures
  BY <1>1, FailuresAssumption DEF ReadyToTrip
<1>3. \A d, e \in current : breaker = "halfOpen" => d = e
  BY DEF TypeOK
<1>4. /\ breaker \in {"closed", "open", "halfOpen"} /\ failures \in 0..MaxFailures
      /\ expired \in BOOLEAN /\ (breaker = "open" => current = {})
  BY DEF TypeOK
<1>5. ASSUME NEW state \in {"closed", "open", "halfOpen"}, SetState(state), current' = {}
      PROVE  /\ breaker' \in {"closed", "open", "halfOpen"}
             /\ failures' \in 0..MaxFailures
             /\ expired' \in BOOLEAN
             /\ current' \subseteq current \ {c}
             /\ breaker' = "open" => current' = {}
             /\ breaker' = "halfOpen" => \A d, e \in current' : d = e
  BY <1>1, <1>5 DEF SetState
<1>6. ASSUME failures' \in 0..MaxFailures, current' = current \ {c},
             UNCHANGED <<breaker, expired>>
      PROVE  /\ breaker' \in {"closed", "open", "halfOpen"}
             /\ expired' \in BOOLEAN
             /\ current' \subseteq current \ {c}
             /\ breaker' = "open" => current' = {}
             /\ breaker' = "halfOpen" => \A d, e \in current' : d = e
  BY <1>3, <1>4, <1>6
<1>7. CASE c \in current /\ IsSuccessful(outcome)
  BY <1>1, <1>5, <1>6, <1>7 DEF Report, Count
<1>8. CASE c \in current /\ ~IsSuccessful(outcome)
  BY <1>2, <1>5, <1>6, <1>8 DEF Report, Count
<1>9. CASE c \notin current /\ breaker = "open" /\ expired
  <2>1. SetState("halfOpen") /\ current' = current /\ current = {}
    BY <1>4, <1>9 DEF Report
  <2>. QED
    BY <1>5, <2>1
<1>10. CASE c \notin current /\ ~(breaker = "open" /\ expired)
  <2>1. UNCHANGED <<breaker, failures, expired, current>>
    BY <1>10 DEF Report, breakerVars
  <2>2. current' = current \ {c}
    BY <1>10, <2>1
  <2>. QED
    BY <1>4, <1>6, <2>1, <2>2
<1>. QED
  BY <1>7, <1>8, <1>9, <1>10

\* Not found opens no breaker, and closes a half-open one whose trial it answers.
LEMMA NotFoundReported ==
    ASSUME TypeOK, NEW c \in Clients, Report(c, "notFound")
    PROVE  /\ breaker' = "open" => breaker = "open"
           /\ breaker = "halfOpen" /\ c \in current => breaker' = "closed"
BY DEF TypeOK, Report, Count, IsSuccessful, SetState, breakerVars
-----------------------------------------------------------------------------
(* Types.                                                                     *)

LEMMA InitIInv == Init => IInv
<1>. SUFFICES ASSUME Init PROVE IInv
  OBVIOUS
<1>. USE DEF Init, ProviderInit, BreakerInit
<1>1. << >> \in Seq(Conn) /\ Len(<< >>) = 0
  OBVIOUS
<1>2. TypeOK
  <2>1. config \in Configs /\ entity \in Entities
    OBVIOUS
  <2>2. groups \in [GroupNames -> GroupRef \cup {None}]
    OBVIOUS
  <2>3. opened \subseteq Conn /\ connects \in Nat
    OBVIOUS
  <2>4. breaker = "closed" /\ current = {} /\ failures = 0 /\ 0 \in 0..MaxFailures
    BY FailuresAssumption
  <2>10. /\ connected = FALSE /\ ready = FALSE /\ expired = FALSE
         /\ calm = FALSE /\ answered = FALSE
    OBVIOUS
  <2>5. table \in [Instances -> SUBSET (1..Statements)]
    OBVIOUS
  <2>6. /\ at \in [Clients -> {"idle", "asked", "query", "exists", "create"}]
        /\ doing \in [Clients -> {"read", "write"}]
        /\ conn \in [Clients -> Conn \cup {None}]
    OBVIOUS
  <2>7. dbs \in [Clients -> Seq(Conn)]
    BY <1>1
  <2>8. stmt \in [Clients -> 1..Statements]
    BY StatementsAssumption
  <2>9. \A c \in Clients : at[c] = "idle"
    OBVIOUS
  <2>. QED
    BY <2>1, <2>2, <2>3, <2>4, <2>5, <2>6, <2>7, <2>8, <2>9, <2>10 DEF TypeOK
<1>3. GroupsKnown
  BY <1>1 DEF GroupsKnown
<1>4. Creators
  BY DEF Creators, OneCreatorPerTable, Beyond
<1>. QED
  BY <1>2, <1>3, <1>4 DEF IInv

LEMMA ReturnTypes ==
    ASSUME TypeOK, NEW c \in Clients, Return(c)
    PROVE  /\ at' \in [Clients -> {"idle", "asked", "query", "exists", "create"}]
           /\ doing' \in [Clients -> {"read", "write"}]
           /\ conn' \in [Clients -> Conn \cup {None}]
           /\ dbs' \in [Clients -> Seq(Conn)]
           /\ stmt' \in [Clients -> 1..Statements]
           /\ \A d \in Clients : at'[d] \in {"exists", "create"} => dbs'[d] # << >>
           /\ \A d \in Clients : d # c => at'[d] = at[d]
           /\ at'[c] = "idle"
<1>1. << >> \in Seq(Conn) /\ 1 \in 1..Statements
  BY StatementsAssumption
<1>2. /\ at' = [at EXCEPT ![c] = "idle"]
      /\ doing' = [doing EXCEPT ![c] = "read"]
      /\ conn' = [conn EXCEPT ![c] = None]
      /\ dbs' = [dbs EXCEPT ![c] = << >>]
      /\ stmt' = [stmt EXCEPT ![c] = 1]
  BY DEF Return, Goto
<1>. QED
  BY <1>1, <1>2 DEF TypeOK

\* The connections that GetDatabase and AllDatabases hand out.
LEMMA GroupsForRegistered ==
    ASSUME TypeOK, NEW e, NEW m \in GroupsFor(e)
    PROVE  m \in GroupNames /\ groups[m] # None
BY DEF GroupsFor, Naming

LEMMA GetDatabaseTypes ==
    ASSUME TypeOK, GroupsKnown, NEW e, NEW isWrite \in BOOLEAN
    PROVE  GetDatabase(e, isWrite) \subseteq Conn
<1>1. ASSUME NEW m \in GroupsFor(e)
      PROVE  Writes(m) \in Seq(Conn) /\ Reads(m) \in Seq(Conn)
  BY <1>1, GroupsForRegistered, GroupConnections
<1>2. ASSUME NEW m \in GroupsFor(e), Writes(m) # << >>
      PROVE  WriteDatabase(m) \in Conn
  <2>1. Writes(m) \in Seq(Conn)
    BY <1>1
  <2>2. 1 \in 1..Len(Writes(m))
    BY <1>2, <2>1
  <2>. QED
    BY <2>1, <2>2 DEF WriteDatabase
<1>3. \A m \in GroupsFor(e) : \A p \in DOMAIN Reads(m) : Reads(m)[p] \in Conn
  BY <1>1
<1>. QED
  BY <1>2, <1>3 DEF GetDatabase

LEMMA TailTypes ==
    ASSUME NEW s \in Seq(Conn), Len(s) > 1
    PROVE  /\ Tail(s) \in Seq(Conn) /\ Tail(s) # << >>
           /\ Len(Tail(s)) = Len(s) - 1 /\ Len(s) \in Nat
           /\ \A k \in 1..Len(Tail(s)) : Tail(s)[k] = s[k + 1] /\ k + 1 \in 1..Len(s)
<1>1. s # << >>
  OBVIOUS
<1>2. /\ Tail(s) \in Seq(Conn) /\ Len(Tail(s)) = Len(s) - 1 /\ Len(s) \in Nat
      /\ \A k \in 1..Len(Tail(s)) : Tail(s)[k] = s[k + 1]
  BY <1>1, HeadTailProperties
<1>3. Tail(s) # << >>
  <2>1. Len(Tail(s)) # 0
    BY <1>2
  <2>2. Len(<< >>) = 0
    OBVIOUS
  <2>. QED
    BY <2>1, <2>2, Zenon
<1>. QED
  BY <1>2, <1>3

LEMMA NextTypes ==
    ASSUME IInv, [Next]_vars
    PROVE  TypeOK'
<1>. USE DEF provider, breakerVars, clients
<1>t. TypeOK /\ GroupsKnown /\ config \in Configs
  BY DEF IInv, TypeOK
<1>1. CASE UNCHANGED vars
  BY <1>t, <1>1 DEF vars, TypeOK
<1>2. CASE Connect
  BY <1>t, <1>2, ConnectTypes DEF Connect, TypeOK
<1>3. CASE Disconnect
  BY <1>t, <1>3 DEF Disconnect, DisconnectAll, TypeOK
<1>4. CASE TimeoutPasses \/ CalmDown
  BY <1>t, <1>4 DEF TimeoutPasses, Expire, CalmDown, TypeOK
<1>5. ASSUME NEW c \in Clients, NEW op \in {"read", "write"}, Ask(c, op)
      PROVE  TypeOK'
  BY <1>t, <1>5 DEF Ask, Goto, TypeOK
<1>6. ASSUME NEW c \in Clients, Execute(c)
      PROVE  TypeOK'
  <2>1. conn' \in [Clients -> Conn \cup {None}]
    <3>1. GetDatabase(entity, doing[c] = "write") \subseteq Conn
      BY <1>t, GetDatabaseTypes
    <3>. QED
      BY <1>t, <1>6, <3>1 DEF Execute, TypeOK
  <2>2. at' = [at EXCEPT ![c] = "query"] /\ at[c] = "asked" /\ Admit(c)
    BY <1>6 DEF Execute, Goto
  <2>3. current' \subseteq {d \in Clients : at'[d] = "query"}
    BY <1>t, <2>2, AdmitTypes DEF TypeOK
  <2>. QED
    BY <1>t, <1>6, <2>1, <2>2, <2>3, AdmitTypes DEF Execute, TypeOK
<1>7. ASSUME NEW c \in Clients, Refuse(c)
      PROVE  TypeOK'
  <2>1. at[c] = "asked"
    BY <1>7 DEF Refuse
  <2>2. \A d \in current : at'[d] = "query"
    BY <1>t, <1>7, <2>1, ReturnTypes DEF Refuse, TypeOK
  <2>. QED
    BY <1>t, <1>7, <2>2, ReturnTypes DEF Refuse, TypeOK
<1>8. ASSUME NEW c \in Clients, NEW outcome \in Outcomes, Finish(c, outcome)
      PROVE  TypeOK'
  <2>1. current' \subseteq current \ {c}
    BY <1>t, <1>8, ReportTypes DEF Finish
  <2>2. \A d \in current' : d \in Clients /\ at'[d] = "query"
    BY <1>t, <1>8, <2>1, ReturnTypes DEF Finish, TypeOK
  <2>. QED
    BY <1>t, <1>8, <2>2, ReturnTypes, ReportTypes DEF Finish, TypeOK
<1>9. ASSUME NEW c \in Clients, CreateTable(c)
      PROVE  TypeOK'
  <2>1. CASE UNCHANGED <<at, dbs>>
    BY <1>t, <1>9, <2>1 DEF CreateTable, TypeOK
  <2>2. ASSUME NEW m \in GroupsFor(entity), AllDatabases(m, "write") # << >>,
               dbs' = [dbs EXCEPT ![c] = AllDatabases(m, "write")], Goto(c, "exists")
        PROVE  TypeOK'
    <3>1. AllDatabases(m, "write") = Writes(m)
      BY DEF AllDatabases
    <3>2. Writes(m) \in Seq(Conn)
      BY <1>t, GroupsForRegistered, GroupConnections
    <3>3. dbs' \in [Clients -> Seq(Conn)]
      BY <1>t, <2>2, <3>1, <3>2 DEF TypeOK
    <3>4. \A d \in Clients : at'[d] \in {"exists", "create"} => dbs'[d] # << >>
      BY <1>t, <2>2 DEF Goto, TypeOK
    <3>5. at[c] = "idle" /\ UNCHANGED <<provider, breakerVars, entity, table, calm, answered, doing, conn, stmt>>
      BY <1>9 DEF CreateTable
    <3>. QED
      BY <1>t, <2>2, <3>3, <3>4, <3>5 DEF Goto, TypeOK
  <2>. QED
    BY <1>9, <2>1, <2>2 DEF CreateTable
<1>10. ASSUME NEW c \in Clients, TableExists(c)
       PROVE  TypeOK'
  <2>1. CASE Return(c)
    <3>1. \A d \in current : at'[d] = "query"
      BY <1>t, <1>10, <2>1, ReturnTypes DEF TableExists, TypeOK
    <3>. QED
      BY <1>t, <1>10, <2>1, <3>1, ReturnTypes DEF TableExists, TypeOK
  <2>2. CASE Goto(c, "create") /\ UNCHANGED <<answered, doing, conn, dbs, stmt>>
    BY <1>t, <1>10, <2>2 DEF TableExists, Goto, TypeOK
  <2>. QED
    BY <1>10, <2>1, <2>2 DEF TableExists
<1>11. ASSUME NEW c \in Clients, ExecStatement(c)
       PROVE  TypeOK'
  <2>1. at[c] = "create" /\ dbs[c] # << >> /\ dbs[c] \in Seq(Conn) /\ stmt[c] \in 1..Statements
    BY <1>t, <1>11 DEF ExecStatement, TypeOK
  <2>2. table' \in [Instances -> SUBSET (1..Statements)]
    <3>1. table \in [Instances -> SUBSET (1..Statements)]
      BY <1>t DEF TypeOK
    <3>2. CASE UNCHANGED table
      BY <3>1, <3>2
    <3>3. CASE table' = [table EXCEPT ![Database(c)] = @ \cup {stmt[c]}]
      BY <2>1, <3>1, <3>3
    <3>. QED
      BY <1>11, <3>2, <3>3 DEF ExecStatement
  <2>3. UNCHANGED <<provider, breakerVars, entity, calm>>
    BY <1>11 DEF ExecStatement
  <2>4. CASE Return(c)
    <3>1. \A d \in current : at'[d] = "query"
      BY <1>t, <2>1, <2>4, ReturnTypes DEF TypeOK
    <3>2. answered' \in BOOLEAN
      BY <1>t, <1>11 DEF ExecStatement, Continue, TypeOK
    <3>. QED
      BY <1>t, <2>2, <2>3, <2>4, <3>1, <3>2, ReturnTypes DEF TypeOK
  <2>5. CASE /\ stmt[c] < Statements
             /\ stmt' = [stmt EXCEPT ![c] = @ + 1]
             /\ UNCHANGED <<answered, at, doing, conn, dbs>>
    <3>1. stmt[c] + 1 \in 1..Statements
      BY <2>1, <2>5, StatementsAssumption
    <3>. QED
      BY <1>t, <2>2, <2>3, <2>5, <3>1 DEF TypeOK
  <2>6. CASE /\ Len(dbs[c]) > 1
             /\ Goto(c, "exists")
             /\ dbs' = [dbs EXCEPT ![c] = Tail(@)]
             /\ stmt' = [stmt EXCEPT ![c] = 1]
             /\ UNCHANGED <<answered, doing, conn>>
    <3>1. Tail(dbs[c]) \in Seq(Conn) /\ Tail(dbs[c]) # << >>
      BY <2>1, <2>6, TailTypes
    <3>2. 1 \in 1..Statements
      BY StatementsAssumption
    <3>. QED
      BY <1>t, <2>1, <2>2, <2>3, <2>6, <3>1, <3>2 DEF Goto, TypeOK
  <2>. QED
    BY <1>11, <2>4, <2>5, <2>6 DEF ExecStatement, Continue
<1>. QED
  BY <1>1, <1>2, <1>3, <1>4, <1>5, <1>6, <1>7, <1>8, <1>9, <1>10, <1>11
  DEF Next, Proceed, Answers, Fails, Outcomes
-----------------------------------------------------------------------------
(* What a step does to the groups and to the databases of a CreateTable.       *)

LEMMA SameConfiguration ==
    ASSUME [Next]_vars
    PROVE  /\ config' = config
           /\ \A h : IsConfigured(h)' <=> IsConfigured(h)
           /\ \A h : InstanceOf(h)' = InstanceOf(h)
<1>1. config' = config
  BY DEF Next, vars, provider, Connect, ConnectAll, Disconnect, DisconnectAll, TimeoutPasses,
         CalmDown, Ask, CreateTable, Proceed, Execute, Refuse, Answers, Fails, Finish,
         TableExists, ExecStatement
<1>. QED
  BY <1>1 DEF IsConfigured, InstanceOf, Total

LEMMA NextDatabases ==
    ASSUME IInv, [Next]_vars, NEW d \in Clients
    PROVE  \/ dbs'[d] = dbs[d]
           \/ dbs'[d] = << >>
           \/ \E m \in GroupNames : groups[m] # None /\ dbs'[d] = Writes(m)
           \/ Len(dbs[d]) > 1 /\ dbs'[d] = Tail(dbs[d])
<1>. USE DEF clients
<1>t. TypeOK /\ dbs \in [Clients -> Seq(Conn)]
  BY DEF IInv, TypeOK
<1>1. CASE UNCHANGED vars \/ Connect \/ Disconnect \/ TimeoutPasses \/ CalmDown
  BY <1>1 DEF vars, Connect, Disconnect, TimeoutPasses, CalmDown
<1>2. ASSUME NEW c \in Clients, NEW op \in {"read", "write"}, Ask(c, op) \/ Execute(c)
      PROVE  dbs'[d] = dbs[d]
  BY <1>2 DEF Ask, Execute
<1>3. ASSUME NEW c \in Clients, Return(c)
      PROVE  dbs'[d] = dbs[d] \/ dbs'[d] = << >>
  BY <1>t, <1>3 DEF Return
<1>4. ASSUME NEW c \in Clients, CreateTable(c)
      PROVE  \/ dbs'[d] = dbs[d]
             \/ \E m \in GroupNames : groups[m] # None /\ dbs'[d] = Writes(m)
  <2>1. \A m \in GroupsFor(entity) :
          m \in GroupNames /\ groups[m] # None /\ AllDatabases(m, "write") = Writes(m)
    BY <1>t, GroupsForRegistered DEF AllDatabases
  <2>. QED
    BY <1>t, <1>4, <2>1 DEF CreateTable
<1>5. ASSUME NEW c \in Clients, TableExists(c)
      PROVE  dbs'[d] = dbs[d] \/ dbs'[d] = << >>
  BY <1>3, <1>5 DEF TableExists
<1>6. ASSUME NEW c \in Clients, ExecStatement(c)
      PROVE  \/ dbs'[d] = dbs[d]
             \/ dbs'[d] = << >>
             \/ Len(dbs[d]) > 1 /\ dbs'[d] = Tail(dbs[d])
  <2>1. CASE Return(c)
    BY <1>3, <2>1
  <2>2. CASE UNCHANGED dbs
    BY <2>2
  <2>3. CASE Len(dbs[c]) > 1 /\ dbs' = [dbs EXCEPT ![c] = Tail(@)]
    BY <1>t, <2>3
  <2>. QED
    BY <1>6, <2>1, <2>2, <2>3 DEF ExecStatement, Continue
<1>. QED
  BY <1>1, <1>2, <1>3, <1>4, <1>5, <1>6
  DEF Next, Proceed, Refuse, Answers, Fails, Finish

LEMMA NextGroupsKnown ==
    ASSUME IInv, [Next]_vars
    PROVE  GroupsKnown'
<1>t. TypeOK /\ GroupsKnown
  BY DEF IInv
<1>1. \A m \in GroupNames : groups'[m] # None => groups'[m].group \in DOMAIN config
  <2>1. CASE Connect
    BY <1>t, <2>1, ConnectTypes DEF Connect
  <2>2. CASE groups' = groups
    BY <1>t, <2>2 DEF GroupsKnown
  <2>. QED
    BY <2>1, <2>2
    DEF Next, vars, provider, Disconnect, DisconnectAll, TimeoutPasses, CalmDown, Ask,
        CreateTable, Proceed, Execute, Refuse, Answers, Fails, Finish, TableExists,
        ExecStatement
<1>2. ASSUME NEW d \in Clients, NEW k \in 1..Len(dbs'[d])
      PROVE  IsConfigured(dbs'[d][k])
  <2>1. CASE dbs'[d] = dbs[d]
    BY <1>t, <1>2, <2>1 DEF GroupsKnown
  <2>2. CASE dbs'[d] = << >>
    <3>1. 1..Len(<< >>) = {}
      OBVIOUS
    <3>. QED
      BY <1>2, <2>2, <3>1
  <2>3. ASSUME NEW m \in GroupNames, groups[m] # None, dbs'[d] = Writes(m)
        PROVE  IsConfigured(dbs'[d][k])
    BY <1>t, <1>2, <2>3, GroupConnections
  <2>4. CASE Len(dbs[d]) > 1 /\ dbs'[d] = Tail(dbs[d])
    <3>1. dbs[d] \in Seq(Conn)
      BY <1>t DEF TypeOK
    <3>2. dbs'[d][k] = dbs[d][k + 1] /\ k + 1 \in 1..Len(dbs[d])
      BY <1>2, <2>4, <3>1, TailTypes
    <3>. QED
      BY <1>t, <3>2 DEF GroupsKnown
  <2>. QED
    BY <2>1, <2>2, <2>3, <2>4, NextDatabases
<1>. QED
  BY <1>1, <1>2, SameConfiguration DEF GroupsKnown
-----------------------------------------------------------------------------
(* The creators of a table.                                                    *)

LEMMA DatabaseTypes ==
    ASSUME TypeOK, GroupsKnown, NEW c \in Clients, at[c] = "create"
    PROVE  Database(c) \in Instances
<1>1. dbs[c] \in Seq(Conn) /\ dbs[c] # << >>
  BY DEF TypeOK
<1>2. Head(dbs[c]) = dbs[c][1] /\ Head(dbs[c]) \in Conn /\ 1 \in 1..Len(dbs[c])
  BY <1>1
<1>3. IsConfigured(Head(dbs[c]))
  BY <1>2 DEF GroupsKnown
<1>. QED
  BY <1>2, <1>3, InstanceTypes DEF Database, TypeOK

\* Tables only grow, and nobody gets past CREATE TABLE but who has just created one
\* that did not exist.
LEMMA CreatorSteps ==
    ASSUME IInv, [Next]_vars
    PROVE  /\ \A i \in Instances : table[i] \subseteq table'[i]
           /\ \A d \in Clients : at'[d] # "create" => stmt'[d] = 1
           /\ \/ \A d \in Clients : Beyond(d)' => Beyond(d) /\ dbs'[d] = dbs[d]
              \/ \E c \in Clients :
                    /\ 1 \notin table[Database(c)] /\ 1 \in table'[Database(c)]
                    /\ dbs'[c] = dbs[c]
                    /\ \A d \in Clients \ {c} : Beyond(d)' => Beyond(d) /\ dbs'[d] = dbs[d]
<1>. USE DEF clients, Beyond
<1>t. /\ TypeOK /\ GroupsKnown
      /\ at \in [Clients -> {"idle", "asked", "query", "exists", "create"}]
      /\ stmt \in [Clients -> 1..Statements]
      /\ dbs \in [Clients -> Seq(Conn)]
      /\ table \in [Instances -> SUBSET (1..Statements)]
      /\ \A d \in Clients : at[d] # "create" => stmt[d] = 1
  BY DEF IInv, TypeOK, Creators
<1>1. CASE UNCHANGED vars \/ Connect \/ Disconnect \/ TimeoutPasses \/ CalmDown
  BY <1>t, <1>1 DEF vars, Connect, Disconnect, TimeoutPasses, CalmDown
<1>2. ASSUME NEW c \in Clients, NEW place \in {"asked", "query", "exists"},
             at' = [at EXCEPT ![c] = place], stmt' = stmt, table' = table,
             at[c] # "create",
             \A d \in Clients \ {c} : dbs'[d] = dbs[d]
      PROVE  /\ \A i \in Instances : table[i] \subseteq table'[i]
             /\ \A d \in Clients : at'[d] # "create" => stmt'[d] = 1
             /\ \A d \in Clients : Beyond(d)' => Beyond(d) /\ dbs'[d] = dbs[d]
  BY <1>t, <1>2
<1>3. ASSUME NEW c \in Clients, Return(c)
      PROVE  /\ \A d \in Clients : at'[d] # "create" => stmt'[d] = 1
             /\ \A d \in Clients : Beyond(d)' => Beyond(d) /\ dbs'[d] = dbs[d]
  <2>1. /\ at' = [at EXCEPT ![c] = "idle"] /\ stmt' = [stmt EXCEPT ![c] = 1]
        /\ dbs' = [dbs EXCEPT ![c] = << >>]
    BY <1>3 DEF Return, Goto
  <2>. QED
    BY <1>t, <2>1
<1>4. ASSUME NEW c \in Clients, NEW op \in {"read", "write"}, Ask(c, op)
      PROVE  /\ at' = [at EXCEPT ![c] = "asked"] /\ at[c] # "create"
             /\ UNCHANGED <<stmt, table, dbs>>
  BY <1>4 DEF Ask, Goto
<1>5. ASSUME NEW c \in Clients, Execute(c)
      PROVE  /\ at' = [at EXCEPT ![c] = "query"] /\ at[c] # "create"
             /\ UNCHANGED <<stmt, table, dbs>>
  BY <1>5 DEF Execute, Goto
<1>6. ASSUME NEW c \in Clients, CreateTable(c)
      PROVE  \/ UNCHANGED <<at, stmt, table, dbs>>
             \/ /\ at' = [at EXCEPT ![c] = "exists"] /\ at[c] # "create"
                /\ UNCHANGED <<stmt, table>>
                /\ \A d \in Clients \ {c} : dbs'[d] = dbs[d]
  BY <1>t, <1>6 DEF CreateTable, Goto
<1>7. ASSUME NEW c \in Clients, TableExists(c), ~Return(c)
      PROVE  /\ at' = [at EXCEPT ![c] = "create"] /\ at[c] = "exists"
             /\ UNCHANGED <<stmt, table, dbs>>
  BY <1>7 DEF TableExists, Goto
<1>8. ASSUME NEW c \in Clients, at' = [at EXCEPT ![c] = "create"], at[c] = "exists",
             UNCHANGED <<stmt, table, dbs>>
      PROVE  /\ \A i \in Instances : table[i] \subseteq table'[i]
             /\ \A d \in Clients : at'[d] # "create" => stmt'[d] = 1
             /\ \A d \in Clients : Beyond(d)' => Beyond(d) /\ dbs'[d] = dbs[d]
  BY <1>t, <1>8
<1>9. ASSUME NEW c \in Clients, Refuse(c) \/ Answers(c) \/ Fails(c) \/ (TableExists(c) /\ Return(c))
      PROVE  Return(c) /\ UNCHANGED table
  BY <1>9 DEF Refuse, Answers, Fails, Finish, TableExists
<1>10. ASSUME NEW c \in Clients, ExecStatement(c)
       PROVE  /\ \A i \in Instances : table[i] \subseteq table'[i]
              /\ \A d \in Clients : at'[d] # "create" => stmt'[d] = 1
              /\ \/ \A d \in Clients : Beyond(d)' => Beyond(d) /\ dbs'[d] = dbs[d]
                 \/ /\ 1 \notin table[Database(c)] /\ 1 \in table'[Database(c)]
                    /\ dbs'[c] = dbs[c]
                    /\ \A d \in Clients \ {c} : Beyond(d)' => Beyond(d) /\ dbs'[d] = dbs[d]
  <2>1. at[c] = "create" /\ Database(c) \in Instances /\ stmt[c] \in 1..Statements
    BY <1>t, <1>10, DatabaseTypes DEF ExecStatement
  <2>2. \A i \in Instances : table[i] \subseteq table'[i]
    BY <1>t, <1>10 DEF ExecStatement
  <2>3. CASE Return(c)
    BY <1>3, <2>2, <2>3
  <2>4. CASE ~Return(c)
    <3>1. /\ CanExecute(Database(c), stmt[c]) /\ Continue(c)
          /\ table' = [table EXCEPT ![Database(c)] = @ \cup {stmt[c]}]
      BY <1>10, <2>4 DEF ExecStatement
    <3>2. CASE stmt' = [stmt EXCEPT ![c] = @ + 1] /\ UNCHANGED <<at, dbs>>
      <4>1. \A d \in Clients : at'[d] # "create" => stmt'[d] = 1
        BY <1>t, <2>1, <3>2
      <4>2. \A d \in Clients \ {c} : Beyond(d)' => Beyond(d) /\ dbs'[d] = dbs[d]
        BY <1>t, <3>2
      <4>3. dbs'[c] = dbs[c]
        BY <3>2
      <4>4. CASE stmt[c] = 1
        <5>1. 1 \notin table[Database(c)] /\ 1 \in table'[Database(c)]
          BY <1>t, <2>1, <3>1, <4>4 DEF CanExecute
        <5>. QED
          BY <2>2, <4>1, <4>2, <4>3, <5>1
      <4>5. CASE stmt[c] # 1
        <5>1. stmt[c] > 1
          BY <2>1, <4>5, StatementsAssumption
        <5>. QED
          BY <2>1, <2>2, <4>1, <4>2, <4>3, <5>1
      <4>. QED
        BY <4>4, <4>5
    <3>3. CASE /\ Goto(c, "exists")
               /\ dbs' = [dbs EXCEPT ![c] = Tail(@)]
               /\ stmt' = [stmt EXCEPT ![c] = 1]
      <4>1. /\ \A d \in Clients : at'[d] # "create" => stmt'[d] = 1
            /\ \A d \in Clients : Beyond(d)' => Beyond(d) /\ dbs'[d] = dbs[d]
        BY <1>t, <2>1, <3>3 DEF Goto
      <4>. QED
        BY <2>2, <4>1
    <3>. QED
      BY <2>4, <3>1, <3>2, <3>3 DEF Continue
  <2>. QED
    BY <2>3, <2>4
<1>. QED
  <2>1. ASSUME NEW c \in Clients, \/ \E op \in {"read", "write"} : Ask(c, op)
                                  \/ CreateTable(c) \/ Proceed(c)
        PROVE  /\ \A i \in Instances : table[i] \subseteq table'[i]
               /\ \A d \in Clients : at'[d] # "create" => stmt'[d] = 1
               /\ \/ \A d \in Clients : Beyond(d)' => Beyond(d) /\ dbs'[d] = dbs[d]
                  \/ /\ 1 \notin table[Database(c)] /\ 1 \in table'[Database(c)]
                     /\ dbs'[c] = dbs[c]
                     /\ \A d \in Clients \ {c} : Beyond(d)' => Beyond(d) /\ dbs'[d] = dbs[d]
    <3>1. CASE \E op \in {"read", "write"} : Ask(c, op)
      BY <1>2, <1>4, <3>1
    <3>2. CASE CreateTable(c)
      <4>1. CASE UNCHANGED <<at, stmt, table, dbs>>
        BY <1>t, <4>1
      <4>. QED
        BY <1>2, <1>6, <3>2, <4>1
    <3>3. CASE Execute(c)
      BY <1>2, <1>5, <3>3
    <3>4. CASE Refuse(c) \/ Answers(c) \/ Fails(c) \/ (TableExists(c) /\ Return(c))
      <4>1. Return(c) /\ UNCHANGED table
        BY <1>9, <3>4
      <4>. QED
        BY <1>3, <4>1
    <3>5. CASE TableExists(c) /\ ~Return(c)
      BY <1>7, <1>8, <3>5
    <3>6. CASE ExecStatement(c)
      BY <1>10, <3>6
    <3>. QED
      BY <2>1, <3>1, <3>2, <3>3, <3>4, <3>5, <3>6 DEF Proceed
  <2>. QED
    BY <1>1, <2>1 DEF Next

LEMMA NextCreators ==
    ASSUME IInv, [Next]_vars
    PROVE  Creators'
<1>t. TypeOK /\ GroupsKnown /\ Creators
  BY DEF IInv
<1>1. \A d \in Clients : dbs'[d] = dbs[d] => Database(d)' = Database(d)
  BY SameConfiguration DEF Database
<1>2. \A d \in Clients : Beyond(d) => Database(d) \in Instances
  BY <1>t, DatabaseTypes DEF Beyond
<1>3. ASSUME NEW d \in Clients, Beyond(d), dbs'[d] = dbs[d]
      PROVE  1 \in table[Database(d)] /\ 1 \in table'[Database(d)'] /\ Database(d)' = Database(d)
  BY <1>t, <1>1, <1>2, <1>3, CreatorSteps DEF Creators
<1>o. \A d, e \in Clients : Beyond(d) /\ Beyond(e) /\ Database(d) = Database(e) => d = e
  BY <1>t DEF Creators, OneCreatorPerTable, Beyond
<1>4. CASE \A d \in Clients : Beyond(d)' => Beyond(d) /\ dbs'[d] = dbs[d]
  <2>1. \A d \in Clients : Beyond(d)' => 1 \in table'[Database(d)']
    BY <1>3, <1>4
  <2>2. \A d, e \in Clients : Beyond(d)' /\ Beyond(e)' /\ Database(d)' = Database(e)' => d = e
    BY <1>3, <1>4, <1>o
  <2>. QED
    BY <2>1, <2>2, CreatorSteps DEF Creators, OneCreatorPerTable, Beyond
<1>5. ASSUME NEW c \in Clients,
             1 \notin table[Database(c)], 1 \in table'[Database(c)], dbs'[c] = dbs[c],
             \A d \in Clients \ {c} : Beyond(d)' => Beyond(d) /\ dbs'[d] = dbs[d]
      PROVE  Creators'
  <2>1. Database(c)' = Database(c)
    BY <1>1, <1>5
  <2>2. \A d \in Clients : Beyond(d)' => 1 \in table'[Database(d)']
    BY <1>3, <1>5, <2>1
  <2>3. \A d \in Clients \ {c} : Beyond(d)' => Database(d)' # Database(c)'
    BY <1>3, <1>5, <2>1
  <2>4. \A d, e \in Clients \ {c} :
          Beyond(d)' /\ Beyond(e)' /\ Database(d)' = Database(e)' => d = e
    BY <1>3, <1>5, <1>o
  <2>5. \A d, e \in Clients : Beyond(d)' /\ Beyond(e)' /\ Database(d)' = Database(e)' => d = e
    BY <2>3, <2>4
  <2>. QED
    BY <2>2, <2>5, CreatorSteps DEF Creators, OneCreatorPerTable, Beyond
<1>. QED
  BY <1>4, <1>5, CreatorSteps
-----------------------------------------------------------------------------
(* Entities, their groups, and what is open.                                  *)

\* A group is registered under its own name, and with distinct names each of them
\* is, once a Connect has succeeded.
GroupsNamed ==
    /\ AcceptsConfig(config)
    /\ \A m \in GroupNames : groups[m] # None => config[groups[m].group].name = m
    /\ ready /\ DistinctNames(config) =>
          \A i \in DOMAIN config : groups[config[i].name] # None

\* After the first Connect, if it succeeds, Disconnect knows all that is open.
OpenKnown ==
    /\ connects = 0 => opened = {} /\ ~ready
    /\ ready /\ connects = 1 /\ DistinctNames(config) =>
          opened \subseteq (IF connected THEN Closed ELSE {})

\* Where the writes of group m go: its first write instance.
FirstInstance(m) == config[groups[m].group].writes[1]
HasTable(m) == config[groups[m].group].writes # << >> => 1 \in table[FirstInstance(m)]

\* A CreateTable on its way has before it the database that the writes go to, or
\* that one has the table already.
TablesServed ==
    IsUnambiguous(config) =>
        /\ answered => ready /\ \A m \in GroupsFor(entity) : HasTable(m)
        /\ \A c \in Clients : at[c] \in {"exists", "create"} =>
              /\ ready
              /\ \A m \in GroupsFor(entity) : HasTable(m) \/ Database(c) = FirstInstance(m)

Serving == GroupsNamed /\ OpenKnown /\ TablesServed

LEMMA ConfigNames ==
    ASSUME config \in Configs
    PROVE  \A i \in DOMAIN config :
              config[i].name \in GroupNames /\ config[i].entities \subseteq Entities \cup {All}
<1>1. config \in Seq(Group)
  BY ConfigsAssumption
<1>2. \A i \in DOMAIN config : config[i] \in Group
  BY <1>1
<1>. QED
  BY <1>2 DEF Group

\* The connections that GetDatabase hands out are those of the entity's groups.
LEMMA GetDatabaseGroups ==
    ASSUME TypeOK, GroupsKnown, NEW e, NEW isWrite \in BOOLEAN, NEW h \in GetDatabase(e, isWrite)
    PROVE  \E m \in GroupsFor(e) : h.group = groups[m].group
<1>1. ASSUME NEW m \in GroupsFor(e)
      PROVE  /\ \A p \in DOMAIN Reads(m) : Reads(m)[p].group = groups[m].group
             /\ \A p \in DOMAIN Writes(m) : Writes(m)[p].group = groups[m].group
  BY DEF Reads, Writes, Connection
<1>2. CASE isWrite
  <2>1. PICK m \in GroupsFor(e) : Writes(m) # << >> /\ h = WriteDatabase(m)
    BY <1>2 DEF GetDatabase
  <2>2. Writes(m) \in Seq(Conn)
    BY GroupsForRegistered, GroupConnections
  <2>3. 1 \in DOMAIN Writes(m)
    BY <2>1, <2>2
  <2>. QED
    BY <1>1, <2>1, <2>3 DEF WriteDatabase
<1>3. CASE ~isWrite
  BY <1>1, <1>3 DEF GetDatabase
<1>. QED
  BY <1>2, <1>3

\* An entity has one group at most, if the configuration leaves no choice.
LEMMA OneGroup ==
    ASSUME TypeOK, GroupsKnown, GroupsNamed, IsUnambiguous(config),
           NEW e \in Entities, NEW m \in GroupsFor(e), NEW k \in GroupsFor(e)
    PROVE  m = k
<1>1. ASSUME NEW x \in GroupsFor(e)
      PROVE  /\ x \in GroupNames /\ groups[x].group \in DOMAIN config
             /\ config[groups[x].group].name = x
  BY GroupsForRegistered DEF GroupsKnown, GroupsNamed
<1>2. groups[m].group = groups[k].group
  <2>1. CASE Naming(e) # {}
    <3>1. e \in config[groups[m].group].entities /\ e \in config[groups[k].group].entities
      BY <2>1 DEF GroupsFor, Naming
    <3>. QED
      BY <1>1, <3>1 DEF IsUnambiguous
  <2>2. CASE Naming(e) = {}
    <3>1. IsFallback(config[groups[m].group]) /\ IsFallback(config[groups[k].group])
      BY <2>2 DEF GroupsFor, Naming, IsFallback
    <3>. QED
      BY <1>1, <3>1 DEF GroupsNamed, AcceptsConfig
  <2>. QED
    BY <2>1, <2>2
<1>. QED
  BY <1>1, <1>2

\* With distinct names a group once connected is found at its place.
LEMMA ReadyGroups ==
    ASSUME TypeOK, GroupsKnown, GroupsNamed, ready, DistinctNames(config),
           NEW i \in DOMAIN config
    PROVE  /\ config[i].name \in GroupNames
           /\ groups[config[i].name] # None
           /\ groups[config[i].name].group = i
<1>1. config[i].name \in GroupNames /\ groups[config[i].name] # None
  BY ConfigNames DEF TypeOK, GroupsNamed
<1>. QED
  BY <1>1 DEF GroupsKnown, GroupsNamed, DistinctNames

LEMMA StaysHome ==
    ASSUME TypeOK, GroupsKnown, GroupsNamed
    PROVE  NamedEntitiesStayHome
<1>. SUFFICES ASSUME ready, DistinctNames(config), NEW e \in Entities, NEW isWrite \in BOOLEAN,
                     NEW h \in GetDatabase(e, isWrite), NEW i \in DOMAIN config,
                     e \in config[i].entities
              PROVE  e \in config[h.group].entities
  BY DEF NamedEntitiesStayHome
<1>1. config[i].name \in Naming(e)
  BY ReadyGroups DEF Naming
<1>2. PICK m \in GroupsFor(e) : h.group = groups[m].group
  BY GetDatabaseGroups
<1>3. m \in Naming(e)
  BY <1>1, <1>2 DEF GroupsFor
<1>. QED
  BY <1>2, <1>3 DEF Naming

\* A group that Connect registers has its own name and is new.
LEMMA ConnectRegisters ==
    ASSUME TypeOK, NEW done \in 0..Len(config), NEW got \in Nat, ConnectUpTo(done, got),
           NEW m \in GroupNames
    PROVE  \/ Registered(m, done) = {} /\ groups'[m] = groups[m]
           \/ \E i \in 1..done : /\ config[i].name = m /\ i \in DOMAIN config
                                 /\ groups'[m] = [attempt |-> connects + 1, group |-> i]
                                 /\ groups'[m] # None
<1>1. CASE Registered(m, done) = {}
  BY <1>1 DEF ConnectUpTo
<1>2. CASE Registered(m, done) # {}
  <2>. DEFINE i == CHOOSE j \in Registered(m, done) : TRUE
  <2>1. i \in 1..done /\ config[i].name = m
    BY <1>2 DEF Registered
  <2>2. groups'[m] = [attempt |-> connects + 1, group |-> i]
    BY <1>2 DEF ConnectUpTo
  <2>. HIDE DEF i
  <2>3. i \in DOMAIN config /\ i \in Nat /\ connects + 1 \in Nat
    BY <2>1, ConfigTypes DEF TypeOK
  <2>. DEFINE ref == [attempt |-> connects + 1, group |-> i]
  <2>4. ref \in [attempt : Nat, group : Nat]
    BY <2>3
  <2>5. ref # None
    BY <2>4, NoneAssumption
  <2>. QED
    BY <2>1, <2>2, <2>3, <2>5
<1>. QED
  BY <1>1, <1>2

\* With distinct names a Connect that succeeds registers every group.
LEMMA ConnectRegistersAll ==
    ASSUME TypeOK, DistinctNames(config), NEW got \in Nat, ConnectUpTo(Len(config), got),
           NEW i \in DOMAIN config
    PROVE  groups'[config[i].name] = [attempt |-> connects + 1, group |-> i]
           /\ groups'[config[i].name] # None
<1>1. Len(config) \in Nat /\ DOMAIN config = 1..Len(config) /\ config[i].name \in GroupNames
  BY ConfigTypes, ConfigNames DEF TypeOK
<1>2. i \in Registered(config[i].name, Len(config))
  BY <1>1 DEF Registered, DistinctNames
<1>3. Len(config) \in 0..Len(config)
  BY <1>1
<1>4. PICK j \in 1..Len(config) :
        /\ config[j].name = config[i].name
        /\ groups'[config[i].name] = [attempt |-> connects + 1, group |-> j]
        /\ groups'[config[i].name] # None
  BY <1>1, <1>2, <1>3, ConnectRegisters
<1>5. j = i
  BY <1>1, <1>4 DEF DistinctNames
<1>. QED
  BY <1>4, <1>5

LEMMA ConnectNamed ==
    ASSUME TypeOK, GroupsKnown, GroupsNamed, ConnectAll
    PROVE  GroupsNamed'
<1>1. PICK done \in 0..Len(config), got \in Nat :
        /\ ConnectUpTo(done, got)
        /\ ready' /\ ~ready => done = Len(config)
  BY ConnectAttempt
<1>2. config' = config
  BY DEF ConnectAll
<1>3. ASSUME NEW m \in GroupNames, groups'[m] # None
      PROVE  config[groups'[m].group].name = m
  <2>1. CASE groups'[m] = groups[m]
    BY <1>3, <2>1 DEF GroupsNamed
  <2>2. ASSUME NEW i \in 1..done, config[i].name = m,
               groups'[m] = [attempt |-> connects + 1, group |-> i]
        PROVE  config[groups'[m].group].name = m
    BY <2>2
  <2>. QED
    BY <1>1, <2>1, <2>2, ConnectRegisters
<1>4. ASSUME ready', DistinctNames(config), NEW i \in DOMAIN config
      PROVE  groups'[config[i].name] # None
  <2>1. config[i].name \in GroupNames
    BY ConfigNames DEF TypeOK
  <2>2. CASE ready
    BY <1>1, <1>4, <2>1, <2>2, ConnectRegisters DEF GroupsNamed
  <2>3. CASE ~ready
    BY <1>1, <1>4, <2>3, ConnectRegistersAll
  <2>. QED
    BY <2>2, <2>3
<1>. QED
  BY <1>2, <1>3, <1>4 DEF GroupsNamed, DistinctNames, AcceptsConfig, IsFallback

\* Disconnect finds what a first Connect that succeeds has opened.
LEMMA ConnectOpens ==
    ASSUME TypeOK, GroupsKnown, OpenKnown, ConnectAll
    PROVE  OpenKnown'
<1>1. connects \in Nat /\ connects' = connects + 1 /\ connects' # 0 /\ config' = config
  BY DEF TypeOK, ConnectAll
<1>2. ASSUME ready', connects' = 1, DistinctNames(config)
      PROVE  connected' /\ opened' \subseteq Closed'
  <2>1. connects = 0 /\ opened = {} /\ ~ready
    BY <1>1, <1>2 DEF OpenKnown
  <2>2. ConnectUpTo(Len(config), 0) /\ connected'
    BY <1>2, <2>1 DEF ConnectAll
  <2>3. ASSUME NEW h \in opened'
        PROVE  h \in Closed'
    <3>1. Connections(1, Len(config) + 1, 0) = {}
      BY DEF Connections
    <3>2. opened' = UNION {Connections(1, i, Total(i)) : i \in 1..Len(config)}
      BY <1>1, <1>2, <2>1, <2>2, <3>1 DEF ConnectUpTo
    <3>3. PICK i \in 1..Len(config) : h \in Connections(1, i, Total(i))
      BY <2>3, <3>2
    <3>4. i \in DOMAIN config /\ config[i].name \in GroupNames
      BY ConfigTypes, ConfigNames DEF TypeOK
    <3>5. /\ groups'[config[i].name] = [attempt |-> 1, group |-> i]
          /\ groups'[config[i].name] # None
      BY <1>1, <1>2, <2>2, <3>4, ConnectRegistersAll
    <3>6. Total(i)' = Total(i)
      BY <1>1 DEF Total
    <3>7. /\ groups'[config[i].name].attempt = 1
          /\ groups'[config[i].name].group = i
      BY <3>5
    <3>8. \E m \in GroupNames :
             /\ groups'[m] # None
             /\ h \in Connections(groups'[m].attempt, groups'[m].group, Total(i))
             /\ groups'[m].group = i
      BY <3>3, <3>4, <3>5, <3>7
    <3>. QED
      BY <1>1, <3>8 DEF Closed, Total, Connections, Connection
  <2>. QED
    BY <2>2, <2>3
<1>. QED
  BY <1>1, <1>2 DEF OpenKnown, DistinctNames

LEMMA DisconnectCloses ==
    ASSUME TypeOK, OpenKnown, DisconnectAll
    PROVE  OpenKnown'
BY DEF OpenKnown, DisconnectAll, DistinctNames

LEMMA FirstWrite ==
    ASSUME TypeOK, GroupsKnown, NEW m \in GroupNames, groups[m] # None, Writes(m) # << >>
    PROVE  /\ config[groups[m].group].writes # << >>
           /\ Head(Writes(m)) = WriteDatabase(m)
           /\ InstanceOf(WriteDatabase(m)) = FirstInstance(m)
           /\ FirstInstance(m) \in Instances
<1>. DEFINE g == groups[m]
            r == Len(config[g.group].reads)
            w == Len(config[g.group].writes)
<1>1. g \in GroupRef /\ g.group \in DOMAIN config
  BY DEF TypeOK, GroupsKnown
<1>2. config[g.group].reads \in Seq(Instances) /\ config[g.group].writes \in Seq(Instances)
  BY <1>1, ConfigTypes DEF TypeOK
<1>3. r \in Nat /\ w \in Nat
  BY <1>2, LenProperties
<1>4. Writes(m) = [p \in 1..w |-> Connection(g.attempt, g.group, r + p)]
  BY DEF Writes
<1>5. Writes(m) \in Seq(Conn)
  BY GroupConnections
<1>6. w # 0
  <2>1. ASSUME w = 0
        PROVE  FALSE
    <3>. HIDE DEF g, r
    <3>1. 1..w = {}
      BY <2>1
    <3>2. Writes(m) = << >>
      BY <1>4, <3>1
    <3>. QED
      BY <3>2
  <2>. QED
    BY <2>1
<1>7. 1 \in 1..w /\ config[g.group].writes # << >>
  BY <1>2, <1>3, <1>6
<1>8. WriteDatabase(m) = Connection(g.attempt, g.group, r + 1)
  BY <1>4, <1>7 DEF WriteDatabase
<1>9. Head(Writes(m)) = Writes(m)[1]
  BY <1>5
<1>10. r + 1 - r = 1 /\ ~(r + 1 <= r)
  <2>. HIDE DEF r
  <2>. QED
    BY <1>3
<1>11. InstanceOf(WriteDatabase(m)) = config[g.group].writes[1]
  BY <1>8, <1>10 DEF InstanceOf, Connection
<1>12. config[g.group].writes[1] \in Instances
  BY <1>2, <1>7
<1>. QED
  BY <1>7, <1>9, <1>11, <1>12 DEF WriteDatabase, FirstInstance

\* Where the writes of an entity go is settled by the first Connect that succeeds.
LEMMA SameHome ==
    ASSUME TypeOK, GroupsKnown, GroupsNamed, ready, DistinctNames(config), ConnectAll, NEW e
    PROVE  /\ GroupsFor(e)' = GroupsFor(e)
           /\ \A m \in GroupsFor(e) : groups'[m].group = groups[m].group
<1>1. PICK done \in 0..Len(config), got \in Nat : ConnectUpTo(done, got)
  BY ConnectAttempt
<1>2. config' = config
  BY DEF ConnectAll
<1>3. ASSUME NEW m \in GroupNames
      PROVE  /\ groups'[m] # None <=> groups[m] # None
             /\ groups[m] # None => groups'[m].group = groups[m].group
  <2>1. CASE groups'[m] = groups[m]
    BY <2>1
  <2>2. ASSUME NEW i \in DOMAIN config, config[i].name = m, groups'[m] # None,
               groups'[m] = [attempt |-> connects + 1, group |-> i]
        PROVE  groups[m] # None /\ groups'[m] # None /\ groups'[m].group = groups[m].group
    BY <2>2, ReadyGroups
  <2>. QED
    BY <1>1, <2>1, <2>2, ConnectRegisters
<1>4. \A x : Naming(x)' = Naming(x)
  BY <1>2, <1>3 DEF Naming
<1>5. GroupsFor(e)' = GroupsFor(e)
  BY <1>4 DEF GroupsFor
<1>. QED
  BY <1>3, <1>5, GroupsForRegistered

LEMMA ServedWrites ==
    ASSUME TypeOK, GroupsKnown, TablesServed
    PROVE  TableIsWhereWritesGo
<1>. SUFFICES ASSUME answered, IsUnambiguous(config), NEW h \in GetDatabase(entity, TRUE)
              PROVE  1 \in table[InstanceOf(h)]
  BY DEF TableIsWhereWritesGo
<1>1. PICK m \in GroupsFor(entity) : Writes(m) # << >> /\ h = WriteDatabase(m)
  BY DEF GetDatabase
<1>2. m \in GroupNames /\ groups[m] # None
  BY GroupsForRegistered
<1>. QED
  BY <1>1, <1>2, FirstWrite DEF TablesServed, HasTable
-----------------------------------------------------------------------------
LEMMA IInvHolds == Spec => []IInv
<1>1. IInv /\ [Next]_vars => IInv'
  BY NextTypes, NextGroupsKnown, NextCreators DEF IInv
<1>. QED
  BY InitIInv, <1>1, PTL DEF Spec

\* What TablesServed says of one goroutine, and of the answers.
IsServed(c) == /\ ready
               /\ \A m \in GroupsFor(entity) : HasTable(m) \/ Database(c) = FirstInstance(m)
AllServed == ready /\ \A m \in GroupsFor(entity) : HasTable(m)

\* While the groups stay, and tables only grow, what was served stays served.
LEMMA ServedStays ==
    ASSUME TypeOK, GroupsKnown, UNCHANGED <<config, groups, ready, entity>>,
           \A i \in Instances : table[i] \subseteq table'[i]
    PROVE  /\ AllServed => AllServed'
           /\ \A c \in Clients : IsServed(c) /\ dbs'[c] = dbs[c] => IsServed(c)'
<1>1. GroupsFor(entity)' = GroupsFor(entity)
  BY DEF GroupsFor, Naming
<1>2. \A m : FirstInstance(m)' = FirstInstance(m)
  BY DEF FirstInstance
<1>3. ASSUME NEW m \in GroupsFor(entity), HasTable(m)
      PROVE  HasTable(m)'
  <2>1. groups[m].group \in DOMAIN config
    BY GroupsForRegistered DEF GroupsKnown
  <2>2. config[groups[m].group].writes \in Seq(Instances)
    BY <2>1, ConfigTypes DEF TypeOK
  <2>3. config[groups[m].group].writes # << >> => FirstInstance(m) \in Instances
    BY <2>2 DEF FirstInstance
  <2>. QED
    BY <1>2, <1>3, <2>3 DEF HasTable
<1>4. \A c \in Clients : dbs'[c] = dbs[c] => Database(c)' = Database(c)
  BY DEF Database, InstanceOf
<1>. QED
  BY <1>1, <1>2, <1>3, <1>4 DEF AllServed, IsServed

\* The same for the table of the database in progress.
LEMMA DatabaseServesAll ==
    ASSUME TypeOK, GroupsKnown, UNCHANGED <<config, groups, ready, entity>>,
           \A i \in Instances : table[i] \subseteq table'[i],
           NEW c \in Clients, IsServed(c), 1 \in table'[Database(c)]
    PROVE  AllServed'
<1>1. GroupsFor(entity)' = GroupsFor(entity)
  BY DEF GroupsFor, Naming
<1>2. \A m : FirstInstance(m)' = FirstInstance(m)
  BY DEF FirstInstance
<1>3. ASSUME NEW m \in GroupsFor(entity)
      PROVE  HasTable(m)'
  <2>1. groups[m].group \in DOMAIN config
    BY GroupsForRegistered DEF GroupsKnown
  <2>2. config[groups[m].group].writes \in Seq(Instances)
    BY <2>1, ConfigTypes DEF TypeOK
  <2>3. config[groups[m].group].writes # << >> => FirstInstance(m) \in Instances
    BY <2>2 DEF FirstInstance
  <2>4. HasTable(m) \/ Database(c) = FirstInstance(m)
    BY DEF IsServed
  <2>. QED
    BY <1>2, <2>3, <2>4 DEF HasTable
<1>. QED
  BY <1>1, <1>3 DEF AllServed, IsServed

\* A step that leaves the provider alone and does not get CreateTable ahead.
LEMMA QuietSteps ==
    ASSUME TypeOK, GroupsKnown, TablesServed, UNCHANGED <<config, groups, ready, entity>>,
           \A i \in Instances : table[i] \subseteq table'[i],
           IsUnambiguous(config) /\ answered' /\ ~answered => AllServed',
           \A d \in Clients : at'[d] \in {"exists", "create"} =>
              \/ at[d] \in {"exists", "create"} /\ dbs'[d] = dbs[d]
              \/ IsUnambiguous(config) => IsServed(d)'
    PROVE  TablesServed'
<1>. SUFFICES ASSUME IsUnambiguous(config)
              PROVE  TablesServed'
  BY DEF TablesServed
<1>1. answered' => AllServed'
  BY ServedStays DEF TablesServed, AllServed
<1>2. ASSUME NEW d \in Clients, at'[d] \in {"exists", "create"}
      PROVE  IsServed(d)'
  <2>1. CASE at[d] \in {"exists", "create"} /\ dbs'[d] = dbs[d]
    <3>1. IsServed(d)
      BY <2>1 DEF TablesServed, IsServed
    <3>. QED
      BY <2>1, <3>1, ServedStays
  <2>. QED
    BY <1>2, <2>1
<1>. QED
  BY <1>1, <1>2 DEF TablesServed, AllServed, IsServed

LEMMA NextTablesServed ==
    ASSUME IInv, Serving, [Next]_vars
    PROVE  TablesServed'
<1>. USE DEF clients, provider
<1>t. /\ TypeOK /\ GroupsKnown /\ GroupsNamed /\ TablesServed /\ Creators
      /\ at \in [Clients -> {"idle", "asked", "query", "exists", "create"}]
      /\ dbs \in [Clients -> Seq(Conn)]
  BY DEF IInv, Serving, TypeOK
<1>g. \A i \in Instances : table[i] \subseteq table'[i]
  BY CreatorSteps
<1>1. CASE UNCHANGED vars \/ Disconnect \/ TimeoutPasses \/ CalmDown
  <2>1. UNCHANGED <<config, groups, ready, entity, table, answered, at, dbs>>
    BY <1>1 DEF vars, Disconnect, DisconnectAll, TimeoutPasses, CalmDown
  <2>. QED
    BY <1>t, <1>g, <2>1, QuietSteps
<1>2. CASE Connect
  <2>. SUFFICES ASSUME IsUnambiguous(config)'
                PROVE  TablesServed'
    BY DEF TablesServed
  <2>1. config' = config /\ UNCHANGED <<entity, table, answered, at>>
    BY <1>2 DEF Connect, ConnectAll
  <2>2. IsUnambiguous(config) /\ DistinctNames(config)
    BY <2>1 DEF IsUnambiguous
  <2>3. \A c \in Clients : at'[c] = "idle"
    BY <1>2, <2>1 DEF Connect, Idle
  <2>4. ASSUME answered'
        PROVE  AllServed'
    <3>1. AllServed /\ ready'
      <4>1. AllServed
        BY <1>t, <2>1, <2>2, <2>4 DEF TablesServed, AllServed
      <4>2. ready => ready'
        BY <1>2 DEF Connect, ConnectAll
      <4>. QED
        BY <4>1, <4>2 DEF AllServed
    <3>2. /\ GroupsFor(entity)' = GroupsFor(entity)
          /\ \A m \in GroupsFor(entity) : groups'[m].group = groups[m].group
      <4>1. \A e : /\ GroupsFor(e)' = GroupsFor(e)
                   /\ \A m \in GroupsFor(e) : groups'[m].group = groups[m].group
        BY <1>t, <1>2, <2>2, <3>1, SameHome DEF Connect, AllServed
      <4>. QED
        BY <2>1, <4>1 DEF GroupsFor, Naming
    <3>. QED
      BY <2>1, <3>1, <3>2 DEF AllServed, HasTable, FirstInstance
  <2>. QED
    BY <2>3, <2>4 DEF TablesServed, AllServed
<1>3. ASSUME NEW c \in Clients, NEW place \in {"asked", "query"},
             at' = [at EXCEPT ![c] = place],
             UNCHANGED <<config, groups, ready, entity, answered, dbs>>
      PROVE  TablesServed'
  BY <1>t, <1>g, <1>3, QuietSteps
<1>4. ASSUME NEW c \in Clients, Return(c), UNCHANGED <<config, groups, ready, entity>>,
             IsUnambiguous(config) /\ answered' /\ ~answered => AllServed'
      PROVE  TablesServed'
  <2>1. at' = [at EXCEPT ![c] = "idle"] /\ dbs' = [dbs EXCEPT ![c] = << >>]
    BY <1>4 DEF Return, Goto
  <2>. QED
    BY <1>t, <1>g, <1>4, <2>1, QuietSteps
<1>5. ASSUME NEW c \in Clients, NEW op \in {"read", "write"}, Ask(c, op)
      PROVE  TablesServed'
  BY <1>3, <1>5 DEF Ask, Goto
<1>6. ASSUME NEW c \in Clients, Execute(c)
      PROVE  TablesServed'
  BY <1>3, <1>6 DEF Execute, Goto
<1>7. ASSUME NEW c \in Clients, Refuse(c) \/ Answers(c) \/ Fails(c)
      PROVE  TablesServed'
  BY <1>4, <1>7 DEF Refuse, Answers, Fails, Finish
<1>8. ASSUME NEW c \in Clients, CreateTable(c)
      PROVE  TablesServed'
  <2>1. UNCHANGED <<config, groups, ready, entity, table, answered>> /\ ready
    BY <1>8 DEF CreateTable
  <2>2. CASE UNCHANGED <<at, dbs>>
    BY <1>t, <1>g, <2>1, <2>2, QuietSteps
  <2>3. ASSUME NEW m \in GroupsFor(entity), AllDatabases(m, "write") # << >>,
               dbs' = [dbs EXCEPT ![c] = AllDatabases(m, "write")], Goto(c, "exists"),
               IsUnambiguous(config)
        PROVE  IsServed(c)'
    <3>1. m \in GroupNames /\ groups[m] # None /\ AllDatabases(m, "write") = Writes(m)
      BY <1>t, GroupsForRegistered DEF AllDatabases
    <3>2. dbs'[c] = Writes(m) /\ Writes(m) # << >>
      BY <1>t, <2>3, <3>1
    <3>3. Database(c)' = FirstInstance(m)
      <4>1. InstanceOf(Head(dbs'[c])) = FirstInstance(m)
        BY <1>t, <3>1, <3>2, FirstWrite
      <4>2. Database(c)' = InstanceOf(Head(dbs'[c]))
        BY <2>1 DEF Database, InstanceOf
      <4>. QED
        BY <4>1, <4>2
    <3>4. \A k \in GroupsFor(entity) : k = m
      BY <1>t, <2>3, OneGroup DEF TypeOK
    <3>5. GroupsFor(entity)' = GroupsFor(entity) /\ FirstInstance(m)' = FirstInstance(m)
      BY <2>1 DEF GroupsFor, Naming, FirstInstance
    <3>. QED
      BY <2>1, <3>3, <3>4, <3>5 DEF IsServed
  <2>4. ASSUME NEW m \in GroupsFor(entity), AllDatabases(m, "write") # << >>,
               dbs' = [dbs EXCEPT ![c] = AllDatabases(m, "write")], Goto(c, "exists")
        PROVE  TablesServed'
    <3>1. at' = [at EXCEPT ![c] = "exists"] /\ \A d \in Clients \ {c} : dbs'[d] = dbs[d]
      BY <1>t, <2>4 DEF Goto
    <3>2. IsUnambiguous(config) => IsServed(c)'
      BY <2>3, <2>4
    <3>. QED
      BY <1>t, <1>g, <2>1, <3>1, <3>2, QuietSteps
  <2>. QED
    BY <1>8, <2>2, <2>4 DEF CreateTable
<1>9. ASSUME NEW c \in Clients, at[c] \in {"exists", "create"}, IsUnambiguous(config)
      PROVE  IsServed(c)
  BY <1>t, <1>9 DEF TablesServed, IsServed
<1>10. ASSUME NEW c \in Clients, TableExists(c)
       PROVE  TablesServed'
  <2>1. UNCHANGED <<config, groups, ready, entity, table>> /\ at[c] = "exists"
    BY <1>10 DEF TableExists
  <2>2. CASE Return(c) /\ UNCHANGED answered
    BY <1>4, <2>1, <2>2
  <2>3. CASE Return(c) /\ 1 \in table[Database(c)]
    <3>1. IsUnambiguous(config) => AllServed'
      BY <1>t, <1>g, <1>9, <2>1, <2>3, DatabaseServesAll
    <3>. QED
      BY <1>4, <2>1, <2>3, <3>1
  <2>4. CASE Goto(c, "create") /\ UNCHANGED <<answered, doing, conn, dbs, stmt>>
    <3>1. at' = [at EXCEPT ![c] = "create"]
      BY <2>4 DEF Goto
    <3>. QED
      BY <1>t, <1>g, <2>1, <2>4, <3>1, QuietSteps
  <2>. QED
    BY <1>10, <2>2, <2>3, <2>4 DEF TableExists
<1>11. ASSUME NEW c \in Clients, ExecStatement(c)
       PROVE  TablesServed'
  <2>1. UNCHANGED <<config, groups, ready, entity>> /\ at[c] = "create"
    BY <1>11 DEF ExecStatement
  <2>2. CASE Return(c) /\ UNCHANGED answered
    BY <1>4, <2>1, <2>2
  <2>3. CASE ~(Return(c) /\ UNCHANGED answered)
    <3>1. /\ CanExecute(Database(c), stmt[c]) /\ Continue(c)
          /\ table' = [table EXCEPT ![Database(c)] = @ \cup {stmt[c]}]
      BY <1>11, <2>3 DEF ExecStatement
    <3>2. 1 \in table'[Database(c)]
      <4>1. Database(c) \in Instances /\ stmt[c] \in 1..Statements
        BY <1>t, <2>1, DatabaseTypes DEF TypeOK
      <4>2. table \in [Instances -> SUBSET (1..Statements)]
        BY <1>t DEF TypeOK
      <4>3. table'[Database(c)] = table[Database(c)] \cup {stmt[c]}
        BY <3>1, <4>1, <4>2
      <4>. QED
        BY <3>1, <4>3 DEF CanExecute
    <3>3. IsUnambiguous(config) => AllServed'
      BY <1>t, <1>g, <1>9, <2>1, <3>2, DatabaseServesAll
    <3>4. CASE UNCHANGED <<answered, at, dbs>>
      BY <1>t, <1>g, <2>1, <3>4, QuietSteps
    <3>5. CASE Return(c)
      BY <1>4, <2>1, <3>3, <3>5
    <3>6. CASE Goto(c, "exists") /\ dbs' = [dbs EXCEPT ![c] = Tail(@)] /\ UNCHANGED answered
      <4>1. at' = [at EXCEPT ![c] = "exists"] /\ \A d \in Clients \ {c} : dbs'[d] = dbs[d]
        BY <1>t, <3>6 DEF Goto
      <4>2. IsUnambiguous(config) => IsServed(c)'
        BY <3>3 DEF AllServed, IsServed
      <4>. QED
        BY <1>t, <1>g, <2>1, <3>6, <4>1, <4>2, QuietSteps
    <3>. QED
      BY <3>1, <3>4, <3>5, <3>6 DEF Continue
  <2>. QED
    BY <2>2, <2>3
<1>. QED
  BY <1>1, <1>2, <1>5, <1>6, <1>7, <1>8, <1>10, <1>11 DEF Next, Proceed

LEMMA ServingHolds == Spec => []Serving
<1>1. Init => Serving
  <2>. SUFFICES ASSUME Init PROVE Serving
    OBVIOUS
  <2>. USE DEF Init, ProviderInit
  <2>1. GroupsNamed /\ OpenKnown
    BY DEF GroupsNamed, OpenKnown
  <2>2. TablesServed
    BY DEF TablesServed
  <2>. QED
    BY <2>1, <2>2 DEF Serving
<1>2. IInv /\ Serving /\ [Next]_vars => Serving'
  <2>. SUFFICES ASSUME IInv, Serving, [Next]_vars PROVE Serving'
    OBVIOUS
  <2>t. TypeOK /\ GroupsKnown /\ GroupsNamed /\ OpenKnown
    BY DEF IInv, Serving
  <2>1. GroupsNamed' /\ OpenKnown'
    <3>1. CASE Connect
      BY <2>t, <3>1, ConnectNamed, ConnectOpens DEF Connect
    <3>2. CASE Disconnect
      <4>1. UNCHANGED <<config, groups, ready>>
        BY <3>2 DEF Disconnect, DisconnectAll
      <4>2. GroupsNamed'
        BY <2>t, <4>1 DEF GroupsNamed, DistinctNames, AcceptsConfig, IsFallback
      <4>. QED
        BY <2>t, <3>2, <4>2, DisconnectCloses DEF Disconnect
    <3>3. CASE UNCHANGED provider
      <4>1. UNCHANGED <<config, groups, opened, connects, connected, ready>>
        BY <3>3 DEF provider
      <4>2. Closed' = Closed
        BY <4>1 DEF Closed, Total
      <4>3. OpenKnown'
        BY <2>t, <4>1, <4>2 DEF OpenKnown, DistinctNames
      <4>4. GroupsNamed'
        BY <2>t, <4>1 DEF GroupsNamed, DistinctNames, AcceptsConfig, IsFallback
      <4>. QED
        BY <4>3, <4>4
    <3>. QED
      BY <3>1, <3>2, <3>3
      DEF Next, vars, TimeoutPasses, CalmDown, Ask, CreateTable, Proceed, Execute, Refuse,
          Answers, Fails, Finish, TableExists, ExecStatement
  <2>. QED
    BY <2>1, NextTablesServed DEF Serving
<1>. QED
  BY <1>1, <1>2, IInvHolds, PTL DEF Spec

\* Types: whatever the configuration, the breaker counts no more failures than it
\* tolerates, an open one has no call of its generation in progress, and a half-open
\* one has one trial (the generated breaker settings, Connect, CreateTable).
THEOREM TypeCorrect == Spec => []TypeOK
<1>1. IInv => TypeOK
  BY DEF IInv
<1>. QED
  BY IInvHolds, <1>1, PTL

\* Of any number of goroutines and processes that create the table of one database,
\* one alone gets to its indexes (CreateTable, tableExists).
THEOREM OneCreator == Spec => []OneCreatorPerTable
<1>1. IInv => OneCreatorPerTable
  BY DEF IInv, Creators
<1>. QED
  BY IInvHolds, <1>1, PTL

\* An answer "not found" opens no breaker and closes a half-open one whose trial it
\* answers (IsSuccessful).
THEOREM NotFoundHealthy == Spec => NotFoundIsHealthy
<1>1. IInv /\ [Next]_vars =>
        [\A c \in Clients : Finish(c, "notFound") =>
           /\ breaker' = "open" => breaker = "open"
           /\ breaker = "halfOpen" /\ c \in current => breaker' = "closed"]_vars
  BY NotFoundReported DEF IInv, Finish
<1>. QED
  BY IInvHolds, <1>1, PTL DEF Spec, NotFoundIsHealthy

\* Where the configuration leaves no choice, an entity has one group at most, also
\* after Connects that failed halfway (NewServerProvider, findGroupByEntity).
THEOREM OneGroupHolds == Spec => []OneGroupPerEntity
<1>1. IInv /\ Serving => OneGroupPerEntity
  BY OneGroup DEF IInv, Serving, OneGroupPerEntity
<1>. QED
  BY IInvHolds, ServingHolds, <1>1, PTL

\* An entity that a group names is served by a group that names it, whatever Connects
\* and Disconnects follow the first Connect that succeeds (findGroupByEntity,
\* GetDatabase).
THEOREM StayHome == Spec => []NamedEntitiesStayHome
<1>1. IInv /\ Serving => NamedEntitiesStayHome
  BY StaysHome DEF IInv, Serving
<1>. QED
  BY IInvHolds, ServingHolds, <1>1, PTL

\* Disconnect closes all that the only Connect has opened (Connect, Disconnect).
THEOREM ClosesAll == Spec => []DisconnectClosesAll
<1>1. Serving => DisconnectClosesAll
  BY DEF Serving, OpenKnown, DisconnectClosesAll
<1>. QED
  BY ServingHolds, <1>1, PTL

\* A CreateTable that has answered nil has left the table where writes go, however
\* many of them run, fail and stop at a database that another is at, and whatever
\* Connects come in between (CreateTable, AllDatabases, GetDatabase).
THEOREM TableServed == Spec => []TableIsWhereWritesGo
<1>1. IInv /\ Serving => TableIsWhereWritesGo
  BY ServedWrites DEF IInv, Serving
<1>. QED
  BY IInvHolds, ServingHolds, <1>1, PTL
=============================================================================

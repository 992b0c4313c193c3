--------------------------- MODULE DatabaseAccess ---------------------------
(* How a repository gets at its databases: through the circuit breaker to the  *)
(* server provider for its reads and writes, past the breaker for CreateTable,  *)
(* which several goroutines, or processes that start together, may call at       *)
(* once.  The repository is that of one entity.                                   *)
EXTENDS ServerProvider, CircuitBreaker

CONSTANT Statements  \* the statements of the schema: CREATE TABLE, then the indexes

ASSUME StatementsAssumption == Statements \in Nat \ {0}

VARIABLES
    entity,   \* whose repository this is
    table,    \* table[i]: the statements that instance i has executed
    calm,     \* from now on no call fails that can be answered
    answered, \* history: a CreateTable has returned nil after it has found databases
    at,       \* at[c]: where goroutine c is
    doing,    \* doing[c]: "read" or "write"
    conn,     \* conn[c]: the connection of the query in progress, or None
    dbs,      \* dbs[c]: the databases that CreateTable still has before it
    stmt      \* stmt[c]: the statement that CreateTable executes next

clients == <<at, doing, conn, dbs, stmt>>
vars == <<provider, breakerVars, entity, table, calm, answered, clients>>

Init ==
    /\ ProviderInit
    /\ BreakerInit
    /\ entity \in Entities
    /\ table = [i \in Instances |-> {}]
    /\ calm = FALSE
    /\ answered = FALSE
    /\ at = [c \in Clients |-> "idle"]
    /\ doing = [c \in Clients |-> "read"]
    /\ conn = [c \in Clients |-> None]
    /\ dbs = [c \in Clients |-> << >>]
    /\ stmt = [c \in Clients |-> 1]

Goto(c, place) == at' = [at EXCEPT ![c] = place]

\* The call returns, and its locals are gone.
Return(c) == /\ Goto(c, "idle")
             /\ doing' = [doing EXCEPT ![c] = "read"]
             /\ conn' = [conn EXCEPT ![c] = None]
             /\ dbs' = [dbs EXCEPT ![c] = << >>]
             /\ stmt' = [stmt EXCEPT ![c] = 1]

Idle == \A c \in Clients : at[c] = "idle"
-----------------------------------------------------------------------------
(* Reads and writes: any operation of the repository that gets to its database. *)

Ask(c, op) ==
    /\ at[c] = "idle" /\ ready
    /\ Goto(c, "asked")
    /\ doing' = [doing EXCEPT ![c] = op]
    /\ UNCHANGED <<provider, breakerVars, entity, table, calm, answered, conn, dbs, stmt>>

\* dbBreaker.Execute lets the call in, which asks for a database first.
Execute(c) ==
    /\ at[c] = "asked"
    /\ Admit(c)
    /\ \/ \E h \in GetDatabase(entity, doing[c] = "write") : conn' = [conn EXCEPT ![c] = h]
       \/ GetDatabaseFails(entity, doing[c] = "write") /\ conn' = [conn EXCEPT ![c] = None]
    /\ Goto(c, "query")
    /\ UNCHANGED <<provider, entity, table, calm, answered, doing, dbs, stmt>>

Refuse(c) ==
    /\ at[c] = "asked" /\ Refuses
    /\ Return(c)
    /\ UNCHANGED <<provider, breakerVars, entity, table, calm, answered>>

\* The connection can answer: a write needs the table.  A read may go to a
\* replica, which this module does not follow.
CanAnswer(c) == /\ conn[c] # None
                /\ conn[c] \in opened
                /\ doing[c] = "write" => 1 \in table[InstanceOf(conn[c])]

Finish(c, outcome) ==
    /\ at[c] = "query"
    /\ Report(c, outcome)
    /\ Return(c)
    /\ UNCHANGED <<provider, entity, table, calm, answered>>

Answers(c) == CanAnswer(c) /\ \E outcome \in {"ok", "notFound"} : Finish(c, outcome)

\* The connection breaks, the key is a duplicate, the caller cancels, or there was
\* no database: all the same to the breaker.
Fails(c) == (calm => ~CanAnswer(c)) /\ Finish(c, "failed")
-----------------------------------------------------------------------------
(* CreateTable                                                                *)

\* Without a database it returns nil at once.
CreateTable(c) ==
    /\ at[c] = "idle" /\ ready
    /\ \/ \E m \in GroupsFor(entity) :
            /\ AllDatabases(m, "write") # << >>
            /\ dbs' = [dbs EXCEPT ![c] = AllDatabases(m, "write")]
            /\ Goto(c, "exists")
       \/ GetDatabaseFails(entity, TRUE) /\ UNCHANGED <<at, dbs>>
    /\ UNCHANGED <<provider, breakerVars, entity, table, calm, answered, doing, conn, stmt>>

Database(c) == InstanceOf(Head(dbs[c]))

\* tableExists, for the next database: if it has the table CreateTable returns nil
\* and leaves the databases after it alone.
TableExists(c) ==
    /\ at[c] = "exists"
    /\ \/ Return(c) /\ UNCHANGED answered
       \/ /\ Head(dbs[c]) \in opened
          /\ IF 1 \in table[Database(c)]
             THEN Return(c) /\ answered' = TRUE
             ELSE Goto(c, "create") /\ UNCHANGED <<answered, doing, conn, dbs, stmt>>
    /\ UNCHANGED <<provider, breakerVars, entity, table, calm>>

\* Mutant of CanExecute: CREATE TABLE IF NOT EXISTS.
CanExecuteAgain(i, s) == s # 1 => 1 \in table[i] /\ s \notin table[i]

\* A table, or an index, is created once; an index needs its table.
CanExecute(i, s) == s \notin table[i] /\ (s # 1 => 1 \in table[i])

\* The next statement, the next database, or the end.
Continue(c) ==
    \/ /\ stmt[c] < Statements
       /\ stmt' = [stmt EXCEPT ![c] = @ + 1]
       /\ UNCHANGED <<answered, at, doing, conn, dbs>>
    \/ /\ stmt[c] = Statements /\ Len(dbs[c]) > 1
       /\ Goto(c, "exists")
       /\ dbs' = [dbs EXCEPT ![c] = Tail(@)]
       /\ stmt' = [stmt EXCEPT ![c] = 1]
       /\ UNCHANGED <<answered, doing, conn>>
    \/ /\ stmt[c] = Statements /\ Len(dbs[c]) = 1
       /\ Return(c)
       /\ answered' = TRUE

\* One statement; an error may mean that only the answer is lost.
ExecStatement(c) ==
    /\ at[c] = "create"
    /\ \/ Return(c) /\ UNCHANGED <<table, answered>>
       \/ /\ Head(dbs[c]) \in opened
          /\ CanExecute(Database(c), stmt[c])
          /\ table' = [table EXCEPT ![Database(c)] = @ \cup {stmt[c]}]
          /\ Continue(c) \/ (Return(c) /\ UNCHANGED answered)
    /\ UNCHANGED <<provider, breakerVars, entity, calm>>
-----------------------------------------------------------------------------
\* Connect writes the groups without a lock: the process calls it while none of
\* its goroutines uses the repository.
Connect == /\ Idle /\ ConnectAll
           /\ UNCHANGED <<breakerVars, entity, table, calm, answered, clients>>

Disconnect == /\ DisconnectAll
              /\ UNCHANGED <<breakerVars, entity, table, calm, answered, clients>>

TimeoutPasses == /\ Expire
                 /\ UNCHANGED <<provider, entity, table, calm, answered, clients>>

CalmDown == /\ ~calm /\ calm' = TRUE
            /\ UNCHANGED <<provider, breakerVars, entity, table, answered, clients>>

\* What a goroutine inside a call does next.
Proceed(c) == \/ Execute(c) \/ Refuse(c) \/ Answers(c) \/ Fails(c)
              \/ TableExists(c) \/ ExecStatement(c)

Next == \/ Connect \/ Disconnect \/ TimeoutPasses \/ CalmDown
        \/ \E c \in Clients : \/ \E op \in {"read", "write"} : Ask(c, op)
                              \/ CreateTable(c)
                              \/ Proceed(c)

\* Calls end, and time passes.
Fairness == WF_vars(TimeoutPasses) /\ \A c \in Clients : WF_vars(Proceed(c))

Spec == Init /\ [][Next]_vars /\ Fairness
-----------------------------------------------------------------------------
GroupRef == [attempt : Nat, group : Nat]
Conn == [attempt : Nat, group : Nat, place : Nat]

\* The variables hold what the code's may; an open breaker has no call of its
\* generation in progress, and a half-open one has one at most.
TypeOK ==
    /\ config \in Configs
    /\ groups \in [GroupNames -> GroupRef \cup {None}]
    /\ opened \subseteq Conn
    /\ connects \in Nat
    /\ connected \in BOOLEAN /\ ready \in BOOLEAN
    /\ breaker \in {"closed", "open", "halfOpen"}
    /\ failures \in 0..MaxFailures
    /\ expired \in BOOLEAN
    /\ current \subseteq {c \in Clients : at[c] = "query"}
    /\ breaker = "open" => current = {}
    /\ breaker = "halfOpen" => \A c, d \in current : c = d
    /\ entity \in Entities
    /\ table \in [Instances -> SUBSET (1..Statements)]
    /\ calm \in BOOLEAN
    /\ answered \in BOOLEAN
    /\ at \in [Clients -> {"idle", "asked", "query", "exists", "create"}]
    /\ doing \in [Clients -> {"read", "write"}]
    /\ conn \in [Clients -> Conn \cup {None}]
    /\ dbs \in [Clients -> Seq(Conn)]
    /\ stmt \in [Clients -> 1..Statements]
    /\ \A c \in Clients : at[c] \in {"exists", "create"} => dbs[c] # << >>

\* Once CreateTable has returned nil, a write finds the table where it is sent:
\* although CreateTable stops at the first database that has the table, another
\* may be creating it, and statements and Connects fail (CreateTable,
\* AllDatabases, GetDatabase).
TableIsWhereWritesGo ==
    answered /\ IsUnambiguous(config) =>
        \A h \in GetDatabase(entity, TRUE) : 1 \in table[InstanceOf(h)]

\* Of those who create a table at the same time one alone gets to its indexes: the
\* others fail at CREATE TABLE, although all of them have found that it does not
\* exist (CreateTable, tableExists; CREATE TABLE is without IF NOT EXISTS).
OneCreatorPerTable ==
    \A c, d \in Clients :
        /\ at[c] = "create" /\ stmt[c] > 1
        /\ at[d] = "create" /\ stmt[d] > 1
        /\ Database(c) = Database(d)
        => c = d

\* That a row does not exist is an answer: it opens no breaker, and as the answer to
\* the trial of a half-open one it closes it (IsSuccessful; HISTORY: "circuit
\* breaker now ignores ErrNotFound error type").
NotFoundIsHealthy ==
    [][\A c \in Clients : Finish(c, "notFound") =>
          /\ breaker' = "open" => breaker = "open"
          /\ breaker = "halfOpen" /\ c \in current => breaker' = "closed"]_vars

\* If calls keep coming, and from some time on every one can be answered and none
\* fails, the breaker is closed for good: no late result of an earlier generation,
\* no refused call and no row that is not found keeps it open.
BreakerRecovers ==
    /\ []<>(\E c \in Clients : at[c] = "asked")
    /\ <>[](calm /\ \A c \in Clients : at[c] = "query" => CanAnswer(c))
    => <>[](breaker = "closed")
=============================================================================

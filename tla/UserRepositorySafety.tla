------------------------ MODULE UserRepositorySafety ------------------------
(* CommitInv is inductive; what follows: honest caches, no lost update, and    *)
(* the implementation of OptimisticStore.                                      *)
EXTENDS RepositoryStore, UserRepositoryProofs

-----------------------------------------------------------------------------
(* The log.                                                                  *)

\* What a step may do with the table: nothing, or a write after which every row
\* has what may come after its contents.
LogStep == \/ UNCHANGED log
           \/ \E t \in [Ids -> Row] :
                /\ Commit(t)
                /\ \A id \in Ids : Precedes(Primary[id], t[id])

\* The order of a row's contents is transitive.
LEMMA PrecedesTransitive ==
    ASSUME NEW r \in Row, NEW s \in Row, NEW t \in Row, Precedes(r, s), Precedes(s, t)
    PROVE  Precedes(r, t)
  BY DEF Precedes, Row

\* The kinds of change that statements make.
LEMMA RowPrecedes ==
    /\ \A r \in Row, new \in NewRow : r.state = "unborn" => Precedes(r, Inserted(new))
    /\ \A r \in Row, u \in Uids, a \in Ages : r.state = "live" => Precedes(r, Touched(r, u, a))
    /\ \A r \in Row : r.state = "live" => Precedes(r, SoftDeleted(r))
    /\ \A r \in Row : r.state \in {"live", "deleted"} => Precedes(r, Purged(r))
    /\ \A r \in Row : Precedes(r, r)
<1>1. ASSUME NEW r \in Row, NEW new \in NewRow, r.state = "unborn"
      PROVE  Precedes(r, Inserted(new))
  BY <1>1 DEF Precedes
<1>2. ASSUME NEW r \in Row, NEW u \in Uids, NEW a \in Ages, r.state = "live"
      PROVE  Precedes(r, Touched(r, u, a))
  BY <1>2 DEF Precedes, Row, Touched
<1>3. ASSUME NEW r \in Row, r.state = "live"
      PROVE  Precedes(r, SoftDeleted(r))
  BY <1>3 DEF Precedes, SoftDeleted
<1>4. ASSUME NEW r \in Row, r.state \in {"live", "deleted"}
      PROVE  Precedes(r, Purged(r))
  BY <1>4 DEF Precedes, Purged
<1>5. ASSUME NEW r \in Row
      PROVE  Precedes(r, r)
  BY DEF Precedes
<1> QED BY <1>1, <1>2, <1>3, <1>4, <1>5

\* The log after a write: the old one and the table written.
LEMMA Appended ==
    ASSUME TableOK, NEW t \in [Ids -> Row], Commit(t)
    PROVE  /\ Len(log') = Len(log) + 1
           /\ log'[Len(log) + 1] = t
           /\ \A p \in 1..Len(log) : log'[p] = log[p]
  BY DEF TableOK, Commit

\* A step that writes only in the ways of RowPrecedes keeps the log in order.
LEMMA LogStepGrows ==
    ASSUME TableOK, LogGrows, LogStep
    PROVE  LogGrows'
<1>1. CASE UNCHANGED log
  BY <1>1 DEF LogGrows
<1>2. ASSUME NEW t \in [Ids -> Row], Commit(t), \A id \in Ids : Precedes(Primary[id], t[id])
      PROVE  LogGrows'
  <2>1. /\ Len(log') = Len(log) + 1
        /\ log'[Len(log) + 1] = t
        /\ \A p \in 1..Len(log) : log'[p] = log[p]
    BY <1>2, Appended
  <2>2. Len(log) \in Nat \ {0} /\ \A p \in 1..Len(log) : log[p] \in [Ids -> Row]
    BY LogType
  <2>3. SUFFICES ASSUME NEW p \in 1..Len(log'), NEW q \in 1..Len(log'), p <= q, NEW id \in Ids
                 PROVE  Precedes(log'[p][id], log'[q][id])
    BY DEF LogGrows
  <2>4. CASE q \in 1..Len(log)
    BY <2>1, <2>2, <2>3, <2>4 DEF LogGrows
  <2>5. CASE q = Len(log) + 1 /\ p = q
    BY <2>5 DEF Precedes
  <2>6. CASE q = Len(log) + 1 /\ p \in 1..Len(log)
    <3>1. Precedes(log[p][id], Primary[id])
      BY <2>2, <2>6 DEF LogGrows, Primary
    <3>2. Precedes(Primary[id], t[id])
      BY <1>2
    <3>3. log[p][id] \in Row /\ Primary[id] \in Row /\ t[id] \in Row
      BY <2>2, <2>6, LogType
    <3>4. Precedes(log[p][id], t[id])
      BY <3>1, <3>2, <3>3, PrecedesTransitive
    <3> QED BY <2>1, <2>6, <3>4
  <2> QED BY <2>1, <2>2, <2>3, <2>4, <2>5, <2>6
<1> QED BY <1>1, <1>2 DEF LogStep

\* The log only gets longer, and what was once committed remains so.
LEMMA LogStepKeeps ==
    ASSUME TableOK, LogStep
    PROVE  /\ Len(log) \in Nat /\ Len(log') \in Nat /\ Len(log) <= Len(log')
           /\ \A e : CommittedIn(log, e) => CommittedIn(log', e)
<1>1. CASE UNCHANGED log
  BY <1>1, LogType
<1>2. ASSUME NEW t \in [Ids -> Row], Commit(t)
      PROVE  /\ Len(log) \in Nat /\ Len(log') \in Nat /\ Len(log) <= Len(log')
             /\ \A e : CommittedIn(log, e) => CommittedIn(log', e)
  <2>1. /\ Len(log') = Len(log) + 1
        /\ \A p \in 1..Len(log) : log'[p] = log[p]
    BY <1>2, Appended
  <2>2. Len(log) \in Nat
    BY LogType
  <2>3. ASSUME NEW e, CommittedIn(log, e)
        PROVE  CommittedIn(log', e)
    BY <2>1, <2>2, <2>3 DEF CommittedIn
  <2> QED BY <2>1, <2>2, <2>3
<1> QED BY <1>1, <1>2 DEF LogStep

\* What a statement reads is committed, and so is what one writes.
LEMMA ReadCommitted ==
    ASSUME TypeOK, NEW p \in ReadPositions, NEW id \in LiveIds(log[p])
    PROVE  CommittedIn(log, Entry(log[p], id))
<1>1. p \in 1..Len(log) /\ IsLive(log[p], id)
  BY LogType DEF TypeOK, LiveIds
<1>2. Entry(log[p], id).id = id
  BY DEF Entry
<1> QED BY <1>1, <1>2 DEF CommittedIn

\* A row that a statement leaves live is committed by it.
LEMMA WriteCommitted ==
    ASSUME TableOK, NEW t \in [Ids -> Row], Commit(t), NEW id \in Ids, IsLive(t, id)
    PROVE  CommittedIn(log', Entry(t, id))
<1>1. Len(log) + 1 \in 1..Len(log') /\ log'[Len(log) + 1] = t
  BY Appended, LogType
<1>2. Entry(t, id).id = id
  BY DEF Entry
<1> QED BY <1>1, <1>2 DEF CommittedIn
-----------------------------------------------------------------------------
(* The lists of tasks.                                                       *)

\* A fill with committed rows.
LEMMA FillTasksCommitted ==
    ASSUME NEW l, NEW do \in {"setCached", "setCachedMapped"}, NEW es,
           \A e \in es : CommittedIn(l, e)
    PROVE  FillsCommitted(l, FillTasks(do, es))
  BY DEF FillsCommitted, FillTasks

\* Two lists of tasks that fill with committed rows, after each other.
LEMMA ConcatCommitted ==
    ASSUME NEW l, NEW s \in Seq(Task), NEW t \in Seq(Task),
           FillsCommitted(l, s), FillsCommitted(l, t)
    PROVE  FillsCommitted(l, s \o t)
<1>1. SUFFICES ASSUME NEW i \in 1..Len(s \o t), Fills((s \o t)[i]),
                      NEW e \in (s \o t)[i].entities
               PROVE  CommittedIn(l, e)
  BY DEF FillsCommitted
<1>2. CASE i \in 1..Len(s)
  <2>1. (s \o t)[i] = s[i]
    BY <1>2
  <2> QED BY <1>1, <1>2, <2>1 DEF FillsCommitted
<1>3. CASE i \notin 1..Len(s)
  <2>1. i - Len(s) \in 1..Len(t) /\ (s \o t)[i] = t[i - Len(s)]
    BY <1>3
  <2> QED BY <1>1, <2>1 DEF FillsCommitted
<1> QED BY <1>2, <1>3

\* The first fill of a list, and what remains after it.
LEMMA TailCommitted ==
    ASSUME NEW l, NEW s \in Seq(Task), s # << >>, FillsCommitted(l, s)
    PROVE  /\ FillsCommitted(l, Tail(s))
           /\ Fills(Head(s)) => \A e \in Head(s).entities : CommittedIn(l, e)
<1>1. Fills(Head(s)) => \A e \in Head(s).entities : CommittedIn(l, e)
  BY DEF FillsCommitted
<1>2. ASSUME NEW i \in 1..Len(Tail(s)), Fills(Tail(s)[i]), NEW e \in Tail(s)[i].entities
      PROVE  CommittedIn(l, e)
  <2>1. i + 1 \in 1..Len(s) /\ Tail(s)[i] = s[i + 1]
    OBVIOUS
  <2> QED BY <1>2, <2>1 DEF FillsCommitted
<1> QED BY <1>1, <1>2 DEF FillsCommitted

\* Lists of tasks that fill nothing.
LEMMA NothingFilled ==
    ASSUME NEW l
    PROVE  /\ FillsCommitted(l, << >>)
           /\ \A t : ~Fills(t) => FillsCommitted(l, << t >>)
           /\ \A t, u : ~Fills(t) /\ ~Fills(u) => FillsCommitted(l, << t, u >>)
           /\ \A t, u, v : ~Fills(t) /\ ~Fills(u) /\ ~Fills(v) => FillsCommitted(l, << t, u, v >>)
  BY DEF FillsCommitted

\* The tasks that are no fills.
LEMMA NoFills ==
    /\ ~Fills(FlushListTask)
    /\ ~Fills([do |-> "flushItems"])
    /\ ~Fills([do |-> "publishFlushItem"])
    /\ \A id : ~Fills(InvalidateTask(id))
    /\ \A u : ~Fills([do |-> "invalidateUid", uid |-> u])
    /\ \A u, id : ~Fills([do |-> "setMapping", uid |-> u, id |-> id])
    /\ \A kind, e, p : ~Fills(SetListTask(kind, e, p))
  BY DEF Fills, FlushListTask, InvalidateTask, SetListTask
-----------------------------------------------------------------------------
(* CommitInv, part by part: what a step has to respect.                       *)

\* What a step leaves alone stays committed, since the log only grows.
LEMMA KeptCommitted ==
    ASSUME TypeOK, CommitInv, LogStep
    PROVE  /\ UNCHANGED items => CacheHoldsCommittedRows'
           /\ UNCHANGED todo => TasksCommitted'
           /\ UNCHANGED <<pc, arg>> => GotCommitted'
           /\ UNCHANGED held => HeldCommitted'
           /\ UNCHANGED <<pc, arg, held>> => UpdatesHeld'
<1>1. \A e : CommittedIn(log, e) => CommittedIn(log', e)
  BY LogStepKeeps DEF TypeOK
<1>2. UNCHANGED items => CacheHoldsCommittedRows'
  BY <1>1 DEF CommitInv, CacheHoldsCommittedRows, Committed
<1>3. UNCHANGED todo => TasksCommitted'
  BY <1>1 DEF CommitInv, TasksCommitted, FillsCommitted
<1>4. UNCHANGED <<pc, arg>> => GotCommitted'
  BY <1>1 DEF CommitInv, GotCommitted, Committed
<1>5. UNCHANGED held => HeldCommitted'
  BY <1>1 DEF CommitInv, HeldCommitted, Committed
<1>6. UNCHANGED <<pc, arg, held>> => UpdatesHeld'
  BY DEF CommitInv, UpdatesHeld
<1> QED BY <1>2, <1>3, <1>4, <1>5, <1>6

\* A client gets tasks that fill with committed rows.
LEMMA ThenCommitted ==
    ASSUME TypeOK, CommitInv, LogStep, NEW c \in Clients, NEW tasks,
           Then(c, tasks), FillsCommitted(log', tasks)
    PROVE  TasksCommitted'
<1>1. \A e : CommittedIn(log, e) => CommittedIn(log', e)
  BY LogStepKeeps DEF TypeOK
<1>2. ASSUME NEW d \in Clients
      PROVE  FillsCommitted(log', todo'[d])
  <2>1. CASE d = c
    <3>1. todo'[d] = tasks
      BY <2>1 DEF Then, TypeOK, TodoOK
    <3> QED BY <3>1
  <2>2. CASE d # c
    <3>1. todo'[d] = todo[d]
      BY <2>2 DEF Then, TypeOK, TodoOK
    <3> QED BY <1>1, <3>1 DEF CommitInv, TasksCommitted, FillsCommitted
  <2> QED BY <2>1, <2>2
<1> QED BY <1>2 DEF TasksCommitted

\* A client gets a committed entity.
LEMMA HoldCommitted ==
    ASSUME TypeOK, CommitInv, LogStep, NEW c \in Clients, NEW e,
           Hold(c, e), CommittedIn(log', e)
    PROVE  HeldCommitted'
<1>1. \A f : CommittedIn(log, f) => CommittedIn(log', f)
  BY LogStepKeeps DEF TypeOK
<1>2. ASSUME NEW d \in Clients, held'[d] # None
      PROVE  CommittedIn(log', held'[d])
  <2>1. CASE d = c
    BY <2>1 DEF Hold, TypeOK, HeldOK
  <2>2. CASE d # c
    <3>1. held'[d] = held[d]
      BY <2>2 DEF Hold, TypeOK, HeldOK
    <3> QED BY <1>1, <1>2, <3>1 DEF CommitInv, HeldCommitted, Committed
  <2> QED BY <2>1, <2>2
<1> QED BY <1>2 DEF HeldCommitted, Committed

\* A bulk read goes on with committed rows.
LEMMA GotoCommitted ==
    ASSUME TypeOK, CommitInv, LogStep, NEW c \in Clients, NEW label, NEW a, Goto(c, label, a),
           label \in {"getByIds", "getByUids"} => \A e \in a.got : CommittedIn(log', e)
    PROVE  GotCommitted'
<1>1. \A f : CommittedIn(log, f) => CommittedIn(log', f)
  BY LogStepKeeps DEF TypeOK
<1>2. ASSUME NEW d \in Clients, pc'[d] \in {"getByIds", "getByUids"}, NEW e \in arg'[d].got
      PROVE  CommittedIn(log', e)
  <2>1. CASE d = c
    <3>1. pc'[d] = label /\ arg'[d] = a
      BY <2>1 DEF Goto, TypeOK, ControlOK
    <3> QED BY <1>2, <3>1
  <2>2. CASE d # c
    <3>1. pc'[d] = pc[d] /\ arg'[d] = arg[d]
      BY <2>2 DEF Goto, TypeOK, ControlOK
    <3> QED BY <1>1, <1>2, <3>1 DEF CommitInv, GotCommitted, Committed
  <2> QED BY <2>1, <2>2
<1> QED BY <1>2 DEF GotCommitted, Committed

\* A client that goes on to anything but an update; the others hold what they held.
LEMMA GotoUpdates ==
    ASSUME TypeOK, CommitInv, NEW c \in Clients, NEW label, NEW a, Goto(c, label, a),
           label \notin {"updateGet", "update"},
           \A d \in Clients : d # c => held'[d] = held[d]
    PROVE  UpdatesHeld'
<1>1. ASSUME NEW d \in Clients, pc'[d] \in {"updateGet", "update"}
      PROVE  /\ held'[d] # None
             /\ arg'[d].new.id = held'[d].id /\ arg'[d].new.ver = held'[d].ver
  <2>1. d # c
    BY <1>1 DEF Goto, TypeOK, ControlOK
  <2>2. pc'[d] = pc[d] /\ arg'[d] = arg[d] /\ held'[d] = held[d]
    BY <2>1 DEF Goto, TypeOK, ControlOK
  <2> QED BY <1>1, <2>2 DEF CommitInv, UpdatesHeld
<1> QED BY <1>1 DEF UpdatesHeld

\* A client that goes on with an update of the entity it holds.
LEMMA GotoUpdate ==
    ASSUME TypeOK, CommitInv, NEW c \in Clients, NEW label, NEW a, Goto(c, label, a),
           held[c] # None, a.new.id = held[c].id, a.new.ver = held[c].ver, UNCHANGED held
    PROVE  UpdatesHeld'
<1>1. ASSUME NEW d \in Clients, pc'[d] \in {"updateGet", "update"}
      PROVE  /\ held[d] # None
             /\ arg'[d].new.id = held[d].id /\ arg'[d].new.ver = held[d].ver
  <2>1. CASE d = c
    <3>1. arg'[d] = a
      BY <2>1 DEF Goto, TypeOK, ControlOK
    <3> QED BY <2>1, <3>1
  <2>2. CASE d # c
    <3>1. pc'[d] = pc[d] /\ arg'[d] = arg[d]
      BY <2>2 DEF Goto, TypeOK, ControlOK
    <3> QED BY <1>1, <3>1 DEF CommitInv, UpdatesHeld
  <2> QED BY <2>1, <2>2
<1> QED BY <1>1 DEF UpdatesHeld

\* A client that returns has no rows left and runs no update.
LEMMA ReturnCommitted ==
    ASSUME TypeOK, CommitInv, LogStep, NEW c \in Clients, Return(c),
           \A d \in Clients : d # c => held'[d] = held[d]
    PROVE  GotCommitted' /\ UpdatesHeld'
  BY GotoCommitted, GotoUpdates DEF Return

\* A client changes only what it holds itself.
LEMMA OthersHold ==
    ASSUME TypeOK, NEW c \in Clients, UNCHANGED held \/ \E e : Hold(c, e)
    PROVE  \A d \in Clients : d # c => held'[d] = held[d]
  BY DEF Hold, TypeOK, HeldOK

\* A step that leaves the log, the items, the tasks and what is held alone and
\* sends a client to a label that is neither a bulk read nor an update.
LEMMA GotoOnly ==
    ASSUME TypeOK, CommitInv, NEW c \in Clients, NEW label, NEW a, Goto(c, label, a),
           label \notin {"getByIds", "getByUids", "updateGet", "update"},
           UNCHANGED <<log, items, todo, held>>
    PROVE  CommitInv'
<1>1. LogStep
  BY DEF LogStep
<1>2. LogGrows'
  BY <1>1, LogStepGrows DEF TypeOK, CommitInv
<1>3. GotCommitted' /\ UpdatesHeld'
  BY <1>1, GotoCommitted, GotoUpdates
<1> QED BY <1>1, <1>2, <1>3, KeptCommitted DEF CommitInv
-----------------------------------------------------------------------------
(* Reads keep CommitInv.                                                     *)

\* A hit hands out what the cache holds, which is committed.
LEMMA GetByIDCachedSafe ==
    ASSUME TypeOK, CommitInv, NEW c \in Clients, NEW id \in Ids, GetByIDCached(c, id),
           UNCHANGED <<log, items, todo>>
    PROVE  CommitInv'
<1> DEFINE cached == items[NodeOf[c]][id]
<1>1. LogStep
  BY DEF LogStep
<1>2. CASE cached # None /\ Hold(c, cached) /\ Return(c)
  <2>1. CommittedIn(log', cached)
    BY <1>2, LocalType DEF CommitInv, CacheHoldsCommittedRows, Committed
  <2>2. HeldCommitted'
    BY <1>1, <1>2, <2>1, HoldCommitted
  <2>3. \A d \in Clients : d # c => held'[d] = held[d]
    BY <1>2, OthersHold
  <2>4. GotCommitted' /\ UpdatesHeld'
    BY <1>1, <1>2, <2>3, ReturnCommitted
  <2> QED BY <1>1, <2>2, <2>4, KeptCommitted, LogStepGrows DEF CommitInv, TypeOK
<1>3. CASE UNCHANGED held /\ Goto(c, "getByID", [id |-> id])
  BY <1>3, GotoOnly
<1> QED BY <1>2, <1>3 DEF GetByIDCached

\* A bulk read starts with no rows.
LEMMA GetBulkSafe ==
    ASSUME TypeOK, CommitInv, NEW c \in Clients, NEW label, NEW missing,
           label \in {"getByIds", "getByUids"}, GetBulk(c, label, missing),
           UNCHANGED <<log, items, todo, held>>
    PROVE  CommitInv'
<1>1. LogStep
  BY DEF LogStep
<1>2. LogGrows'
  BY <1>1, LogStepGrows DEF TypeOK, CommitInv
<1>3. CASE UNCHANGED <<pc, arg>>
  BY <1>1, <1>2, <1>3, KeptCommitted DEF CommitInv
<1>4. CASE Goto(c, label, [keys |-> missing, got |-> {}])
  <2>1. GotCommitted' /\ UpdatesHeld'
    BY <1>1, <1>4, GotoCommitted, GotoUpdates
  <2> QED BY <1>1, <1>2, <2>1, KeptCommitted DEF CommitInv
<1> QED BY <1>3, <1>4 DEF GetBulk

\* The first step of every read operation keeps the invariant.
LEMMA ReadSafe ==
    ASSUME TypeOK, CommitInv, NEW c \in Clients, Read(c)
    PROVE  CommitInv'
<1>1. ASSUME NEW id \in Ids, GetByID(c, id)
      PROVE  CommitInv'
  BY <1>1, GetByIDCachedSafe DEF GetByID, dbVars, cacheVars
<1>2. ASSUME NEW u \in Uids, GetByUid(c, u)
      PROVE  CommitInv'
  BY <1>2, GotoOnly DEF GetByUid, dbVars, cacheVars
<1>3. ASSUME NEW ids \in SUBSET Ids, GetByIds(c, ids)
      PROVE  CommitInv'
  BY <1>3, GetBulkSafe DEF GetByIds, dbVars, cacheVars
<1>4. ASSUME NEW uids \in SUBSET Uids, GetByUids(c, uids)
      PROVE  CommitInv'
  BY <1>4, GetBulkSafe DEF GetByUids, dbVars, cacheVars
<1>5. CASE List(c)
  <2> DEFINE n == NodeOf[c]
  <2>1. PICK label, a : label \in {"list", "listCached"} /\ Goto(c, label, a)
    <3>1. ASSUME NEW l \in CachedLists(n, "List"),
                 Goto(c, "listCached", [epoch |-> epoch[n], ids |-> l.ids])
          PROVE  \E label, a : label \in {"list", "listCached"} /\ Goto(c, label, a)
      BY <3>1
    <3>2. ASSUME Goto(c, "list", [epoch |-> epoch[n]])
          PROVE  \E label, a : label \in {"list", "listCached"} /\ Goto(c, label, a)
      BY <3>2
    <3> QED BY <1>5, <3>1, <3>2 DEF List
  <2>2. UNCHANGED <<log, items, todo, held>>
    BY <1>5 DEF List, dbVars, cacheVars
  <2> QED BY <2>1, <2>2, GotoOnly
<1>6. CASE Count(c)
  BY <1>6, GotoOnly DEF Count, dbVars, cacheVars
<1> QED BY <1>1, <1>2, <1>3, <1>4, <1>5, <1>6 DEF Read

\* A statement that returns with some tasks and leaves what is held alone.
LEMMA ReturnThen ==
    ASSUME TypeOK, CommitInv, LogStep, NEW c \in Clients, NEW tasks, Return(c), Then(c, tasks),
           FillsCommitted(log', tasks), UNCHANGED <<items, held>>
    PROVE  CommitInv'
<1>1. LogGrows'
  BY LogStepGrows DEF TypeOK, CommitInv
<1>2. GotCommitted' /\ UpdatesHeld'
  BY ReturnCommitted
<1>3. TasksCommitted'
  BY ThenCommitted
<1> QED BY <1>1, <1>2, <1>3, KeptCommitted DEF CommitInv

\* A statement that returns an error.
LEMMA ReturnOnly ==
    ASSUME TypeOK, CommitInv, LogStep, NEW c \in Clients, Return(c), UNCHANGED <<items, todo, held>>
    PROVE  CommitInv'
<1>1. LogGrows'
  BY LogStepGrows DEF TypeOK, CommitInv
<1>2. GotCommitted' /\ UpdatesHeld'
  BY ReturnCommitted
<1> QED BY <1>1, <1>2, KeptCommitted DEF CommitInv

\* One chunk of a bulk read adds committed rows.
LEMMA QueryChunkSafe ==
    ASSUME TypeOK, CommitInv, NEW c \in Clients,
           pc[c] \in {"getByIds", "getByUids"},
           NEW chunk, NEW found, \A e \in found : CommittedIn(log, e),
           NEW do \in {"setCached", "setCachedMapped"},
           QueryChunk(c, chunk, found, do), UNCHANGED <<log, items, held>>
    PROVE  CommitInv'
<1> DEFINE got == arg[c].got \cup found
           rest == [keys |-> arg[c].keys \ chunk, got |-> got]
<1>1. LogStep
  BY DEF LogStep
<1>2. \A e \in got : CommittedIn(log', e)
  BY DEF CommitInv, GotCommitted, Committed
<1>3. CASE UNCHANGED todo /\ Goto(c, pc[c], rest)
  <2>1. GotCommitted' /\ UpdatesHeld'
    <3>1. \A e \in rest.got : CommittedIn(log', e)
      BY <1>2
    <3> QED BY <1>1, <1>3, <3>1, GotoCommitted, GotoUpdates
  <2> QED BY <1>1, <1>3, <2>1, KeptCommitted, LogStepGrows DEF CommitInv, TypeOK
<1>4. CASE Return(c) /\ Then(c, FillTasks(do, got))
  <2>1. FillsCommitted(log', FillTasks(do, got))
    BY <1>2, FillTasksCommitted
  <2> QED BY <1>1, <1>4, <2>1, ReturnThen
<1> QED BY <1>3, <1>4 DEF QueryChunk

\* Every SELECT of a read operation keeps the invariant.
LEMMA QuerySafe ==
    ASSUME TypeOK, CommitInv, NEW c \in Clients, Query(c)
    PROVE  CommitInv'
<1>0. UNCHANGED log /\ UNCHANGED items
  BY DEF Query, GetByMappedID, ListFromCache, QueryByID, QueryByUid, QueryByIds, QueryByUids,
         QueryList, QueryCount, dbVars, cacheVars
<1>1. LogStep
  BY <1>0 DEF LogStep
<1>2. CASE GetByMappedID(c)
  <2>1. arg[c].id \in Ids
    BY <1>2, LocalType DEF GetByMappedID, At, ArgFits
  <2> QED BY <1>2, <2>1, GetByIDCachedSafe DEF GetByMappedID, dbVars, cacheVars
<1>3. CASE ListFromCache(c)
  BY <1>0, <1>1, <1>3, GotoOnly, ReturnOnly DEF ListFromCache
<1>4. CASE QueryByID(c)
  <2> DEFINE id == arg[c].id
  <2>1. Return(c) /\ id \in Ids
    BY <1>4, LocalType DEF QueryByID, At, ArgFits
  <2>2. ASSUME NEW p \in ReadPositions, IsLive(log[p], id),
               Then(c, FillTasks("setCached", {Entry(log[p], id)})),
               Hold(c, Entry(log[p], id))
        PROVE  CommitInv'
    <3>1. CommittedIn(log', Entry(log[p], id))
      BY <1>0, <2>1, <2>2, ReadCommitted DEF LiveIds
    <3>2. FillsCommitted(log', FillTasks("setCached", {Entry(log[p], id)}))
      BY <3>1, FillTasksCommitted
    <3>3. TasksCommitted' /\ HeldCommitted'
      BY <1>1, <2>2, <3>1, <3>2, ThenCommitted, HoldCommitted
    <3>4. GotCommitted' /\ UpdatesHeld'
      BY <1>1, <2>1, <2>2, OthersHold, ReturnCommitted
    <3> QED BY <1>0, <1>1, <3>3, <3>4, KeptCommitted, LogStepGrows DEF CommitInv, TypeOK
  <2>3. CASE UNCHANGED <<todo, held>>
    BY <1>0, <1>1, <2>1, <2>3, ReturnOnly
  <2> QED BY <1>4, <2>2, <2>3 DEF QueryByID
<1>5. CASE QueryByUid(c)
  <2> DEFINE u == arg[c].uid
  <2>1. Return(c)
    BY <1>5 DEF QueryByUid
  <2>2. ASSUME NEW p \in ReadPositions, NEW id \in IdsOfUid(log[p], u),
               Then(c, << [do |-> "setMapping", uid |-> u, id |-> id] >>),
               Hold(c, Entry(log[p], id))
        PROVE  CommitInv'
    <3>1. CommittedIn(log', Entry(log[p], id))
      BY <1>0, ReadCommitted DEF IdsOfUid
    <3>2. FillsCommitted(log', << [do |-> "setMapping", uid |-> u, id |-> id] >>)
      BY NothingFilled, NoFills
    <3>3. TasksCommitted' /\ HeldCommitted'
      BY <1>1, <2>2, <3>1, <3>2, ThenCommitted, HoldCommitted
    <3>4. GotCommitted' /\ UpdatesHeld'
      BY <1>1, <2>1, <2>2, OthersHold, ReturnCommitted
    <3> QED BY <1>0, <1>1, <3>3, <3>4, KeptCommitted, LogStepGrows DEF CommitInv, TypeOK
  <2>3. CASE UNCHANGED <<todo, held>>
    BY <1>0, <1>1, <2>1, <2>3, ReturnOnly
  <2> QED BY <1>5, <2>2, <2>3 DEF QueryByUid
<1>6. CASE QueryByIds(c)
  <2> DEFINE found(p, chunk) == {Entry(log[p], id) : id \in chunk \cap LiveIds(log[p])}
  <2>1. ASSUME NEW p \in ReadPositions, NEW chunk,
               QueryChunk(c, chunk, found(p, chunk), "setCached")
        PROVE  CommitInv'
    <3>1. \A e \in found(p, chunk) : CommittedIn(log, e)
      BY ReadCommitted
    <3> QED BY <1>0, <1>6, <2>1, <3>1, QueryChunkSafe DEF QueryByIds, At
  <2> QED BY <1>6, <2>1 DEF QueryByIds
<1>7. CASE QueryByUids(c)
  <2> DEFINE found(p, chunk) ==
               {Entry(log[p], id) : id \in {i \in LiveIds(log[p]) : log[p][i].uid \in chunk}}
  <2>1. ASSUME NEW p \in ReadPositions, NEW chunk,
               QueryChunk(c, chunk, found(p, chunk), "setCachedMapped")
        PROVE  CommitInv'
    <3>1. \A e \in found(p, chunk) : CommittedIn(log, e)
      BY ReadCommitted
    <3> QED BY <1>0, <1>7, <2>1, <3>1, QueryChunkSafe DEF QueryByUids, At
  <2> QED BY <1>7, <2>1 DEF QueryByUids
<1>8. CASE QueryList(c)
  <2> DEFINE fill(p) == FillTasks("setCached", {Entry(log[p], id) : id \in Selected(log[p])})
             set(p) == << SetListTask("List", arg[c].epoch, p) >>
  <2>1. Return(c) /\ UNCHANGED held /\ arg[c].epoch \in Nat
    BY <1>8, LocalType DEF QueryList, At, ArgFits
  <2>2. PICK p \in ReadPositions : Then(c, fill(p) \o set(p))
    BY <1>8 DEF QueryList
  <2>3. /\ {Entry(log[p], id) : id \in Selected(log[p])} \in SUBSET Entity
        /\ \A e \in {Entry(log[p], id) : id \in Selected(log[p])} : CommittedIn(log', e)
    BY <1>0, ReadEntryType, ReadCommitted DEF Selected, LiveIds
  <2>4. fill(p) \in Seq(Task) /\ set(p) \in Seq(Task)
    BY <2>1, <2>3, FillTasksType, SetListTaskType, SingletonType
  <2>5. FillsCommitted(log', fill(p)) /\ FillsCommitted(log', set(p))
    BY <2>3, FillTasksCommitted, NothingFilled, NoFills
  <2>6. FillsCommitted(log', fill(p) \o set(p))
    BY <2>4, <2>5, ConcatCommitted
  <2> QED BY <1>0, <1>1, <2>1, <2>2, <2>6, ReturnThen
<1>9. CASE QueryCount(c)
  <2>1. PICK p \in ReadPositions : Then(c, << SetListTask("Count", arg[c].epoch, p) >>)
    BY <1>9 DEF QueryCount
  <2>2. FillsCommitted(log', << SetListTask("Count", arg[c].epoch, p) >>)
    BY NothingFilled, NoFills
  <2> QED BY <1>0, <1>1, <1>9, <2>1, <2>2, ReturnThen DEF QueryCount
<1> QED BY <1>2, <1>3, <1>4, <1>5, <1>6, <1>7, <1>8, <1>9 DEF Query
-----------------------------------------------------------------------------
(* Writes keep CommitInv.                                                    *)

\* A delete whose rows come after the present ones keeps the invariant.
LEMMA DeleteRowsSafe ==
    ASSUME TypeOK, CommitInv, NEW c \in Clients, NEW ids \in SUBSET Ids, NEW rows \in [ids -> Row],
           \A id \in ids : Precedes(Primary[id], rows[id]),
           NEW tasks, FillsCommitted(log', tasks), DeleteRows(c, rows, tasks)
    PROVE  CommitInv'
<1> DEFINE t == [id \in Ids |-> IF id \in DOMAIN rows THEN rows[id] ELSE Primary[id]]
<1>1. Primary \in [Ids -> Row] /\ t \in [Ids -> Row]
  BY LogType DEF TypeOK
<1>2. \A id \in Ids : Precedes(Primary[id], t[id])
  BY <1>1, RowPrecedes
<1>3. LogStep
  BY <1>1, <1>2 DEF LogStep, DeleteRows
<1>4. TasksCommitted'
  BY <1>3, ThenCommitted, KeptCommitted DEF DeleteRows, Answered
<1> QED BY <1>3, <1>4, KeptCommitted, LogStepGrows DEF DeleteRows, cacheVars, CommitInv, TypeOK

\* The tasks of deletes and bulk updates fill nothing.
LEMMA WriteTasksCommitted ==
    ASSUME NEW l
    PROVE  /\ FillsCommitted(l, FlushAllTasks)
           /\ \A id : FillsCommitted(l, DeleteTasks(id))
  BY NothingFilled, NoFills DEF FlushAllTasks, DeleteTasks

\* The start of a bulk update keeps the invariant.
LEMMA UpdateBulkSafe ==
    ASSUME TypeOK, CommitInv, NEW c \in Clients, NEW label, NEW keys, NEW age,
           label \in {"updateByIds", "updateByUids"}, UpdateBulk(c, label, keys, age)
    PROVE  CommitInv'
  BY GotoOnly DEF UpdateBulk, dbVars, cacheVars

\* The row that Create caches, without reading it back, is committed.
LEMMA CreateSafe ==
    ASSUME TypeOK, CommitInv, NEW c \in Clients, NEW row \in NewRow, Create(c, row)
    PROVE  CommitInv'
<1>1. PICK id \in Ids :
        LET t == [Primary EXCEPT ![id] = Inserted(row)]
            e == Entry(t, id)
        IN  /\ IsNextId(Primary, id)
            /\ Commit(t)
            /\ AnsweredWith(c, e, FillTasks("setCached", {e}) \o << FlushListTask >>)
  BY DEF Create
<1> DEFINE t == [Primary EXCEPT ![id] = Inserted(row)]
           e == Entry(t, id)
<1>2. Primary \in [Ids -> Row] /\ t \in [Ids -> Row] /\ id \in Nat
  BY LogType, RowType, ConstantsAssumption DEF TypeOK, ConstantsAssumption, Ids
<1>3. \A i \in Ids : Precedes(Primary[i], t[i])
  <2>1. Primary[id].state = "unborn"
    BY <1>1, <1>2 DEF IsNextId
  <2> QED BY <1>2, <2>1, RowPrecedes
<1>4. LogStep
  BY <1>1, <1>2, <1>3 DEF LogStep
<1>5. CommittedIn(log', e)
  <2>1. IsLive(t, id)
    BY <1>2 DEF IsLive, Inserted
  <2> QED BY <1>1, <1>2, <2>1, WriteCommitted DEF TypeOK
<1>6. FillsCommitted(log', FillTasks("setCached", {e}) \o << FlushListTask >>)
  <2>1. FillsCommitted(log', FillTasks("setCached", {e}))
    BY <1>5, FillTasksCommitted
  <2>2. FillsCommitted(log', << FlushListTask >>)
    BY NothingFilled, NoFills
  <2>3. FillTasks("setCached", {e}) \in Seq(Task) /\ << FlushListTask >> \in Seq(Task)
    BY <1>2, EntryType, FillTasksType, TaskType, SingletonType
  <2> QED BY <2>1, <2>2, <2>3, ConcatCommitted
<1>7. TasksCommitted' /\ HeldCommitted' /\ \A d \in Clients : d # c => held'[d] = held[d]
  BY <1>1, <1>4, <1>5, <1>6, ThenCommitted, HoldCommitted, KeptCommitted, OthersHold DEF AnsweredWith
<1>8. UpdatesHeld'
  <2>1. UNCHANGED <<pc, arg>> /\ pc[c] = "idle"
    BY DEF Create, Call, At
  <2> QED BY <1>7, <2>1 DEF CommitInv, UpdatesHeld
<1>9. UNCHANGED items /\ UNCHANGED <<pc, arg>>
  BY DEF Create, cacheVars
<1> QED BY <1>4, <1>7, <1>8, <1>9, KeptCommitted, LogStepGrows DEF CommitInv, TypeOK

\* The first step of every write operation keeps the invariant.
LEMMA WriteSafe ==
    ASSUME TypeOK, CommitInv, NEW c \in Clients, Write(c)
    PROVE  CommitInv'
<1>0. Primary \in [Ids -> Row]
  BY LogType DEF TypeOK
<1>1. ASSUME NEW row \in NewRow, Create(c, row)
      PROVE  CommitInv'
  BY <1>1, CreateSafe
<1>2. ASSUME NEW batch \in Batches, CreateBulk(c, batch)
      PROVE  CommitInv'
  BY <1>2, GotoOnly DEF CreateBulk, dbVars, cacheVars
<1>3. ASSUME NEW u \in Uids, NEW a \in Ages, Update(c, u, a)
      PROVE  CommitInv'
  <2> DEFINE e == [id |-> held[c].id, ver |-> held[c].ver, uid |-> u, age |-> a]
  <2>1. UNCHANGED <<log, items, todo, held>> /\ held[c] # None
    BY <1>3 DEF Update, dbVars, cacheVars
  <2>2. PICK label \in {"update", "updateGet"} : \E old : Goto(c, label, [new |-> e, oldUid |-> old])
    BY <1>3 DEF Update
  <2>3. LogStep
    BY <2>1 DEF LogStep
  <2>4. GotCommitted' /\ UpdatesHeld'
    BY <2>1, <2>2, <2>3, GotoCommitted, GotoUpdate
  <2> QED BY <2>1, <2>3, <2>4, KeptCommitted, LogStepGrows DEF CommitInv, TypeOK
<1>4. ASSUME NEW ids \in SUBSET Ids, NEW a \in Ages, UpdateAgeByIds(c, ids, a)
      PROVE  CommitInv'
  BY <1>4, UpdateBulkSafe DEF UpdateAgeByIds
<1>5. ASSUME NEW uids \in SUBSET Uids, NEW a \in Ages, UpdateAgeByUids(c, uids, a)
      PROVE  CommitInv'
  BY <1>5, UpdateBulkSafe DEF UpdateAgeByUids
<1>6. ASSUME NEW id \in Ids, Delete(c, id)
      PROVE  CommitInv'
  <2> DEFINE rows == [i \in {id} |-> SoftDeleted(Primary[i])]
  <2>1. rows \in [{id} -> Row] /\ \A i \in {id} : Precedes(Primary[i], rows[i])
    BY <1>0, <1>6, RowType, RowPrecedes DEF Delete, LiveIds, IsLive
  <2> QED BY <1>6, <2>1, WriteTasksCommitted, DeleteRowsSafe DEF Delete
<1>7. ASSUME NEW id \in Ids, HardDelete(c, id)
      PROVE  CommitInv'
  <2> DEFINE rows == [i \in {id} |-> Purged(Primary[i])]
  <2>1. rows \in [{id} -> Row] /\ \A i \in {id} : Precedes(Primary[i], rows[i])
    BY <1>0, <1>7, RowType, RowPrecedes DEF HardDelete, Stored
  <2> QED BY <1>7, <2>1, WriteTasksCommitted, DeleteRowsSafe DEF HardDelete
<1>8. ASSUME NEW ids \in SUBSET Ids, DeleteOlder(c, ids)
      PROVE  CommitInv'
  <2> DEFINE rows == [i \in ids |-> SoftDeleted(Primary[i])]
  <2>1. rows \in [ids -> Row] /\ \A i \in ids : Precedes(Primary[i], rows[i])
    BY <1>0, <1>8, RowType, RowPrecedes DEF DeleteOlder, Selected, LiveIds, IsLive
  <2> QED BY <1>8, <2>1, WriteTasksCommitted, DeleteRowsSafe DEF DeleteOlder
<1>9. ASSUME NEW ids \in SUBSET Ids, HardDeleteOlder(c, ids)
      PROVE  CommitInv'
  <2> DEFINE rows == [i \in ids |-> Purged(Primary[i])]
  <2>1. rows \in [ids -> Row] /\ \A i \in ids : Precedes(Primary[i], rows[i])
    BY <1>0, <1>9, RowType, RowPrecedes DEF HardDeleteOlder, Stored
  <2> QED BY <1>9, <2>1, WriteTasksCommitted, DeleteRowsSafe DEF HardDeleteOlder
<1> QED BY <1>1, <1>2, <1>3, <1>4, <1>5, <1>6, <1>7, <1>8, <1>9 DEF Write
-----------------------------------------------------------------------------
(* The statements of running writes keep CommitInv.                          *)

\* The rows that CreateBulk caches are the ones it has inserted.
LEMMA InsertChunkSafe ==
    ASSUME TypeOK, CommitInv, NEW c \in Clients, InsertChunk(c)
    PROVE  CommitInv'
<1> DEFINE batch == arg[c].batch
           k     == ChunkLen(c)
           rest  == [batch |-> SubSeq(batch, k + 1, Len(batch))]
           new(first) == first..(first + k - 1)
           t(first) == [id \in Ids |-> IF id \in new(first) THEN Inserted(batch[id - first + 1])
                                                           ELSE Primary[id]]
           es(first) == {Entry(t(first), id) : id \in new(first)}
           fill(first) == FillTasks("setCached", es(first))
<1>1. batch \in Seq(NewRow)
  BY LocalType DEF InsertChunk, At, ArgFits
<1>2. k \in Nat /\ k <= Len(batch)
  BY <1>1, ConstantsAssumption DEF ChunkLen, ConstantsAssumption
<1>3. PICK first \in Ids :
        /\ first + k - 1 <= MaxId
        /\ IsNextId(Primary, first)
        /\ Commit(t(first))
        /\ \/ Return(c) /\ Then(c, fill(first) \o << FlushListTask >>)
           \/ Goto(c, "createBulk", rest) /\ Then(c, fill(first))
           \/ Return(c) /\ UNCHANGED todo
  BY DEF InsertChunk
<1>4. first \in Nat /\ (\A id \in Ids : id \in Nat) /\ new(first) \subseteq Ids
  BY <1>2, <1>3, ConstantsAssumption DEF ConstantsAssumption, Ids
<1>5. \A id \in new(first) : batch[id - first + 1] \in NewRow
  <2>1. ASSUME NEW id \in new(first)
        PROVE  id - first + 1 \in 1..Len(batch)
    BY <1>2, <1>4
  <2> QED BY <1>1, <2>1
<1>6. Primary \in [Ids -> Row] /\ t(first) \in [Ids -> Row]
  BY <1>5, LogType, RowType DEF TypeOK
<1>7. \A id \in Ids : Precedes(Primary[id], t(first)[id])
  <2>1. ASSUME NEW id \in new(first)
        PROVE  Precedes(Primary[id], t(first)[id])
    <3>1. id \in Ids /\ id >= first
      BY <1>4
    <3>2. Primary[id].state = "unborn"
      BY <1>3, <3>1 DEF IsNextId
    <3> QED BY <1>5, <1>6, <3>1, <3>2, RowPrecedes
  <2> QED BY <1>6, <2>1, RowPrecedes
<1>8. LogStep
  BY <1>3, <1>6, <1>7 DEF LogStep
<1>9. \A e \in es(first) : CommittedIn(log', e)
  <2>1. ASSUME NEW id \in new(first)
        PROVE  CommittedIn(log', Entry(t(first), id))
    <3>1. id \in Ids /\ IsLive(t(first), id)
      BY <1>4 DEF IsLive, Inserted
    <3> HIDE DEF t
    <3> QED BY <1>3, <1>6, <3>1, WriteCommitted DEF TypeOK
  <2> QED BY <2>1
<1>10. es(first) \in SUBSET Entity
  BY <1>4, <1>6, EntryType
<1> HIDE DEF es
<1>11. /\ FillsCommitted(log', fill(first))
       /\ FillsCommitted(log', fill(first) \o << FlushListTask >>)
  <2>1. FillsCommitted(log', fill(first))
    BY <1>9, FillTasksCommitted
  <2>2. FillsCommitted(log', << FlushListTask >>)
    BY NothingFilled, NoFills
  <2>3. fill(first) \in Seq(Task) /\ << FlushListTask >> \in Seq(Task)
    BY <1>10, FillTasksType, TaskType, SingletonType
  <2> QED BY <2>1, <2>2, <2>3, ConcatCommitted
<1>12. UNCHANGED items /\ UNCHANGED held
  BY DEF InsertChunk, cacheVars
<1> HIDE DEF fill, t
<1>13. CASE Return(c) /\ Then(c, fill(first) \o << FlushListTask >>)
  BY <1>8, <1>11, <1>12, <1>13, ReturnThen
<1>14. CASE Goto(c, "createBulk", rest) /\ Then(c, fill(first))
  <2>1. GotCommitted' /\ UpdatesHeld'
    BY <1>8, <1>12, <1>14, GotoCommitted, GotoUpdates
  <2>2. TasksCommitted'
    BY <1>8, <1>11, <1>14, ThenCommitted
  <2> QED BY <1>8, <1>12, <2>1, <2>2, KeptCommitted, LogStepGrows DEF CommitInv, TypeOK
<1>15. CASE Return(c) /\ UNCHANGED todo
  BY <1>8, <1>12, <1>15, ReturnOnly
<1> QED BY <1>3, <1>13, <1>14, <1>15

\* A bulk update fills no cache and gives each row a higher version.
LEMMA UpdateChunkSafe ==
    ASSUME TypeOK, CommitInv, NEW c \in Clients, NEW chunk, NEW hit \in SUBSET LiveIds(Primary),
           pc[c] = "updateByIds" \/ pc[c] = "updateByUids",
           UpdateChunk(c, chunk, hit)
    PROVE  CommitInv'
<1> DEFINE t == [id \in Ids |-> IF id \in hit
                                THEN Touched(Primary[id], Primary[id].uid, arg[c].age)
                                ELSE Primary[id]]
<1>1. Primary \in [Ids -> Row] /\ \A id \in Ids : Primary[id].uid \in Uids
  BY LogType DEF TypeOK, Row
<1>2. arg[c].age \in Ages
  BY LocalType DEF ArgFits
<1>3. t \in [Ids -> Row] /\ \A id \in Ids : Precedes(Primary[id], t[id])
  <2>1. \A id \in hit : id \in Ids /\ Primary[id].state = "live"
    BY DEF LiveIds, IsLive
  <2> QED BY <1>1, <1>2, <2>1, RowType, RowPrecedes
<1>4. LogStep
  <2>1. CASE UNCHANGED dbVars
    BY <2>1 DEF LogStep, dbVars
  <2>2. CASE Commit(t)
    BY <1>3, <2>2 DEF LogStep
  <2> QED BY <2>1, <2>2 DEF UpdateChunk
<1>5. UNCHANGED items /\ UNCHANGED held
  BY DEF UpdateChunk, cacheVars
<1>6. \/ UNCHANGED todo /\ \E a : Goto(c, pc[c], a)
      \/ Return(c) /\ Then(c, FlushAllTasks)
      \/ Return(c) /\ Then(c, << >>)
      \/ Return(c) /\ UNCHANGED todo
  BY DEF UpdateChunk
<1>7. CASE UNCHANGED todo /\ \E a : Goto(c, pc[c], a)
  <2>1. GotCommitted' /\ UpdatesHeld'
    BY <1>4, <1>5, <1>7, GotoCommitted, GotoUpdates
  <2> QED BY <1>4, <1>5, <1>7, <2>1, KeptCommitted, LogStepGrows DEF CommitInv, TypeOK
<1>8. FillsCommitted(log', FlushAllTasks) /\ FillsCommitted(log', << >>)
  BY WriteTasksCommitted, NothingFilled
<1> QED BY <1>4, <1>5, <1>6, <1>7, <1>8, ReturnThen, ReturnOnly

\* The row that Update caches has the version that the statement gave it.
LEMMA ExecUpdateSafe ==
    ASSUME TypeOK, CommitInv, NEW c \in Clients, ExecUpdate(c)
    PROVE  CommitInv'
<1> DEFINE e   == arg[c].new
           new == NextVersion(e)
           old == arg[c].oldUid
           t   == [Primary EXCEPT ![e.id] = Touched(@, e.uid, e.age)]
<1>1. e \in Entity /\ old \in Uids
  BY LocalType DEF ExecUpdate, At, ArgFits
<1>2. e.id \in Ids /\ e.uid \in Uids /\ e.age \in Ages /\ e.ver \in Nat
  BY <1>1 DEF Entity
<1>3. /\ IsLive(Primary, e.id) /\ Primary[e.id].ver = e.ver
      /\ Commit(t)
      /\ AnsweredWith(c, new, UpdateTasks(old, e))
      /\ Return(c) /\ UNCHANGED items
  BY DEF ExecUpdate, VersionMatches, cacheVars
<1>4. Primary \in [Ids -> Row] /\ t \in [Ids -> Row]
  BY <1>2, LogType, RowType DEF TypeOK
<1>5. \A id \in Ids : Precedes(Primary[id], t[id])
  BY <1>2, <1>3, <1>4, RowPrecedes DEF IsLive
<1>6. LogStep
  BY <1>3, <1>4, <1>5 DEF LogStep
<1>7. CommittedIn(log', new)
  <2>1. t[e.id] = Touched(Primary[e.id], e.uid, e.age)
    BY <1>2, <1>4
  <2>2. IsLive(t, e.id) /\ Entry(t, e.id) = new
    BY <1>3, <2>1 DEF IsLive, Touched, Entry, NextVersion
  <2> QED BY <1>2, <1>3, <1>4, <2>2, WriteCommitted DEF TypeOK
<1>8. FillsCommitted(log', UpdateTasks(old, e))
  <2> DEFINE s1 == IF old # e.uid THEN << [do |-> "invalidateUid", uid |-> old] >> ELSE << >>
             s2 == << InvalidateTask(e.id), FlushListTask >>
             s3 == FillTasks("setCached", {new})
  <2>1. s1 \in Seq(Task) /\ FillsCommitted(log', s1)
    BY <1>1, TaskType, SingletonType, NothingFilled, NoFills
  <2>2. s2 \in Seq(Task) /\ FillsCommitted(log', s2)
    BY <1>2, TaskType, SingletonType, NothingFilled, NoFills
  <2>3. s3 \in Seq(Task) /\ FillsCommitted(log', s3)
    BY <1>1, <1>7, UpdateTasksType, FillTasksType, FillTasksCommitted
  <2> HIDE DEF s1, s2, s3
  <2>4. s1 \o s2 \in Seq(Task) /\ FillsCommitted(log', s1 \o s2)
    BY <2>1, <2>2, ConcatType, ConcatCommitted
  <2>5. FillsCommitted(log', (s1 \o s2) \o s3)
    BY <2>3, <2>4, ConcatCommitted
  <2> QED BY <2>5 DEF UpdateTasks, s1, s2, s3
<1>9. TasksCommitted' /\ HeldCommitted' /\ \A d \in Clients : d # c => held'[d] = held[d]
  BY <1>3, <1>6, <1>7, <1>8, ThenCommitted, HoldCommitted, KeptCommitted, OthersHold
  DEF AnsweredWith
<1>10. GotCommitted' /\ UpdatesHeld'
  BY <1>3, <1>6, <1>9, ReturnCommitted
<1> QED BY <1>3, <1>6, <1>9, <1>10, KeptCommitted, LogStepGrows DEF CommitInv, TypeOK

\* Every statement of a write operation keeps the invariant.
LEMMA ExecuteSafe ==
    ASSUME TypeOK, CommitInv, NEW c \in Clients, Execute(c)
    PROVE  CommitInv'
<1>1. CASE InsertChunk(c)
  BY <1>1, InsertChunkSafe
<1>2. CASE InsertChunkFails(c) \/ UpdateIsDuplicate(c)
  BY <1>2, ReturnOnly DEF InsertChunkFails, UpdateIsDuplicate, LogStep, dbVars, cacheVars
<1>3. CASE QueryExisting(c)
  <2> DEFINE id == arg[c].new.id
             next(p) == [new |-> arg[c].new, oldUid |-> log[p][id].uid]
  <2>1. UNCHANGED <<log, items, held>> /\ pc[c] = "updateGet" /\ id \in Ids
    BY <1>3, LocalType DEF QueryExisting, At, ArgFits, Entity, dbVars, cacheVars
  <2>2. LogStep
    BY <2>1 DEF LogStep
  <2>3. ASSUME NEW p \in ReadPositions, IsLive(log[p], id),
               Then(c, FillTasks("setCached", {Entry(log[p], id)})),
               Goto(c, "update", next(p))
        PROVE  CommitInv'
    <3>1. CommittedIn(log', Entry(log[p], id))
      BY <2>1, <2>3, ReadCommitted DEF LiveIds
    <3>2. FillsCommitted(log', FillTasks("setCached", {Entry(log[p], id)}))
      BY <3>1, FillTasksCommitted
    <3>3. TasksCommitted'
      BY <2>2, <2>3, <3>2, ThenCommitted
    <3>4. held[c] # None /\ arg[c].new.id = held[c].id /\ arg[c].new.ver = held[c].ver
      BY <2>1 DEF CommitInv, UpdatesHeld
    <3>5. GotCommitted' /\ UpdatesHeld'
      BY <2>1, <2>2, <2>3, <3>4, GotoCommitted, GotoUpdate
    <3> QED BY <2>1, <2>2, <3>3, <3>5, KeptCommitted, LogStepGrows DEF CommitInv, TypeOK
  <2>4. CASE UNCHANGED todo /\ Return(c)
    BY <2>1, <2>2, <2>4, ReturnOnly
  <2> QED BY <1>3, <2>3, <2>4 DEF QueryExisting
<1>4. CASE ExecUpdate(c)
  BY <1>4, ExecUpdateSafe
<1>5. CASE UpdateMisses(c)
  <2>1. FillsCommitted(log', << InvalidateTask(arg[c].new.id) >>)
    BY NothingFilled, NoFills
  <2> QED BY <1>5, <2>1, ReturnThen DEF UpdateMisses, LogStep, dbVars, cacheVars
<1>6. CASE UpdateChunkByIds(c)
  <2>1. PICK chunk : UpdateChunk(c, chunk, chunk \cap LiveIds(Primary))
    BY <1>6 DEF UpdateChunkByIds
  <2> QED BY <1>6, <2>1, UpdateChunkSafe DEF UpdateChunkByIds, At
<1>7. CASE UpdateChunkByUids(c)
  <2>1. PICK chunk : UpdateChunk(c, chunk, {id \in LiveIds(Primary) : Primary[id].uid \in chunk})
    BY <1>7 DEF UpdateChunkByUids
  <2> QED BY <1>7, <2>1, UpdateChunkSafe DEF UpdateChunkByUids, At
<1> QED BY <1>1, <1>2, <1>3, <1>4, <1>5, <1>6, <1>7 DEF Execute
-----------------------------------------------------------------------------
(* The accesses to the caches keep CommitInv.                                *)

\* A step of the caches: the table, the control of the clients and what they
\* hold stay; the items and the tasks are safe.
LEMMA CacheStepSafe ==
    ASSUME TypeOK, CommitInv, UNCHANGED <<log, pc, arg, held>>,
           CacheHoldsCommittedRows', TasksCommitted'
    PROVE  CommitInv'
<1>1. LogStep
  BY DEF LogStep
<1> QED BY <1>1, KeptCommitted, LogStepGrows DEF CommitInv, TypeOK

\* setCached of a committed row.
LEMMA SetCachedCommitted ==
    ASSUME TypeOK, CommitInv, NEW n \in Nodes, NEW e \in Entity, CommittedIn(log, e),
           SetCached(n, e), UNCHANGED log
    PROVE  CacheHoldsCommittedRows'
<1>1. e.id \in Ids
  BY DEF Entity
<1>2. ASSUME NEW m \in Nodes, NEW id \in Ids, items'[m][id] # None
      PROVE  items'[m][id].id = id /\ CommittedIn(log, items'[m][id])
  <2>1. items'[m][id] = items[m][id] \/ (id = e.id /\ items'[m][id] = e)
    BY <1>1 DEF SetCached, TypeOK, CachesOK
  <2> QED BY <1>2, <2>1 DEF CommitInv, CacheHoldsCommittedRows, Committed
<1> QED BY <1>2 DEF CacheHoldsCommittedRows, Committed

\* Entries that are dropped from the caches.
LEMMA DroppedCommitted ==
    ASSUME TypeOK, CommitInv, UNCHANGED log,
           \A n \in Nodes, id \in Ids : items'[n][id] \in {items[n][id], None}
    PROVE  CacheHoldsCommittedRows'
  BY DEF CommitInv, CacheHoldsCommittedRows, Committed

\* A client that has done its first task has committed fills left.
LEMMA DoneCommitted ==
    ASSUME TypeOK, CommitInv, UNCHANGED log, NEW c \in Clients, todo[c] # << >>, Done(c)
    PROVE  TasksCommitted'
<1>1. FillsCommitted(log', Tail(todo[c]))
  BY LocalType, TailCommitted DEF CommitInv, TasksCommitted
<1>2. Then(c, Tail(todo[c]))
  BY DEF Done, Then
<1> QED BY <1>1, <1>2, ThenCommitted DEF LogStep

\* Every task keeps the invariant.
LEMMA AccessCacheSafe ==
    ASSUME TypeOK, CommitInv, NEW c \in Clients, AccessCache(c)
    PROVE  CommitInv'
<1> DEFINE n == NodeOf[c]
           task == Head(todo[c])
<1>1. n \in Nodes /\ UNCHANGED <<log, pc, arg, held>>
  BY LocalType DEF AccessCache, FillCache, FillCacheMapped, SetMapping, SetList, InvalidateCache,
     InvalidateOldUid, FlushListCache, FlushItems, PublishFlushItem, dbVars, cacheVars
<1>2. LogStep
  BY <1>1 DEF LogStep
<1>3. todo[c] # << >>
  BY DEF AccessCache, FillCache, FillCacheMapped, SetMapping, SetList, InvalidateCache,
     InvalidateOldUid, FlushListCache, FlushItems, PublishFlushItem, Doing
<1>4. /\ task \in Task /\ Tail(todo[c]) \in Seq(Task)
      /\ FillsCommitted(log', Tail(todo[c]))
      /\ Fills(task) => \A e \in task.entities : CommittedIn(log', e)
  BY <1>1, <1>3, LocalType, HeadAndTailType, TailCommitted DEF CommitInv, TasksCommitted
<1>5. CASE FillCache(c)
  <2>1. Fills(task) /\ task.entities \in SUBSET Entity
    BY <1>4, <1>5, TaskFields DEF FillCache, Doing, Fills
  <2>2. PICK e \in task.entities :
          /\ SetCached(n, e)
          /\ Then(c, FillTasks("setCached", task.entities \ {e}) \o Tail(todo[c]))
    BY <1>5 DEF FillCache
  <2> DEFINE rest == FillTasks("setCached", task.entities \ {e})
  <2>3. CacheHoldsCommittedRows'
    BY <1>1, <1>4, <2>1, <2>2, SetCachedCommitted
  <2>4. rest \in Seq(Task) /\ FillsCommitted(log', rest)
    BY <1>4, <2>1, FillTasksType, FillTasksCommitted
  <2>5. FillsCommitted(log', rest \o Tail(todo[c]))
    BY <1>4, <2>4, ConcatCommitted
  <2>6. TasksCommitted'
    BY <1>2, <2>2, <2>5, ThenCommitted
  <2> QED BY <1>1, <2>3, <2>6, CacheStepSafe
<1>6. CASE FillCacheMapped(c)
  <2>1. Fills(task) /\ task.entities \in SUBSET Entity
    BY <1>4, <1>6, TaskFields DEF FillCacheMapped, Doing, Fills
  <2>2. PICK e \in task.entities :
          /\ SetCached(n, e)
          /\ Then(c, << [do |-> "setMapping", uid |-> e.uid, id |-> e.id] >>
                       \o FillTasks("setCachedMapped", task.entities \ {e})
                       \o Tail(todo[c]))
    BY <1>6 DEF FillCacheMapped
  <2> DEFINE set  == << [do |-> "setMapping", uid |-> e.uid, id |-> e.id] >>
             rest == FillTasks("setCachedMapped", task.entities \ {e})
  <2>3. CacheHoldsCommittedRows'
    BY <1>1, <1>4, <2>1, <2>2, SetCachedCommitted
  <2>4. rest \in Seq(Task) /\ FillsCommitted(log', rest)
    BY <1>4, <2>1, FillTasksType, FillTasksCommitted
  <2>5. set \in Seq(Task) /\ FillsCommitted(log', set)
    BY <2>1, TaskType, SingletonType, NothingFilled, NoFills DEF Entity
  <2>6. set \o rest \in Seq(Task) /\ FillsCommitted(log', set \o rest)
    BY <2>4, <2>5, ConcatType, ConcatCommitted
  <2>7. FillsCommitted(log', set \o rest \o Tail(todo[c]))
    BY <1>4, <2>6, ConcatCommitted
  <2>8. TasksCommitted'
    BY <1>2, <2>2, <2>7, ThenCommitted
  <2> QED BY <1>1, <2>3, <2>8, CacheStepSafe
<1>7. ASSUME Done(c), \A m \in Nodes, id \in Ids : items'[m][id] \in {items[m][id], None}
      PROVE  CommitInv'
  BY <1>1, <1>3, <1>7, DroppedCommitted, DoneCommitted, CacheStepSafe
<1>8. CASE SetMapping(c) \/ SetList(c) \/ InvalidateOldUid(c) \/ FlushListCache(c)
             \/ PublishFlushItem(c)
  BY <1>7, <1>8 DEF SetMapping, SetList, InvalidateOldUid, FlushListCache, PublishFlushItem,
     cacheVars
<1>9. CASE InvalidateCache(c)
  <2>1. task.id \in Ids
    BY <1>4, <1>9, TaskFields DEF InvalidateCache, Doing
  <2>2. \A m \in Nodes, id \in Ids : items'[m][id] \in {items[m][id], None}
    BY <1>1, <1>9, <2>1 DEF InvalidateCache, TypeOK, CachesOK
  <2> QED BY <1>7, <1>9, <2>2 DEF InvalidateCache
<1>10. CASE FlushItems(c)
  <2>1. \A m \in Nodes, id \in Ids : items'[m][id] \in {items[m][id], None}
    BY <1>1, <1>10 DEF FlushItems, FlushCache, TypeOK, CachesOK
  <2> QED BY <1>7, <1>10, <2>1 DEF FlushItems
<1> QED BY <1>5, <1>6, <1>8, <1>9, <1>10 DEF AccessCache
-----------------------------------------------------------------------------
(* What happens beside the clients keeps CommitInv.                          *)

\* A step of the environment that at most drops items.
LEMMA DropSafe ==
    ASSUME TypeOK, CommitInv, UNCHANGED <<log, clientVars>>,
           \A n \in Nodes, id \in Ids : items'[n][id] \in {items[n][id], None}
    PROVE  CommitInv'
<1>1. LogStep
  BY DEF LogStep
<1> QED BY <1>1, DroppedCommitted, KeptCommitted, CacheStepSafe DEF clientVars

\* Deliveries, losses, expirations, subscriptions and replication keep it.
LEMMA EnvironmentSafe ==
    ASSUME TypeOK, CommitInv
    PROVE  /\ \A m \in msgs : Deliver(m) \/ LoseMessage(m) => CommitInv'
           /\ \A n \in Nodes : Expire(n) \/ Subscribe(n) => CommitInv'
           /\ Replicate => CommitInv'
           /\ UNCHANGED vars => CommitInv'
<1>1. ASSUME NEW m \in msgs, Deliver(m)
      PROVE  CommitInv'
  <2>1. m.to \in Nodes /\ (m.kind = "invalidateId" => m.key \in Ids)
    BY MessageFields DEF TypeOK, MessagesOK
  <2>2. UNCHANGED log /\ UNCHANGED clientVars
    BY <1>1 DEF Deliver, OnCacheInvalidated, OnBumpEpoch, OnCacheFlushItem, dbVars
  <2>3. CASE OnCacheInvalidated(m)
    <3>1. \A n \in Nodes, id \in Ids : items'[n][id] \in {items[n][id], None}
      <4>1. items \in [Nodes -> [Ids -> Entity \cup {None}]]
        BY DEF TypeOK, CachesOK
      <4>2. CASE UNCHANGED items
        BY <4>2
      <4>3. CASE items' = [items EXCEPT ![m.to][m.key] = None] /\ m.kind = "invalidateId"
        BY <2>1, <4>1, <4>3
      <4> QED BY <2>3, <4>2, <4>3 DEF OnCacheInvalidated, Receive
    <3> QED BY <2>2, <3>1, DropSafe
  <2>4. CASE OnBumpEpoch(m)
    BY <2>2, <2>4, DropSafe DEF OnBumpEpoch
  <2>5. CASE OnCacheFlushItem(m)
    <3>1. \A n \in Nodes, id \in Ids : items'[n][id] \in {items[n][id], None}
      BY <2>1, <2>5 DEF OnCacheFlushItem, FlushCache, TypeOK, CachesOK
    <3> QED BY <2>2, <3>1, DropSafe
  <2> QED BY <1>1, <2>3, <2>4, <2>5 DEF Deliver
<1>2. ASSUME NEW m \in msgs, LoseMessage(m)
      PROVE  CommitInv'
  BY <1>2, DropSafe DEF LoseMessage, dbVars, cacheVars
<1>3. ASSUME NEW n \in Nodes, Expire(n)
      PROVE  CommitInv'
  <2>1. UNCHANGED log /\ UNCHANGED clientVars
    BY <1>3 DEF Expire, ExpireItem, ExpireMapping, ExpireLists, dbVars
  <2>2. \A m \in Nodes, id \in Ids : items'[m][id] \in {items[m][id], None}
    BY <1>3 DEF Expire, ExpireItem, ExpireMapping, ExpireLists, TypeOK, CachesOK
  <2> QED BY <2>1, <2>2, DropSafe
<1>4. ASSUME NEW n \in Nodes, Subscribe(n)
      PROVE  CommitInv'
  BY <1>4, DropSafe DEF Subscribe, dbVars, cacheVars
<1>5. CASE Replicate
  BY <1>5, DropSafe DEF Replicate, cacheVars
<1>6. CASE UNCHANGED vars
  BY <1>6, DropSafe DEF vars, dbVars, cacheVars
<1> QED BY <1>1, <1>2, <1>3, <1>4, <1>5, <1>6

\* So does a restart, which empties the caches of a node and its clients.
LEMMA RestartSafe ==
    ASSUME TypeOK, CommitInv, NEW n \in Nodes, Restart(n)
    PROVE  CommitInv'
<1>1. UNCHANGED log /\ LogStep
  BY DEF Restart, dbVars, LogStep
<1>2. LogGrows'
  BY <1>1, LogStepGrows DEF TypeOK, CommitInv
<1>3. CacheHoldsCommittedRows'
  <2>1. \A m \in Nodes, id \in Ids : items'[m][id] \in {items[m][id], None}
    BY DEF Restart, FlushCache, TypeOK, CachesOK
  <2> QED BY <1>1, <2>1, DroppedCommitted
<1>4. \A c \in Clients : \/ /\ pc'[c] = pc[c] /\ arg'[c] = arg[c]
                            /\ todo'[c] = todo[c] /\ held'[c] = held[c]
                         \/ pc'[c] = "idle" /\ todo'[c] = << >> /\ held'[c] = None
  BY DEF Restart
<1>5. TasksCommitted'
  BY <1>1, <1>4, NothingFilled DEF CommitInv, TasksCommitted
<1>6. GotCommitted' /\ HeldCommitted' /\ UpdatesHeld'
  BY <1>1, <1>4 DEF CommitInv, GotCommitted, HeldCommitted, UpdatesHeld, Committed
<1> QED BY <1>2, <1>3, <1>5, <1>6 DEF CommitInv

\* The invariant holds in the first state.
LEMMA InitSafe == Init => CommitInv
<1> SUFFICES ASSUME Init PROVE CommitInv
  OBVIOUS
<1>1. Len(log) = 1
  BY DEF Init
<1>2. LogGrows
  BY <1>1 DEF LogGrows, Precedes
<1>3. CacheHoldsCommittedRows
  BY DEF Init, CacheHoldsCommittedRows
<1>4. TasksCommitted
  BY NothingFilled DEF Init, TasksCommitted
<1>5. GotCommitted /\ HeldCommitted /\ UpdatesHeld
  BY DEF Init, GotCommitted, HeldCommitted, UpdatesHeld
<1> QED BY <1>2, <1>3, <1>4, <1>5 DEF CommitInv

\* Every step keeps the invariant: one case per disjunct of Next.
LEMMA NextSafe ==
    ASSUME TypeOK, CommitInv, [Next]_vars
    PROVE  CommitInv'
<1>1. ASSUME NEW c \in Clients, DatabaseError(c)
      PROVE  CommitInv'
  BY <1>1, ReturnOnly DEF DatabaseError, LogStep, dbVars, cacheVars
<1>2. ASSUME NEW c \in Clients, Read(c) \/ Write(c) \/ Continue(c)
      PROVE  CommitInv'
  BY <1>1, <1>2, ReadSafe, WriteSafe, QuerySafe, ExecuteSafe, AccessCacheSafe DEF Continue
<1>3. ASSUME NEW n \in Nodes, Restart(n)
      PROVE  CommitInv'
  BY <1>3, RestartSafe
<1> QED BY <1>2, <1>3, EnvironmentSafe DEF Next
-----------------------------------------------------------------------------
\* What keeps the caches honest, in every reachable state.
LEMMA CommitInvHolds == Spec => []CommitInv
<1>1. Init => TypeOK /\ CommitInv
  BY InitType, InitSafe
<1>2. TypeOK /\ CommitInv /\ [Next]_vars => (TypeOK /\ CommitInv)'
  BY NextType, NextSafe
<1> QED BY <1>1, <1>2, PTL DEF Spec

\* No cache of any node ever serves contents that were not, at some time, the
\* contents of that row in the table: however many nodes and clients there are,
\* whichever statements fail, messages get lost and nodes restart.
THEOREM CacheIsHonest == Spec => []CacheHoldsCommittedRows
<1>1. CommitInv => CacheHoldsCommittedRows
  BY DEF CommitInv
<1> QED BY <1>1, CommitInvHolds, PTL
-----------------------------------------------------------------------------
(* No update is lost.                                                        *)

\* Of two committed contents of a live row with the same version there is one.
LEMMA SameVersionSameRow ==
    ASSUME TypeOK, LogGrows, NEW e \in Entity, Committed(e),
           IsLive(Primary, e.id), Primary[e.id].ver = e.ver
    PROVE  Entry(Primary, e.id) = e
<1>1. e.id \in Ids
  BY DEF Entity
<1>2. PICK p \in 1..Len(log) : IsLive(log[p], e.id) /\ Entry(log[p], e.id) = e
  BY DEF Committed, CommittedIn
<1>3. p \in Nat /\ Len(log) \in Nat /\ p <= Len(log) /\ Len(log) \in 1..Len(log)
  BY <1>2, LogType DEF TypeOK
<1>4. Precedes(log[p][e.id], Primary[e.id])
  BY <1>1, <1>3 DEF LogGrows, Primary
<1>5. log[p][e.id] \in Row /\ Primary[e.id] \in Row
  BY <1>1, LogType DEF TypeOK
<1>6. log[p][e.id].ver = e.ver
  BY <1>2 DEF Entry
<1>7. log[p][e.id] = Primary[e.id]
  BY <1>2, <1>4, <1>5, <1>6 DEF Precedes, IsLive, Row
<1> QED BY <1>2, <1>7 DEF Entry

\* A client leaves "update" with a write only by an update of its own.
LEMMA OnlyExecUpdate ==
    ASSUME TypeOK, [Next]_vars, NEW c \in Clients,
           pc[c] = "update", pc'[c] # "update", log' # log
    PROVE  ExecUpdate(c)
<1>0. \A d \in Clients : \A label, a : Goto(d, label, a) => d = c \/ pc'[c] = pc[c]
  BY DEF Goto, TypeOK, ControlOK
<1>1. ASSUME NEW d \in Clients, Read(d)
      PROVE  FALSE
  BY <1>1 DEF Read, GetByID, GetByUid, GetByIds, GetByUids, List, Count, dbVars
<1>2. ASSUME NEW d \in Clients, Write(d)
      PROVE  FALSE
  BY <1>2 DEF Write, Create, CreateBulk, Update, UpdateAgeByIds, UpdateAgeByUids, UpdateBulk,
     Delete, HardDelete, DeleteOlder, HardDeleteOlder, DeleteRows, dbVars
<1>3. ASSUME NEW d \in Clients, Query(d)
      PROVE  FALSE
  BY <1>3 DEF Query, GetByMappedID, ListFromCache, QueryByID, QueryByUid, QueryByIds,
     QueryByUids, QueryList, QueryCount, dbVars
<1>4. ASSUME NEW d \in Clients, Execute(d)
      PROVE  ExecUpdate(c)
  <2>1. CASE InsertChunk(d)
    <3>1. pc[d] = "createBulk" /\ \E label, a : Goto(d, label, a)
      BY <2>1 DEF InsertChunk, At, Return
    <3> QED BY <1>0, <3>1
  <2>2. CASE UpdateChunkByIds(d) \/ UpdateChunkByUids(d)
    <3>1. pc[d] # "update" /\ \E label, a : Goto(d, label, a)
      BY <2>2 DEF UpdateChunkByIds, UpdateChunkByUids, UpdateChunk, At, Return
    <3> QED BY <1>0, <3>1
  <2>3. CASE ExecUpdate(d)
    <3>1. Goto(d, "idle", None)
      BY <2>3 DEF ExecUpdate, Return
    <3> QED BY <1>0, <2>3, <3>1
  <2>4. CASE InsertChunkFails(d) \/ QueryExisting(d) \/ UpdateMisses(d) \/ UpdateIsDuplicate(d)
    BY <2>4 DEF InsertChunkFails, QueryExisting, UpdateMisses, UpdateIsDuplicate, dbVars
  <2> QED BY <1>4, <2>1, <2>2, <2>3, <2>4 DEF Execute
<1>5. ASSUME NEW d \in Clients, AccessCache(d) \/ DatabaseError(d)
      PROVE  FALSE
  BY <1>5 DEF AccessCache, FillCache, FillCacheMapped, SetMapping, SetList, InvalidateCache,
     InvalidateOldUid, FlushListCache, FlushItems, PublishFlushItem, DatabaseError, dbVars
<1>6. ASSUME NEW m \in msgs, Deliver(m) \/ LoseMessage(m)
      PROVE  FALSE
  BY <1>6 DEF Deliver, OnCacheInvalidated, OnBumpEpoch, OnCacheFlushItem, LoseMessage, dbVars
<1>7. ASSUME NEW n \in Nodes, Expire(n) \/ Restart(n) \/ Subscribe(n)
      PROVE  FALSE
  BY <1>7 DEF Expire, ExpireItem, ExpireMapping, ExpireLists, Restart, Subscribe, dbVars
<1>8. CASE Replicate \/ UNCHANGED vars
  BY <1>8 DEF Replicate, vars, dbVars
<1> QED BY <1>1, <1>2, <1>3, <1>4, <1>5, <1>6, <1>7, <1>8 DEF Next, Continue

\* Optimistic locking: an Update that changes the table replaces exactly the
\* contents that its caller holds, whatever the caches and the read instances
\* have shown to it and however many others write.
THEOREM UpdatesAreNotLost == Spec => NoLostUpdate
<1> DEFINE Safe(c) == pc[c] = "update" /\ pc'[c] # "update" /\ log' # log
                        => Entry(Primary, held[c].id) = held[c]
<1>1. ASSUME TypeOK, CommitInv, [Next]_vars
      PROVE  \A c \in Clients : Safe(c)
  <2>1. SUFFICES ASSUME NEW c \in Clients, pc[c] = "update", pc'[c] # "update", log' # log
                 PROVE  Entry(Primary, held[c].id) = held[c]
    OBVIOUS
  <2>2. ExecUpdate(c)
    BY <1>1, <2>1, OnlyExecUpdate
  <2>3. held[c] # None /\ arg[c].new.id = held[c].id /\ arg[c].new.ver = held[c].ver
    BY <1>1, <2>1 DEF CommitInv, UpdatesHeld
  <2>4. held[c] \in Entity /\ Committed(held[c])
    BY <1>1, <2>3, LocalType DEF CommitInv, HeldCommitted
  <2>5. IsLive(Primary, held[c].id) /\ Primary[held[c].id].ver = held[c].ver
    BY <2>2, <2>3 DEF ExecUpdate, VersionMatches
  <2> QED BY <1>1, <2>4, <2>5, SameVersionSameRow DEF CommitInv
<1>2. TypeOK /\ CommitInv /\ [Next]_vars => [\A c \in Clients : Safe(c)]_vars
  BY <1>1
<1>3. Spec => [][\A c \in Clients : Safe(c)]_vars
  BY <1>2, TypeCorrect, CommitInvHolds, PTL DEF Spec
<1> QED BY <1>3 DEF NoLostUpdate
-----------------------------------------------------------------------------
(* The repository implements OptimisticStore: what a table shows.            *)

\* No two live rows of the table have the same uid.
UniqueIn(t) == \A i, j \in LiveIds(t) : t[i].uid = t[j].uid => i = j

\* The contents of a row and of an entity.
LEMMA DataOfType ==
    /\ \A r \in Row : DataOf(r) \in NewRow /\ DataOf(r) # None
    /\ \A e \in Entity : DataOf(e) \in NewRow /\ SeenIn(e) # None
<1>1. \A r \in Row : DataOf(r) \in NewRow
  BY DEF Row, DataOf, NewRow
<1>2. \A e \in Entity : e.id \in Ids /\ DataOf(e) \in NewRow
  BY DEF Entity, DataOf, NewRow
<1>3. \A e \in Entity : [id |-> e.id, data |-> DataOf(e)] \in [id: Ids, data: NewRow]
  BY <1>2
<1>4. None \notin Entity
  BY ConstantsAssumption DEF ConstantsAssumption
<1> QED BY <1>1, <1>2, <1>3, <1>4, NoneAssumption DEF SeenIn

\* A table without its versions has the live rows, each uid once.
LEMMA TableShown ==
    ASSUME NEW t \in [Ids -> Row]
    PROVE  /\ TableOf(t) \in [Ids -> NewRow \cup {None}]
           /\ \A id \in Ids : TableOf(t)[id] # None <=> IsLive(t, id)
           /\ \A id \in LiveIds(t) : TableOf(t)[id] = DataOf(t[id])
           /\ Store!Rows(TableOf(t)) = RowsOf(t)
           /\ Store!UniqueUids(TableOf(t)) <=> UniqueIn(t)
<1>1. \A id \in Ids : DataOf(t[id]) \in NewRow /\ DataOf(t[id]) # None
  BY DataOfType
<1>2. /\ TableOf(t) \in [Ids -> NewRow \cup {None}]
      /\ \A id \in Ids : TableOf(t)[id] # None <=> IsLive(t, id)
      /\ \A id \in LiveIds(t) : TableOf(t)[id] = DataOf(t[id])
  BY <1>1 DEF TableOf, LiveIds
<1>3. {i \in Ids : TableOf(t)[i] # None} = LiveIds(t)
  BY <1>2 DEF LiveIds
<1>4. Store!Rows(TableOf(t)) = RowsOf(t)
  BY <1>2, <1>3 DEF Store!Rows, RowsOf
<1>5. \A i \in LiveIds(t) : DataOf(t[i]).uid = t[i].uid
  BY DEF DataOf
<1>6. Store!UniqueUids(TableOf(t)) <=> UniqueIn(t)
  BY <1>2, <1>3, <1>5 DEF Store!UniqueUids, UniqueIn, LiveIds
<1> QED BY <1>2, <1>4, <1>6

\* A statement that writes the table is a Write of the store.
LEMMA CommitIsWrite ==
    ASSUME TypeOK, NEW t \in [Ids -> Row], Commit(t), UniqueIn(t)
    PROVE  Store!Write(TableOf(t))
<1>1. /\ Len(log) \in Nat /\ Len(log') = Len(log) + 1
      /\ log'[Len(log) + 1] = t
      /\ \A p \in 1..Len(log) : log'[p] = log[p]
  BY Appended, LogType DEF TypeOK
<1>2. StoreTable' = TableOf(t)
  BY <1>1 DEF StoreTable, TableOf, Primary, IsLive
<1>3. StorePast' = StorePast \cup RowsOf(t)
  <2>1. 1..Len(log') = 1..Len(log) \cup {Len(log) + 1}
    BY <1>1
  <2>2. StorePast' = UNION {RowsOf(log'[p]) : p \in 1..Len(log')}
    BY DEF StorePast, RowsOf, LiveIds, IsLive
  <2>3. \A p \in 1..Len(log) : RowsOf(log'[p]) = RowsOf(log[p])
    BY <1>1
  <2>4. RowsOf(log'[Len(log) + 1]) = RowsOf(t)
    BY <1>1
  <2> QED BY <2>1, <2>2, <2>3, <2>4 DEF StorePast
<1> QED BY <1>2, <1>3, TableShown DEF Store!Write

\* Without a statement that writes the table and its past stay.
LEMMA NoWrite ==
    ASSUME UNCHANGED log
    PROVE  UNCHANGED <<StoreTable, StorePast>>
  BY DEF StoreTable, StorePast, Primary

\* What is committed is in the past.
LEMMA CommittedIsPast ==
    ASSUME NEW e, CommittedIn(log, e), e.id \in Ids
    PROVE  [id |-> e.id, data |-> DataOf(e)] \in StorePast
<1>1. PICK p \in 1..Len(log) : IsLive(log[p], e.id) /\ Entry(log[p], e.id) = e
  BY DEF CommittedIn
<1>2. DataOf(log[p][e.id]) = DataOf(e)
  BY <1>1 DEF DataOf, Entry
<1> QED BY <1>1, <1>2 DEF StorePast, RowsOf, LiveIds

\* An id that AUTO_INCREMENT has not handed out is new to the store.
LEMMA UnbornIsFresh ==
    ASSUME TypeOK, LogGrows, NEW id \in Ids, Primary[id].state = "unborn"
    PROVE  Store!Fresh(id)
<1>1. SUFFICES ASSUME NEW p \in 1..Len(log), NEW i \in LiveIds(log[p]), i = id
               PROVE  FALSE
  BY DEF Store!Fresh, StorePast, RowsOf
<1>2. Len(log) \in 1..Len(log) /\ p <= Len(log)
  BY LogType DEF TypeOK
<1>3. Precedes(log[p][id], Primary[id])
  BY <1>2 DEF LogGrows, Primary
<1> QED BY <1>1, <1>3 DEF Precedes, LiveIds, IsLive

\* What the clients have seen follows what they hold.
LEMMA HoldIsSeen ==
    ASSUME TypeOK, NEW c \in Clients, NEW e, Hold(c, e)
    PROVE  /\ held'[c] = e
           /\ StoreSeen' = [StoreSeen EXCEPT ![c] = SeenIn(e)]
<1>1. /\ held'[c] = e
      /\ \A d \in Clients : held'[d] = IF d = c THEN e ELSE held[d]
  BY DEF Hold, TypeOK, HeldOK
<1>2. StoreSeen' = [d \in Clients |-> SeenIn(held'[d])]
  BY DEF StoreSeen, SeenIn
<1> QED BY <1>1, <1>2 DEF StoreSeen

LEMMA NothingSeen ==
    ASSUME UNCHANGED held
    PROVE  UNCHANGED StoreSeen
  BY DEF StoreSeen
-----------------------------------------------------------------------------
(* The steps of the store.                                                   *)

StoreStep == [Store!Next]_(Store!vars)

\* A step that writes nothing and lets at most one client hold another entity:
\* the client has seen what is in the past, or has forgotten what it saw.
LEMMA LookIsStoreStep ==
    ASSUME TypeOK, TypeOK', CommitInv', UNCHANGED log, NEW c \in Clients,
           UNCHANGED held \/ \E e : Hold(c, e)
    PROVE  StoreStep
<1>1. UNCHANGED <<StoreTable, StorePast>>
  BY NoWrite
<1>2. CASE UNCHANGED held
  BY <1>1, <1>2, NothingSeen DEF StoreStep, Store!vars
<1>3. ASSUME NEW e, Hold(c, e)
      PROVE  StoreStep
  <2>1. held'[c] = e /\ StoreSeen' = [StoreSeen EXCEPT ![c] = SeenIn(e)]
    BY <1>3, HoldIsSeen
  <2>2. CASE e = None
    <3>1. StoreSeen' = [d \in Clients |-> IF d \in {c} THEN None ELSE StoreSeen[d]]
      BY <2>1, <2>2 DEF StoreSeen, SeenIn
    <3>2. {c} \in SUBSET Clients /\ Store!Forget({c})
      BY <1>1, <3>1 DEF Store!Forget
    <3> QED BY <3>2 DEF StoreStep, Store!Next
  <2>3. CASE e # None
    <3>1. e \in Entity /\ CommittedIn(log', e)
      BY <2>1, <2>3 DEF TypeOK, HeldOK, CommitInv, HeldCommitted, Committed
    <3>2. [id |-> e.id, data |-> DataOf(e)] \in StorePast
      BY <3>1, CommittedIsPast DEF Entity
    <3>3. SeenIn(e) \in StorePast
      BY <2>3, <3>2 DEF SeenIn
    <3>4. Store!Observe(c)
      BY <1>1, <2>1, <3>3 DEF Store!Observe
    <3> QED BY <3>4 DEF StoreStep, Store!Next
  <2> QED BY <2>2, <2>3
<1> QED BY <1>2, <1>3

\* INSERT of a row: its uid is new among the live rows, its id altogether.
LEMMA CreateIsStoreStep ==
    ASSUME TypeOK, CommitInv, UniqueIn(Primary), NEW c \in Clients, NEW row \in NewRow,
           Create(c, row)
    PROVE  StoreStep
<1>1. PICK id \in Ids :
        LET t == [Primary EXCEPT ![id] = Inserted(row)]
            e == Entry(t, id)
        IN  /\ IsNextId(Primary, id)
            /\ Commit(t)
            /\ AnsweredWith(c, e, FillTasks("setCached", {e}) \o << FlushListTask >>)
  BY DEF Create
<1> DEFINE t == [Primary EXCEPT ![id] = Inserted(row)]
           e == Entry(t, id)
           d == DataOf(t[id])
<1>2. Primary \in [Ids -> Row] /\ t \in [Ids -> Row] /\ e \in Entity
  BY LogType, RowType, EntryType DEF TypeOK
<1>3. /\ Primary[id].state = "unborn"
      /\ t[id] = Inserted(row)
      /\ \A i \in Ids : i # id => t[i] = Primary[i]
  <2>1. id >= id
    BY DEF Ids
  <2> QED BY <1>1, <1>2, <2>1 DEF IsNextId
<1>4. UniqueIn(t)
  <2>1. \A i \in LiveIds(Primary) : Primary[i].uid # row.uid
    BY DEF Create, IdsOfUid
  <2>2. t[id].uid = row.uid
    BY <1>3 DEF Inserted
  <2>3. \A i \in LiveIds(t) : i # id => i \in LiveIds(Primary)
    BY <1>3 DEF LiveIds, IsLive
  <2> HIDE DEF t
  <2> QED BY <1>3, <2>1, <2>2, <2>3 DEF UniqueIn, LiveIds
<1>5. IsLive(t, id)
  BY <1>3 DEF IsLive, Inserted
<1>6. TableOf(t) = [StoreTable EXCEPT ![id] = d]
  <2> HIDE DEF t
  <2>1. d \in NewRow /\ d = TableOf(t)[id]
    BY <1>2, <1>5, DataOfType, TableShown DEF LiveIds
  <2>2. \A i \in Ids : i # id => TableOf(t)[i] = StoreTable[i]
    BY <1>3 DEF TableOf, StoreTable, IsLive
  <2>3. StoreTable \in [Ids -> NewRow \cup {None}] /\ TableOf(t) \in [Ids -> NewRow \cup {None}]
    BY <1>2, TableShown DEF StoreTable
  <2> HIDE DEF d
  <2> QED BY <2>1, <2>2, <2>3
<1>7. Commit(t)
  BY <1>1
<1>8. Store!Fresh(id)
  BY <1>3, UnbornIsFresh DEF CommitInv
<1>9. Store!Saw(c, [id |-> id, data |-> d])
  <2>1. Hold(c, e) \/ UNCHANGED held
    BY <1>1 DEF AnsweredWith
  <2>2. SeenIn(e) = [id |-> id, data |-> d]
    BY <1>2, DataOfType DEF SeenIn, DataOf, Entry
  <2> QED BY <2>1, <2>2, HoldIsSeen, NothingSeen DEF Store!Saw
<1>10. d \in Store!Data
  BY <1>2, DataOfType DEF Store!Data, NewRow
<1> HIDE DEF t, d
<1>11. Store!Write([StoreTable EXCEPT ![id] = d])
  BY <1>2, <1>4, <1>6, <1>7, CommitIsWrite
<1>12. Store!Insert(c, id, d)
  BY <1>8, <1>9, <1>11 DEF Store!Insert
<1> QED BY <1>10, <1>12 DEF StoreStep, Store!Next

\* A delete of one row or of many, soft or hard.
LEMMA DeleteRowsIsStoreStep ==
    ASSUME TypeOK, UniqueIn(Primary), NEW c \in Clients, NEW ids \in SUBSET Ids,
           NEW rows \in [ids -> Row], \A id \in ids : rows[id].state \in {"deleted", "purged"},
           NEW tasks, DeleteRows(c, rows, tasks)
    PROVE  StoreStep
<1> DEFINE t == [id \in Ids |-> IF id \in DOMAIN rows THEN rows[id] ELSE Primary[id]]
<1>1. Primary \in [Ids -> Row] /\ t \in [Ids -> Row] /\ Commit(t) /\ UNCHANGED held
  BY LogType DEF TypeOK, DeleteRows
<1>2. \A id \in Ids : IF id \in ids THEN ~IsLive(t, id) ELSE t[id] = Primary[id]
  BY DEF IsLive
<1> HIDE DEF t
<1>3. UniqueIn(t)
  <2>1. \A i \in LiveIds(t) : t[i] = Primary[i] /\ i \in LiveIds(Primary)
    BY <1>2 DEF LiveIds, IsLive
  <2> QED BY <2>1 DEF UniqueIn
<1>4. TableOf(t) = [id \in Ids |-> IF id \in ids THEN None ELSE StoreTable[id]]
  BY <1>2 DEF TableOf, StoreTable, IsLive
<1>5. Store!Remove(ids)
  BY <1>1, <1>3, <1>4, CommitIsWrite, NothingSeen DEF Store!Remove
<1> QED BY <1>5 DEF StoreStep, Store!Next
\* The INSERT of a chunk: no uid in it is a live row's or another's of the chunk.
LEMMA InsertChunkIsStoreStep ==
    ASSUME TypeOK, CommitInv, UniqueIn(Primary), NEW c \in Clients, InsertChunk(c)
    PROVE  StoreStep
<1> DEFINE batch == arg[c].batch
           k     == ChunkLen(c)
           new(first) == first..(first + k - 1)
           t(first) == [id \in Ids |-> IF id \in new(first) THEN Inserted(batch[id - first + 1])
                                                           ELSE Primary[id]]
           rows(first) == [id \in new(first) |-> DataOf(t(first)[id])]
<1>1. batch \in Seq(NewRow)
  BY LocalType DEF InsertChunk, At, ArgFits
<1>2. k \in Nat /\ k <= Len(batch)
  BY <1>1, ConstantsAssumption DEF ChunkLen, ConstantsAssumption
<1>3. PICK first \in Ids : first + k - 1 <= MaxId /\ IsNextId(Primary, first) /\ Commit(t(first))
  BY DEF InsertChunk
<1>4. first \in Nat /\ (\A id \in Ids : id \in Nat) /\ new(first) \subseteq Ids
  BY <1>2, <1>3, ConstantsAssumption DEF ConstantsAssumption, Ids
<1>5. \A id \in new(first) : id - first + 1 \in 1..k /\ batch[id - first + 1] \in NewRow
  <2>1. ASSUME NEW id \in new(first)
        PROVE  id - first + 1 \in 1..k /\ id - first + 1 \in 1..Len(batch)
    BY <1>2, <1>4
  <2> QED BY <1>1, <2>1
<1>6. Primary \in [Ids -> Row] /\ t(first) \in [Ids -> Row]
  BY <1>5, LogType, RowType DEF TypeOK
<1>7. /\ \A id \in new(first) : /\ Primary[id].state = "unborn"
                                /\ t(first)[id] = Inserted(batch[id - first + 1])
      /\ \A id \in Ids \ new(first) : t(first)[id] = Primary[id]
  <2>1. \A id \in new(first) : id >= first
    BY <1>2, <1>4
  <2> QED BY <1>3, <1>4, <2>1 DEF IsNextId
<1> HIDE DEF t
<1>8. \A id \in new(first) : IsLive(t(first), id) /\ t(first)[id].uid = batch[id - first + 1].uid
  <2>1. \A r : Inserted(r).state = "live" /\ Inserted(r).uid = r.uid
    BY DEF Inserted
  <2> QED BY <1>7, <2>1 DEF IsLive
<1>9. UniqueIn(t(first))
  <2>1. ASSUME NEW i \in LiveIds(t(first)), NEW j \in LiveIds(t(first)),
               t(first)[i].uid = t(first)[j].uid
        PROVE  ~(i \in new(first) /\ j \notin new(first))
    <3> SUFFICES ASSUME i \in new(first), j \notin new(first) PROVE FALSE
      OBVIOUS
    <3>1. t(first)[j] = Primary[j] /\ j \in LiveIds(Primary)
      BY <1>7 DEF LiveIds, IsLive
    <3>2. j \in IdsOfUid(Primary, batch[i - first + 1].uid) /\ i - first + 1 \in 1..k
      BY <1>5, <1>8, <2>1, <3>1 DEF IdsOfUid
    <3> QED BY <3>2 DEF InsertChunk, ChunkIsDuplicate
  <2>2. ASSUME NEW i \in new(first), NEW j \in new(first), t(first)[i].uid = t(first)[j].uid
        PROVE  i = j
    <3> DEFINE m(id) == id - first + 1
    <3>1. \A p, q \in 1..k : q < p => batch[q].uid # batch[p].uid
      <4>1. \A p, q \in 1..k : q < p => q \in 1..(p - 1)
        BY <1>2
      <4> QED BY <4>1 DEF InsertChunk, ChunkIsDuplicate
    <3>2. m(i) \in 1..k /\ m(j) \in 1..k /\ batch[m(i)].uid = batch[m(j)].uid
      BY <1>5, <1>8, <2>2
    <3>3. m(i) = m(j)
      <4>1. m(i) < m(j) \/ m(j) < m(i) \/ m(i) = m(j)
        BY <1>2, <3>2
      <4> HIDE DEF m
      <4> QED BY <3>1, <3>2, <4>1
    <3> QED BY <1>4, <3>3
  <2>3. \A i \in LiveIds(t(first)) : i \in new(first) \/ i \in LiveIds(Primary)
    BY <1>7 DEF LiveIds, IsLive
  <2>4. \A i \in LiveIds(t(first)) \ new(first) : t(first)[i] = Primary[i]
    BY <1>7 DEF LiveIds
  <2> HIDE DEF new
  <2> QED BY <2>1, <2>2, <2>3, <2>4 DEF UniqueIn
<1>10. /\ rows(first) \in [new(first) -> Store!Data] /\ DOMAIN rows(first) = new(first)
       /\ new(first) \in SUBSET Ids
  BY <1>4, <1>6, DataOfType DEF Store!Data, NewRow
<1>11. TableOf(t(first)) = [id \in Ids |-> IF id \in DOMAIN rows(first) THEN rows(first)[id]
                                                                      ELSE StoreTable[id]]
  BY <1>7, <1>8, <1>10 DEF TableOf, StoreTable, IsLive
<1>12. \A id \in DOMAIN rows(first) : Store!Fresh(id)
  BY <1>4, <1>7, UnbornIsFresh DEF CommitInv
<1>13. UNCHANGED StoreSeen
  BY NothingSeen DEF InsertChunk
<1> HIDE DEF rows, new
<1>14. Store!InsertMany(rows(first))
  BY <1>3, <1>6, <1>9, <1>11, <1>12, <1>13, CommitIsWrite DEF Store!InsertMany
<1> QED BY <1>10, <1>14 DEF StoreStep, Store!Next

\* The UPDATE of one row: its version stands for the contents its caller saw.
LEMMA ExecUpdateIsStoreStep ==
    ASSUME TypeOK, CommitInv, UniqueIn(Primary), NEW c \in Clients, ExecUpdate(c)
    PROVE  StoreStep
<1> DEFINE e == arg[c].new
           t == [Primary EXCEPT ![e.id] = Touched(@, e.uid, e.age)]
           d == DataOf(t[e.id])
<1>1. pc[c] = "update" /\ e \in Entity /\ e.id \in Ids /\ e.uid \in Uids /\ e.age \in Ages
  BY LocalType DEF ExecUpdate, At, ArgFits, Entity
<1>2. Primary \in [Ids -> Row] /\ t \in [Ids -> Row]
  BY <1>1, LogType, RowType DEF TypeOK
<1>3. /\ IsLive(Primary, e.id) /\ Primary[e.id].ver = e.ver
      /\ IdsOfUid(Primary, e.uid) \subseteq {e.id}
      /\ Commit(t)
      /\ Hold(c, NextVersion(e)) \/ UNCHANGED held
  BY DEF ExecUpdate, VersionMatches, AnsweredWith
<1>4. held[c] \in Entity /\ Committed(held[c]) /\ e.id = held[c].id /\ e.ver = held[c].ver
  <2>1. held[c] # None /\ e.id = held[c].id /\ e.ver = held[c].ver
    BY <1>1 DEF CommitInv, UpdatesHeld
  <2> QED BY <2>1, LocalType DEF CommitInv, HeldCommitted
<1>5. Entry(Primary, e.id) = held[c]
  BY <1>3, <1>4, SameVersionSameRow DEF CommitInv
<1>6. /\ t[e.id] = Touched(Primary[e.id], e.uid, e.age)
      /\ \A i \in Ids : i # e.id => t[i] = Primary[i]
  BY <1>1, <1>2
<1>7. IsLive(t, e.id) /\ t[e.id].uid = e.uid /\ d = [uid |-> e.uid, age |-> e.age]
  BY <1>6 DEF IsLive, Touched, DataOf
<1> HIDE DEF t
<1>8. UniqueIn(t)
  <2>1. \A i \in LiveIds(t) : i # e.id =>
          i \in LiveIds(Primary) /\ t[i] = Primary[i] /\ t[i].uid # e.uid
    BY <1>3, <1>6 DEF LiveIds, IsLive, IdsOfUid
  <2> QED BY <1>7, <2>1 DEF UniqueIn
<1>9. TableOf(t) = [StoreTable EXCEPT ![e.id] = d]
  <2>1. d \in NewRow /\ d = TableOf(t)[e.id]
    BY <1>1, <1>2, <1>7, DataOfType, TableShown DEF LiveIds
  <2>2. \A i \in Ids : i # e.id => TableOf(t)[i] = StoreTable[i]
    BY <1>6 DEF TableOf, StoreTable, IsLive
  <2>3. StoreTable \in [Ids -> NewRow \cup {None}] /\ TableOf(t) \in [Ids -> NewRow \cup {None}]
    BY <1>2, TableShown DEF StoreTable
  <2> HIDE DEF d, e
  <2> QED BY <1>1, <2>1, <2>2, <2>3
<1>10. /\ StoreSeen[c] = SeenIn(held[c]) /\ StoreSeen[c] # None
       /\ SeenIn(held[c]) = [id |-> e.id, data |-> DataOf(held[c])]
  <2>1. held[c] # None
    BY <1>4, ConstantsAssumption DEF ConstantsAssumption
  <2> QED BY <1>4, <2>1, DataOfType DEF StoreSeen, SeenIn
<1>11. StoreTable[e.id] = DataOf(held[c])
  <2>1. StoreTable[e.id] = DataOf(Primary[e.id])
    BY <1>1, <1>2, <1>3, TableShown DEF StoreTable, LiveIds
  <2> QED BY <1>5, <2>1 DEF DataOf, Entry
<1>12. StoreSeen[c].id = e.id /\ StoreSeen[c].data = DataOf(held[c])
  BY <1>10
<1>13. Store!Saw(c, [id |-> e.id, data |-> d])
  <2>1. SeenIn(NextVersion(e)) = [id |-> e.id, data |-> d]
    <3>1. NextVersion(e) \in Entity
      BY <1>1 DEF Entity, NextVersion
    <3> QED BY <1>7, <3>1, DataOfType DEF SeenIn, DataOf, NextVersion
  <2> QED BY <1>3, <2>1, HoldIsSeen, NothingSeen DEF Store!Saw
<1>14. d \in Store!Data
  BY <1>1, <1>7 DEF Store!Data
<1> HIDE DEF d, e
<1>15. Store!Write([StoreTable EXCEPT ![e.id] = d])
  BY <1>2, <1>3, <1>8, <1>9, CommitIsWrite
<1>16. Store!Replace(c, d)
  BY <1>10, <1>11, <1>12, <1>13, <1>15 DEF Store!Replace
<1> QED BY <1>14, <1>16 DEF StoreStep, Store!Next
\* A chunk of a bulk update sets the age of the rows it hits, or hits none.
LEMMA UpdateChunkIsStoreStep ==
    ASSUME TypeOK, UniqueIn(Primary), NEW c \in Clients, pc[c] \in {"updateByIds", "updateByUids"},
           NEW chunk, NEW hit \in SUBSET LiveIds(Primary), UpdateChunk(c, chunk, hit)
    PROVE  StoreStep
<1> DEFINE t == [id \in Ids |-> IF id \in hit
                                THEN Touched(Primary[id], Primary[id].uid, arg[c].age)
                                ELSE Primary[id]]
<1>1. arg[c].age \in Ages
  BY LocalType DEF ArgFits
<1>2. UNCHANGED StoreSeen
  BY NothingSeen DEF UpdateChunk
<1>3. CASE hit = {}
  BY <1>2, <1>3, NoWrite DEF UpdateChunk, dbVars, StoreStep, Store!vars
<1>4. CASE hit # {}
  <2>1. Commit(t)
    BY <1>4 DEF UpdateChunk
  <2>2. Primary \in [Ids -> Row] /\ hit \in SUBSET Ids
    BY LogType DEF TypeOK, LiveIds
  <2>3. t \in [Ids -> Row]
    <3>1. ASSUME NEW id \in Ids
          PROVE  Touched(Primary[id], Primary[id].uid, arg[c].age) \in Row
      <4>1. Primary[id].uid \in Uids
        BY <2>2 DEF Row
      <4> QED BY <1>1, <2>2, <4>1, RowType
    <3> QED BY <2>2, <3>1
  <2>4. /\ \A id \in hit : /\ IsLive(Primary, id)
                           /\ t[id] = Touched(Primary[id], Primary[id].uid, arg[c].age)
        /\ \A id \in Ids \ hit : t[id] = Primary[id]
    BY <2>2 DEF LiveIds
  <2> HIDE DEF t
  <2>5. \A r, u, a : /\ Touched(r, u, a).state = "live" /\ Touched(r, u, a).uid = u
                     /\ DataOf(Touched(r, u, a)) = [uid |-> u, age |-> a]
    BY DEF Touched, DataOf
  <2>6. UniqueIn(t)
    <3>1. \A id \in Ids : IsLive(t, id) => IsLive(Primary, id) /\ t[id].uid = Primary[id].uid
      BY <2>4, <2>5 DEF IsLive
    <3> QED BY <3>1 DEF UniqueIn, LiveIds
  <2>7. TableOf(t) = [id \in Ids |-> IF id \in hit THEN [StoreTable[id] EXCEPT !.age = arg[c].age]
                                                  ELSE StoreTable[id]]
    <3>1. ASSUME NEW id \in hit
          PROVE  TableOf(t)[id] = [StoreTable[id] EXCEPT !.age = arg[c].age]
      <4>1. IsLive(t, id) /\ id \in Ids
        BY <2>2, <2>4, <2>5 DEF IsLive
      <4>2. StoreTable[id] = [uid |-> Primary[id].uid, age |-> Primary[id].age]
        BY <2>2, <2>4, TableShown DEF StoreTable, LiveIds, DataOf
      <4>3. TableOf(t)[id] = [uid |-> Primary[id].uid, age |-> arg[c].age]
        BY <2>3, <2>4, <2>5, <4>1, TableShown DEF LiveIds
      <4> QED BY <4>2, <4>3
    <3>2. \A id \in Ids \ hit : TableOf(t)[id] = StoreTable[id]
      BY <2>4 DEF TableOf, StoreTable, IsLive
    <3>3. TableOf(t) \in [Ids -> NewRow \cup {None}]
      BY <2>3, TableShown
    <3> QED BY <3>1, <3>2, <3>3
  <2>8. \A id \in hit : StoreTable[id] # None
    BY <2>2, <2>4, TableShown DEF StoreTable
  <2>9. Store!SetAge(hit, arg[c].age)
    BY <1>2, <2>1, <2>3, <2>6, <2>7, <2>8, CommitIsWrite DEF Store!SetAge
  <2> QED BY <1>1, <2>2, <2>9 DEF StoreStep, Store!Next
<1> QED BY <1>3, <1>4

\* The process that ends takes with it what its clients have seen.
LEMMA RestartIsStoreStep ==
    ASSUME NEW n \in Nodes, Restart(n)
    PROVE  StoreStep
<1> DEFINE ended == {c \in Clients : NodeOf[c] = n}
<1>1. UNCHANGED <<StoreTable, StorePast>>
  BY NoWrite DEF Restart, dbVars
<1>2. \A c \in Clients : held'[c] = IF c \in ended THEN None ELSE held[c]
  BY DEF Restart
<1>3. StoreSeen' = [c \in Clients |-> SeenIn(held'[c])]
  BY DEF StoreSeen, SeenIn
<1>4. StoreSeen' = [c \in Clients |-> IF c \in ended THEN None ELSE StoreSeen[c]]
  BY <1>2, <1>3 DEF StoreSeen, SeenIn
<1>5. Store!Forget(ended)
  BY <1>1, <1>4 DEF Store!Forget
<1> QED BY <1>5 DEF StoreStep, Store!Next

LEMMA WriteIsStoreStep ==
    ASSUME TypeOK, TypeOK', CommitInv, CommitInv', UniqueIn(Primary), NEW c \in Clients, Write(c)
    PROVE  StoreStep
<1>1. ASSUME NEW row \in NewRow, Create(c, row)
      PROVE  StoreStep
  BY <1>1, CreateIsStoreStep
<1>2. ASSUME NEW batch \in Batches, CreateBulk(c, batch)
      PROVE  StoreStep
  BY <1>2, LookIsStoreStep DEF CreateBulk, dbVars
<1>3. ASSUME NEW u \in Uids, NEW a \in Ages, Update(c, u, a)
      PROVE  StoreStep
  BY <1>3, LookIsStoreStep DEF Update, dbVars
<1>4. ASSUME NEW label, NEW keys, NEW a, UpdateBulk(c, label, keys, a)
      PROVE  StoreStep
  BY <1>4, LookIsStoreStep DEF UpdateBulk, dbVars
<1>5. /\ \A r \in Row : SoftDeleted(r) \in Row /\ Purged(r) \in Row
      /\ \A r : SoftDeleted(r).state = "deleted" /\ Purged(r).state = "purged"
      /\ Primary \in [Ids -> Row]
  BY RowType, LogType DEF TypeOK, SoftDeleted, Purged
<1>6. ASSUME NEW ids \in SUBSET Ids, NEW tasks,
             \/ DeleteRows(c, [i \in ids |-> SoftDeleted(Primary[i])], tasks)
             \/ DeleteRows(c, [i \in ids |-> Purged(Primary[i])], tasks)
      PROVE  StoreStep
  <2>1. /\ [i \in ids |-> SoftDeleted(Primary[i])] \in [ids -> Row]
        /\ [i \in ids |-> Purged(Primary[i])] \in [ids -> Row]
    BY <1>5
  <2> QED BY <1>5, <1>6, <2>1, DeleteRowsIsStoreStep
<1>7. ASSUME NEW id \in Ids, Delete(c, id) \/ HardDelete(c, id)
      PROVE  StoreStep
  <2>1. {id} \in SUBSET Ids
    OBVIOUS
  <2> QED BY <1>6, <1>7, <2>1 DEF Delete, HardDelete
<1>8. ASSUME NEW ids \in SUBSET Ids, DeleteOlder(c, ids) \/ HardDeleteOlder(c, ids)
      PROVE  StoreStep
  BY <1>6, <1>8 DEF DeleteOlder, HardDeleteOlder
<1> QED BY <1>1, <1>2, <1>3, <1>4, <1>7, <1>8 DEF Write, UpdateAgeByIds, UpdateAgeByUids

LEMMA ExecuteIsStoreStep ==
    ASSUME TypeOK, TypeOK', CommitInv, CommitInv', UniqueIn(Primary), NEW c \in Clients, Execute(c)
    PROVE  StoreStep
<1>1. CASE InsertChunk(c)
  BY <1>1, InsertChunkIsStoreStep
<1>2. CASE ExecUpdate(c)
  BY <1>2, ExecUpdateIsStoreStep
<1>3. CASE UpdateChunkByIds(c)
  <2>1. PICK chunk : UpdateChunk(c, chunk, chunk \cap LiveIds(Primary))
    BY <1>3 DEF UpdateChunkByIds
  <2> QED BY <1>3, <2>1, UpdateChunkIsStoreStep DEF UpdateChunkByIds, At
<1>4. CASE UpdateChunkByUids(c)
  <2>1. PICK chunk : UpdateChunk(c, chunk, {id \in LiveIds(Primary) : Primary[id].uid \in chunk})
    BY <1>4 DEF UpdateChunkByUids
  <2> QED BY <1>4, <2>1, UpdateChunkIsStoreStep DEF UpdateChunkByUids, At
<1>5. CASE InsertChunkFails(c) \/ QueryExisting(c) \/ UpdateMisses(c) \/ UpdateIsDuplicate(c)
  BY <1>5, LookIsStoreStep DEF InsertChunkFails, QueryExisting, UpdateMisses, UpdateIsDuplicate,
     dbVars
<1> QED BY <1>1, <1>2, <1>3, <1>4, <1>5 DEF Execute

\* Every step is one of the store, or changes nothing that it shows.
LEMMA StepImplements ==
    ASSUME TypeOK, TypeOK', CommitInv, CommitInv', UniqueIn(Primary), [Next]_vars
    PROVE  StoreStep
<1>1. ASSUME NEW c \in Clients, Read(c) \/ Query(c)
      PROVE  StoreStep
  <2>1. UNCHANGED log
    BY <1>1 DEF Read, GetByID, GetByUid, GetByIds, GetByUids, List, Count, Query, GetByMappedID,
       ListFromCache, QueryByID, QueryByUid, QueryByIds, QueryByUids, QueryList, QueryCount, dbVars
  <2>2. UNCHANGED held \/ \E e : Hold(c, e)
    BY <1>1 DEF Read, GetByID, GetByUid, GetByIds, GetByUids, List, Count, Query, GetByMappedID,
       ListFromCache, QueryByID, QueryByUid, QueryByIds, QueryByUids, QueryList, QueryCount,
       GetByIDCached
  <2> QED BY <2>1, <2>2, LookIsStoreStep
<1>2. ASSUME NEW c \in Clients, AccessCache(c) \/ DatabaseError(c)
      PROVE  StoreStep
  <2>1. UNCHANGED log /\ UNCHANGED held
    BY <1>2 DEF AccessCache, FillCache, FillCacheMapped, SetMapping, SetList, InvalidateCache,
       InvalidateOldUid, FlushListCache, FlushItems, PublishFlushItem, DatabaseError, dbVars
  <2> QED BY <2>1, LookIsStoreStep
<1>3. ASSUME UNCHANGED log, UNCHANGED held
      PROVE  StoreStep
  BY <1>3, NoWrite, NothingSeen DEF StoreStep, Store!vars
<1>4. ASSUME NEW m \in msgs, Deliver(m) \/ LoseMessage(m)
      PROVE  StoreStep
  BY <1>3, <1>4 DEF Deliver, OnCacheInvalidated, OnBumpEpoch, OnCacheFlushItem, LoseMessage,
     dbVars, clientVars
<1>5. ASSUME NEW n \in Nodes, Expire(n) \/ Subscribe(n)
      PROVE  StoreStep
  BY <1>3, <1>5 DEF Expire, ExpireItem, ExpireMapping, ExpireLists, Subscribe, dbVars, clientVars
<1>6. CASE Replicate \/ UNCHANGED vars
  BY <1>3, <1>6 DEF Replicate, vars, dbVars, clientVars
<1> QED BY <1>1, <1>2, <1>4, <1>5, <1>6, WriteIsStoreStep, ExecuteIsStoreStep, RestartIsStoreStep
        DEF Next, Continue

\* The store keeps the uids of its rows apart, and so does the table.
LEMMA StoreKeepsUnique ==
    ASSUME TypeOK, TypeOK', UniqueIn(Primary), StoreStep
    PROVE  UniqueIn(Primary)'
<1>1. StoreTable = TableOf(Primary) /\ Primary \in [Ids -> Row]
  BY LogType DEF StoreTable, TypeOK
<1>2. StoreTable' = TableOf(Primary') /\ Primary' \in [Ids -> Row]
  <2>1. log' \in Seq([Ids -> Row]) /\ synced' \in 1..Len(log')
    BY DEF TypeOK, TableOK
  <2>2. Primary' \in [Ids -> Row]
    BY <2>1 DEF Primary
  <2> QED BY <2>2 DEF StoreTable, TableOf, IsLive
<1>3. Store!UniqueUids(StoreTable)
  BY <1>1, TableShown
<1>4. StoreTable' = StoreTable \/ Store!UniqueUids(StoreTable')
  BY DEF StoreStep, Store!Next, Store!vars, Store!Observe, Store!Replace, Store!Insert,
     Store!Remove, Store!SetAge, Store!InsertMany, Store!Forget, Store!Write
<1>5. Store!UniqueUids(StoreTable')
  BY <1>3, <1>4
<1>6. UniqueIn(Primary')
  BY <1>2, <1>5, TableShown
<1> QED BY <1>6 DEF UniqueIn, LiveIds, IsLive

\* The rows that are there when the nodes start are the store's.
LEMMA InitImplements ==
    ASSUME Init
    PROVE  UniqueIn(Primary) /\ Store!Init
<1>1. Len(log) = 1 /\ Primary = log[1] /\ Primary \in [Ids -> Row]
  BY InitType, LogType DEF Init, TypeOK, Primary
<1>2. \A id \in Ids : IF id <= Len(Seed) THEN Primary[id] = Inserted(Seed[id])
                                        ELSE Primary[id].state = "unborn"
  BY <1>1 DEF Init
<1>3. UniqueIn(Primary)
  <2>1. ASSUME NEW id \in LiveIds(Primary)
        PROVE  id \in 1..Len(Seed) /\ Primary[id].uid = Seed[id].uid
    <3>1. id \in Ids /\ Primary[id].state = "live"
      BY DEF LiveIds, IsLive
    <3>2. id <= Len(Seed) /\ Primary[id] = Inserted(Seed[id])
      BY <1>2, <3>1
    <3>3. id \in 1..Len(Seed)
      BY <3>1, <3>2, ConstantsAssumption DEF ConstantsAssumption, Ids
    <3> QED BY <3>2, <3>3 DEF Inserted
  <2> QED BY <2>1, ConstantsAssumption DEF UniqueIn, ConstantsAssumption
<1>4. StorePast = RowsOf(Primary)
  BY <1>1 DEF StorePast
<1>5. StoreSeen = [c \in Clients |-> None]
  BY DEF Init, StoreSeen, SeenIn
<1>6. Store!Data = NewRow
  BY DEF Store!Data, NewRow
<1> QED BY <1>1, <1>3, <1>4, <1>5, <1>6, TableShown DEF Store!Init, StoreTable

\* Whatever caches, replicas, messages and restarts do, what the clients see and
\* what their writes do to the table is a behaviour of OptimisticStore: reads that
\* return contents the row once had, uids that are unique, ids that are never used
\* again, and updates that are applied to the very contents that their caller saw.
THEOREM Implements == Spec => ImplementsStore
<1> DEFINE Shown == TypeOK /\ CommitInv /\ UniqueIn(Primary)
<1>1. Init => Shown /\ Store!Init
  BY InitType, InitSafe, InitImplements
<1>2. Shown /\ [Next]_vars => Shown' /\ [Store!Next]_(Store!vars)
  <2> SUFFICES ASSUME Shown, [Next]_vars
               PROVE  Shown' /\ [Store!Next]_(Store!vars)
    OBVIOUS
  <2>1. TypeOK' /\ CommitInv'
    BY NextType, NextSafe
  <2>2. StoreStep
    BY <2>1, StepImplements
  <2>3. UniqueIn(Primary)'
    BY <2>1, <2>2, StoreKeepsUnique
  <2> QED BY <2>1, <2>2, <2>3 DEF StoreStep
<1> HIDE DEF Shown
<1> QED BY <1>1, <1>2, PTL DEF Spec, ImplementsStore, Store!Spec
=============================================================================

------------------------- MODULE UserRepositoryRest -------------------------
(* RestInv is inductive when calls do not overlap: rows and mappings at rest.  *)
EXTENDS UserRepositoryLists

-----------------------------------------------------------------------------
(* RestInv: the lists of tasks.                                              *)

\* Two lists of tasks that cache what is in the table, after each other.
LEMMA ConcatFit ==
    ASSUME NEW t, NEW r \in Seq(Task), NEW s \in Seq(Task), TasksFit(t, r), TasksFit(t, s)
    PROVE  TasksFit(t, r \o s)
<1>1. SUFFICES ASSUME NEW i \in 1..Len(r \o s)
               PROVE  TaskFits(t, (r \o s)[i])
  BY DEF TasksFit
<1>2. CASE i \in 1..Len(r)
  <2>1. (r \o s)[i] = r[i]
    BY <1>2
  <2> QED BY <1>2, <2>1 DEF TasksFit
<1>3. CASE i \notin 1..Len(r)
  <2>1. i - Len(r) \in 1..Len(s) /\ (r \o s)[i] = s[i - Len(r)]
    BY <1>3
  <2> QED BY <2>1 DEF TasksFit
<1> QED BY <1>2, <1>3

\* The first of such tasks, and those that remain after it.
LEMMA TailFits ==
    ASSUME NEW t, NEW s \in Seq(Task), s # << >>, TasksFit(t, s)
    PROVE  TaskFits(t, Head(s)) /\ TasksFit(t, Tail(s))
<1>1. TaskFits(t, Head(s))
  BY DEF TasksFit
<1>2. ASSUME NEW i \in 1..Len(Tail(s))
      PROVE  TaskFits(t, Tail(s)[i])
  <2>1. i + 1 \in 1..Len(s) /\ Tail(s)[i] = s[i + 1]
    OBVIOUS
  <2> QED BY <2>1 DEF TasksFit
<1> QED BY <1>1, <1>2 DEF TasksFit

\* Tasks that cache no row and no mapping fit every table.
LEMMA PlainTasksFit ==
    ASSUME NEW t
    PROVE  /\ TasksFit(t, << >>)
           /\ \A r : TaskFits(t, r) => TasksFit(t, << r >>)
           /\ \A r, s : TaskFits(t, r) /\ TaskFits(t, s) => TasksFit(t, << r, s >>)
           /\ \A q, r, s : TaskFits(t, q) /\ TaskFits(t, r) /\ TaskFits(t, s)
                              => TasksFit(t, << q, r, s >>)
  BY DEF TasksFit

LEMMA TaskFitsLaws ==
    ASSUME NEW t
    PROVE  /\ TaskFits(t, FlushListTask)
           /\ TaskFits(t, [do |-> "flushItems"])
           /\ TaskFits(t, [do |-> "publishFlushItem"])
           /\ \A id : TaskFits(t, InvalidateTask(id))
           /\ \A u : TaskFits(t, [do |-> "invalidateUid", uid |-> u])
           /\ \A kind, e, p : TaskFits(t, SetListTask(kind, e, p))
           /\ \A u, id : IsLive(t, id) /\ t[id].uid = u
                            => TaskFits(t, [do |-> "setMapping", uid |-> u, id |-> id])
<1>1. ASSUME NEW u, NEW id, IsLive(t, id), t[id].uid = u
      PROVE  TaskFits(t, [do |-> "setMapping", uid |-> u, id |-> id])
  BY <1>1, NoFills DEF TaskFits
<1>2. \A kind, e, p : SetListTask(kind, e, p).do # "setMapping"
  BY DEF SetListTask
<1> QED BY <1>1, <1>2, NoFills DEF TaskFits, FlushListTask, InvalidateTask

\* What is read from the table is there, and can be cached.
LEMMA EntryIsCurrent ==
    ASSUME NEW t, NEW id, IsLive(t, id)
    PROVE  CurrentIn(t, Entry(t, id))
  BY DEF CurrentIn, Entry

LEMMA FillsFit ==
    ASSUME NEW t, NEW do \in {"setCached", "setCachedMapped"}, NEW es,
           \A e \in es : CurrentIn(t, e)
    PROVE  TasksFit(t, FillTasks(do, es)) /\ OnlyFills(FillTasks("setCached", es))
  BY DEF TasksFit, TaskFits, FillTasks, Fills, OnlyFills

\* Without lag every SELECT reads the write instance's table.
LEMMA ReadsPrimary ==
    ASSUME WritesInvalidate, NEW p \in ReadPositions
    PROVE  log[p] = Primary
  BY DEF WritesInvalidate, ReadPositions, Primary
-----------------------------------------------------------------------------
(* The steps between which one operation is alone.                           *)

\* Nothing but the operation of c is going on, and it has no tasks.
Alone(c) == /\ msgs = {}
            /\ \A d \in Clients : todo[d] = << >> /\ (d # c => pc[d] = "idle")

\* So it is when the operation executes a statement, and when it begins.
LEMMA AloneWhenRunning ==
    ASSUME RestInv, NEW c \in Clients, NEW label, label # "idle", At(c, label)
    PROVE  Alone(c)
  BY DEF RestInv, OneRuns, At, Alone

LEMMA AloneAtCall ==
    ASSUME OneCallAtATime, NEW c \in Clients, At(c, "idle"), ~At(c, "idle")'
    PROVE  Alone(c)
  BY DEF OneCallAtATime, Quiet, At, Alone

\* One operation runs after a step of one that was alone or has ended.
LEMMA StillOneRuns ==
    ASSUME RestInv, NEW c \in Clients, OthersStay(c), msgs' = msgs, Alone(c) \/ At(c, "idle")',
           pc'[c] # "idle" => OnlyFills(todo'[c])
    PROVE  OneRuns'
<1>1. CASE Alone(c)
  <2>1. \A d \in Clients : d # c => At(d, "idle")'
    BY <1>1 DEF Alone, OthersStay, At
  <2>2. msgs' = {} /\ \A d \in Clients : pc'[d] # "idle" => d = c
    BY <1>1, <2>1 DEF Alone, At
  <2> QED BY <2>1, <2>2 DEF OneRuns
<1>2. CASE At(c, "idle")'
  <2>1. \A d \in Clients : At(d, "idle") => At(d, "idle")'
    BY <1>2 DEF OthersStay, At
  <2>2. \A d \in Clients : pc'[d] # "idle" => pc[d] # "idle" /\ todo'[d] = todo[d]
    BY <1>2 DEF OthersStay, At
  <2> QED BY <2>1, <2>2 DEF RestInv, OneRuns
<1> QED BY <1>1, <1>2

\* A step of an operation that changes no table and no cache.
LEMMA LookKeepsRest ==
    ASSUME RestInv, NEW c \in Clients, OthersStay(c), Alone(c) \/ At(c, "idle")',
           UNCHANGED <<log, items, uidMap, msgs, up>>, todo[c] = << >>,
           Changing(c) => Changing(c)' \/ \A id \in Ids : Drops(todo'[c], id),
           Called(pc'[c]), TasksFit(Primary, todo'[c]), LocalsFit(Primary, pc'[c], arg'[c]),
           pc'[c] # "idle" => OnlyFills(todo'[c])
    PROVE  RestInv'
<1>1. OneRuns'
  BY StillOneRuns
<1>2. BulkIsCalled'
  BY DEF RestInv, BulkIsCalled, OthersStay
<1>3. Primary' = Primary
  BY DEF Primary
<1>4. RunningFits'
  BY <1>3 DEF RestInv, RunningFits, OthersStay
<1>5. \A id : ~Drops(<< >>, id) /\ ~Forgets(<< >>, id)
  BY DEF Drops, Forgets
<1>6. \A n \in Nodes, id \in Ids : DropDue(n, id) => DropDue(n, id)'
  <2>1. \A n, kind, key : Told(n, kind, key) => Told(n, kind, key)'
    BY DEF Told
  <2>2. \A d \in Clients, id \in Ids : (Changing(d) \/ Drops(todo[d], id))
                                          => (Changing(d)' \/ Drops(todo'[d], id))
    BY <1>5 DEF OthersStay, Changing
  <2> QED BY <2>1, <2>2 DEF DropDue
<1>7. \A n \in Nodes, u \in Uids : ForgetDue(n, u) => ForgetDue(n, u)'
  <2>1. \A n, kind, key : Told(n, kind, key) => Told(n, kind, key)'
    BY DEF Told
  <2>2. \A d \in Clients, u \in Uids : Forgets(todo[d], u) => Forgets(todo'[d], u)
    BY <1>5 DEF OthersStay
  <2> QED BY <2>1, <2>2 DEF ForgetDue
<1>8. ItemsFit' /\ MappingsFit'
  BY <1>3, <1>6, <1>7 DEF RestInv, ItemsFit, MappingsFit
<1> QED BY <1>1, <1>2, <1>4, <1>8 DEF RestInv

\* A step of an operation that changes the table: what it changes it will drop,
\* and the mappings of the uids that it replaces.
LEMMA CommitKeepsRest ==
    ASSUME TypeOK, RestInv, NEW c \in Clients, OthersStay(c), Alone(c),
           NEW t \in [Ids -> Row], Commit(t), UNCHANGED <<items, uidMap, msgs, up>>,
           Called(pc'[c]), TasksFit(t, todo'[c]), LocalsFit(t, pc'[c], arg'[c]),
           pc'[c] # "idle" => OnlyFills(todo'[c]),
           \A id \in Ids : Changing(c) \/ (IsLive(Primary, id) /\ t[id] # Primary[id])
                              => Changing(c)' \/ Drops(todo'[c], id),
           \A id \in Ids :
               /\ Primary[id].state # "unborn" => t[id].state # "unborn"
               /\ IsLive(t, id) => Primary[id].state \in {"unborn", "live"}
               /\ IsLive(t, id) /\ IsLive(Primary, id)
                     => t[id].uid = Primary[id].uid \/ Forgets(todo'[c], Primary[id].uid)
    PROVE  RestInv'
<1>1. OneRuns'
  BY StillOneRuns
<1>2. BulkIsCalled'
  BY DEF RestInv, BulkIsCalled, OthersStay
<1>3. Primary' = t
  BY Appended, LogType DEF Primary, TypeOK
<1>4. RunningFits'
  <2>1. \A d \in Clients : d # c => todo'[d] = << >> /\ pc'[d] = "idle"
    BY DEF Alone, OthersStay
  <2>2. TasksFit(t, << >>)
    BY PlainTasksFit
  <2>3. \A a : LocalsFit(t, "idle", a)
    BY DEF LocalsFit
  <2> QED BY <1>3, <2>1, <2>2, <2>3 DEF RunningFits
<1>5. \A id : ~Drops(<< >>, id) /\ ~Forgets(<< >>, id)
  BY DEF Drops, Forgets
<1>6. ItemsFit'
  <2>1. SUFFICES ASSUME NEW n \in Nodes, NEW id \in Ids, items[n][id] # None, ~DropDue(n, id)'
                 PROVE  IsLive(t, id) /\ items[n][id] = Entry(t, id)
    BY <1>3 DEF ItemsFit
  <2>2. ~Changing(c)' /\ ~Drops(todo'[c], id)
    BY <2>1 DEF DropDue
  <2>3. ~Changing(c) /\ ~(IsLive(Primary, id) /\ t[id] # Primary[id])
    BY <2>2
  <2>4. ~DropDue(n, id)
    BY <1>5, <2>3 DEF DropDue, Told, Alone, Changing
  <2>5. IsLive(Primary, id) /\ items[n][id] = Entry(Primary, id)
    BY <2>1, <2>4 DEF RestInv, ItemsFit
  <2> QED BY <2>3, <2>5 DEF IsLive, Entry
<1>7. MappingsFit'
  <2>1. SUFFICES ASSUME NEW n \in Nodes, NEW u \in Uids, uidMap[n][u] # None, ~ForgetDue(n, u)'
                 PROVE  Leads(t, uidMap[n][u], u)
    BY <1>3 DEF MappingsFit
  <2>2. ~Forgets(todo'[c], u)
    BY <2>1 DEF ForgetDue
  <2>3. ~ForgetDue(n, u)
    BY <1>5 DEF ForgetDue, Told, Alone
  <2>4. Leads(Primary, uidMap[n][u], u)
    BY <2>1, <2>3 DEF RestInv, MappingsFit
  <2>5. uidMap[n][u] \in Ids
    BY <2>1 DEF TypeOK, CachesOK
  <2> QED BY <2>2, <2>4, <2>5 DEF Leads, IsLive
<1> QED BY <1>1, <1>2, <1>4, <1>6, <1>7 DEF RestInv
-----------------------------------------------------------------------------
(* RestInv: the steps that look and read.                                    *)

\* A step that changes only what an operation knows and has left to do.
Look(c) ==
    /\ UNCHANGED <<log, items, uidMap, msgs, up>>
    /\ \/ UNCHANGED <<pc, arg>>
       \/ \E label, a : Called(label) /\ LocalsFit(Primary, label, a) /\ Goto(c, label, a)
    /\ \/ UNCHANGED todo
       \/ \E tasks : /\ TasksFit(Primary, tasks) /\ (pc'[c] = "idle" \/ OnlyFills(tasks))
                     /\ Then(c, tasks)

LEMMA LookIsSafe ==
    ASSUME TypeOK, RestInv, OneCallAtATime, NEW c \in Clients,
           NEW label \in Labels \ {"updateByIds", "updateByUids"}, At(c, label), Look(c)
    PROVE  RestInv'
<1>1. Alone(c) \/ At(c, "idle")'
  BY AloneAtCall, AloneWhenRunning
<1>2. OthersStay(c)
  BY OthersStayHolds DEF Look
<1>3. Called(pc'[c]) /\ LocalsFit(Primary, pc'[c], arg'[c])
  <2>1. CASE UNCHANGED <<pc, arg>>
    BY <2>1 DEF RestInv, BulkIsCalled, RunningFits
  <2>2. ASSUME NEW l, NEW a, Called(l), LocalsFit(Primary, l, a), Goto(c, l, a)
        PROVE  Called(pc'[c]) /\ LocalsFit(Primary, pc'[c], arg'[c])
    BY <2>2 DEF Goto, TypeOK, ControlOK
  <2> QED BY <2>1, <2>2 DEF Look
<1>4. todo[c] = << >> /\ ~Changing(c)
  BY DEF At, Changing
<1>5. TasksFit(Primary, todo'[c]) /\ (pc'[c] # "idle" => OnlyFills(todo'[c]))
  <2>1. CASE UNCHANGED todo
    BY <1>4, <2>1, PlainTasksFit DEF OnlyFills
  <2>2. ASSUME NEW tasks, TasksFit(Primary, tasks), pc'[c] = "idle" \/ OnlyFills(tasks),
               Then(c, tasks)
        PROVE  TasksFit(Primary, todo'[c]) /\ (pc'[c] # "idle" => OnlyFills(todo'[c]))
    BY <2>2 DEF Then, TypeOK, TodoOK
  <2> QED BY <2>1, <2>2 DEF Look
<1> QED BY <1>1, <1>2, <1>3, <1>4, <1>5, LookKeepsRest DEF Look

\* Where most operations go on with nothing that depends on the table.
PlainLabels == {"idle", "mapped", "getByID", "getByUid", "list", "listCached", "count", "updateGet"}

LEMMA PlainLabelsFit ==
    \A label \in PlainLabels : \A a : Called(label) /\ LocalsFit(Primary, label, a)
  BY DEF PlainLabels, Called, LocalsFit

\* An operation that returns, or goes to such a label, is one.
LEMMA PlainLook ==
    ASSUME NEW c \in Clients, NEW label \in PlainLabels, NEW a, Goto(c, label, a),
           UNCHANGED <<log, items, uidMap, msgs, up, todo>>
    PROVE  Look(c)
  BY PlainLabelsFit DEF Look

\* The client has its operation's name after a step that returns from it.
LEMMA ReturnsToIdle ==
    ASSUME TypeOK, NEW c \in Clients, Return(c)
    PROVE  pc'[c] = "idle"
  BY DEF Return, Goto, TypeOK, ControlOK

\* The look-up of GetByID.
LEMMA GetByIDCachedLooks ==
    ASSUME NEW c \in Clients, NEW id, GetByIDCached(c, id),
           UNCHANGED <<log, items, uidMap, msgs, up, todo>>
    PROVE  Look(c)
  BY PlainLook DEF GetByIDCached, Return, PlainLabels

\* Those of the bulk reads: nothing has been read yet.
LEMMA GetBulkLooks ==
    ASSUME NEW c \in Clients, NEW label \in {"getByIds", "getByUids"}, NEW missing,
           GetBulk(c, label, missing), UNCHANGED <<log, items, uidMap, msgs, up, todo>>
    PROVE  Look(c)
<1>1. Called(label) /\ LocalsFit(Primary, label, [keys |-> missing, got |-> {}])
  BY DEF Called, LocalsFit
<1> QED BY <1>1 DEF GetBulk, Look

LEMMA ReadLooks ==
    ASSUME NEW c \in Clients, Read(c)
    PROVE  Look(c)
<1>1. ASSUME NEW id \in Ids, GetByID(c, id)
      PROVE  Look(c)
  BY <1>1, GetByIDCachedLooks DEF GetByID, dbVars, cacheVars
<1>2. ASSUME NEW u \in Uids, GetByUid(c, u)
      PROVE  Look(c)
  BY <1>2, PlainLook DEF GetByUid, PlainLabels, dbVars, cacheVars
<1>3. ASSUME NEW ids \in SUBSET Ids, GetByIds(c, ids)
      PROVE  Look(c)
  BY <1>3, GetBulkLooks DEF GetByIds, dbVars, cacheVars
<1>4. ASSUME NEW uids \in SUBSET Uids, GetByUids(c, uids)
      PROVE  Look(c)
  BY <1>4, GetBulkLooks DEF GetByUids, dbVars, cacheVars
<1>5. CASE List(c)
  BY <1>5, PlainLook DEF List, PlainLabels, dbVars, cacheVars
<1>6. CASE Count(c)
  BY <1>6, PlainLook DEF Count, PlainLabels, dbVars, cacheVars
<1> QED BY <1>1, <1>2, <1>3, <1>4, <1>5, <1>6 DEF Read

\* A chunk of a bulk read adds rows that are in the table to those it has.
LEMMA QueryChunkLooks ==
    ASSUME TypeOK, RestInv, NEW c \in Clients, pc[c] \in {"getByIds", "getByUids"}, NEW chunk,
           NEW found, \A e \in found : CurrentIn(Primary, e),
           NEW do \in {"setCached", "setCachedMapped"}, QueryChunk(c, chunk, found, do),
           UNCHANGED <<log, items, uidMap, msgs, up>>
    PROVE  Look(c)
<1> DEFINE got == arg[c].got \cup found
<1>1. \A e \in got : CurrentIn(Primary, e)
  BY DEF RestInv, RunningFits, LocalsFit
<1>2. CASE /\ UNCHANGED todo
           /\ Goto(c, pc[c], [keys |-> arg[c].keys \ chunk, got |-> got])
  <2>1. /\ Called(pc[c])
        /\ LocalsFit(Primary, pc[c], [keys |-> arg[c].keys \ chunk, got |-> got])
    BY <1>1 DEF Called, LocalsFit
  <2> QED BY <1>2, <2>1 DEF Look
<1>3. CASE Return(c) /\ Then(c, FillTasks(do, got))
  <2>1. TasksFit(Primary, FillTasks(do, got))
    BY <1>1, FillsFit
  <2>2. Called("idle") /\ LocalsFit(Primary, "idle", None)
    BY PlainLabelsFit DEF PlainLabels
  <2> QED BY <1>3, <2>1, <2>2, ReturnsToIdle DEF Look, Return
<1> QED BY <1>2, <1>3 DEF QueryChunk

\* A SELECT that ends an operation caches what the table has.
LEMMA ReturnLooks ==
    ASSUME TypeOK, NEW c \in Clients, Return(c), UNCHANGED <<log, items, uidMap, msgs, up>>,
           UNCHANGED todo \/ \E tasks : TasksFit(Primary, tasks) /\ Then(c, tasks)
    PROVE  Look(c)
<1>1. Called("idle") /\ LocalsFit(Primary, "idle", None)
  BY PlainLabelsFit DEF PlainLabels
<1> QED BY <1>1, ReturnsToIdle DEF Look, Return

LEMMA QueryLooks ==
    ASSUME TypeOK, RestInv, WritesInvalidate, NEW c \in Clients, Query(c)
    PROVE  Look(c)
<1>0. UNCHANGED <<log, items, uidMap, msgs, up>>
  BY DEF Query, GetByMappedID, ListFromCache, QueryByID, QueryByUid, QueryByIds, QueryByUids,
     QueryList, QueryCount, dbVars, cacheVars
<1>1. CASE GetByMappedID(c)
  BY <1>0, <1>1, GetByIDCachedLooks DEF GetByMappedID
<1>2. CASE ListFromCache(c)
  BY <1>0, <1>2, PlainLook DEF ListFromCache, Return, PlainLabels
<1>3. CASE QueryByID(c)
  <2>1. UNCHANGED todo \/ /\ IsLive(Primary, arg[c].id)
                          /\ Then(c, FillTasks("setCached", {Entry(Primary, arg[c].id)}))
    BY <1>3, ReadsPrimary DEF QueryByID
  <2>2. UNCHANGED todo \/ \E tasks : TasksFit(Primary, tasks) /\ Then(c, tasks)
    BY <2>1, EntryIsCurrent, FillsFit
  <2> QED BY <1>0, <1>3, <2>2, ReturnLooks DEF QueryByID
<1>4. CASE QueryByUid(c)
  <2>1. \/ UNCHANGED todo
        \/ \E id \in IdsOfUid(Primary, arg[c].uid) :
             Then(c, << [do |-> "setMapping", uid |-> arg[c].uid, id |-> id] >>)
    BY <1>4, ReadsPrimary DEF QueryByUid
  <2>2. \A id \in IdsOfUid(Primary, arg[c].uid) :
          TasksFit(Primary, << [do |-> "setMapping", uid |-> arg[c].uid, id |-> id] >>)
    BY TaskFitsLaws, PlainTasksFit DEF IdsOfUid, LiveIds
  <2> QED BY <1>0, <1>4, <2>1, <2>2, ReturnLooks DEF QueryByUid
<1>5. CASE QueryByIds(c)
  <2>1. PICK chunk : QueryChunk(c, chunk, {Entry(Primary, id) : id \in chunk \cap LiveIds(Primary)},
                                "setCached")
    BY <1>5, ReadsPrimary DEF QueryByIds
  <2>2. \A e \in {Entry(Primary, id) : id \in chunk \cap LiveIds(Primary)} : CurrentIn(Primary, e)
    BY EntryIsCurrent DEF LiveIds
  <2> QED BY <1>0, <1>5, <2>1, <2>2, QueryChunkLooks DEF QueryByIds, At
<1>6. CASE QueryByUids(c)
  <2> DEFINE found(chunk) == {Entry(Primary, id) :
                                id \in {i \in LiveIds(Primary) : Primary[i].uid \in chunk}}
  <2>1. PICK chunk : QueryChunk(c, chunk, found(chunk), "setCachedMapped")
    BY <1>6, ReadsPrimary DEF QueryByUids
  <2>2. \A e \in found(chunk) : CurrentIn(Primary, e)
    BY EntryIsCurrent DEF LiveIds
  <2> QED BY <1>0, <1>6, <2>1, <2>2, QueryChunkLooks DEF QueryByUids, At
<1>7. CASE QueryList(c)
  <2> DEFINE es == {Entry(Primary, id) : id \in Selected(Primary)}
             set(p) == << SetListTask("List", arg[c].epoch, p) >>
  <2>1. PICK p \in ReadPositions : Then(c, FillTasks("setCached", es) \o set(p))
    BY <1>7, ReadsPrimary DEF QueryList
  <2>2. \A e \in es : CurrentIn(Primary, e)
    BY EntryIsCurrent DEF Selected, LiveIds
  <2>3. es \in SUBSET Entity
    BY LogType, EntryType DEF TypeOK, Selected, LiveIds
  <2>4. FillTasks("setCached", es) \in Seq(Task) /\ TasksFit(Primary, FillTasks("setCached", es))
    BY <2>2, <2>3, FillsFit, FillTasksType
  <2>5. set(p) \in Seq(Task) /\ TasksFit(Primary, set(p))
    <3>1. arg[c].epoch \in Nat
      BY <1>7, LocalType DEF QueryList, At, ArgFits
    <3> QED BY <3>1, SetListTaskType, SingletonType, TaskFitsLaws, PlainTasksFit
  <2> HIDE DEF es, set
  <2>6. TasksFit(Primary, FillTasks("setCached", es) \o set(p))
    BY <2>4, <2>5, ConcatFit
  <2> QED BY <1>0, <1>7, <2>1, <2>6, ReturnLooks DEF QueryList
<1>8. CASE QueryCount(c)
  <2>1. \A p : TasksFit(Primary, << SetListTask("Count", arg[c].epoch, p) >>)
    BY TaskFitsLaws, PlainTasksFit
  <2> QED BY <1>0, <1>8, <2>1, ReturnLooks DEF QueryCount
<1> QED BY <1>1, <1>2, <1>3, <1>4, <1>5, <1>6, <1>7, <1>8 DEF Query
-----------------------------------------------------------------------------
(* RestInv: the steps that write.                                            *)

\* The tasks that drop a row or a mapping, among others.
LEMMA DropsConcat ==
    ASSUME NEW r \in Seq(Task), NEW s \in Seq(Task), NEW k
    PROVE  /\ Drops(r, k) \/ Drops(s, k) => Drops(r \o s, k)
           /\ Forgets(r, k) \/ Forgets(s, k) => Forgets(r \o s, k)
<1>1. /\ \A i \in 1..Len(r) : i \in 1..Len(r \o s) /\ (r \o s)[i] = r[i]
      /\ \A i \in 1..Len(s) : i + Len(r) \in 1..Len(r \o s) /\ (r \o s)[i + Len(r)] = s[i]
  OBVIOUS
<1> QED BY <1>1 DEF Drops, Forgets

LEMMA DropsTail ==
    ASSUME NEW s \in Seq(Task), s # << >>, NEW k, Head(s).do # "publishFlushItem"
    PROVE  /\ Drops(s, k) => \/ Drops(Tail(s), k)
                             \/ Head(s).do = "invalidateCache" /\ Head(s).id = k
           /\ Forgets(s, k) => \/ Forgets(Tail(s), k)
                               \/ Head(s).do = "invalidateUid" /\ Head(s).uid = k
<1>1. \A i \in 1..Len(s) : i = 1 \/ (i - 1 \in 1..Len(Tail(s)) /\ Tail(s)[i - 1] = s[i])
  OBVIOUS
<1>2. s[1] = Head(s)
  OBVIOUS
<1> QED BY <1>1, <1>2 DEF Drops, Forgets

\* The tasks of the writes fit every table and drop what they should.
LEMMA WriteTasksFit ==
    ASSUME NEW t
    PROVE  /\ TasksFit(t, FlushAllTasks)
           /\ \A id : TasksFit(t, DeleteTasks(id))
           /\ \A k : Drops(FlushAllTasks, k) /\ Forgets(FlushAllTasks, k)
           /\ \A id : Drops(DeleteTasks(id), id)
           /\ FlushAllTasks # << >> /\ \A id : DeleteTasks(id) # << >>
<1>1. TasksFit(t, FlushAllTasks) /\ \A id : TasksFit(t, DeleteTasks(id))
  BY TaskFitsLaws, PlainTasksFit DEF FlushAllTasks, DeleteTasks
<1>2. ASSUME NEW k
      PROVE  Drops(FlushAllTasks, k) /\ Forgets(FlushAllTasks, k)
  <2>1. 3 \in 1..Len(FlushAllTasks) /\ FlushAllTasks[3].do = "publishFlushItem"
    BY DEF FlushAllTasks
  <2> QED BY <2>1 DEF Drops, Forgets
<1>3. ASSUME NEW id
      PROVE  Drops(DeleteTasks(id), id)
  <2>1. 1 \in 1..Len(DeleteTasks(id)) /\ DeleteTasks(id)[1] = InvalidateTask(id)
    BY DEF DeleteTasks
  <2>2. InvalidateTask(id).do = "invalidateCache" /\ InvalidateTask(id).id = id
    BY DEF InvalidateTask
  <2> QED BY <2>1, <2>2 DEF Drops
<1>4. FlushAllTasks # << >> /\ \A id : DeleteTasks(id) # << >>
  BY DEF FlushAllTasks, DeleteTasks
<1> QED BY <1>1, <1>2, <1>3, <1>4

LEMMA UpdateTasksFit ==
    ASSUME NEW t, NEW u \in Uids, NEW e \in Entity, CurrentIn(t, NextVersion(e))
    PROVE  /\ TasksFit(t, UpdateTasks(u, e))
           /\ Drops(UpdateTasks(u, e), e.id)
           /\ u # e.uid => Forgets(UpdateTasks(u, e), u)
<1> DEFINE s1 == IF u # e.uid THEN << [do |-> "invalidateUid", uid |-> u] >> ELSE << >>
           s2 == << InvalidateTask(e.id), FlushListTask >>
           s3 == FillTasks("setCached", {NextVersion(e)})
<1>1. s1 \in Seq(Task) /\ TasksFit(t, s1)
  BY TaskType, SingletonType, TaskFitsLaws, PlainTasksFit
<1>2. u # e.uid => Forgets(s1, u)
  BY DEF Forgets
<1>3. s2 \in Seq(Task) /\ TasksFit(t, s2)
  BY TaskType, SingletonType, TaskFitsLaws, PlainTasksFit DEF Entity
<1>4. Drops(s2, e.id)
  <2>1. 1 \in 1..Len(s2) /\ s2[1] = InvalidateTask(e.id)
    OBVIOUS
  <2>2. InvalidateTask(e.id).do = "invalidateCache" /\ InvalidateTask(e.id).id = e.id
    BY DEF InvalidateTask
  <2> QED BY <2>1, <2>2 DEF Drops
<1>5. s3 \in Seq(Task) /\ TasksFit(t, s3)
  BY UpdateTasksType, FillTasksType, FillsFit
<1> HIDE DEF s1, s2, s3
<1>6. /\ s1 \o s2 \in Seq(Task) /\ TasksFit(t, s1 \o s2) /\ Drops(s1 \o s2, e.id)
      /\ u # e.uid => Forgets(s1 \o s2, u)
  BY <1>1, <1>2, <1>3, <1>4, ConcatType, ConcatFit, DropsConcat
<1>7. /\ TasksFit(t, (s1 \o s2) \o s3) /\ Drops((s1 \o s2) \o s3, e.id)
      /\ u # e.uid => Forgets((s1 \o s2) \o s3, u)
  BY <1>5, <1>6, ConcatFit, DropsConcat
<1> QED BY <1>7 DEF UpdateTasks, s1, s2, s3

\* A statement that is a whole operation, whose tasks then drop what it changed.
LEMMA OneStatement ==
    ASSUME TypeOK, RestInv, OneCallAtATime, NEW c \in Clients, At(c, "idle"),
           NEW t \in [Ids -> Row], Commit(t), UNCHANGED <<items, uidMap, msgs, up, pc, arg>>,
           NEW tasks, Then(c, tasks), tasks # << >>, TasksFit(t, tasks),
           \A id \in Ids : \/ t[id] = Primary[id]
                           \/ Primary[id].state = "unborn" /\ t[id].state # "unborn"
                           \/ t[id].state \in {"deleted", "purged"} /\ Drops(tasks, id)
    PROVE  RestInv'
<1>1. todo'[c] = tasks /\ pc'[c] = "idle"
  BY DEF Then, At, TypeOK, TodoOK
<1>2. Alone(c)
  BY <1>1, AloneAtCall DEF At
<1>3. OthersStay(c)
  BY OthersStayHolds
<1>4. Called(pc'[c]) /\ LocalsFit(t, pc'[c], arg'[c]) /\ ~Changing(c)
  BY <1>1 DEF Called, LocalsFit, Changing, At
<1>5. \A id \in Ids : IsLive(Primary, id) /\ t[id] # Primary[id] => Drops(todo'[c], id)
  BY <1>1 DEF IsLive
<1>6. \A id \in Ids :
        /\ Primary[id].state # "unborn" => t[id].state # "unborn"
        /\ IsLive(t, id) => Primary[id].state \in {"unborn", "live"}
        /\ IsLive(t, id) /\ IsLive(Primary, id) => t[id].uid = Primary[id].uid
  BY DEF IsLive
<1> QED BY <1>1, <1>2, <1>3, <1>4, <1>5, <1>6, CommitKeepsRest

LEMMA CreateKeepsRest ==
    ASSUME TypeOK, RestInv, WritesInvalidate, OneCallAtATime, NEW c \in Clients,
           NEW row \in NewRow, Create(c, row)
    PROVE  RestInv'
<1>1. PICK id \in Ids :
        LET t == [Primary EXCEPT ![id] = Inserted(row)]
            e == Entry(t, id)
        IN  /\ IsNextId(Primary, id)
            /\ Commit(t)
            /\ AnsweredWith(c, e, FillTasks("setCached", {e}) \o << FlushListTask >>)
  BY DEF Create
<1> DEFINE t == [Primary EXCEPT ![id] = Inserted(row)]
           e == Entry(t, id)
           tasks == FillTasks("setCached", {e}) \o << FlushListTask >>
<1>2. Primary \in [Ids -> Row] /\ t \in [Ids -> Row]
  BY LogType, RowType DEF TypeOK
<1>3. e \in Entity
  BY <1>2, EntryType
<1>4. /\ Primary[id].state = "unborn" /\ t[id].state = "live"
      /\ \A i \in Ids : i # id => t[i] = Primary[i]
  <2>1. id >= id
    BY DEF Ids
  <2> QED BY <1>1, <1>2, <2>1 DEF IsNextId, Inserted
<1>5. TasksFit(t, tasks) /\ tasks # << >>
  <2>1. CurrentIn(t, e)
    BY <1>4, EntryIsCurrent DEF IsLive
  <2> HIDE DEF e, t
  <2>2. FillTasks("setCached", {e}) \in Seq(Task) /\ TasksFit(t, FillTasks("setCached", {e}))
    BY <1>3, <2>1, FillTasksType, FillsFit
  <2>3. << FlushListTask >> \in Seq(Task) /\ TasksFit(t, << FlushListTask >>)
    BY TaskType, SingletonType, TaskFitsLaws, PlainTasksFit
  <2>4. TasksFit(t, tasks)
    BY <2>2, <2>3, ConcatFit
  <2>5. Len(tasks) # 0
    BY <2>2, <2>3
  <2>6. Len(<< >>) = 0
    OBVIOUS
  <2> HIDE DEF tasks
  <2> QED BY <2>4, <2>5, <2>6
<1>6. Then(c, tasks) /\ Commit(t)
  BY <1>1 DEF AnsweredWith, WritesInvalidate
<1>7. At(c, "idle") /\ UNCHANGED <<items, uidMap, msgs, up, pc, arg>>
  BY DEF Create, Call, cacheVars
<1> HIDE DEF t, tasks
<1> QED BY <1>2, <1>4, <1>5, <1>6, <1>7, OneStatement

LEMMA DeleteRowsKeepsRest ==
    ASSUME TypeOK, RestInv, WritesInvalidate, OneCallAtATime, NEW c \in Clients, At(c, "idle"),
           NEW ids \in SUBSET Ids, NEW rows \in [ids -> Row],
           \A id \in ids : rows[id].state \in {"deleted", "purged"},
           NEW tasks, tasks # << >>, \A t : TasksFit(t, tasks), \A id \in ids : Drops(tasks, id),
           DeleteRows(c, rows, tasks)
    PROVE  RestInv'
<1> DEFINE t == [id \in Ids |-> IF id \in DOMAIN rows THEN rows[id] ELSE Primary[id]]
<1>1. t \in [Ids -> Row]
  BY LogType DEF TypeOK
<1>2. \A id \in Ids : \/ t[id] = Primary[id]
                      \/ t[id].state \in {"deleted", "purged"} /\ Drops(tasks, id)
  OBVIOUS
<1>3. Commit(t) /\ Then(c, tasks) /\ UNCHANGED <<items, uidMap, msgs, up, pc, arg>>
  BY DEF DeleteRows, Answered, WritesInvalidate, cacheVars
<1>4. TasksFit(t, tasks)
  OBVIOUS
<1> HIDE DEF t
<1> QED BY <1>1, <1>2, <1>3, <1>4, OneStatement

\* An update begins with the uid that the row has: the cached row is the table's.
LEMMA UpdateKeepsRest ==
    ASSUME TypeOK, RestInv, OneCallAtATime, NEW c \in Clients, NEW u, NEW a, Update(c, u, a)
    PROVE  RestInv'
<1> DEFINE e      == [id |-> held[c].id, ver |-> held[c].ver, uid |-> u, age |-> a]
           cached == items[NodeOf[c]][e.id]
<1>1. At(c, "idle") /\ "idle" \in Labels \ {"updateByIds", "updateByUids"}
  BY DEF Update, Call, Labels
<1>2. UNCHANGED <<log, items, uidMap, msgs, up, todo>>
  BY DEF Update, dbVars, cacheVars
<1>3. CASE Goto(c, "updateGet", [new |-> e, oldUid |-> e.uid])
  BY <1>1, <1>2, <1>3, PlainLook, LookIsSafe DEF PlainLabels
<1>4. CASE cached # None /\ Goto(c, "update", [new |-> e, oldUid |-> cached.uid])
  <2>1. pc'[c] = "update"
    BY <1>4 DEF Goto, TypeOK, ControlOK
  <2>2. Alone(c)
    BY <1>1, <2>1, AloneAtCall DEF At
  <2>3. NodeOf[c] \in Nodes /\ e.id \in Ids
    BY LocalType DEF Update, Entity
  <2>4. ~DropDue(NodeOf[c], e.id)
    <3>1. ~Drops(<< >>, e.id)
      BY DEF Drops
    <3>2. \A d \in Clients : ~Changing(d)
      BY <1>1, <2>2 DEF Changing, Alone, At
    <3> QED BY <2>2, <3>1, <3>2 DEF DropDue, Told, Alone
  <2>5. IsLive(Primary, e.id) /\ cached.uid = Primary[e.id].uid
    <3> HIDE DEF e
    <3>1. IsLive(Primary, e.id) /\ cached = Entry(Primary, e.id)
      BY <1>4, <2>3, <2>4 DEF RestInv, ItemsFit
    <3> QED BY <3>1 DEF Entry
  <2>6. Called("update") /\ LocalsFit(Primary, "update", [new |-> e, oldUid |-> cached.uid])
    BY <2>5 DEF Called, LocalsFit
  <2>7. Look(c)
    BY <1>2, <1>4, <2>6 DEF Look
  <2> QED BY <1>1, <2>7, LookIsSafe
<1> QED BY <1>3, <1>4 DEF Update

LEMMA WriteKeepsRest ==
    ASSUME TypeOK, RestInv, WritesInvalidate, OneCallAtATime, NEW c \in Clients, Write(c)
    PROVE  RestInv'
<1>0. "idle" \in Labels \ {"updateByIds", "updateByUids"} /\ Primary \in [Ids -> Row]
  BY LogType DEF Labels, TypeOK
<1>1. ASSUME NEW row \in NewRow, Create(c, row)
      PROVE  RestInv'
  BY <1>1, CreateKeepsRest
<1>2. ASSUME NEW batch \in Batches, CreateBulk(c, batch)
      PROVE  RestInv'
  <2>1. Called("createBulk") /\ LocalsFit(Primary, "createBulk", [batch |-> batch])
    BY <1>2 DEF CreateBulk, Call, Called, LocalsFit
  <2>2. Look(c) /\ At(c, "idle")
    BY <1>2, <2>1 DEF CreateBulk, Call, Look, dbVars, cacheVars
  <2> QED BY <1>0, <2>2, LookIsSafe
<1>3. ASSUME NEW u \in Uids, NEW a \in Ages, Update(c, u, a)
      PROVE  RestInv'
  BY <1>3, UpdateKeepsRest
<1>4. ASSUME NEW label \in {"updateByIds", "updateByUids"}, NEW keys, NEW a,
             UpdateBulk(c, label, keys, a)
      PROVE  RestInv'
  <2>1. /\ Called(label)
        /\ LocalsFit(Primary, label, [keys |-> keys, age |-> a, changed |-> FALSE])
    BY <1>4 DEF UpdateBulk, Call, Called, LocalsFit
  <2>2. Look(c) /\ At(c, "idle")
    BY <1>4, <2>1 DEF UpdateBulk, Call, Look, dbVars, cacheVars
  <2> QED BY <1>0, <2>2, LookIsSafe
<1>5. \A r \in Row : SoftDeleted(r) \in Row /\ Purged(r) \in Row
  BY RowType
<1>6. \A r : SoftDeleted(r).state = "deleted" /\ Purged(r).state = "purged"
  BY DEF SoftDeleted, Purged
<1>7. ASSUME NEW id \in Ids, Delete(c, id) \/ HardDelete(c, id)
      PROVE  RestInv'
  <2>1. PICK rows \in [{id} -> Row] : /\ rows[id].state \in {"deleted", "purged"}
                                      /\ DeleteRows(c, rows, DeleteTasks(id))
    <3>1. /\ [i \in {id} |-> SoftDeleted(Primary[i])] \in [{id} -> Row]
          /\ [i \in {id} |-> Purged(Primary[i])] \in [{id} -> Row]
      BY <1>0, <1>5
    <3> QED BY <1>0, <1>6, <1>7, <3>1 DEF Delete, HardDelete
  <2>2. At(c, "idle")
    BY <1>7 DEF Delete, HardDelete, Call
  <2>3. /\ \A t : TasksFit(t, DeleteTasks(id))
        /\ \A i \in {id} : Drops(DeleteTasks(id), i)
        /\ DeleteTasks(id) # << >>
    BY WriteTasksFit
  <2> QED BY <2>1, <2>2, <2>3, DeleteRowsKeepsRest
<1>8. ASSUME NEW ids \in SUBSET Ids, DeleteOlder(c, ids) \/ HardDeleteOlder(c, ids)
      PROVE  RestInv'
  <2>1. PICK rows \in [ids -> Row] : /\ \A id \in ids : rows[id].state \in {"deleted", "purged"}
                                     /\ DeleteRows(c, rows, FlushAllTasks)
    <3>1. /\ [i \in ids |-> SoftDeleted(Primary[i])] \in [ids -> Row]
          /\ [i \in ids |-> Purged(Primary[i])] \in [ids -> Row]
      BY <1>0, <1>5
    <3> QED BY <1>0, <1>6, <1>8, <3>1 DEF DeleteOlder, HardDeleteOlder
  <2>2. At(c, "idle")
    BY <1>8 DEF DeleteOlder, HardDeleteOlder, Call
  <2> QED BY <2>1, <2>2, WriteTasksFit, DeleteRowsKeepsRest
<1> QED BY <1>1, <1>2, <1>3, <1>4, <1>7, <1>8 DEF Write, UpdateAgeByIds, UpdateAgeByUids

\* One chunk of createBulk: its ids had no rows, its rows are cached as they are.
LEMMA InsertChunkKeepsRest ==
    ASSUME TypeOK, RestInv, WritesInvalidate, NEW c \in Clients, InsertChunk(c)
    PROVE  RestInv'
<1> DEFINE batch == arg[c].batch
           k     == ChunkLen(c)
           rest  == [batch |-> SubSeq(batch, k + 1, Len(batch))]
           new(first) == first..(first + k - 1)
           t(first) == [id \in Ids |-> IF id \in new(first) THEN Inserted(batch[id - first + 1])
                                                           ELSE Primary[id]]
           es(first) == {Entry(t(first), id) : id \in new(first)}
           fill(first) == FillTasks("setCached", es(first))
<1>1. batch \in Seq(NewRow)
  BY LocalType DEF InsertChunk, At, ArgFits
<1>2. k \in Nat /\ k <= Len(batch)
  BY <1>1, ConstantsAssumption DEF ChunkLen, ConstantsAssumption
<1>3. PICK first \in Ids :
        /\ first + k - 1 <= MaxId
        /\ IsNextId(Primary, first)
        /\ Commit(t(first))
        /\ \/ Return(c) /\ Then(c, fill(first) \o << FlushListTask >>)
           \/ Goto(c, "createBulk", rest) /\ Then(c, fill(first))
  BY DEF InsertChunk, WritesInvalidate
<1>4. first \in Nat /\ (\A id \in Ids : id \in Nat) /\ new(first) \subseteq Ids
  BY <1>2, <1>3, ConstantsAssumption DEF ConstantsAssumption, Ids
<1>5. \A id \in new(first) : batch[id - first + 1] \in NewRow
  <2>1. ASSUME NEW id \in new(first)
        PROVE  id - first + 1 \in 1..Len(batch)
    BY <1>2, <1>4
  <2> QED BY <1>1, <2>1
<1>6. t(first) \in [Ids -> Row]
  BY <1>5, LogType, RowType DEF TypeOK
<1>7. /\ \A id \in new(first) : Primary[id].state = "unborn" /\ t(first)[id].state = "live"
      /\ \A id \in Ids \ new(first) : t(first)[id] = Primary[id]
  <2>1. \A id \in new(first) : id >= first
    BY <1>2, <1>4
  <2> QED BY <1>3, <1>4, <2>1 DEF IsNextId, Inserted
<1>8. es(first) \in SUBSET Entity /\ \A e \in es(first) : CurrentIn(t(first), e)
  <2>1. es(first) \in SUBSET Entity
    BY <1>4, <1>6, EntryType
  <2>2. \A id \in new(first) : CurrentIn(t(first), Entry(t(first), id))
    BY <1>7, EntryIsCurrent DEF IsLive
  <2> QED BY <2>1, <2>2
<1> HIDE DEF es, t
<1>9. /\ fill(first) \in Seq(Task) /\ TasksFit(t(first), fill(first)) /\ OnlyFills(fill(first))
      /\ TasksFit(t(first), fill(first) \o << FlushListTask >>)
  <2>1. fill(first) \in Seq(Task) /\ TasksFit(t(first), fill(first)) /\ OnlyFills(fill(first))
    BY <1>8, FillsFit, FillTasksType
  <2>2. << FlushListTask >> \in Seq(Task) /\ TasksFit(t(first), << FlushListTask >>)
    BY TaskType, SingletonType, TaskFitsLaws, PlainTasksFit
  <2> QED BY <2>1, <2>2, ConcatFit
<1> HIDE DEF fill
<1>10. At(c, "createBulk") /\ Alone(c) /\ ~Changing(c)
  BY AloneWhenRunning DEF InsertChunk, At, Changing
<1>11. \E label, a : Goto(c, label, a)
  BY <1>3 DEF Return
<1>12. OthersStay(c) /\ UNCHANGED <<items, uidMap, msgs, up>>
  BY <1>3, <1>11, OthersStayHolds DEF InsertChunk, cacheVars
<1>13. \/ pc'[c] = "idle" /\ todo'[c] = fill(first) \o << FlushListTask >>
       \/ pc'[c] = "createBulk" /\ todo'[c] = fill(first)
  BY <1>3, ReturnsToIdle DEF Goto, Then, TypeOK, ControlOK, TodoOK
<1>14. /\ Called(pc'[c]) /\ LocalsFit(t(first), pc'[c], arg'[c])
       /\ TasksFit(t(first), todo'[c]) /\ (pc'[c] # "idle" => OnlyFills(todo'[c]))
  <2>1. Called("idle") /\ Called("createBulk")
    BY <1>10 DEF Called, RestInv, BulkIsCalled, At
  <2> QED BY <1>9, <1>13, <2>1 DEF LocalsFit
<1>15. \A id \in Ids : /\ IsLive(Primary, id) => t(first)[id] = Primary[id]
                       /\ Primary[id].state # "unborn" => t(first)[id].state # "unborn"
                       /\ IsLive(t(first), id) => Primary[id].state \in {"unborn", "live"}
  BY <1>7 DEF IsLive
<1> QED BY <1>3, <1>6, <1>10, <1>12, <1>14, <1>15, CommitKeepsRest

\* The UPDATE of one row: the row is dropped, and the mapping of the uid it had.
LEMMA ExecUpdateKeepsRest ==
    ASSUME TypeOK, RestInv, WritesInvalidate, NEW c \in Clients, ExecUpdate(c)
    PROVE  RestInv'
<1> DEFINE e   == arg[c].new
           old == arg[c].oldUid
           t   == [Primary EXCEPT ![e.id] = Touched(@, e.uid, e.age)]
<1>1. At(c, "update") /\ e \in Entity /\ old \in Uids /\ e.id \in Ids
  BY LocalType DEF ExecUpdate, At, ArgFits, Entity
<1>2. /\ VersionMatches(e) /\ Commit(t) /\ Return(c)
      /\ Then(c, UpdateTasks(old, e)) /\ UNCHANGED <<items, uidMap, msgs, up>>
  BY DEF ExecUpdate, AnsweredWith, WritesInvalidate, cacheVars
<1>3. IsLive(Primary, e.id) /\ Primary[e.id].ver = e.ver /\ old = Primary[e.id].uid
  BY <1>1, <1>2 DEF VersionMatches, RestInv, RunningFits, LocalsFit, At
<1>4. Primary \in [Ids -> Row] /\ t \in [Ids -> Row]
  <2>1. e.uid \in Uids /\ e.age \in Ages
    BY <1>1 DEF Entity
  <2> QED BY <1>1, <2>1, LogType, RowType DEF TypeOK
<1>5. /\ t[e.id] = Touched(Primary[e.id], e.uid, e.age)
      /\ \A id \in Ids : id # e.id => t[id] = Primary[id]
  BY <1>1, <1>4
<1>6. CurrentIn(t, NextVersion(e))
  BY <1>3, <1>5 DEF CurrentIn, IsLive, Entry, NextVersion, Touched
<1>7. pc'[c] = "idle" /\ todo'[c] = UpdateTasks(old, e)
  BY <1>2, ReturnsToIdle DEF Then, TypeOK, TodoOK
<1> HIDE DEF t
<1>8. TasksFit(t, todo'[c]) /\ Drops(todo'[c], e.id) /\ (old # e.uid => Forgets(todo'[c], old))
  BY <1>1, <1>6, <1>7, UpdateTasksFit
<1>9. OthersStay(c) /\ Alone(c) /\ ~Changing(c)
  BY <1>1, <1>2, OthersStayHolds, AloneWhenRunning DEF Return, At, Changing
<1>10. Called(pc'[c]) /\ LocalsFit(t, pc'[c], arg'[c])
  BY <1>7 DEF Called, LocalsFit
<1>11. t[e.id].state = "live" /\ t[e.id].uid = e.uid
  BY <1>5 DEF Touched
<1>12. \A id \in Ids :
         /\ t[id] # Primary[id] => Drops(todo'[c], id)
         /\ Primary[id].state # "unborn" => t[id].state # "unborn"
         /\ IsLive(t, id) => Primary[id].state \in {"unborn", "live"}
         /\ IsLive(t, id) /\ IsLive(Primary, id)
              => t[id].uid = Primary[id].uid \/ Forgets(todo'[c], Primary[id].uid)
  BY <1>3, <1>5, <1>8, <1>11 DEF IsLive
<1> QED BY <1>2, <1>4, <1>7, <1>8, <1>9, <1>10, <1>12, CommitKeepsRest

\* A chunk of a bulk update: no uid changes, all rows will be dropped.
LEMMA UpdateChunkKeepsRest ==
    ASSUME TypeOK, RestInv, WritesInvalidate, NEW c \in Clients,
           NEW label \in {"updateByIds", "updateByUids"}, At(c, label),
           NEW chunk, NEW hit \in SUBSET LiveIds(Primary), UpdateChunk(c, chunk, hit)
    PROVE  RestInv'
<1> DEFINE changed == arg[c].changed \/ hit # {}
           rest == [keys |-> arg[c].keys \ chunk, age |-> arg[c].age, changed |-> changed]
           t == [id \in Ids |-> IF id \in hit
                                THEN Touched(Primary[id], Primary[id].uid, arg[c].age)
                                ELSE Primary[id]]
<1>1. Alone(c) /\ pc[c] = label /\ todo[c] = << >> /\ arg[c].changed \in BOOLEAN
      /\ arg[c].age \in Ages
  BY AloneWhenRunning, LocalType DEF At, ArgFits
<1>2. UNCHANGED <<items, uidMap, msgs, up>>
  BY DEF UpdateChunk, cacheVars
<1>3. \/ Goto(c, label, rest) /\ UNCHANGED todo
      \/ Return(c) /\ Then(c, IF changed THEN FlushAllTasks ELSE << >>)
  BY <1>1 DEF UpdateChunk, WritesInvalidate
<1>4. OthersStay(c)
  BY <1>3, OthersStayHolds DEF Return
<1>5. \/ pc'[c] = label /\ arg'[c].changed = changed /\ todo'[c] = << >>
      \/ pc'[c] = "idle" /\ todo'[c] = IF changed THEN FlushAllTasks ELSE << >>
  BY <1>1, <1>3, ReturnsToIdle DEF Goto, Then, TypeOK, ControlOK, TodoOK
<1>6. Called(pc'[c]) /\ \A s : LocalsFit(s, pc'[c], arg'[c])
  BY <1>1, <1>5 DEF Called, LocalsFit, RestInv, BulkIsCalled
<1>7. (\A s : TasksFit(s, todo'[c])) /\ (pc'[c] # "idle" => OnlyFills(todo'[c]))
  BY <1>5, PlainTasksFit, WriteTasksFit DEF OnlyFills
<1>8. changed => Changing(c)' \/ \A id \in Ids : Drops(todo'[c], id)
  BY <1>5, WriteTasksFit DEF Changing
<1>9. CASE hit = {}
  <2>1. UNCHANGED log /\ (Changing(c) => changed)
    BY <1>9 DEF UpdateChunk, dbVars, Changing
  <2> QED BY <1>1, <1>2, <1>4, <1>6, <1>7, <1>8, <2>1, LookKeepsRest
<1>10. CASE hit # {}
  <2>1. Commit(t)
    BY <1>10 DEF UpdateChunk
  <2>2. Primary \in [Ids -> Row]
    BY LogType DEF TypeOK
  <2>3. t \in [Ids -> Row]
    <3>1. ASSUME NEW id \in Ids
          PROVE  Touched(Primary[id], Primary[id].uid, arg[c].age) \in Row
      <4>1. Primary[id].uid \in Uids
        BY <2>2 DEF Row
      <4> QED BY <1>1, <2>2, <4>1, RowType
    <3> QED BY <2>2, <3>1
  <2>4. \A id \in Ids : \/ t[id] = Primary[id]
                        \/ /\ IsLive(Primary, id)
                           /\ t[id].state = "live" /\ t[id].uid = Primary[id].uid
    BY DEF LiveIds, Touched
  <2> HIDE DEF t
  <2>5. \A id \in Ids : Changing(c)' \/ Drops(todo'[c], id)
    BY <1>8, <1>10
  <2>6. \A id \in Ids : /\ Primary[id].state # "unborn" => t[id].state # "unborn"
                        /\ IsLive(t, id) => Primary[id].state \in {"unborn", "live"}
                        /\ IsLive(t, id) /\ IsLive(Primary, id) => t[id].uid = Primary[id].uid
    BY <2>4 DEF IsLive
  <2> QED BY <1>1, <1>2, <1>4, <1>6, <1>7, <2>1, <2>3, <2>5, <2>6, CommitKeepsRest
<1> QED BY <1>9, <1>10

LEMMA ExecuteKeepsRest ==
    ASSUME TypeOK, RestInv, WritesInvalidate, OneCallAtATime, NEW c \in Clients, Execute(c)
    PROVE  RestInv'
<1>0. {"createBulk", "updateGet", "update"} \subseteq Labels \ {"updateByIds", "updateByUids"}
  BY DEF Labels, Querying
<1>1. CASE InsertChunk(c)
  BY <1>1, InsertChunkKeepsRest
<1>2. CASE InsertChunkFails(c)
  <2>1. Look(c)
    BY <1>2, ReturnLooks DEF InsertChunkFails, dbVars, cacheVars
  <2> QED BY <1>0, <1>2, <2>1, LookIsSafe DEF InsertChunkFails
<1>3. CASE QueryExisting(c)
  <2> DEFINE id == arg[c].new.id
             a  == [new |-> arg[c].new, oldUid |-> Primary[id].uid]
  <2>1. \/ /\ IsLive(Primary, id)
           /\ Then(c, FillTasks("setCached", {Entry(Primary, id)}))
           /\ Goto(c, "update", a)
        \/ UNCHANGED todo /\ Return(c)
    BY <1>3, ReadsPrimary DEF QueryExisting
  <2>2. UNCHANGED <<log, items, uidMap, msgs, up>>
    BY <1>3 DEF QueryExisting, dbVars, cacheVars
  <2>3. CASE UNCHANGED todo /\ Return(c)
    <3>1. Look(c)
      BY <2>2, <2>3, ReturnLooks
    <3> QED BY <1>0, <1>3, <3>1, LookIsSafe DEF QueryExisting
  <2>4. CASE /\ IsLive(Primary, id)
             /\ Then(c, FillTasks("setCached", {Entry(Primary, id)}))
             /\ Goto(c, "update", a)
    <3>1. Called("update") /\ LocalsFit(Primary, "update", a)
      BY <2>4 DEF Called, LocalsFit
    <3>2. /\ TasksFit(Primary, FillTasks("setCached", {Entry(Primary, id)}))
          /\ OnlyFills(FillTasks("setCached", {Entry(Primary, id)}))
      BY <2>4, EntryIsCurrent, FillsFit
    <3>3. Look(c)
      BY <2>2, <2>4, <3>1, <3>2 DEF Look
    <3> QED BY <1>0, <1>3, <3>3, LookIsSafe DEF QueryExisting
  <2> QED BY <2>1, <2>3, <2>4
<1>4. CASE ExecUpdate(c)
  BY <1>4, ExecUpdateKeepsRest
<1>5. CASE UpdateMisses(c)
  <2>1. TasksFit(Primary, << InvalidateTask(arg[c].new.id) >>)
    BY TaskFitsLaws, PlainTasksFit
  <2>2. Look(c)
    BY <1>5, <2>1, ReturnLooks DEF UpdateMisses, dbVars, cacheVars
  <2> QED BY <1>0, <1>5, <2>2, LookIsSafe DEF UpdateMisses
<1>6. CASE UpdateIsDuplicate(c)
  <2>1. Look(c)
    BY <1>6, ReturnLooks DEF UpdateIsDuplicate, dbVars, cacheVars
  <2> QED BY <1>0, <1>6, <2>1, LookIsSafe DEF UpdateIsDuplicate
<1>7. CASE UpdateChunkByIds(c)
  <2>1. PICK chunk : UpdateChunk(c, chunk, chunk \cap LiveIds(Primary))
    BY <1>7 DEF UpdateChunkByIds
  <2> QED BY <1>7, <2>1, UpdateChunkKeepsRest DEF UpdateChunkByIds
<1>8. CASE UpdateChunkByUids(c)
  <2>1. PICK chunk : UpdateChunk(c, chunk, {id \in LiveIds(Primary) : Primary[id].uid \in chunk})
    BY <1>8 DEF UpdateChunkByUids
  <2> QED BY <1>8, <2>1, UpdateChunkKeepsRest DEF UpdateChunkByUids
<1> QED BY <1>1, <1>2, <1>3, <1>4, <1>5, <1>6, <1>7, <1>8 DEF Execute

\* A failed statement ends an operation that has changed nothing.
LEMMA DatabaseErrorKeepsRest ==
    ASSUME TypeOK, RestInv, WritesInvalidate, OneCallAtATime, NEW c \in Clients, DatabaseError(c)
    PROVE  RestInv'
<1>1. At(c, pc[c]) /\ pc[c] \in Labels \ {"updateByIds", "updateByUids"}
  BY LocalType DEF DatabaseError, At, RestInv, BulkIsCalled, Called, WritesInvalidate
<1>2. Look(c)
  BY ReturnLooks DEF DatabaseError, dbVars, cacheVars
<1> QED BY <1>1, <1>2, LookIsSafe
-----------------------------------------------------------------------------
(* RestInv: the accesses to the caches.                                      *)

\* A task caches what the table has or drops something, and tells the others to
\* drop what it will not any more.
LEMMA TaskKeepsRest ==
    ASSUME TypeOK, RestInv, NEW c \in Clients, todo[c] # << >>,
           UNCHANGED <<log, up, pc, arg>>, NEW tasks, Then(c, tasks), TasksFit(Primary, tasks),
           msgs \subseteq msgs', pc[c] # "idle" => UNCHANGED msgs /\ OnlyFills(tasks),
           \A n \in Nodes, id \in Ids :
               \/ items'[n][id] \in {None, items[n][id]}
               \/ IsLive(Primary, id) /\ items'[n][id] = Entry(Primary, id),
           \A n \in Nodes, u \in Uids :
               uidMap'[n][u] \in {None, uidMap[n][u]} \/ Leads(Primary, uidMap'[n][u], u),
           \A id \in Ids : Drops(todo[c], id)
                              => Drops(tasks, id) \/ \A n \in Nodes : Told(n, "invalidateId", id)',
           \A u \in Uids : Forgets(todo[c], u)
                              => Forgets(tasks, u) \/ \A n \in Nodes : Told(n, "invalidateUid", u)'
    PROVE  RestInv'
<1>1. OthersStay(c) /\ todo'[c] = tasks /\ pc'[c] = pc[c] /\ arg'[c] = arg[c]
  BY OthersStayHolds DEF Then, TypeOK, TodoOK
<1>2. Primary' = Primary
  BY DEF Primary
<1>3. OneRuns'
  <2>1. \A d \in Clients : d # c => At(d, "idle") /\ At(d, "idle")'
    BY <1>1 DEF RestInv, OneRuns, OthersStay, At
  <2>2. \A d \in Clients : pc'[d] # "idle" => d = c
    BY <2>1 DEF At
  <2>3. pc'[c] # "idle" => msgs' = {} /\ OnlyFills(todo'[c])
    BY <1>1 DEF RestInv, OneRuns
  <2> QED BY <2>1, <2>2, <2>3 DEF OneRuns
<1>4. BulkIsCalled' /\ RunningFits'
  BY <1>1, <1>2 DEF RestInv, BulkIsCalled, RunningFits, OthersStay
<1>5. \A n, kind, key : Told(n, kind, key) => Told(n, kind, key)'
  BY DEF Told
<1>6. \A n \in Nodes, id \in Ids : DropDue(n, id) => DropDue(n, id)'
  BY <1>1, <1>5 DEF DropDue, Changing, OthersStay
<1>7. \A n \in Nodes, u \in Uids : ForgetDue(n, u) => ForgetDue(n, u)'
  BY <1>1, <1>5 DEF ForgetDue, OthersStay
<1>8. ItemsFit'
  BY <1>2, <1>6 DEF RestInv, ItemsFit
<1>9. MappingsFit'
  BY <1>2, <1>7 DEF RestInv, MappingsFit
<1> QED BY <1>3, <1>4, <1>8, <1>9 DEF RestInv

\* A publication tells all nodes, since all are subscribed.
LEMMA PublishTells ==
    ASSUME RestInv, NEW kind, NEW key, Publish(kind, key)
    PROVE  /\ msgs \subseteq msgs'
           /\ \A n \in Nodes : [to |-> n, kind |-> kind, key |-> key] \in msgs'
  BY DEF RestInv, Publish

\* An operation that has statements left publishes nothing and maps nothing.
LEMMA FillsBeforeReturn ==
    ASSUME TypeOK, RestInv, NEW c \in Clients, todo[c] # << >>, pc[c] # "idle"
    PROVE  Head(todo[c]).do = "setCached" /\ OnlyFills(Tail(todo[c]))
<1>1. todo[c] \in Seq(Task) /\ OnlyFills(todo[c])
  BY DEF TypeOK, TodoOK, RestInv, OneRuns
<1>2. \A i \in 1..Len(Tail(todo[c])) :
          i + 1 \in 1..Len(todo[c]) /\ Tail(todo[c])[i] = todo[c][i + 1]
  BY <1>1
<1>3. Head(todo[c]) = todo[c][1] /\ 1 \in 1..Len(todo[c])
  BY <1>1
<1> QED BY <1>1, <1>2, <1>3 DEF OnlyFills

LEMMA ConcatOnlyFills ==
    ASSUME NEW r \in Seq(Task), NEW s \in Seq(Task), OnlyFills(r), OnlyFills(s)
    PROVE  OnlyFills(r \o s)
<1>1. ASSUME NEW i \in 1..Len(r \o s)
      PROVE  \/ i \in 1..Len(r) /\ (r \o s)[i] = r[i]
             \/ i - Len(r) \in 1..Len(s) /\ (r \o s)[i] = s[i - Len(r)]
  OBVIOUS
<1> QED BY <1>1 DEF OnlyFills

\* setCached of an entity that the table has.
LEMMA SetCachedFits ==
    ASSUME TypeOK, NEW n \in Nodes, NEW e \in Entity, SetCached(n, e), CurrentIn(Primary, e)
    PROVE  \A m \in Nodes, id \in Ids :
               \/ items'[m][id] = items[m][id]
               \/ IsLive(Primary, id) /\ items'[m][id] = Entry(Primary, id)
<1>1. e.id \in Ids
  BY DEF Entity
<1>2. items' = items \/ items' = [items EXCEPT ![n][e.id] = e]
  BY DEF SetCached
<1> QED BY <1>1, <1>2 DEF TypeOK, CachesOK, CurrentIn
\* The entities of a result are cached one after another.
LEMMA FillCacheKeepsRest ==
    ASSUME TypeOK, RestInv, NEW c \in Clients, FillCache(c)
    PROVE  RestInv'
<1> DEFINE task == Head(todo[c])
           tail == Tail(todo[c])
<1>1. /\ todo[c] \in Seq(Task) /\ todo[c] # << >>
      /\ task.do = "setCached" /\ NodeOf[c] \in Nodes
  BY LocalType DEF FillCache, Doing
<1>2. tail \in Seq(Task) /\ task.entities \in SUBSET Entity
  BY <1>1, HeadAndTailType, TaskFields
<1>3. PICK e \in task.entities :
        /\ SetCached(NodeOf[c], e)
        /\ Then(c, FillTasks("setCached", task.entities \ {e}) \o tail)
  BY DEF FillCache
<1> DEFINE fill == FillTasks("setCached", task.entities \ {e})
<1>4. (\A x \in task.entities : CurrentIn(Primary, x)) /\ TasksFit(Primary, tail)
  <2>1. TasksFit(Primary, todo[c])
    BY DEF RestInv, RunningFits
  <2>2. TaskFits(Primary, task) /\ TasksFit(Primary, tail)
    BY <1>1, <2>1, TailFits
  <2> QED BY <1>1, <2>2 DEF TaskFits, Fills
<1>5. fill \in Seq(Task) /\ TasksFit(Primary, fill) /\ OnlyFills(fill)
  BY <1>2, <1>4, FillTasksType, FillsFit
<1>6. \A n \in Nodes, id \in Ids :
          \/ items'[n][id] \in {None, items[n][id]}
          \/ IsLive(Primary, id) /\ items'[n][id] = Entry(Primary, id)
  BY <1>1, <1>2, <1>3, <1>4, SetCachedFits
<1>7. \A k : /\ Drops(todo[c], k) => Drops(tail, k)
             /\ Forgets(todo[c], k) => Forgets(tail, k)
  BY <1>1, DropsTail
<1>8. UNCHANGED <<log, up, pc, arg, msgs, uidMap>>
  BY DEF FillCache, dbVars
<1>9. pc[c] # "idle" => OnlyFills(tail)
  BY <1>1, FillsBeforeReturn
<1> HIDE DEF fill, tail, task
<1>10. /\ TasksFit(Primary, fill \o tail)
       /\ pc[c] # "idle" => OnlyFills(fill \o tail)
       /\ \A k : /\ Drops(tail, k) => Drops(fill \o tail, k)
                 /\ Forgets(tail, k) => Forgets(fill \o tail, k)
  BY <1>2, <1>4, <1>5, <1>9, ConcatFit, ConcatOnlyFills, DropsConcat
<1>11. Then(c, fill \o tail)
  BY <1>3 DEF fill
<1> QED BY <1>1, <1>6, <1>7, <1>8, <1>10, <1>11, TaskKeepsRest

\* Those of GetByUids also get their mappings.
LEMMA FillCacheMappedKeepsRest ==
    ASSUME TypeOK, RestInv, NEW c \in Clients, FillCacheMapped(c)
    PROVE  RestInv'
<1> DEFINE task == Head(todo[c])
           tail == Tail(todo[c])
<1>1. /\ todo[c] \in Seq(Task) /\ todo[c] # << >>
      /\ task.do = "setCachedMapped" /\ NodeOf[c] \in Nodes
  BY LocalType DEF FillCacheMapped, Doing
<1>2. tail \in Seq(Task) /\ task.entities \in SUBSET Entity
  BY <1>1, HeadAndTailType, TaskFields
<1>3. PICK e \in task.entities :
        /\ SetCached(NodeOf[c], e)
        /\ Then(c, << [do |-> "setMapping", uid |-> e.uid, id |-> e.id] >>
                     \o FillTasks("setCachedMapped", task.entities \ {e}) \o tail)
  BY DEF FillCacheMapped
<1> DEFINE map  == << [do |-> "setMapping", uid |-> e.uid, id |-> e.id] >>
           fill == FillTasks("setCachedMapped", task.entities \ {e})
<1>4. (\A x \in task.entities : CurrentIn(Primary, x)) /\ TasksFit(Primary, tail)
  <2>1. TasksFit(Primary, todo[c])
    BY DEF RestInv, RunningFits
  <2>2. TaskFits(Primary, task) /\ TasksFit(Primary, tail)
    BY <1>1, <2>1, TailFits
  <2> QED BY <1>1, <2>2 DEF TaskFits, Fills
<1>5. fill \in Seq(Task) /\ TasksFit(Primary, fill)
  BY <1>2, <1>4, FillTasksType, FillsFit
<1>6. map \in Seq(Task) /\ TasksFit(Primary, map)
  <2>1. e.uid \in Uids /\ e.id \in Ids
    BY <1>2 DEF Entity
  <2>2. IsLive(Primary, e.id) /\ Primary[e.id].uid = e.uid
    <3>1. e = Entry(Primary, e.id)
      BY <1>4 DEF CurrentIn
    <3>2. Entry(Primary, e.id).uid = Primary[e.id].uid
      BY DEF Entry
    <3> QED BY <1>4, <3>1, <3>2 DEF CurrentIn
  <2>3. TaskFits(Primary, [do |-> "setMapping", uid |-> e.uid, id |-> e.id])
    BY <2>2, TaskFitsLaws
  <2> QED BY <2>1, <2>3, TaskType, SingletonType, PlainTasksFit
<1>7. \A n \in Nodes, id \in Ids :
          \/ items'[n][id] \in {None, items[n][id]}
          \/ IsLive(Primary, id) /\ items'[n][id] = Entry(Primary, id)
  BY <1>1, <1>2, <1>3, <1>4, SetCachedFits
<1>8. \A k : /\ Drops(todo[c], k) => Drops(tail, k)
             /\ Forgets(todo[c], k) => Forgets(tail, k)
  BY <1>1, DropsTail
<1>9. UNCHANGED <<log, up, pc, arg, msgs, uidMap>> /\ pc[c] = "idle"
  BY <1>1, FillsBeforeReturn DEF FillCacheMapped, dbVars
<1> HIDE DEF map, fill, tail, task
<1>10. map \o fill \in Seq(Task) /\ TasksFit(Primary, map \o fill)
  BY <1>5, <1>6, ConcatType, ConcatFit
<1>11. /\ TasksFit(Primary, (map \o fill) \o tail)
       /\ \A k : /\ Drops(tail, k) => Drops((map \o fill) \o tail, k)
                 /\ Forgets(tail, k) => Forgets((map \o fill) \o tail, k)
  BY <1>2, <1>4, <1>10, ConcatFit, DropsConcat
<1>12. Then(c, (map \o fill) \o tail)
  BY <1>3 DEF map, fill
<1> QED BY <1>1, <1>7, <1>8, <1>9, <1>11, <1>12, TaskKeepsRest
\* A task that is done, but the one that tells the others to flush: whom it has
\* to tell it told, and it left no copy here that the others drop.
LEMMA DoneKeepsRest ==
    ASSUME TypeOK, RestInv, NEW c \in Clients, todo[c] # << >>, Done(c),
           Head(todo[c]).do \notin {"setCached", "setCachedMapped", "publishFlushItem"},
           UNCHANGED <<log, up, pc, arg>>, msgs \subseteq msgs',
           \A n \in Nodes, id \in Ids : items'[n][id] \in {None, items[n][id]},
           \A n \in Nodes, u \in Uids :
               uidMap'[n][u] \in {None, uidMap[n][u]} \/ Leads(Primary, uidMap'[n][u], u),
           \A id \in Ids : Head(todo[c]).do = "invalidateCache" /\ Head(todo[c]).id = id
                              => \A n \in Nodes : Told(n, "invalidateId", id)',
           \A u \in Uids : Head(todo[c]).do = "invalidateUid" /\ Head(todo[c]).uid = u
                              => \A n \in Nodes : Told(n, "invalidateUid", u)'
    PROVE  RestInv'
<1> DEFINE tail == Tail(todo[c])
<1>1. todo[c] \in Seq(Task) /\ tail \in Seq(Task)
  BY LocalType, HeadAndTailType
<1>2. TasksFit(Primary, tail)
  BY <1>1, TailFits DEF RestInv, RunningFits
<1>3. pc[c] = "idle"
  BY FillsBeforeReturn
<1>4. Then(c, tail)
  BY DEF Done, Then, TypeOK, TodoOK
<1>5. \A k : /\ Drops(todo[c], k) =>
                  \/ Drops(tail, k)
                  \/ Head(todo[c]).do = "invalidateCache" /\ Head(todo[c]).id = k
             /\ Forgets(todo[c], k) =>
                  \/ Forgets(tail, k)
                  \/ Head(todo[c]).do = "invalidateUid" /\ Head(todo[c]).uid = k
  BY <1>1, DropsTail
<1> HIDE DEF tail
<1> QED BY <1>2, <1>3, <1>4, <1>5, TaskKeepsRest

LEMMA AccessCacheKeepsRest ==
    ASSUME TypeOK, RestInv, NEW c \in Clients, AccessCache(c)
    PROVE  RestInv'
<1> DEFINE n == NodeOf[c]
           task == Head(todo[c])
<1>1. n \in Nodes /\ todo[c] \in Seq(Task)
  BY LocalType
<1>2. todo[c] # << >> => task \in Task
  BY <1>1, HeadAndTailType
<1>3. CASE FillCache(c) \/ FillCacheMapped(c)
  BY <1>3, FillCacheKeepsRest, FillCacheMappedKeepsRest
<1>4. CASE SetMapping(c)
  <2>1. todo[c] # << >> /\ task.do = "setMapping" /\ task.uid \in Uids
    BY <1>2, <1>4, TaskFields DEF SetMapping, Doing
  <2>2. IsLive(Primary, task.id) /\ Primary[task.id].uid = task.uid
    BY <1>1, <2>1, TailFits DEF RestInv, RunningFits, TaskFits
  <2>3. Leads(Primary, task.id, task.uid)
    BY <2>2 DEF Leads, IsLive
  <2>4. \A m \in Nodes, u \in Uids :
            uidMap'[m][u] = uidMap[m][u] \/ (u = task.uid /\ uidMap'[m][u] = task.id)
    BY <1>1, <1>4, <2>1 DEF SetMapping, TypeOK, CachesOK
  <2> QED BY <1>4, <2>1, <2>3, <2>4, DoneKeepsRest DEF SetMapping, dbVars
<1>5. CASE SetList(c)
  BY <1>5, DoneKeepsRest DEF SetList, Doing, dbVars
<1>6. CASE InvalidateCache(c)
  <2>1. todo[c] # << >> /\ task.do = "invalidateCache" /\ task.id \in Ids
    BY <1>2, <1>6, TaskFields DEF InvalidateCache, Doing
  <2>2. \A m \in Nodes, id \in Ids : items'[m][id] \in {None, items[m][id]}
    BY <1>1, <1>6, <2>1 DEF InvalidateCache, TypeOK, CachesOK
  <2>3. msgs \subseteq msgs'
    BY <1>6, PublishTells DEF InvalidateCache
  <2>4. ASSUME NEW id \in Ids, task.id = id
        PROVE  \A m \in Nodes : Told(m, "invalidateId", id)'
    BY <1>6, <2>4, PublishTells DEF InvalidateCache, Told
  <2> QED BY <1>6, <2>1, <2>2, <2>3, <2>4, DoneKeepsRest DEF InvalidateCache, dbVars
<1>7. CASE InvalidateOldUid(c)
  <2>1. todo[c] # << >> /\ task.do = "invalidateUid" /\ task.uid \in Uids
    BY <1>2, <1>7, TaskFields DEF InvalidateOldUid, Doing
  <2>2. \A m \in Nodes, u \in Uids : uidMap'[m][u] \in {None, uidMap[m][u]}
    BY <1>1, <1>7, <2>1 DEF InvalidateOldUid, TypeOK, CachesOK
  <2>3. msgs \subseteq msgs'
    BY <1>7, PublishTells DEF InvalidateOldUid
  <2>4. ASSUME NEW u \in Uids, task.uid = u
        PROVE  \A m \in Nodes : Told(m, "invalidateUid", u)'
    BY <1>7, <2>4, PublishTells DEF InvalidateOldUid, Told
  <2> QED BY <1>7, <2>1, <2>2, <2>3, <2>4, DoneKeepsRest DEF InvalidateOldUid, dbVars
<1>8. CASE FlushListCache(c)
  <2>1. msgs \subseteq msgs'
    BY <1>8, PublishTells DEF FlushListCache
  <2> QED BY <1>8, <2>1, DoneKeepsRest DEF FlushListCache, Doing, dbVars
<1>9. CASE FlushItems(c)
  <2>1. /\ \A m \in Nodes, id \in Ids : items'[m][id] \in {None, items[m][id]}
        /\ \A m \in Nodes, u \in Uids : uidMap'[m][u] \in {None, uidMap[m][u]}
    BY <1>1, <1>9 DEF FlushItems, FlushCache, TypeOK, CachesOK
  <2> QED BY <1>9, <2>1, DoneKeepsRest DEF FlushItems, Doing, dbVars
<1>10. CASE PublishFlushItem(c)
  <2>1. todo[c] # << >> /\ task.do = "publishFlushItem"
    BY <1>10 DEF PublishFlushItem, Doing
  <2>2. TasksFit(Primary, Tail(todo[c]))
    BY <1>1, <2>1, TailFits DEF RestInv, RunningFits
  <2>3. pc[c] = "idle"
    BY <2>1, FillsBeforeReturn
  <2>4. Then(c, Tail(todo[c]))
    BY <1>10 DEF PublishFlushItem, Done, Then, TypeOK, TodoOK
  <2>5. msgs \subseteq msgs' /\ \A m \in Nodes : \A kind, key : Told(m, kind, key)'
    BY <1>10, PublishTells DEF PublishFlushItem, Told
  <2>6. UNCHANGED <<log, up, pc, arg, items, uidMap>>
    BY <1>10 DEF PublishFlushItem, dbVars, cacheVars
  <2> QED BY <2>1, <2>2, <2>3, <2>4, <2>5, <2>6, TaskKeepsRest
<1> QED BY <1>3, <1>4, <1>5, <1>6, <1>7, <1>8, <1>9, <1>10 DEF AccessCache
-----------------------------------------------------------------------------
(* RestInv: what happens beside the clients.                                 *)

\* A step of the environment may drop what is cached; a message that is gone has
\* dropped what it said.
LEMMA EnvironmentStepKeepsRest ==
    ASSUME RestInv, UNCHANGED <<log, up>>, UNCHANGED clientVars, msgs' \subseteq msgs,
           \A n \in Nodes, id \in Ids :
               /\ items'[n][id] \in {None, items[n][id]}
               /\ Told(n, "invalidateId", id) =>
                      items'[n][id] = None \/ Told(n, "invalidateId", id)',
           \A n \in Nodes, u \in Uids :
               /\ uidMap'[n][u] \in {None, uidMap[n][u]}
               /\ Told(n, "invalidateUid", u) =>
                      uidMap'[n][u] = None \/ Told(n, "invalidateUid", u)'
    PROVE  RestInv'
<1>1. UNCHANGED <<pc, arg, todo>> /\ Primary' = Primary
  BY DEF clientVars, Primary
<1>2. OneRuns' /\ BulkIsCalled' /\ RunningFits'
  BY <1>1 DEF RestInv, OneRuns, At, BulkIsCalled, RunningFits
<1>3. ItemsFit'
  <2>1. SUFFICES ASSUME NEW n \in Nodes, NEW id \in Ids, items'[n][id] # None, ~DropDue(n, id)'
                 PROVE  IsLive(Primary, id) /\ items'[n][id] = Entry(Primary, id)
    BY <1>1 DEF ItemsFit
  <2>2. items'[n][id] = items[n][id] /\ ~DropDue(n, id)
    BY <1>1, <2>1 DEF DropDue, Changing
  <2> QED BY <2>1, <2>2 DEF RestInv, ItemsFit
<1>4. MappingsFit'
  <2>1. SUFFICES ASSUME NEW n \in Nodes, NEW u \in Uids, uidMap'[n][u] # None, ~ForgetDue(n, u)'
                 PROVE  Leads(Primary, uidMap'[n][u], u)
    BY <1>1 DEF MappingsFit
  <2>2. uidMap'[n][u] = uidMap[n][u] /\ ~ForgetDue(n, u)
    BY <1>1, <2>1 DEF ForgetDue
  <2> QED BY <2>1, <2>2 DEF RestInv, MappingsFit
<1> QED BY <1>2, <1>3, <1>4 DEF RestInv
LEMMA DeliverKeepsRest ==
    ASSUME TypeOK, RestInv, NEW m \in msgs, Deliver(m)
    PROVE  RestInv'
<1>1. m \in Message /\ msgs' = msgs \ {m} /\ m.to \in Nodes
  BY MessageFields DEF TypeOK, MessagesOK, Deliver, OnCacheInvalidated, OnBumpEpoch,
     OnCacheFlushItem, Receive
<1>2. UNCHANGED <<log, up>> /\ UNCHANGED clientVars
  BY DEF Deliver, OnCacheInvalidated, OnBumpEpoch, OnCacheFlushItem, dbVars
<1>3. /\ \A n \in Nodes, id \in Ids : items'[n][id] \in {None, items[n][id]}
      /\ \A n \in Nodes, u \in Uids : uidMap'[n][u] \in {None, uidMap[n][u]}
  <2>1. CASE items' = [items EXCEPT ![m.to][m.key] = None] /\ UNCHANGED uidMap
    BY <2>1 DEF TypeOK, CachesOK
  <2>2. CASE uidMap' = [uidMap EXCEPT ![m.to][m.key] = None] /\ UNCHANGED items
    BY <2>2 DEF TypeOK, CachesOK
  <2>3. CASE UNCHANGED <<items, uidMap>>
    BY <2>3
  <2>4. CASE FlushCache(m.to)
    BY <1>1, <2>4 DEF FlushCache, TypeOK, CachesOK
  <2> QED BY <2>1, <2>2, <2>3, <2>4 DEF Deliver, OnCacheInvalidated, OnBumpEpoch, OnCacheFlushItem
<1>4. ASSUME NEW n \in Nodes, NEW id \in Ids, Told(n, "invalidateId", id),
             ~Told(n, "invalidateId", id)'
      PROVE  items'[n][id] = None
  <2>1. \/ m = [to |-> n, kind |-> "invalidateId", key |-> id]
        \/ m = [to |-> n, kind |-> "flushItem", key |-> None]
    BY <1>1, <1>4 DEF Told
  <2>2. CASE m = [to |-> n, kind |-> "invalidateId", key |-> id]
    <3>1. m.to = n /\ m.kind = "invalidateId" /\ m.key = id
      BY <2>2
    <3>2. items' = [items EXCEPT ![n][id] = None]
      BY <3>1 DEF Deliver, OnCacheInvalidated, OnBumpEpoch, OnCacheFlushItem, Receive
    <3> QED BY <3>2 DEF TypeOK, CachesOK
  <2>3. CASE m = [to |-> n, kind |-> "flushItem", key |-> None]
    <3>1. m.to = n /\ m.kind = "flushItem"
      BY <2>3
    <3>2. FlushCache(n)
      BY <3>1 DEF Deliver, OnCacheInvalidated, OnBumpEpoch, OnCacheFlushItem, Receive
    <3> QED BY <3>2 DEF FlushCache, TypeOK, CachesOK
  <2> QED BY <2>1, <2>2, <2>3
<1>5. ASSUME NEW n \in Nodes, NEW u \in Uids, Told(n, "invalidateUid", u),
             ~Told(n, "invalidateUid", u)'
      PROVE  uidMap'[n][u] = None
  <2>1. \/ m = [to |-> n, kind |-> "invalidateUid", key |-> u]
        \/ m = [to |-> n, kind |-> "flushItem", key |-> None]
    BY <1>1, <1>5 DEF Told
  <2>2. CASE m = [to |-> n, kind |-> "invalidateUid", key |-> u]
    <3>1. m.to = n /\ m.kind = "invalidateUid" /\ m.key = u
      BY <2>2
    <3>2. uidMap' = [uidMap EXCEPT ![n][u] = None]
      BY <3>1 DEF Deliver, OnCacheInvalidated, OnBumpEpoch, OnCacheFlushItem, Receive
    <3> QED BY <3>2 DEF TypeOK, CachesOK
  <2>3. CASE m = [to |-> n, kind |-> "flushItem", key |-> None]
    <3>1. m.to = n /\ m.kind = "flushItem"
      BY <2>3
    <3>2. FlushCache(n)
      BY <3>1 DEF Deliver, OnCacheInvalidated, OnBumpEpoch, OnCacheFlushItem, Receive
    <3> QED BY <3>2 DEF FlushCache, TypeOK, CachesOK
  <2> QED BY <2>1, <2>2, <2>3
<1> QED BY <1>1, <1>2, <1>3, <1>4, <1>5, EnvironmentStepKeepsRest

\* Deliveries and expirations keep the invariant; nothing is lost, nobody restarts.
LEMMA EnvironmentKeepsRest ==
    ASSUME TypeOK, RestInv, WritesInvalidate
    PROVE  /\ \A m \in msgs : Deliver(m) \/ LoseMessage(m) => RestInv'
           /\ \A n \in Nodes : Expire(n) \/ Restart(n) \/ Subscribe(n) => RestInv'
           /\ Replicate => RestInv'
           /\ UNCHANGED vars => RestInv'
<1>1. \A m \in msgs : Deliver(m) => RestInv'
  BY DeliverKeepsRest
<1>2. \A m \in msgs : ~LoseMessage(m)
  BY DEF LoseMessage, WritesInvalidate
<1>3. ASSUME NEW n \in Nodes, Expire(n)
      PROVE  RestInv'
  <2>1. UNCHANGED <<log, up, msgs>> /\ UNCHANGED clientVars
    BY <1>3 DEF Expire, ExpireItem, ExpireMapping, ExpireLists, dbVars
  <2>2. /\ \A m \in Nodes, id \in Ids : items'[m][id] \in {None, items[m][id]}
        /\ \A m \in Nodes, u \in Uids : uidMap'[m][u] \in {None, uidMap[m][u]}
    <3>1. ASSUME NEW id \in Ids, ExpireItem(n, id)
          PROVE  /\ \A m \in Nodes, i \in Ids : items'[m][i] \in {None, items[m][i]}
                 /\ UNCHANGED uidMap
      BY <3>1 DEF ExpireItem, TypeOK, CachesOK
    <3>2. ASSUME NEW u \in Uids, ExpireMapping(n, u)
          PROVE  /\ \A m \in Nodes, v \in Uids : uidMap'[m][v] \in {None, uidMap[m][v]}
                 /\ UNCHANGED items
      BY <3>2 DEF ExpireMapping, TypeOK, CachesOK
    <3>3. ExpireLists(n) => UNCHANGED <<items, uidMap>>
      BY DEF ExpireLists
    <3> QED BY <1>3, <3>1, <3>2, <3>3 DEF Expire
  <2>3. \A m, kind, key : Told(m, kind, key) => Told(m, kind, key)'
    BY <2>1 DEF Told
  <2> QED BY <2>1, <2>2, <2>3, EnvironmentStepKeepsRest
<1>4. \A n \in Nodes : ~Restart(n) /\ ~Subscribe(n)
  BY DEF Restart, Subscribe, WritesInvalidate, RestInv
<1>5. ~Replicate
  BY DEF Replicate, WritesInvalidate
<1>6. CASE UNCHANGED vars
  <2>1. UNCHANGED <<log, up, msgs, items, uidMap>> /\ UNCHANGED clientVars
    BY <1>6 DEF vars, dbVars, cacheVars
  <2>2. \A m, kind, key : Told(m, kind, key) => Told(m, kind, key)'
    BY <2>1 DEF Told
  <2> QED BY <2>1, <2>2, EnvironmentStepKeepsRest
<1> QED BY <1>1, <1>2, <1>3, <1>4, <1>5, <1>6

\* Nothing is cached and nobody runs in the first state.
LEMMA InitKeepsRest == ASSUME WritesInvalidate PROVE Init => RestInv
<1> SUFFICES ASSUME Init PROVE RestInv
  OBVIOUS
<1>1. up = Nodes /\ BulkIsCalled
  BY DEF Init, WritesInvalidate, BulkIsCalled, Called
<1>2. OneRuns
  BY DEF Init, OneRuns, At
<1>3. RunningFits
  BY DEF Init, RunningFits, TasksFit, LocalsFit
<1>4. ItemsFit /\ MappingsFit
  BY DEF Init, ItemsFit, MappingsFit
<1> QED BY <1>1, <1>2, <1>3, <1>4 DEF RestInv

\* Every step of calls that do not overlap keeps the invariant.
LEMMA NextKeepsRest ==
    ASSUME TypeOK, RestInv, WritesInvalidate, [Next /\ OneCallAtATime]_vars
    PROVE  RestInv'
<1>1. CASE Next /\ OneCallAtATime
  <2>1. ASSUME NEW c \in Clients, Read(c)
        PROVE  RestInv'
    <3>1. At(c, "idle") /\ "idle" \in Labels \ {"updateByIds", "updateByUids"}
      BY <2>1 DEF Read, GetByID, GetByUid, GetByIds, GetByUids, List, Count, Call, Labels
    <3> QED BY <1>1, <2>1, <3>1, ReadLooks, LookIsSafe
  <2>2. ASSUME NEW c \in Clients, Query(c)
        PROVE  RestInv'
    <3>1. PICK label \in Labels \ {"updateByIds", "updateByUids"} : At(c, label)
      BY <2>2 DEF Query, GetByMappedID, ListFromCache, QueryByID, QueryByUid, QueryByIds,
         QueryByUids, QueryList, QueryCount, Labels, Querying
    <3> QED BY <1>1, <2>2, <3>1, QueryLooks, LookIsSafe
  <2>3. ASSUME NEW c \in Clients, Write(c) \/ Execute(c) \/ AccessCache(c) \/ DatabaseError(c)
        PROVE  RestInv'
    BY <1>1, <2>3, WriteKeepsRest, ExecuteKeepsRest, AccessCacheKeepsRest, DatabaseErrorKeepsRest
  <2> QED BY <1>1, <2>1, <2>2, <2>3, EnvironmentKeepsRest DEF Next, Continue
<1> QED BY <1>1, EnvironmentKeepsRest

LEMMA RestInvHolds == ASSUME WritesInvalidate PROVE SequentialSpec => [](TypeOK /\ RestInv)
<1>1. Init => TypeOK /\ RestInv
  BY InitType, InitKeepsRest
<1>2. (TypeOK /\ RestInv) /\ [Next /\ OneCallAtATime]_vars => (TypeOK /\ RestInv)'
  BY NextType, NextKeepsRest
<1> QED BY <1>1, <1>2, PTL DEF SequentialSpec

\* When nothing runs and nothing is on its way, nothing is due to be dropped.
LEMMA NothingIsDue ==
    ASSUME Quiet, NEW n \in Nodes
    PROVE  /\ \A id \in Ids : ~DropDue(n, id)
           /\ \A u \in Uids : ~ForgetDue(n, u)
<1>1. \A k : ~Drops(<< >>, k) /\ ~Forgets(<< >>, k)
  BY DEF Drops, Forgets
<1> QED BY <1>1 DEF Quiet, At, DropDue, ForgetDue, Changing, Told

\* If calls do not overlap, no node at rest serves a row that differs from the
\* table's, whatever the operations were, in whichever order the publications
\* arrived, and with statements that failed: every row that an operation changes is
\* dropped everywhere, and what it caches is what it has written or just read.
THEOREM QuietItemsCurrent ==
    ASSUME WritesInvalidate PROVE SequentialSpec => []QuietItemsAreCurrent
<1>1. TypeOK /\ RestInv => QuietItemsAreCurrent
  BY NothingIsDue DEF QuietItemsAreCurrent, RestInv, ItemsFit
<1> QED BY <1>1, RestInvHolds, PTL

\* And no mapping leads GetByUid to a row that has another uid by now.
THEOREM QuietMappingsSound ==
    ASSUME WritesInvalidate PROVE SequentialSpec => []QuietMappingsAreSound
<1>1. TypeOK /\ RestInv => QuietMappingsAreSound
  BY NothingIsDue DEF QuietMappingsAreSound, RestInv, MappingsFit, Leads
<1> QED BY <1>1, RestInvHolds, PTL
=============================================================================

------------------------ MODULE UserRepositoryProofs ------------------------
(* Theorems about UserRepository, for every value of its constants.           *)
EXTENDS UserRepository, TLAPS

-----------------------------------------------------------------------------
(* The lists of tasks.                                                       *)

\* What the lists of tasks are built from is a task.
LEMMA TaskType ==
    /\ \A do \in {"setCached", "setCachedMapped"}, es \in SUBSET Entity :
         [do |-> do, entities |-> es] \in Task
    /\ \A id \in Ids : InvalidateTask(id) \in Task
    /\ FlushListTask \in Task
    /\ [do |-> "flushItems"] \in Task
    /\ [do |-> "publishFlushItem"] \in Task
    /\ \A u \in Uids, id \in Ids : [do |-> "setMapping", uid |-> u, id |-> id] \in Task
    /\ \A l \in ListEntry : [do |-> "setList", entry |-> l] \in Task
    /\ \A u \in Uids : [do |-> "invalidateUid", uid |-> u] \in Task
<1>1. \A do \in {"setCached", "setCachedMapped"}, es \in SUBSET Entity :
         [do |-> do, entities |-> es] \in Task
  BY DEF Task
<1>2. \A id \in Ids : InvalidateTask(id) \in Task
  BY DEF Task, InvalidateTask
<1>3. FlushListTask \in Task /\ [do |-> "flushItems"] \in Task /\ [do |-> "publishFlushItem"] \in Task
  BY DEF Task, FlushListTask
<1>4. \A u \in Uids, id \in Ids : [do |-> "setMapping", uid |-> u, id |-> id] \in Task
  BY DEF Task
<1>5. \A l \in ListEntry : [do |-> "setList", entry |-> l] \in Task
  BY DEF Task
<1>6. \A u \in Uids : [do |-> "invalidateUid", uid |-> u] \in Task
  BY DEF Task
<1> QED BY <1>1, <1>2, <1>3, <1>4, <1>5, <1>6

\* Short lists of tasks are lists of tasks.
LEMMA SingletonType ==
    /\ << >> \in Seq(Task)
    /\ \A t \in Task : << t >> \in Seq(Task)
    /\ \A t, u \in Task : << t, u >> \in Seq(Task)
    /\ \A t, u, v \in Task : << t, u, v >> \in Seq(Task)
  OBVIOUS

\* Two lists of tasks after each other, as in UpdateTasks.
LEMMA ConcatType ==
    ASSUME NEW s \in Seq(Task), NEW t \in Seq(Task)
    PROVE  s \o t \in Seq(Task)
  OBVIOUS

\* What a client does next, and what remains after it.
LEMMA HeadAndTailType ==
    ASSUME NEW s \in Seq(Task), s # << >>
    PROVE  Head(s) \in Task /\ Tail(s) \in Seq(Task)
  OBVIOUS

\* The fills after a read or a write are at most one task.
LEMMA FillTasksType ==
    ASSUME NEW do \in {"setCached", "setCachedMapped"}, NEW es \in SUBSET Entity
    PROVE  FillTasks(do, es) \in Seq(Task)
  BY TaskType, SingletonType DEF FillTasks

\* The fields of a task follow from what it does.
LEMMA TaskFields ==
    ASSUME NEW t \in Task
    PROVE  /\ t.do \in {"setCached", "setCachedMapped"} => t.entities \in SUBSET Entity
           /\ t.do = "setMapping" => t.uid \in Uids /\ t.id \in Ids
           /\ t.do = "setList" => t.entry \in ListEntry
           /\ t.do = "invalidateCache" => t.id \in Ids
           /\ t.do = "invalidateUid" => t.uid \in Uids
  BY DEF Task

-----------------------------------------------------------------------------
(* The parts that actions are made of keep the parts of the type invariant.  *)

\* A row read by a SELECT is an entity.
LEMMA EntryType ==
    ASSUME NEW t \in [Ids -> Row], NEW id \in Ids
    PROVE  Entry(t, id) \in Entity
  BY DEF Entry, Entity, Row

\* Every statement leaves rows behind it.
LEMMA RowType ==
    /\ \A r \in NewRow : Inserted(r) \in Row
    /\ \A r \in Row, u \in Uids, a \in Ages : Touched(r, u, a) \in Row
    /\ \A r \in Row : SoftDeleted(r) \in Row /\ Purged(r) \in Row
<1>1. ASSUME NEW r \in NewRow
      PROVE  Inserted(r) \in Row
  BY DEF NewRow, Row, Inserted
<1>2. ASSUME NEW r \in Row, NEW u \in Uids, NEW a \in Ages
      PROVE  Touched(r, u, a) \in Row
  BY DEF Row, Touched
<1>3. ASSUME NEW r \in Row
      PROVE  SoftDeleted(r) \in Row /\ Purged(r) \in Row
  BY DEF Row, SoftDeleted, Purged
<1> QED BY <1>1, <1>2, <1>3

\* The table and what the read instances have of it.
LEMMA LogType ==
    ASSUME TableOK
    PROVE  /\ Len(log) \in Nat \ {0}
           /\ Primary \in [Ids -> Row]
           /\ \A p \in 1..Len(log) : log[p] \in [Ids -> Row]
           /\ ReadPositions \subseteq 1..Len(log)
<1>1. Len(log) \in Nat /\ synced \in 1..Len(log)
  BY DEF TableOK
<1>2. Len(log) \in Nat \ {0}
  BY <1>1
<1>3. \A p \in 1..Len(log) : log[p] \in [Ids -> Row]
  BY DEF TableOK
<1> QED BY <1>1, <1>2, <1>3 DEF Primary, ReadPositions

\* A write that makes a table of rows keeps the history one of tables.
LEMMA CommitType ==
    ASSUME TableOK, NEW t \in [Ids -> Row], Commit(t)
    PROVE  TableOK'
  BY LogType DEF TableOK, Commit

\* A client goes on with local variables that fit the label.
LEMMA GotoType ==
    ASSUME ControlOK, NEW c \in Clients, NEW label \in Labels, NEW a,
           ArgFits(label, a), Goto(c, label, a)
    PROVE  ControlOK'
<1>1. pc' \in [Clients -> Labels] /\ DOMAIN arg' = Clients
  BY DEF ControlOK, Goto
<1>2. ASSUME NEW d \in Clients
      PROVE  ArgFits(pc'[d], arg'[d])
  <2>1. CASE d = c
    BY <2>1 DEF ControlOK, Goto
  <2>2. CASE d # c
    <3>1. pc'[d] = pc[d] /\ arg'[d] = arg[d]
      BY <2>2 DEF ControlOK, Goto
    <3> QED BY <3>1 DEF ControlOK
  <2> QED BY <2>1, <2>2
<1> QED BY <1>1, <1>2 DEF ControlOK

\* A client returns from an operation.
LEMMA ReturnType ==
    ASSUME ControlOK, NEW c \in Clients, Return(c)
    PROVE  ControlOK'
<1>1. "idle" \in Labels /\ ArgFits("idle", None)
  BY DEF Labels, ArgFits
<1> QED BY <1>1, GotoType DEF Return

\* A client gets a new list of tasks.
LEMMA ThenType ==
    ASSUME TodoOK, NEW c \in Clients, NEW tasks \in Seq(Task), Then(c, tasks)
    PROVE  TodoOK'
  BY DEF TodoOK, Then

\* A client has done its first task.
LEMMA DoneType ==
    ASSUME TodoOK, NEW c \in Clients, todo[c] # << >>, Done(c)
    PROVE  TodoOK'
<1>1. Tail(todo[c]) \in Seq(Task)
  BY HeadAndTailType DEF TodoOK
<1> QED BY <1>1 DEF TodoOK, Done

\* A client gets an entity from an operation.
LEMMA HoldType ==
    ASSUME HeldOK, NEW c \in Clients, NEW e \in Entity, Hold(c, e)
    PROVE  HeldOK'
  BY DEF HeldOK, Hold

\* A publication adds one message for each subscribed node.
LEMMA PublishType ==
    ASSUME MessagesOK, NEW kind, NEW key, UNCHANGED up, Publish(kind, key),
           \A n \in Nodes : [to |-> n, kind |-> kind, key |-> key] \in Message
    PROVE  MessagesOK'
  BY DEF MessagesOK, Publish

\* The messages that the repository publishes.
LEMMA MessageType ==
    /\ \A n \in Nodes, id \in Ids : [to |-> n, kind |-> "invalidateId", key |-> id] \in Message
    /\ \A n \in Nodes, u \in Uids : [to |-> n, kind |-> "invalidateUid", key |-> u] \in Message
    /\ \A n \in Nodes : [to |-> n, kind |-> "bumpEpoch", key |-> None] \in Message
    /\ \A n \in Nodes : [to |-> n, kind |-> "flushItem", key |-> None] \in Message
  BY DEF Message

\* The key of a message follows from its kind.
LEMMA MessageFields ==
    ASSUME NEW m \in Message
    PROVE  /\ m.to \in Nodes
           /\ m.kind = "invalidateId" => m.key \in Ids
           /\ m.kind = "invalidateUid" => m.key \in Uids
  BY DEF Message

\* setCached puts an entity under its own id, or nothing.
LEMMA SetCachedType ==
    ASSUME CachesOK, NEW n \in Nodes, NEW e \in Entity, SetCached(n, e)
    PROVE  items' \in [Nodes -> [Ids -> Entity \cup {None}]]
<1>1. e.id \in Ids
  BY DEF Entity
<1> QED BY <1>1 DEF CachesOK, SetCached

\* The parts of the type invariant that a step leaves alone stay true.
LEMMA UnchangedType ==
    ASSUME TypeOK
    PROVE  /\ UNCHANGED dbVars => TableOK'
           /\ UNCHANGED cacheVars => CachesOK'
           /\ UNCHANGED <<msgs, up>> => MessagesOK'
           /\ UNCHANGED <<pc, arg>> => ControlOK'
           /\ UNCHANGED todo => TodoOK'
           /\ UNCHANGED held => HeldOK'
  BY DEF TypeOK, TableOK, CachesOK, MessagesOK, ControlOK, TodoOK, HeldOK, dbVars, cacheVars
-----------------------------------------------------------------------------
(* Reads keep the types.                                                     *)

\* A look-up in the cache: a hit is held, a miss is remembered.
LEMMA GetByIDCachedType ==
    ASSUME TypeOK, NEW c \in Clients, NEW id \in Ids, GetByIDCached(c, id)
    PROVE  ControlOK' /\ HeldOK'
<1> DEFINE cached == items[NodeOf[c]][id]
<1>1. cached \in Entity \cup {None}
  BY ConstantsAssumption DEF TypeOK, CachesOK, ConstantsAssumption
<1>2. CASE cached # None /\ Hold(c, cached) /\ Return(c)
  BY <1>1, <1>2, HoldType, ReturnType DEF TypeOK
<1>3. CASE UNCHANGED held /\ Goto(c, "getByID", [id |-> id])
  <2>1. "getByID" \in Labels /\ ArgFits("getByID", [id |-> id])
    BY DEF Labels, Querying, ArgFits
  <2> QED BY <1>3, <2>1, GotoType, UnchangedType DEF TypeOK
<1> QED BY <1>2, <1>3 DEF GetByIDCached

\* A bulk read goes on with the keys that the cache misses.
LEMMA GetBulkType ==
    ASSUME TypeOK, NEW c \in Clients, NEW label, NEW missing,
           \/ label = "getByIds" /\ missing \in SUBSET Ids
           \/ label = "getByUids" /\ missing \in SUBSET Uids,
           GetBulk(c, label, missing)
    PROVE  ControlOK'
<1>1. label \in Labels /\ ArgFits(label, [keys |-> missing, got |-> {}])
  BY DEF Labels, Querying, ArgFits
<1>2. CASE UNCHANGED <<pc, arg>>
  BY <1>2, UnchangedType
<1>3. CASE Goto(c, label, [keys |-> missing, got |-> {}])
  BY <1>1, <1>3, GotoType DEF TypeOK
<1> QED BY <1>2, <1>3 DEF GetBulk

\* The first step of every read operation keeps the types.
LEMMA ReadType ==
    ASSUME TypeOK, NEW c \in Clients, Read(c)
    PROVE  TypeOK'
<1>1. NodeOf[c] \in Nodes
  BY ConstantsAssumption DEF ConstantsAssumption
<1>2. ASSUME NEW id \in Ids, GetByID(c, id)
      PROVE  TypeOK'
  BY <1>2, GetByIDCachedType, UnchangedType DEF GetByID, TypeOK
<1>3. ASSUME NEW u \in Uids, GetByUid(c, u)
      PROVE  TypeOK'
  <2> DEFINE id == uidMap[NodeOf[c]][u]
  <2>1. id \in Ids \cup {None}
    BY <1>1 DEF TypeOK, CachesOK
  <2>2. CASE id # None /\ Goto(c, "mapped", [id |-> id])
    <3>1. "mapped" \in Labels /\ ArgFits("mapped", [id |-> id])
      BY <2>1, <2>2 DEF Labels, ArgFits
    <3>2. ControlOK'
      BY <2>2, <3>1, GotoType DEF TypeOK
    <3> QED BY <1>3, <3>2, UnchangedType DEF GetByUid, TypeOK
  <2>3. CASE Goto(c, "getByUid", [uid |-> u])
    <3>1. "getByUid" \in Labels /\ ArgFits("getByUid", [uid |-> u])
      BY DEF Labels, Querying, ArgFits
    <3>2. ControlOK'
      BY <2>3, <3>1, GotoType DEF TypeOK
    <3> QED BY <1>3, <3>2, UnchangedType DEF GetByUid, TypeOK
  <2> QED BY <1>3, <2>2, <2>3 DEF GetByUid
<1>4. ASSUME NEW ids \in SUBSET Ids, GetByIds(c, ids)
      PROVE  TypeOK'
  <2>1. ControlOK'
    BY <1>4, GetBulkType DEF GetByIds
  <2> QED BY <1>4, <2>1, UnchangedType DEF GetByIds, TypeOK
<1>5. ASSUME NEW uids \in SUBSET Uids, GetByUids(c, uids)
      PROVE  TypeOK'
  <2>1. ControlOK'
    BY <1>5, GetBulkType DEF GetByUids
  <2> QED BY <1>5, <2>1, UnchangedType DEF GetByUids, TypeOK
<1>6. CASE List(c)
  <2>1. epoch[NodeOf[c]] \in Nat /\ \A l \in CachedLists(NodeOf[c], "List") : l.ids \in SUBSET Ids
    BY <1>1 DEF TypeOK, CachesOK, CachedLists, ListEntry
  <2>2. ASSUME NEW l \in CachedLists(NodeOf[c], "List"),
               Goto(c, "listCached", [epoch |-> epoch[NodeOf[c]], ids |-> l.ids])
        PROVE  ControlOK'
    <3>1. "listCached" \in Labels
          /\ ArgFits("listCached", [epoch |-> epoch[NodeOf[c]], ids |-> l.ids])
      BY <2>1 DEF Labels, ArgFits
    <3> QED BY <2>2, <3>1, GotoType DEF TypeOK
  <2>3. ASSUME Goto(c, "list", [epoch |-> epoch[NodeOf[c]]])
        PROVE  ControlOK'
    <3>1. "list" \in Labels /\ ArgFits("list", [epoch |-> epoch[NodeOf[c]]])
      BY <2>1 DEF Labels, Querying, ArgFits
    <3> QED BY <2>3, <3>1, GotoType DEF TypeOK
  <2>4. ControlOK'
    BY <1>6, <2>2, <2>3 DEF List
  <2> QED BY <1>6, <2>4, UnchangedType DEF List, TypeOK
<1>7. CASE Count(c)
  <2>1. "count" \in Labels /\ ArgFits("count", [epoch |-> epoch[NodeOf[c]]])
    BY <1>1 DEF Labels, Querying, ArgFits, TypeOK, CachesOK
  <2>2. ControlOK'
    BY <1>7, <2>1, GotoType DEF TypeOK, Count
  <2> QED BY <1>7, <2>2, UnchangedType DEF Count, TypeOK
<1> QED BY <1>2, <1>3, <1>4, <1>5, <1>6, <1>7 DEF Read
-----------------------------------------------------------------------------
(* The statements and look-ups of running reads keep the types.              *)

\* What the type invariant says of one client.
LEMMA LocalType ==
    ASSUME TypeOK, NEW c \in Clients
    PROVE  /\ NodeOf[c] \in Nodes
           /\ pc[c] \in Labels
           /\ ArgFits(pc[c], arg[c])
           /\ todo[c] \in Seq(Task)
           /\ held[c] \in Entity \cup {None}
  BY ConstantsAssumption DEF ConstantsAssumption, TypeOK, ControlOK, TodoOK, HeldOK

\* What any read instance returns is an entity.
LEMMA ReadEntryType ==
    ASSUME TypeOK, NEW p \in ReadPositions, NEW id \in Ids
    PROVE  Entry(log[p], id) \in Entity
<1>1. log[p] \in [Ids -> Row]
  BY LogType DEF TypeOK
<1> QED BY <1>1, EntryType

\* Of the tasks only these lists occur: a fill, and a fill and one more task.
LEMMA FillThenType ==
    ASSUME NEW do \in {"setCached", "setCachedMapped"}, NEW es \in SUBSET Entity,
           NEW t \in Task
    PROVE  /\ FillTasks(do, es) \in Seq(Task)
           /\ FillTasks(do, es) \o << t >> \in Seq(Task)
  BY FillTasksType, SingletonType, ConcatType

\* A list that has been read can be cached.
LEMMA SetListTaskType ==
    ASSUME TypeOK, NEW kind \in {"List", "Count"}, NEW e \in Nat, NEW p \in ReadPositions
    PROVE  SetListTask(kind, e, p) \in Task
<1>1. p \in Nat
  BY LogType DEF TypeOK
<1>2. Selected(log[p]) \in SUBSET Ids
  BY DEF Selected, LiveIds
<1>3. [kind |-> kind, epoch |-> e, ids |-> Selected(log[p]), asOf |-> p] \in ListEntry
  BY <1>1, <1>2 DEF ListEntry
<1> QED BY <1>3, TaskType DEF SetListTask

\* One chunk of a bulk read keeps the types of the control variables.
LEMMA QueryChunkType ==
    ASSUME TypeOK, NEW c \in Clients,
           \/ pc[c] = "getByIds" \/ pc[c] = "getByUids",
           NEW chunk, NEW found \in SUBSET Entity,
           NEW do \in {"setCached", "setCachedMapped"},
           QueryChunk(c, chunk, found, do)
    PROVE  ControlOK' /\ TodoOK'
<1> DEFINE got == arg[c].got \cup found
           rest == [keys |-> arg[c].keys \ chunk, got |-> got]
<1>1. got \in SUBSET Entity /\ ArgFits(pc[c], rest) /\ pc[c] \in Labels
  BY LocalType DEF ArgFits
<1>2. CASE UNCHANGED todo /\ Goto(c, pc[c], rest)
  BY <1>1, <1>2, GotoType, UnchangedType DEF TypeOK
<1>3. CASE Return(c) /\ Then(c, FillTasks(do, got))
  BY <1>1, <1>3, FillTasksType, ThenType, ReturnType DEF TypeOK
<1> QED BY <1>2, <1>3 DEF QueryChunk

\* Every SELECT of a read operation keeps the types.
LEMMA QueryType ==
    ASSUME TypeOK, NEW c \in Clients, Query(c)
    PROVE  TypeOK'
<1>1. CASE GetByMappedID(c)
  <2>1. arg[c].id \in Ids
    BY <1>1, LocalType DEF GetByMappedID, At, ArgFits
  <2> QED BY <1>1, <2>1, GetByIDCachedType, UnchangedType DEF GetByMappedID, TypeOK
<1>2. CASE ListFromCache(c)
  <2>1. "list" \in Labels /\ ArgFits("list", [epoch |-> arg[c].epoch])
    BY <1>2, LocalType DEF ListFromCache, At, ArgFits, Labels, Querying
  <2>2. ControlOK'
    BY <1>2, <2>1, GotoType, ReturnType DEF ListFromCache, TypeOK
  <2> QED BY <1>2, <2>2, UnchangedType DEF ListFromCache, TypeOK
<1>3. CASE QueryByID(c)
  <2> DEFINE id == arg[c].id
  <2>1. id \in Ids
    BY <1>3, LocalType DEF QueryByID, At, ArgFits
  <2>2. ASSUME NEW p \in ReadPositions,
               Then(c, FillTasks("setCached", {Entry(log[p], id)})),
               Hold(c, Entry(log[p], id))
        PROVE  TodoOK' /\ HeldOK'
    BY <2>1, <2>2, ReadEntryType, FillTasksType, ThenType, HoldType DEF TypeOK
  <2>3. TodoOK' /\ HeldOK'
    BY <1>3, <2>2, UnchangedType DEF QueryByID
  <2>4. ControlOK'
    BY <1>3, ReturnType DEF QueryByID, TypeOK
  <2> QED BY <1>3, <2>3, <2>4, UnchangedType DEF QueryByID, TypeOK
<1>4. CASE QueryByUid(c)
  <2> DEFINE u == arg[c].uid
  <2>1. u \in Uids
    BY <1>4, LocalType DEF QueryByUid, At, ArgFits
  <2>2. ASSUME NEW p \in ReadPositions, NEW id \in IdsOfUid(log[p], u),
               Then(c, << [do |-> "setMapping", uid |-> u, id |-> id] >>),
               Hold(c, Entry(log[p], id))
        PROVE  TodoOK' /\ HeldOK'
    <3>1. id \in Ids
      BY DEF IdsOfUid, LiveIds
    <3> QED BY <2>1, <2>2, <3>1, ReadEntryType, TaskType, SingletonType, ThenType, HoldType
            DEF TypeOK
  <2>3. TodoOK' /\ HeldOK'
    BY <1>4, <2>2, UnchangedType DEF QueryByUid
  <2>4. ControlOK'
    BY <1>4, ReturnType DEF QueryByUid, TypeOK
  <2> QED BY <1>4, <2>3, <2>4, UnchangedType DEF QueryByUid, TypeOK
<1>5. CASE QueryByIds(c)
  <2>1. ASSUME NEW p \in ReadPositions, NEW chunk,
               QueryChunk(c, chunk, {Entry(log[p], id) : id \in chunk \cap LiveIds(log[p])},
                          "setCached")
        PROVE  ControlOK' /\ TodoOK'
    <3>1. {Entry(log[p], id) : id \in chunk \cap LiveIds(log[p])} \in SUBSET Entity
      BY ReadEntryType DEF LiveIds
    <3> QED BY <1>5, <2>1, <3>1, QueryChunkType DEF QueryByIds, At
  <2>2. ControlOK' /\ TodoOK'
    BY <1>5, <2>1 DEF QueryByIds
  <2> QED BY <1>5, <2>2, UnchangedType DEF QueryByIds, TypeOK
<1>6. CASE QueryByUids(c)
  <2> DEFINE found(p, chunk) ==
               {Entry(log[p], id) : id \in {i \in LiveIds(log[p]) : log[p][i].uid \in chunk}}
  <2>1. ASSUME NEW p \in ReadPositions, NEW chunk,
               QueryChunk(c, chunk, found(p, chunk), "setCachedMapped")
        PROVE  ControlOK' /\ TodoOK'
    <3>1. found(p, chunk) \in SUBSET Entity
      BY ReadEntryType DEF LiveIds
    <3> QED BY <1>6, <2>1, <3>1, QueryChunkType DEF QueryByUids, At
  <2>2. ControlOK' /\ TodoOK'
    BY <1>6, <2>1 DEF QueryByUids
  <2> QED BY <1>6, <2>2, UnchangedType DEF QueryByUids, TypeOK
<1>7. CASE QueryList(c)
  <2>1. ASSUME NEW p \in ReadPositions
        PROVE  FillTasks("setCached", {Entry(log[p], id) : id \in Selected(log[p])})
                 \o << SetListTask("List", arg[c].epoch, p) >> \in Seq(Task)
    <3>1. {Entry(log[p], id) : id \in Selected(log[p])} \in SUBSET Entity
      BY ReadEntryType DEF Selected, LiveIds
    <3>2. arg[c].epoch \in Nat
      BY <1>7, LocalType DEF QueryList, At, ArgFits
    <3>3. SetListTask("List", arg[c].epoch, p) \in Task
      BY <3>2, SetListTaskType
    <3> QED BY <3>1, <3>3, FillThenType
  <2>2. TodoOK'
    BY <1>7, <2>1, ThenType DEF QueryList, TypeOK
  <2>3. ControlOK'
    BY <1>7, ReturnType DEF QueryList, TypeOK
  <2> QED BY <1>7, <2>2, <2>3, UnchangedType DEF QueryList, TypeOK
<1>8. CASE QueryCount(c)
  <2>1. ASSUME NEW p \in ReadPositions
        PROVE  << SetListTask("Count", arg[c].epoch, p) >> \in Seq(Task)
    <3>1. arg[c].epoch \in Nat
      BY <1>8, LocalType DEF QueryCount, At, ArgFits
    <3>2. SetListTask("Count", arg[c].epoch, p) \in Task
      BY <3>1, SetListTaskType
    <3> QED BY <3>2, SingletonType
  <2>2. TodoOK'
    BY <1>8, <2>1, ThenType DEF QueryCount, TypeOK
  <2>3. ControlOK'
    BY <1>8, ReturnType DEF QueryCount, TypeOK
  <2> QED BY <1>8, <2>2, <2>3, UnchangedType DEF QueryCount, TypeOK
<1> QED BY <1>1, <1>2, <1>3, <1>4, <1>5, <1>6, <1>7, <1>8 DEF Query
-----------------------------------------------------------------------------
(* Writes keep the types.                                                    *)

\* What Update does with the caches.
LEMMA UpdateTasksType ==
    ASSUME NEW u \in Uids, NEW e \in Entity
    PROVE  /\ UpdateTasks(u, e) \in Seq(Task)
           /\ NextVersion(e) \in Entity
<1>1. NextVersion(e) \in Entity /\ e.id \in Ids
  BY DEF Entity, NextVersion
<1>2. FillTasks("setCached", {NextVersion(e)}) \in Seq(Task)
  BY <1>1, FillTasksType
<1>3. << InvalidateTask(e.id), FlushListTask >> \in Seq(Task)
  BY <1>1, TaskType, SingletonType
<1>4. (IF u # e.uid THEN << [do |-> "invalidateUid", uid |-> u] >> ELSE << >>) \in Seq(Task)
  BY TaskType, SingletonType
<1> QED BY <1>1, <1>2, <1>3, <1>4, ConcatType DEF UpdateTasks

\* What deletes and bulk updates do with the caches.
LEMMA WriteTasksType ==
    /\ FlushAllTasks \in Seq(Task)
    /\ \A id \in Ids : DeleteTasks(id) \in Seq(Task)
  BY TaskType, SingletonType DEF FlushAllTasks, DeleteTasks

\* A DELETE, or the UPDATE of a soft delete, keeps the types.
LEMMA DeleteRowsType ==
    ASSUME TypeOK, NEW c \in Clients, NEW ids \in SUBSET Ids, NEW rows \in [ids -> Row],
           NEW tasks \in Seq(Task), DeleteRows(c, rows, tasks)
    PROVE  TypeOK'
<1>1. [id \in Ids |-> IF id \in DOMAIN rows THEN rows[id] ELSE Primary[id]] \in [Ids -> Row]
  BY LogType DEF TypeOK
<1>2. TableOK'
  BY <1>1, CommitType DEF DeleteRows, TypeOK
<1>3. TodoOK'
  BY ThenType, UnchangedType DEF DeleteRows, Answered, TypeOK
<1> QED BY <1>2, <1>3, UnchangedType DEF DeleteRows, TypeOK

\* The start of a bulk update keeps the types.
LEMMA UpdateBulkType ==
    ASSUME TypeOK, NEW c \in Clients, NEW label, NEW keys, NEW age \in Ages,
           \/ label = "updateByIds" /\ keys \in SUBSET Ids
           \/ label = "updateByUids" /\ keys \in SUBSET Uids,
           UpdateBulk(c, label, keys, age)
    PROVE  TypeOK'
<1>1. label \in Labels /\ ArgFits(label, [keys |-> keys, age |-> age, changed |-> FALSE])
  BY DEF Labels, Querying, ArgFits
<1>2. ControlOK'
  BY <1>1, GotoType DEF UpdateBulk, TypeOK
<1> QED BY <1>2, UnchangedType DEF UpdateBulk, TypeOK

\* The first step of every write operation keeps the types.
LEMMA WriteType ==
    ASSUME TypeOK, NEW c \in Clients, Write(c)
    PROVE  TypeOK'
<1>1. ASSUME NEW row \in NewRow, Create(c, row)
      PROVE  TypeOK'
  <2>1. PICK id \in Ids :
          LET t == [Primary EXCEPT ![id] = Inserted(row)]
              e == Entry(t, id)
          IN  Commit(t)
              /\ AnsweredWith(c, e, FillTasks("setCached", {e}) \o << FlushListTask >>)
    BY <1>1 DEF Create
  <2> DEFINE t == [Primary EXCEPT ![id] = Inserted(row)]
             e == Entry(t, id)
  <2>2. t \in [Ids -> Row]
    BY RowType, LogType DEF TypeOK
  <2>3. e \in Entity
    BY <2>2, EntryType
  <2>4. FillTasks("setCached", {e}) \o << FlushListTask >> \in Seq(Task)
    BY <2>3, TaskType, FillThenType
  <2>5. TableOK'
    BY <2>1, <2>2, CommitType DEF TypeOK
  <2>6. TodoOK' /\ HeldOK'
    BY <2>1, <2>3, <2>4, ThenType, HoldType, UnchangedType DEF AnsweredWith, TypeOK
  <2> QED BY <1>1, <2>5, <2>6, UnchangedType DEF Create, TypeOK
<1>2. ASSUME NEW batch \in Batches, CreateBulk(c, batch)
      PROVE  TypeOK'
  <2>1. batch \in Seq(NewRow)
    BY ConstantsAssumption DEF Batches, Ids, ConstantsAssumption
  <2>2. "createBulk" \in Labels /\ ArgFits("createBulk", [batch |-> batch])
    BY <2>1 DEF Labels, Querying, ArgFits
  <2>3. ControlOK'
    BY <1>2, <2>2, GotoType DEF CreateBulk, TypeOK
  <2> QED BY <1>2, <2>3, UnchangedType DEF CreateBulk, TypeOK
<1>3. ASSUME NEW u \in Uids, NEW a \in Ages, Update(c, u, a)
      PROVE  TypeOK'
  <2> DEFINE e == [id |-> held[c].id, ver |-> held[c].ver, uid |-> u, age |-> a]
             cached == items[NodeOf[c]][e.id]
  <2>1. held[c] \in Entity
    BY <1>3, LocalType DEF Update
  <2>2. e \in Entity
    BY <2>1 DEF Entity
  <2>3. cached \in Entity \cup {None}
    BY <2>2, LocalType DEF Entity, TypeOK, CachesOK
  <2>4. ASSUME cached # None, Goto(c, "update", [new |-> e, oldUid |-> cached.uid])
        PROVE  ControlOK'
    <3>1. "update" \in Labels /\ ArgFits("update", [new |-> e, oldUid |-> cached.uid])
      BY <2>2, <2>3, <2>4 DEF Labels, Querying, ArgFits, Entity
    <3> QED BY <2>4, <3>1, GotoType DEF TypeOK
  <2>5. ASSUME Goto(c, "updateGet", [new |-> e, oldUid |-> e.uid])
        PROVE  ControlOK'
    <3>1. "updateGet" \in Labels /\ ArgFits("updateGet", [new |-> e, oldUid |-> e.uid])
      BY <2>2 DEF Labels, Querying, ArgFits, Entity
    <3> QED BY <2>5, <3>1, GotoType DEF TypeOK
  <2>6. ControlOK'
    BY <1>3, <2>4, <2>5 DEF Update
  <2> QED BY <1>3, <2>6, UnchangedType DEF Update, TypeOK
<1>4. ASSUME NEW ids \in SUBSET Ids, NEW a \in Ages, UpdateAgeByIds(c, ids, a)
      PROVE  TypeOK'
  BY <1>4, UpdateBulkType DEF UpdateAgeByIds
<1>5. ASSUME NEW uids \in SUBSET Uids, NEW a \in Ages, UpdateAgeByUids(c, uids, a)
      PROVE  TypeOK'
  BY <1>5, UpdateBulkType DEF UpdateAgeByUids
<1>6. ASSUME NEW id \in Ids, Delete(c, id) \/ HardDelete(c, id)
      PROVE  TypeOK'
  <2>1. \A i \in {id} : SoftDeleted(Primary[i]) \in Row /\ Purged(Primary[i]) \in Row
    BY LogType, RowType DEF TypeOK
  <2>2. /\ [i \in {id} |-> SoftDeleted(Primary[i])] \in [{id} -> Row]
        /\ [i \in {id} |-> Purged(Primary[i])] \in [{id} -> Row]
    BY <2>1
  <2> QED BY <1>6, <2>2, WriteTasksType, DeleteRowsType DEF Delete, HardDelete
<1>7. ASSUME NEW ids \in SUBSET Ids, DeleteOlder(c, ids) \/ HardDeleteOlder(c, ids)
      PROVE  TypeOK'
  <2>1. \A i \in ids : SoftDeleted(Primary[i]) \in Row /\ Purged(Primary[i]) \in Row
    BY LogType, RowType DEF TypeOK
  <2>2. /\ [i \in ids |-> SoftDeleted(Primary[i])] \in [ids -> Row]
        /\ [i \in ids |-> Purged(Primary[i])] \in [ids -> Row]
    BY <2>1
  <2> QED BY <1>7, <2>2, WriteTasksType, DeleteRowsType DEF DeleteOlder, HardDeleteOlder
<1> QED BY <1>1, <1>2, <1>3, <1>4, <1>5, <1>6, <1>7 DEF Write
-----------------------------------------------------------------------------
(* The statements of running writes keep the types.                          *)

\* One INSERT of a bulk create keeps the types: ids stay below MaxId.
LEMMA InsertChunkType ==
    ASSUME TypeOK, NEW c \in Clients, InsertChunk(c)
    PROVE  TypeOK'
<1> DEFINE batch == arg[c].batch
           k     == ChunkLen(c)
           new(first) == first..(first + k - 1)
           t(first) == [id \in Ids |-> IF id \in new(first) THEN Inserted(batch[id - first + 1])
                                                           ELSE Primary[id]]
           fill(first) == FillTasks("setCached", {Entry(t(first), id) : id \in new(first)})
<1>1. batch \in Seq(NewRow)
  BY LocalType DEF InsertChunk, At, ArgFits
<1>2. k \in Nat /\ k <= Len(batch)
  BY <1>1, ConstantsAssumption DEF ChunkLen, ConstantsAssumption
<1>3. PICK first \in Ids :
        /\ first + k - 1 <= MaxId
        /\ Commit(t(first))
        /\ \/ Return(c) /\ Then(c, fill(first) \o << FlushListTask >>)
           \/ /\ Goto(c, "createBulk", [batch |-> SubSeq(batch, k + 1, Len(batch))])
              /\ Then(c, fill(first))
           \/ Return(c) /\ UNCHANGED todo
  BY DEF InsertChunk
<1>4. first \in Nat /\ \A id \in Ids : id \in Nat
  BY ConstantsAssumption DEF ConstantsAssumption, Ids
<1>5. t(first) \in [Ids -> Row]
  <2>1. ASSUME NEW id \in Ids, id \in new(first)
        PROVE  Inserted(batch[id - first + 1]) \in Row
    <3>1. id - first + 1 \in 1..Len(batch)
      BY <1>2, <1>4, <2>1
    <3>2. batch[id - first + 1] \in NewRow
      BY <1>1, <3>1
    <3> QED BY <3>2, RowType
  <2> QED BY <2>1, LogType DEF TypeOK
<1>6. fill(first) \in Seq(Task) /\ fill(first) \o << FlushListTask >> \in Seq(Task)
  <2>1. new(first) \subseteq Ids
    BY <1>2, <1>3, <1>4, ConstantsAssumption DEF Ids, ConstantsAssumption
  <2>2. {Entry(t(first), id) : id \in new(first)} \in SUBSET Entity
    BY <1>5, <2>1, EntryType
  <2> QED BY <2>2, TaskType, FillThenType
<1>7. TableOK'
  BY <1>3, <1>5, CommitType DEF TypeOK
<1>8. TodoOK'
  BY <1>3, <1>6, ThenType, UnchangedType DEF TypeOK
<1>9. ControlOK'
  <2>1. SubSeq(batch, k + 1, Len(batch)) \in Seq(NewRow)
    BY <1>1, <1>2
  <2>2. /\ "createBulk" \in Labels
        /\ ArgFits("createBulk", [batch |-> SubSeq(batch, k + 1, Len(batch))])
    BY <2>1 DEF Labels, Querying, ArgFits
  <2> QED BY <1>3, <2>2, GotoType, ReturnType DEF TypeOK
<1> QED BY <1>7, <1>8, <1>9, UnchangedType DEF InsertChunk, TypeOK

\* One UPDATE of a bulk update keeps the types.
LEMMA UpdateChunkType ==
    ASSUME TypeOK, NEW c \in Clients, NEW chunk, NEW hit \in SUBSET Ids,
           \/ pc[c] = "updateByIds" \/ pc[c] = "updateByUids",
           UpdateChunk(c, chunk, hit)
    PROVE  TypeOK'
<1> DEFINE changed == arg[c].changed \/ hit # {}
           rest == [keys |-> arg[c].keys \ chunk, age |-> arg[c].age, changed |-> changed]
           t == [id \in Ids |-> IF id \in hit
                                THEN Touched(Primary[id], Primary[id].uid, arg[c].age)
                                ELSE Primary[id]]
<1>1. /\ arg[c].age \in Ages
      /\ pc[c] \in Labels
      /\ ArgFits(pc[c], rest)
  BY LocalType DEF ArgFits
<1>2. t \in [Ids -> Row]
  <2>1. Primary \in [Ids -> Row] /\ \A id \in Ids : Primary[id].uid \in Uids
    BY LogType DEF TypeOK, Row
  <2> QED BY <1>1, <2>1, RowType
<1>3. TableOK'
  <2>1. CASE UNCHANGED dbVars
    BY <2>1, UnchangedType
  <2>2. CASE Commit(t)
    BY <1>2, <2>2, CommitType DEF TypeOK
  <2> QED BY <2>1, <2>2 DEF UpdateChunk
<1>4. TodoOK'
  BY WriteTasksType, SingletonType, ThenType, UnchangedType DEF UpdateChunk, TypeOK
<1>5. ControlOK'
  BY <1>1, GotoType, ReturnType DEF UpdateChunk, TypeOK
<1> QED BY <1>3, <1>4, <1>5, UnchangedType DEF UpdateChunk, TypeOK

\* Every statement of a write operation keeps the types.
LEMMA ExecuteType ==
    ASSUME TypeOK, NEW c \in Clients, Execute(c)
    PROVE  TypeOK'
<1>1. CASE InsertChunk(c)
  BY <1>1, InsertChunkType
<1>2. CASE InsertChunkFails(c) \/ UpdateIsDuplicate(c)
  BY <1>2, ReturnType, UnchangedType DEF InsertChunkFails, UpdateIsDuplicate, TypeOK
<1>3. CASE QueryExisting(c)
  <2> DEFINE id == arg[c].new.id
             next(p) == [new |-> arg[c].new, oldUid |-> log[p][id].uid]
  <2>1. arg[c].new \in Entity /\ id \in Ids
    BY <1>3, LocalType DEF QueryExisting, At, ArgFits, Entity
  <2>2. ASSUME NEW p \in ReadPositions,
               Then(c, FillTasks("setCached", {Entry(log[p], id)})),
               Goto(c, "update", next(p))
        PROVE  TodoOK' /\ ControlOK'
    <3>1. log[p][id].uid \in Uids
      BY <2>1, LogType DEF TypeOK, Row
    <3>2. "update" \in Labels /\ ArgFits("update", next(p))
      BY <2>1, <3>1 DEF Labels, Querying, ArgFits
    <3> QED BY <2>1, <2>2, <3>2, ReadEntryType, FillTasksType, ThenType, GotoType DEF TypeOK
  <2>3. TodoOK' /\ ControlOK'
    BY <1>3, <2>2, ReturnType, UnchangedType DEF QueryExisting, TypeOK
  <2> QED BY <1>3, <2>3, UnchangedType DEF QueryExisting, TypeOK
<1>4. CASE ExecUpdate(c)
  <2> DEFINE e == arg[c].new
             t == [Primary EXCEPT ![e.id] = Touched(@, e.uid, e.age)]
  <2>1. e \in Entity /\ arg[c].oldUid \in Uids
    BY <1>4, LocalType DEF ExecUpdate, At, ArgFits
  <2>2. t \in [Ids -> Row]
    BY <2>1, LogType, RowType DEF TypeOK, Entity
  <2>3. TableOK'
    BY <1>4, <2>2, CommitType DEF ExecUpdate, TypeOK
  <2>4. TodoOK' /\ HeldOK'
    BY <1>4, <2>1, UpdateTasksType, ThenType, HoldType, UnchangedType
    DEF ExecUpdate, AnsweredWith, TypeOK
  <2> QED BY <1>4, <2>3, <2>4, ReturnType, UnchangedType DEF ExecUpdate, TypeOK
<1>5. CASE UpdateMisses(c)
  <2>1. arg[c].new.id \in Ids
    BY <1>5, LocalType DEF UpdateMisses, At, ArgFits, Entity
  <2>2. TodoOK'
    BY <1>5, <2>1, TaskType, SingletonType, ThenType DEF UpdateMisses, TypeOK
  <2> QED BY <1>5, <2>2, ReturnType, UnchangedType DEF UpdateMisses, TypeOK
<1>6. CASE UpdateChunkByIds(c) \/ UpdateChunkByUids(c)
  BY <1>6, UpdateChunkType DEF UpdateChunkByIds, UpdateChunkByUids, At, LiveIds
<1> QED BY <1>1, <1>2, <1>3, <1>4, <1>5, <1>6 DEF Execute
-----------------------------------------------------------------------------
(* The accesses to the caches keep the types.                                *)

\* Every task keeps the types.
LEMMA AccessCacheType ==
    ASSUME TypeOK, NEW c \in Clients, AccessCache(c)
    PROVE  TypeOK'
<1> DEFINE n == NodeOf[c]
           task == Head(todo[c])
<1>1. n \in Nodes
  BY LocalType
<1>2. todo[c] # << >> => task \in Task /\ Tail(todo[c]) \in Seq(Task)
  BY LocalType, HeadAndTailType
<1>3. CASE FillCache(c)
  <2>1. task \in Task /\ Tail(todo[c]) \in Seq(Task) /\ task.entities \in SUBSET Entity
    BY <1>2, <1>3, TaskFields DEF FillCache, Doing
  <2>2. PICK e \in task.entities :
          /\ SetCached(n, e)
          /\ Then(c, FillTasks("setCached", task.entities \ {e}) \o Tail(todo[c]))
    BY <1>3 DEF FillCache
  <2>3. items' \in [Nodes -> [Ids -> Entity \cup {None}]]
    BY <1>1, <2>1, <2>2, SetCachedType DEF TypeOK
  <2>4. FillTasks("setCached", task.entities \ {e}) \o Tail(todo[c]) \in Seq(Task)
    BY <2>1, FillTasksType, ConcatType
  <2>5. TodoOK'
    BY <2>2, <2>4, ThenType DEF TypeOK
  <2> QED BY <1>3, <2>3, <2>5, UnchangedType DEF FillCache, TypeOK, CachesOK
<1>4. CASE FillCacheMapped(c)
  <2>1. task \in Task /\ Tail(todo[c]) \in Seq(Task) /\ task.entities \in SUBSET Entity
    BY <1>2, <1>4, TaskFields DEF FillCacheMapped, Doing
  <2>2. PICK e \in task.entities :
          /\ SetCached(n, e)
          /\ Then(c, << [do |-> "setMapping", uid |-> e.uid, id |-> e.id] >>
                       \o FillTasks("setCachedMapped", task.entities \ {e})
                       \o Tail(todo[c]))
    BY <1>4 DEF FillCacheMapped
  <2>3. items' \in [Nodes -> [Ids -> Entity \cup {None}]]
    BY <1>1, <2>1, <2>2, SetCachedType DEF TypeOK
  <2>4. << [do |-> "setMapping", uid |-> e.uid, id |-> e.id] >> \in Seq(Task)
    BY <2>1, TaskType, SingletonType DEF Entity
  <2>5. FillTasks("setCachedMapped", task.entities \ {e}) \in Seq(Task)
    BY <2>1, FillTasksType
  <2>6. << [do |-> "setMapping", uid |-> e.uid, id |-> e.id] >>
          \o FillTasks("setCachedMapped", task.entities \ {e}) \o Tail(todo[c]) \in Seq(Task)
    BY <2>1, <2>4, <2>5, ConcatType
  <2>7. TodoOK'
    BY <2>2, <2>6, ThenType DEF TypeOK
  <2> QED BY <1>4, <2>3, <2>7, UnchangedType DEF FillCacheMapped, TypeOK, CachesOK
<1>5. CASE SetMapping(c)
  <2>1. task.uid \in Uids /\ task.id \in Ids /\ todo[c] # << >>
    BY <1>2, <1>5, TaskFields DEF SetMapping, Doing
  <2>2. uidMap' \in [Nodes -> [Uids -> Ids \cup {None}]]
    BY <1>1, <1>5, <2>1 DEF SetMapping, TypeOK, CachesOK
  <2>3. TodoOK'
    BY <1>5, <2>1, DoneType DEF SetMapping, TypeOK
  <2> QED BY <1>5, <2>2, <2>3, UnchangedType DEF SetMapping, TypeOK, CachesOK
<1>6. CASE SetList(c)
  <2>1. task.entry \in ListEntry /\ todo[c] # << >>
    BY <1>2, <1>6, TaskFields DEF SetList, Doing
  <2>2. lists' \in [Nodes -> SUBSET ListEntry]
    BY <1>1, <1>6, <2>1 DEF SetList, TypeOK, CachesOK
  <2>3. TodoOK'
    BY <1>6, <2>1, DoneType DEF SetList, TypeOK
  <2> QED BY <1>6, <2>2, <2>3, UnchangedType DEF SetList, TypeOK, CachesOK
<1>7. CASE InvalidateCache(c)
  <2>1. task.id \in Ids /\ todo[c] # << >>
    BY <1>2, <1>7, TaskFields DEF InvalidateCache, Doing
  <2>2. items' \in [Nodes -> [Ids -> Entity \cup {None}]]
    BY <1>1, <1>7, <2>1 DEF InvalidateCache, TypeOK, CachesOK
  <2>3. MessagesOK'
    BY <1>7, <2>1, MessageType, PublishType DEF InvalidateCache, TypeOK
  <2>4. TodoOK'
    BY <1>7, <2>1, DoneType DEF InvalidateCache, TypeOK
  <2> QED BY <1>7, <2>2, <2>3, <2>4, UnchangedType DEF InvalidateCache, TypeOK, CachesOK
<1>8. CASE InvalidateOldUid(c)
  <2>1. task.uid \in Uids /\ todo[c] # << >>
    BY <1>2, <1>8, TaskFields DEF InvalidateOldUid, Doing
  <2>2. uidMap' \in [Nodes -> [Uids -> Ids \cup {None}]]
    BY <1>1, <1>8, <2>1 DEF InvalidateOldUid, TypeOK, CachesOK
  <2>3. MessagesOK'
    BY <1>8, <2>1, MessageType, PublishType DEF InvalidateOldUid, TypeOK
  <2>4. TodoOK'
    BY <1>8, <2>1, DoneType DEF InvalidateOldUid, TypeOK
  <2> QED BY <1>8, <2>2, <2>3, <2>4, UnchangedType DEF InvalidateOldUid, TypeOK, CachesOK
<1>9. CASE FlushListCache(c)
  <2>1. epoch' \in [Nodes -> Nat] /\ flushedAt' \in [Nodes -> Nat]
    BY <1>1, <1>9, LogType DEF FlushListCache, BumpEpoch, TypeOK, CachesOK
  <2>2. MessagesOK'
    BY <1>9, MessageType, PublishType DEF FlushListCache, TypeOK
  <2>3. TodoOK'
    BY <1>9, DoneType DEF FlushListCache, Doing, TypeOK
  <2> QED BY <1>9, <2>1, <2>2, <2>3, UnchangedType DEF FlushListCache, TypeOK, CachesOK
<1>10. CASE FlushItems(c)
  <2>1. /\ items' \in [Nodes -> [Ids -> Entity \cup {None}]]
        /\ uidMap' \in [Nodes -> [Uids -> Ids \cup {None}]]
    BY <1>1, <1>10 DEF FlushItems, FlushCache, TypeOK, CachesOK
  <2>2. TodoOK'
    BY <1>10, DoneType DEF FlushItems, Doing, TypeOK
  <2> QED BY <1>10, <2>1, <2>2, UnchangedType DEF FlushItems, TypeOK, CachesOK
<1>11. CASE PublishFlushItem(c)
  <2>1. MessagesOK'
    BY <1>11, MessageType, PublishType DEF PublishFlushItem, TypeOK
  <2>2. TodoOK'
    BY <1>11, DoneType DEF PublishFlushItem, Doing, TypeOK
  <2> QED BY <1>11, <2>1, <2>2, UnchangedType DEF PublishFlushItem, TypeOK
<1> QED BY <1>3, <1>4, <1>5, <1>6, <1>7, <1>8, <1>9, <1>10, <1>11 DEF AccessCache
-----------------------------------------------------------------------------
(* What happens beside the clients keeps the types.                          *)

\* Every handler of a message keeps the types.
LEMMA DeliverType ==
    ASSUME TypeOK, NEW m \in msgs, Deliver(m)
    PROVE  TypeOK'
<1>1. m \in Message
  BY DEF TypeOK, MessagesOK
<1>2. m.to \in Nodes /\ (m.kind = "invalidateId" => m.key \in Ids)
      /\ (m.kind = "invalidateUid" => m.key \in Uids)
  BY <1>1, MessageFields
<1>3. CASE OnCacheInvalidated(m)
  <2>1. /\ items' \in [Nodes -> [Ids -> Entity \cup {None}]]
        /\ uidMap' \in [Nodes -> [Uids -> Ids \cup {None}]]
    <3>1. /\ items \in [Nodes -> [Ids -> Entity \cup {None}]]
          /\ uidMap \in [Nodes -> [Uids -> Ids \cup {None}]]
      BY DEF TypeOK, CachesOK
    <3>2. CASE items' = [items EXCEPT ![m.to][m.key] = None] /\ UNCHANGED uidMap
      BY <3>1, <3>2
    <3>3. CASE uidMap' = [uidMap EXCEPT ![m.to][m.key] = None] /\ UNCHANGED items
      BY <3>1, <3>3
    <3> QED BY <1>3, <3>2, <3>3 DEF OnCacheInvalidated
  <2>2. MessagesOK'
    BY <1>3 DEF OnCacheInvalidated, Receive, TypeOK, MessagesOK
  <2> QED BY <1>3, <2>1, <2>2, UnchangedType DEF OnCacheInvalidated, TypeOK, CachesOK, clientVars
<1>4. CASE OnBumpEpoch(m)
  <2>1. epoch' \in [Nodes -> Nat] /\ flushedAt' \in [Nodes -> Nat]
    BY <1>2, <1>4, LogType DEF OnBumpEpoch, BumpEpoch, TypeOK, CachesOK
  <2>2. MessagesOK'
    BY <1>4 DEF OnBumpEpoch, Receive, TypeOK, MessagesOK
  <2> QED BY <1>4, <2>1, <2>2, UnchangedType DEF OnBumpEpoch, TypeOK, CachesOK, clientVars
<1>5. CASE OnCacheFlushItem(m)
  <2>1. /\ items' \in [Nodes -> [Ids -> Entity \cup {None}]]
        /\ uidMap' \in [Nodes -> [Uids -> Ids \cup {None}]]
    BY <1>2, <1>5 DEF OnCacheFlushItem, FlushCache, TypeOK, CachesOK
  <2>2. MessagesOK'
    BY <1>5 DEF OnCacheFlushItem, Receive, TypeOK, MessagesOK
  <2> QED BY <1>5, <2>1, <2>2, UnchangedType DEF OnCacheFlushItem, TypeOK, CachesOK, clientVars
<1> QED BY <1>3, <1>4, <1>5 DEF Deliver

\* An expiration keeps the types.
LEMMA ExpireType ==
    ASSUME TypeOK, NEW n \in Nodes, Expire(n)
    PROVE  TypeOK'
<1>1. ASSUME NEW id \in Ids, ExpireItem(n, id)
      PROVE  TypeOK'
  <2>1. items' \in [Nodes -> [Ids -> Entity \cup {None}]]
    BY <1>1 DEF ExpireItem, TypeOK, CachesOK
  <2> QED BY <1>1, <2>1, UnchangedType DEF ExpireItem, TypeOK, CachesOK, clientVars
<1>2. ASSUME NEW u \in Uids, ExpireMapping(n, u)
      PROVE  TypeOK'
  <2>1. uidMap' \in [Nodes -> [Uids -> Ids \cup {None}]]
    BY <1>2 DEF ExpireMapping, TypeOK, CachesOK
  <2> QED BY <1>2, <2>1, UnchangedType DEF ExpireMapping, TypeOK, CachesOK, clientVars
<1>3. CASE ExpireLists(n)
  <2>1. lists' \in [Nodes -> SUBSET ListEntry]
    BY <1>3 DEF ExpireLists, TypeOK, CachesOK
  <2> QED BY <1>3, <2>1, UnchangedType DEF ExpireLists, TypeOK, CachesOK, clientVars
<1> QED BY <1>1, <1>2, <1>3 DEF Expire

\* A restart keeps the types.
LEMMA RestartType ==
    ASSUME TypeOK, NEW n \in Nodes, Restart(n)
    PROVE  TypeOK'
<1>1. CachesOK'
  <2>1. /\ items' \in [Nodes -> [Ids -> Entity \cup {None}]]
        /\ uidMap' \in [Nodes -> [Uids -> Ids \cup {None}]]
    BY DEF Restart, FlushCache, TypeOK, CachesOK
  <2>2. /\ lists' \in [Nodes -> SUBSET ListEntry]
        /\ flushedAt' \in [Nodes -> Nat] /\ epoch' \in [Nodes -> Nat]
    BY LogType DEF Restart, TypeOK, CachesOK
  <2> QED BY <2>1, <2>2 DEF CachesOK
<1>2. MessagesOK'
  BY DEF Restart, TypeOK, MessagesOK
<1>3. TodoOK' /\ HeldOK'
  BY SingletonType DEF Restart, TypeOK, TodoOK, HeldOK
<1>4. ControlOK'
  <2>1. "idle" \in Labels /\ ArgFits("idle", None)
    BY DEF Labels, ArgFits
  <2>2. pc' \in [Clients -> Labels] /\ DOMAIN arg' = Clients
    BY <2>1 DEF Restart, TypeOK, ControlOK
  <2>3. ASSUME NEW c \in Clients
        PROVE  ArgFits(pc'[c], arg'[c])
    BY <2>1 DEF Restart, TypeOK, ControlOK
  <2> QED BY <2>2, <2>3 DEF ControlOK
<1> QED BY <1>1, <1>2, <1>3, <1>4, UnchangedType DEF Restart, TypeOK

\* So do errors, losses, replication, subscription and stuttering.
LEMMA FaultType ==
    ASSUME TypeOK
    PROVE  /\ \A c \in Clients : DatabaseError(c) => TypeOK'
           /\ \A m \in msgs : LoseMessage(m) => TypeOK'
           /\ \A n \in Nodes : Subscribe(n) => TypeOK'
           /\ Replicate => TypeOK'
           /\ UNCHANGED vars => TypeOK'
<1>1. ASSUME NEW c \in Clients, DatabaseError(c)
      PROVE  TypeOK'
  BY <1>1, ReturnType, UnchangedType DEF DatabaseError, TypeOK
<1>2. ASSUME NEW m \in msgs, LoseMessage(m)
      PROVE  TypeOK'
  <2>1. MessagesOK'
    BY <1>2 DEF LoseMessage, TypeOK, MessagesOK
  <2> QED BY <1>2, <2>1, UnchangedType DEF LoseMessage, TypeOK, clientVars
<1>3. ASSUME NEW n \in Nodes, Subscribe(n)
      PROVE  TypeOK'
  <2>1. MessagesOK'
    BY <1>3 DEF Subscribe, TypeOK, MessagesOK
  <2> QED BY <1>3, <2>1, UnchangedType DEF Subscribe, TypeOK, clientVars
<1>4. CASE Replicate
  <2>1. TableOK'
    BY <1>4 DEF Replicate, TypeOK, TableOK
  <2> QED BY <1>4, <2>1, UnchangedType DEF Replicate, TypeOK, clientVars
<1>5. CASE UNCHANGED vars
  BY <1>5, UnchangedType DEF TypeOK, vars, clientVars
<1> QED BY <1>1, <1>2, <1>3, <1>4, <1>5
-----------------------------------------------------------------------------
\* The first state: a seeded table and empty caches.
LEMMA InitType == Init => TypeOK
<1> SUFFICES ASSUME Init PROVE TypeOK
  OBVIOUS
<1> DEFINE unborn == [state |-> "unborn", ver |-> 0, uid |-> CHOOSE u \in Uids : TRUE,
                      age |-> CHOOSE a \in Ages : TRUE]
           t == [id \in Ids |-> IF id <= Len(Seed) THEN Inserted(Seed[id]) ELSE unborn]
<1>1. unborn \in Row
  BY ConstantsAssumption DEF ConstantsAssumption, Row
<1>2. ASSUME NEW id \in Ids, id <= Len(Seed)
      PROVE  Inserted(Seed[id]) \in Row
  <2>1. Seed[id] \in NewRow
    BY <1>2, ConstantsAssumption DEF ConstantsAssumption, Ids
  <2> QED BY <2>1, RowType
<1>3. t \in [Ids -> Row]
  BY <1>1, <1>2
<1>4. log = << t >> /\ synced = 1
  BY DEF Init
<1>5. TableOK
  <2> HIDE DEF t
  <2>1. Len(log) = 1 /\ log \in Seq([Ids -> Row])
    BY <1>3, <1>4
  <2> QED BY <1>4, <2>1 DEF TableOK
<1>6. CachesOK
  <2>1. /\ items \in [Nodes -> [Ids -> Entity \cup {None}]]
        /\ uidMap \in [Nodes -> [Uids -> Ids \cup {None}]]
    BY DEF Init
  <2>2. lists \in [Nodes -> SUBSET ListEntry]
    BY DEF Init
  <2>3. epoch \in [Nodes -> Nat] /\ flushedAt \in [Nodes -> Nat]
    BY DEF Init
  <2> QED BY <2>1, <2>2, <2>3 DEF CachesOK
<1>7. MessagesOK
  BY DEF Init, MessagesOK
<1>8. ControlOK
  BY DEF Init, ControlOK, Labels, ArgFits
<1>9. TodoOK /\ HeldOK
  BY SingletonType DEF Init, TodoOK, HeldOK
<1> QED BY <1>5, <1>6, <1>7, <1>8, <1>9 DEF TypeOK

\* Every step keeps the types: one case per disjunct of Next.
LEMMA NextType ==
    ASSUME TypeOK, [Next]_vars
    PROVE  TypeOK'
<1>1. ASSUME NEW c \in Clients, Read(c) \/ Write(c) \/ Continue(c)
      PROVE  TypeOK'
  BY <1>1, ReadType, WriteType, QueryType, ExecuteType, AccessCacheType, FaultType DEF Continue
<1>2. ASSUME NEW m \in msgs, Deliver(m) \/ LoseMessage(m)
      PROVE  TypeOK'
  BY <1>2, DeliverType, FaultType
<1>3. ASSUME NEW n \in Nodes, Expire(n) \/ Restart(n) \/ Subscribe(n)
      PROVE  TypeOK'
  BY <1>3, ExpireType, RestartType, FaultType
<1>4. CASE Replicate \/ UNCHANGED vars
  BY <1>4, FaultType
<1> QED BY <1>1, <1>2, <1>3, <1>4 DEF Next

\* Every variable of every reachable state has its type: whatever the numbers of
\* nodes, clients and rows, the bounds, the operations and the faults.
THEOREM TypeCorrect == Spec => []TypeOK
<1>1. TypeOK /\ [Next]_vars => TypeOK'
  BY NextType
<1> QED BY InitType, <1>1, PTL DEF Spec
=============================================================================

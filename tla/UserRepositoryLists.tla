------------------------- MODULE UserRepositoryLists -------------------------
(* ListInv is inductive when the read instances do not lag, FlushInv when      *)
(* nothing keeps a writer from flushing; what follows.                         *)
EXTENDS UserRepositorySafety

Readers == {"list", "listCached", "count"}

\* The tasks cache no list.
NoSets(tasks) == \A i \in 1..Len(tasks) : tasks[i].do # "setList"

LogIsLonger == Len(log) \in Nat /\ Len(log') \in Nat /\ Len(log) <= Len(log')
-----------------------------------------------------------------------------
(* The lists of tasks.                                                       *)

\* Tasks that cache no list are in order, whatever the epoch.
LEMMA NoSetsInOrder ==
    ASSUME NEW tasks, NoSets(tasks), NEW e, NEW f
    PROVE  SetsInOrder(tasks, e, f)
  BY DEF NoSets, SetsInOrder

\* The tasks that cache no list.
LEMMA NothingSet ==
    /\ NoSets(<< >>)
    /\ \A t : t.do # "setList" => NoSets(<< t >>)
    /\ \A t, u : t.do # "setList" /\ u.do # "setList" => NoSets(<< t, u >>)
    /\ \A t, u, v : t.do # "setList" /\ u.do # "setList" /\ v.do # "setList"
                      => NoSets(<< t, u, v >>)
    /\ \A do \in {"setCached", "setCachedMapped"} : \A es : NoSets(FillTasks(do, es))
  BY DEF NoSets, FillTasks

\* Two lists of such tasks after each other.
LEMMA ConcatNoSets ==
    ASSUME NEW s \in Seq(Task), NEW t \in Seq(Task), NoSets(s), NoSets(t)
    PROVE  NoSets(s \o t)
<1>1. SUFFICES ASSUME NEW i \in 1..Len(s \o t)
               PROVE  (s \o t)[i].do # "setList"
  BY DEF NoSets
<1>2. CASE i \in 1..Len(s)
  <2>1. (s \o t)[i] = s[i]
    BY <1>2
  <2> QED BY <1>2, <2>1 DEF NoSets
<1>3. CASE i \notin 1..Len(s)
  <2>1. i - Len(s) \in 1..Len(t) /\ (s \o t)[i] = t[i - Len(s)]
    BY <1>3
  <2> QED BY <2>1 DEF NoSets
<1> QED BY <1>2, <1>3

\* Two lists of tasks that are in order, after each other.
LEMMA ConcatInOrder ==
    ASSUME NEW e, NEW f, NEW s \in Seq(Task), NEW t \in Seq(Task),
           SetsInOrder(s, e, f), SetsInOrder(t, e, f)
    PROVE  SetsInOrder(s \o t, e, f)
<1>1. SUFFICES ASSUME NEW i \in 1..Len(s \o t), (s \o t)[i].do = "setList"
               PROVE  InOrder((s \o t)[i].entry, e, f)
  BY DEF SetsInOrder
<1>2. CASE i \in 1..Len(s)
  <2>1. (s \o t)[i] = s[i]
    BY <1>2
  <2> QED BY <1>1, <1>2, <2>1 DEF SetsInOrder
<1>3. CASE i \notin 1..Len(s)
  <2>1. i - Len(s) \in 1..Len(t) /\ (s \o t)[i] = t[i - Len(s)]
    BY <1>3
  <2> QED BY <1>1, <2>1 DEF SetsInOrder
<1> QED BY <1>2, <1>3

\* The first task of a list in order, and what remains after it.
LEMMA TailInOrder ==
    ASSUME NEW e, NEW f, NEW s \in Seq(Task), s # << >>, SetsInOrder(s, e, f)
    PROVE  /\ SetsInOrder(Tail(s), e, f)
           /\ Head(s).do = "setList" => InOrder(Head(s).entry, e, f)
<1>1. Head(s).do = "setList" => InOrder(Head(s).entry, e, f)
  BY DEF SetsInOrder
<1>2. ASSUME NEW i \in 1..Len(Tail(s)), Tail(s)[i].do = "setList"
      PROVE  InOrder(Tail(s)[i].entry, e, f)
  <2>1. i + 1 \in 1..Len(s) /\ Tail(s)[i] = s[i + 1]
    OBVIOUS
  <2> QED BY <1>2, <2>1 DEF SetsInOrder
<1> QED BY <1>1, <1>2 DEF SetsInOrder

\* The tasks of the writes cache no list.
LEMMA WriteTasksNoSets ==
    /\ NoSets(FlushAllTasks)
    /\ \A id : NoSets(DeleteTasks(id))
    /\ \A e \in Entity : NoSets(FillTasks("setCached", {e}) \o << FlushListTask >>)
    /\ \A u \in Uids, e \in Entity : NoSets(UpdateTasks(u, e))
<1>1. FlushListTask.do # "setList" /\ \A id : InvalidateTask(id).do # "setList"
  BY DEF FlushListTask, InvalidateTask
<1>2. NoSets(FlushAllTasks) /\ \A id : NoSets(DeleteTasks(id))
  BY <1>1, NothingSet DEF FlushAllTasks, DeleteTasks
<1>3. NoSets(<< FlushListTask >>) /\ << FlushListTask >> \in Seq(Task)
  BY <1>1, NothingSet, TaskType, SingletonType
<1>4. ASSUME NEW e \in Entity
      PROVE  NoSets(FillTasks("setCached", {e}) \o << FlushListTask >>)
  BY <1>3, NothingSet, FillTasksType, ConcatNoSets
<1>5. ASSUME NEW u \in Uids, NEW e \in Entity
      PROVE  NoSets(UpdateTasks(u, e))
  <2> DEFINE s1 == IF u # e.uid THEN << [do |-> "invalidateUid", uid |-> u] >> ELSE << >>
             s2 == << InvalidateTask(e.id), FlushListTask >>
             s3 == FillTasks("setCached", {NextVersion(e)})
  <2>1. s1 \in Seq(Task) /\ NoSets(s1)
    BY TaskType, SingletonType, NothingSet
  <2>2. s2 \in Seq(Task) /\ NoSets(s2)
    BY <1>1, TaskType, SingletonType, NothingSet DEF Entity
  <2>3. s3 \in Seq(Task) /\ NoSets(s3)
    BY UpdateTasksType, FillTasksType, NothingSet
  <2> HIDE DEF s1, s2, s3
  <2>4. s1 \o s2 \in Seq(Task) /\ NoSets(s1 \o s2)
    BY <2>1, <2>2, ConcatType, ConcatNoSets
  <2>5. NoSets((s1 \o s2) \o s3)
    BY <2>3, <2>4, ConcatNoSets
  <2> QED BY <2>5 DEF UpdateTasks, s1, s2, s3
<1> QED BY <1>2, <1>4, <1>5
-----------------------------------------------------------------------------
(* ListInv, part by part.                                                    *)

\* The log only gets longer.
LEMMA CommitIsLonger ==
    ASSUME TypeOK, UNCHANGED log \/ \E t : Commit(t)
    PROVE  LogIsLonger
<1>1. log \in Seq([Ids -> Row]) /\ Len(log) \in Nat
  BY LogType DEF TypeOK, TableOK
<1>2. CASE UNCHANGED log
  BY <1>1, <1>2 DEF LogIsLonger
<1>3. ASSUME NEW t, Commit(t)
      PROVE  LogIsLonger
  <2>1. Len(log') = Len(log) + 1
    BY <1>1, <1>3 DEF Commit
  <2> QED BY <1>1, <2>1 DEF LogIsLonger
<1> QED BY <1>2, <1>3

\* What a step leaves alone stays in order if no epoch is bumped.
LEMMA KeptInOrder ==
    ASSUME TypeOK, ListInv, LogIsLonger, UNCHANGED <<epoch, flushedAt>>
    PROVE  /\ FlushesInOrder'
           /\ UNCHANGED lists => ListsInOrder'
           /\ UNCHANGED todo => TasksInOrder'
           /\ UNCHANGED <<pc, arg>> => ReadersInOrder'
<1>1. FlushesInOrder'
  <2>1. \A n \in Nodes : flushedAt[n] \in Nat
    BY DEF TypeOK, CachesOK
  <2> QED BY <2>1 DEF ListInv, FlushesInOrder, LogIsLonger
<1>2. UNCHANGED lists => ListsInOrder'
  BY DEF ListInv, ListsInOrder
<1>3. UNCHANGED todo => TasksInOrder'
  BY DEF ListInv, TasksInOrder
<1>4. UNCHANGED <<pc, arg>> => ReadersInOrder'
  BY DEF ListInv, ReadersInOrder
<1> QED BY <1>1, <1>2, <1>3, <1>4

\* A client gets tasks that are in order.
LEMMA ThenInOrder ==
    ASSUME TypeOK, ListInv, UNCHANGED <<epoch, flushedAt>>, NEW c \in Clients, NEW tasks,
           Then(c, tasks), SetsInOrder(tasks, epoch[NodeOf[c]], flushedAt[NodeOf[c]])
    PROVE  TasksInOrder'
<1>1. ASSUME NEW d \in Clients
      PROVE  SetsInOrder(todo'[d], epoch[NodeOf[d]], flushedAt[NodeOf[d]])
  <2>1. CASE d = c
    <3>1. todo'[d] = tasks
      BY <2>1 DEF Then, TypeOK, TodoOK
    <3> QED BY <2>1, <3>1
  <2>2. CASE d # c
    <3>1. todo'[d] = todo[d]
      BY <2>2 DEF Then, TypeOK, TodoOK
    <3> QED BY <3>1 DEF ListInv, TasksInOrder
  <2> QED BY <2>1, <2>2
<1> QED BY <1>1 DEF TasksInOrder

\* A client goes on with an epoch its node has had.
LEMMA GotoInOrder ==
    ASSUME TypeOK, ListInv, UNCHANGED epoch, NEW c \in Clients, NEW label, NEW a,
           Goto(c, label, a), label \in Readers => a.epoch <= epoch[NodeOf[c]]
    PROVE  ReadersInOrder'
<1>1. ASSUME NEW d \in Clients, pc'[d] \in Readers
      PROVE  arg'[d].epoch <= epoch[NodeOf[d]]
  <2>1. CASE d = c
    <3>1. pc'[d] = label /\ arg'[d] = a
      BY <2>1 DEF Goto, TypeOK, ControlOK
    <3> QED BY <1>1, <2>1, <3>1
  <2>2. CASE d # c
    <3>1. pc'[d] = pc[d] /\ arg'[d] = arg[d]
      BY <2>2 DEF Goto, TypeOK, ControlOK
    <3> QED BY <1>1, <3>1 DEF ListInv, ReadersInOrder, Readers
  <2> QED BY <2>1, <2>2
<1> QED BY <1>1 DEF ReadersInOrder, Readers

\* A step of a client that has nothing to do with lists.
PlainStep(c) ==
    /\ UNCHANGED log \/ \E t : Commit(t)
    /\ UNCHANGED <<lists, epoch, flushedAt>>
    /\ UNCHANGED <<pc, arg>> \/ \E label, a : label \notin Readers /\ Goto(c, label, a)
    /\ UNCHANGED todo \/ \E tasks : NoSets(tasks) /\ Then(c, tasks)

\* A step that neither bumps an epoch nor handles lists keeps the order.
LEMMA PlainStepInOrder ==
    ASSUME TypeOK, ListInv, NEW c \in Clients, PlainStep(c)
    PROVE  ListInv'
<1>1. LogIsLonger
  BY CommitIsLonger DEF PlainStep
<1>2. ReadersInOrder'
  BY <1>1, GotoInOrder, KeptInOrder DEF PlainStep
<1>3. TasksInOrder'
  BY <1>1, NoSetsInOrder, ThenInOrder, KeptInOrder DEF PlainStep
<1> QED BY <1>1, <1>2, <1>3, KeptInOrder DEF PlainStep, ListInv
-----------------------------------------------------------------------------
(* The steps of clients that have nothing to do with lists.                  *)

\* A client that returns is no reader of lists.
LEMMA ReturnIsPlain ==
    ASSUME NEW c \in Clients, Return(c)
    PROVE  \E label, a : label \notin Readers /\ Goto(c, label, a)
  BY DEF Return, Readers

\* The look-up of GetByID handles no list.
LEMMA GetByIDCachedIsPlain ==
    ASSUME NEW c \in Clients, NEW id, GetByIDCached(c, id),
           UNCHANGED <<log, lists, epoch, flushedAt, todo>>
    PROVE  PlainStep(c)
<1>1. \E label, a : label \notin Readers /\ Goto(c, label, a)
  <2>1. CASE Return(c)
    BY <2>1, ReturnIsPlain
  <2>2. CASE Goto(c, "getByID", [id |-> id])
    BY <2>2 DEF Readers
  <2> QED BY <2>1, <2>2 DEF GetByIDCached
<1> QED BY <1>1 DEF PlainStep

\* Nor does that of the bulk reads.
LEMMA GetBulkIsPlain ==
    ASSUME NEW c \in Clients, NEW label \in {"getByIds", "getByUids"}, NEW missing,
           GetBulk(c, label, missing), UNCHANGED <<log, lists, epoch, flushedAt, todo>>
    PROVE  PlainStep(c)
<1>1. label \notin Readers
  BY DEF Readers
<1> QED BY <1>1 DEF GetBulk, PlainStep

\* Of the read operations only List and Count handle lists.
LEMMA ReadIsPlain ==
    ASSUME NEW c \in Clients, Read(c), ~List(c), ~Count(c)
    PROVE  PlainStep(c)
<1>1. ASSUME NEW id \in Ids, GetByID(c, id)
      PROVE  PlainStep(c)
  BY <1>1, GetByIDCachedIsPlain DEF GetByID, dbVars, cacheVars
<1>2. ASSUME NEW u \in Uids, GetByUid(c, u)
      PROVE  PlainStep(c)
  BY <1>2 DEF GetByUid, PlainStep, Readers, dbVars, cacheVars
<1>3. ASSUME NEW ids \in SUBSET Ids, GetByIds(c, ids)
      PROVE  PlainStep(c)
  BY <1>3, GetBulkIsPlain DEF GetByIds, dbVars, cacheVars
<1>4. ASSUME NEW uids \in SUBSET Uids, GetByUids(c, uids)
      PROVE  PlainStep(c)
  BY <1>4, GetBulkIsPlain DEF GetByUids, dbVars, cacheVars
<1> QED BY <1>1, <1>2, <1>3, <1>4 DEF Read

\* A delete handles no list until its tasks.
LEMMA DeleteRowsIsPlain ==
    ASSUME NEW c \in Clients, NEW rows, NEW tasks, NoSets(tasks), DeleteRows(c, rows, tasks)
    PROVE  PlainStep(c)
  BY DEF DeleteRows, Answered, PlainStep, cacheVars

\* Nor does the start of a bulk update.
LEMMA UpdateBulkIsPlain ==
    ASSUME NEW c \in Clients, NEW label \in {"updateByIds", "updateByUids"}, NEW keys, NEW age,
           UpdateBulk(c, label, keys, age)
    PROVE  PlainStep(c)
<1>1. label \notin Readers
  BY DEF Readers
<1> QED BY <1>1 DEF UpdateBulk, PlainStep, dbVars, cacheVars

\* Nor does the first step of any write operation.
LEMMA WriteIsPlain ==
    ASSUME TypeOK, NEW c \in Clients, Write(c)
    PROVE  PlainStep(c)
<1>1. ASSUME NEW row \in NewRow, Create(c, row)
      PROVE  PlainStep(c)
  <2>1. PICK id \in Ids :
          LET t == [Primary EXCEPT ![id] = Inserted(row)]
              e == Entry(t, id)
          IN  Commit(t)
              /\ AnsweredWith(c, e, FillTasks("setCached", {e}) \o << FlushListTask >>)
    BY <1>1 DEF Create
  <2> DEFINE t == [Primary EXCEPT ![id] = Inserted(row)]
             e == Entry(t, id)
             tasks == FillTasks("setCached", {e}) \o << FlushListTask >>
  <2>2. e \in Entity
    BY LogType, RowType, EntryType DEF TypeOK
  <2>3. NoSets(tasks)
    BY <2>2, WriteTasksNoSets
  <2>4. UNCHANGED todo \/ Then(c, tasks)
    BY <2>1 DEF AnsweredWith
  <2>5. UNCHANGED <<lists, epoch, flushedAt>> /\ UNCHANGED <<pc, arg>>
    BY <1>1 DEF Create, cacheVars
  <2> HIDE DEF tasks, t
  <2> QED BY <2>1, <2>3, <2>4, <2>5 DEF PlainStep, t
<1>2. ASSUME NEW batch \in Batches, CreateBulk(c, batch)
      PROVE  PlainStep(c)
  BY <1>2 DEF CreateBulk, PlainStep, Readers, dbVars, cacheVars
<1>3. ASSUME NEW u \in Uids, NEW a \in Ages, Update(c, u, a)
      PROVE  PlainStep(c)
  BY <1>3 DEF Update, PlainStep, Readers, dbVars, cacheVars
<1>4. ASSUME NEW ids \in SUBSET Ids, NEW a \in Ages, UpdateAgeByIds(c, ids, a)
      PROVE  PlainStep(c)
  BY <1>4, UpdateBulkIsPlain DEF UpdateAgeByIds
<1>5. ASSUME NEW uids \in SUBSET Uids, NEW a \in Ages, UpdateAgeByUids(c, uids, a)
      PROVE  PlainStep(c)
  BY <1>5, UpdateBulkIsPlain DEF UpdateAgeByUids
<1>6. ASSUME NEW id \in Ids, Delete(c, id) \/ HardDelete(c, id)
      PROVE  PlainStep(c)
  BY <1>6, WriteTasksNoSets, DeleteRowsIsPlain DEF Delete, HardDelete
<1>7. ASSUME NEW ids \in SUBSET Ids, DeleteOlder(c, ids) \/ HardDeleteOlder(c, ids)
      PROVE  PlainStep(c)
  BY <1>7, WriteTasksNoSets, DeleteRowsIsPlain DEF DeleteOlder, HardDeleteOlder
<1> QED BY <1>1, <1>2, <1>3, <1>4, <1>5, <1>6, <1>7 DEF Write

\* A chunk of a bulk read handles no list.
LEMMA QueryChunkIsPlain ==
    ASSUME NEW c \in Clients, pc[c] \in {"getByIds", "getByUids"}, NEW chunk, NEW found,
           NEW do \in {"setCached", "setCachedMapped"}, QueryChunk(c, chunk, found, do),
           UNCHANGED <<log, lists, epoch, flushedAt>>
    PROVE  PlainStep(c)
<1>1. pc[c] \notin Readers
  BY DEF Readers
<1>2. \E label, a : label \notin Readers /\ Goto(c, label, a)
  BY <1>1, ReturnIsPlain DEF QueryChunk
<1>3. UNCHANGED todo \/ \E tasks : NoSets(tasks) /\ Then(c, tasks)
  BY NothingSet DEF QueryChunk
<1> QED BY <1>2, <1>3 DEF PlainStep

\* Of the SELECTs only those of List and Count handle lists.
LEMMA QueryIsPlain ==
    ASSUME NEW c \in Clients, Query(c), ~ListFromCache(c), ~QueryList(c), ~QueryCount(c)
    PROVE  PlainStep(c)
<1>0. UNCHANGED <<log, lists, epoch, flushedAt>>
  BY DEF Query, GetByMappedID, QueryByID, QueryByUid, QueryByIds, QueryByUids, dbVars, cacheVars
<1>1. CASE GetByMappedID(c)
  BY <1>0, <1>1, GetByIDCachedIsPlain DEF GetByMappedID
<1>2. CASE QueryByID(c)
  <2>1. UNCHANGED todo \/ \E es : Then(c, FillTasks("setCached", es))
    BY <1>2 DEF QueryByID
  <2>2. UNCHANGED todo \/ \E tasks : NoSets(tasks) /\ Then(c, tasks)
    BY <2>1, NothingSet
  <2> QED BY <1>0, <1>2, <2>2, ReturnIsPlain DEF QueryByID, PlainStep
<1>3. CASE QueryByUid(c)
  <2>1. UNCHANGED todo \/ \E u, id : Then(c, << [do |-> "setMapping", uid |-> u, id |-> id] >>)
    BY <1>3 DEF QueryByUid
  <2>2. \A u, id : NoSets(<< [do |-> "setMapping", uid |-> u, id |-> id] >>)
    BY NothingSet
  <2>3. UNCHANGED todo \/ \E tasks : NoSets(tasks) /\ Then(c, tasks)
    BY <2>1, <2>2
  <2> QED BY <1>0, <1>3, <2>3, ReturnIsPlain DEF QueryByUid, PlainStep
<1>4. CASE QueryByIds(c)
  BY <1>0, <1>4, QueryChunkIsPlain DEF QueryByIds, At
<1>5. CASE QueryByUids(c)
  <2>1. PICK chunk, found : QueryChunk(c, chunk, found, "setCachedMapped")
    BY <1>5 DEF QueryByUids
  <2> QED BY <1>0, <1>5, <2>1, QueryChunkIsPlain DEF QueryByUids, At
<1> QED BY <1>1, <1>2, <1>3, <1>4, <1>5 DEF Query

\* A chunk of a bulk update handles no list.
LEMMA UpdateChunkIsPlain ==
    ASSUME NEW c \in Clients, pc[c] \in {"updateByIds", "updateByUids"}, NEW chunk, NEW hit,
           UpdateChunk(c, chunk, hit)
    PROVE  PlainStep(c)
<1>1. pc[c] \notin Readers
  BY DEF Readers
<1>2. \E label, a : label \notin Readers /\ Goto(c, label, a)
  BY <1>1, ReturnIsPlain DEF UpdateChunk
<1>3. UNCHANGED todo \/ \E tasks : NoSets(tasks) /\ Then(c, tasks)
  BY NothingSet, WriteTasksNoSets DEF UpdateChunk
<1>4. UNCHANGED log \/ \E t : Commit(t)
  BY DEF UpdateChunk, dbVars
<1> QED BY <1>2, <1>3, <1>4 DEF UpdateChunk, PlainStep, cacheVars

\* A chunk of a bulk create handles no list until its tasks.
LEMMA InsertChunkIsPlain ==
    ASSUME TypeOK, NEW c \in Clients, InsertChunk(c)
    PROVE  PlainStep(c)
<1> DEFINE batch == arg[c].batch
           k     == ChunkLen(c)
           new(first) == first..(first + k - 1)
           t(first) == [id \in Ids |-> IF id \in new(first) THEN Inserted(batch[id - first + 1])
                                                           ELSE Primary[id]]
           es(first) == {Entry(t(first), id) : id \in new(first)}
           fill(first) == FillTasks("setCached", es(first))
<1>1. batch \in Seq(NewRow)
  BY LocalType DEF InsertChunk, At, ArgFits
<1>2. k \in Nat /\ k <= Len(batch)
  BY <1>1, ConstantsAssumption DEF ChunkLen, ConstantsAssumption
<1>3. PICK first \in Ids :
        /\ first + k - 1 <= MaxId
        /\ Commit(t(first))
        /\ \/ Return(c) /\ Then(c, fill(first) \o << FlushListTask >>)
           \/ /\ Goto(c, "createBulk", [batch |-> SubSeq(batch, k + 1, Len(batch))])
              /\ Then(c, fill(first))
           \/ Return(c) /\ UNCHANGED todo
  BY DEF InsertChunk
<1>4. first \in Nat /\ (\A id \in Ids : id \in Nat) /\ new(first) \subseteq Ids
  BY <1>2, <1>3, ConstantsAssumption DEF ConstantsAssumption, Ids
<1>5. \A id \in new(first) : batch[id - first + 1] \in NewRow
  <2>1. ASSUME NEW id \in new(first)
        PROVE  id - first + 1 \in 1..Len(batch)
    BY <1>2, <1>4
  <2> QED BY <1>1, <2>1
<1>6. t(first) \in [Ids -> Row]
  BY <1>5, LogType, RowType DEF TypeOK
<1>7. es(first) \in SUBSET Entity
  BY <1>4, <1>6, EntryType
<1> HIDE DEF es, t
<1>8. NoSets(fill(first)) /\ NoSets(fill(first) \o << FlushListTask >>)
  <2>1. NoSets(fill(first)) /\ fill(first) \in Seq(Task)
    BY <1>7, NothingSet, FillTasksType
  <2>2. NoSets(<< FlushListTask >>) /\ << FlushListTask >> \in Seq(Task)
    BY NothingSet, TaskType, SingletonType DEF FlushListTask
  <2> QED BY <2>1, <2>2, ConcatNoSets
<1> HIDE DEF fill
<1>9. \E label, a : label \notin Readers /\ Goto(c, label, a)
  BY <1>3, ReturnIsPlain DEF Readers
<1> QED BY <1>3, <1>8, <1>9 DEF InsertChunk, PlainStep, cacheVars

\* No statement of a write operation handles a list.
LEMMA ExecuteIsPlain ==
    ASSUME TypeOK, NEW c \in Clients, Execute(c)
    PROVE  PlainStep(c)
<1>1. CASE InsertChunk(c)
  BY <1>1, InsertChunkIsPlain
<1>2. CASE InsertChunkFails(c) \/ UpdateIsDuplicate(c)
  BY <1>2, ReturnIsPlain DEF InsertChunkFails, UpdateIsDuplicate, PlainStep, dbVars, cacheVars
<1>3. CASE QueryExisting(c)
  <2>1. UNCHANGED todo \/ \E es : Then(c, FillTasks("setCached", es))
    BY <1>3 DEF QueryExisting
  <2>2. UNCHANGED todo \/ \E tasks : NoSets(tasks) /\ Then(c, tasks)
    BY <2>1, NothingSet
  <2>3. \E label, a : label \notin Readers /\ Goto(c, label, a)
    BY <1>3, ReturnIsPlain DEF QueryExisting, Readers
  <2> QED BY <1>3, <2>2, <2>3 DEF QueryExisting, PlainStep, dbVars, cacheVars
<1>4. CASE ExecUpdate(c)
  <2>1. arg[c].new \in Entity /\ arg[c].oldUid \in Uids
    BY <1>4, LocalType DEF ExecUpdate, At, ArgFits
  <2>2. NoSets(UpdateTasks(arg[c].oldUid, arg[c].new))
    BY <2>1, WriteTasksNoSets
  <2>3. UNCHANGED todo \/ \E tasks : NoSets(tasks) /\ Then(c, tasks)
    BY <1>4, <2>2 DEF ExecUpdate, AnsweredWith
  <2>4. (\E t : Commit(t)) /\ UNCHANGED <<lists, epoch, flushedAt>>
    BY <1>4 DEF ExecUpdate, cacheVars
  <2>5. \E label, a : label \notin Readers /\ Goto(c, label, a)
    BY <1>4, ReturnIsPlain DEF ExecUpdate
  <2> QED BY <2>3, <2>4, <2>5 DEF PlainStep
<1>5. CASE UpdateMisses(c)
  <2>1. NoSets(<< InvalidateTask(arg[c].new.id) >>)
    BY NothingSet DEF InvalidateTask
  <2> QED BY <1>5, <2>1, ReturnIsPlain DEF UpdateMisses, PlainStep, dbVars, cacheVars
<1>6. CASE UpdateChunkByIds(c)
  BY <1>6, UpdateChunkIsPlain DEF UpdateChunkByIds, At
<1>7. CASE UpdateChunkByUids(c)
  <2>1. PICK chunk, hit : UpdateChunk(c, chunk, hit)
    BY <1>7 DEF UpdateChunkByUids
  <2> QED BY <1>7, <2>1, UpdateChunkIsPlain DEF UpdateChunkByUids, At
<1> QED BY <1>1, <1>2, <1>3, <1>4, <1>5, <1>6, <1>7 DEF Execute
-----------------------------------------------------------------------------
(* Lists.                                                                    *)

\* The types of the epochs and of the entries.
LEMMA ListTypes ==
    ASSUME TypeOK
    PROVE  /\ \A n \in Nodes : epoch[n] \in Nat /\ flushedAt[n] \in Nat
           /\ \A n \in Nodes : \A l \in lists[n] : l \in ListEntry
           /\ \A l \in ListEntry : l.epoch \in Nat /\ l.asOf \in Nat
  BY DEF TypeOK, CachesOK, ListEntry

\* A reader takes its node's epoch, or keeps the one it took.
LEMMA ReaderInOrder ==
    ASSUME TypeOK, ListInv, NEW c \in Clients,
           \/ List(c) \/ Count(c) \/ ListFromCache(c)
    PROVE  ListInv'
<1>1. /\ UNCHANGED log /\ LogIsLonger
      /\ UNCHANGED lists /\ UNCHANGED todo /\ UNCHANGED <<epoch, flushedAt>>
  BY CommitIsLonger DEF List, Count, ListFromCache, dbVars, cacheVars
<1>2. epoch[NodeOf[c]] \in Nat
  BY LocalType, ListTypes
<1>3. ReadersInOrder'
  <2>1. CASE List(c)
    <3>1. PICK label, a : Goto(c, label, a) /\ a.epoch = epoch[NodeOf[c]]
      <4>1. ASSUME NEW l \in CachedLists(NodeOf[c], "List"),
                   Goto(c, "listCached", [epoch |-> epoch[NodeOf[c]], ids |-> l.ids])
            PROVE  \E label, a : Goto(c, label, a) /\ a.epoch = epoch[NodeOf[c]]
        BY <4>1
      <4>2. ASSUME Goto(c, "list", [epoch |-> epoch[NodeOf[c]]])
            PROVE  \E label, a : Goto(c, label, a) /\ a.epoch = epoch[NodeOf[c]]
        BY <4>2
      <4> QED BY <2>1, <4>1, <4>2 DEF List
    <3> QED BY <1>1, <1>2, <3>1, GotoInOrder
  <2>2. CASE Count(c)
    BY <1>1, <1>2, <2>2, GotoInOrder DEF Count
  <2>3. CASE ListFromCache(c)
    <3>1. arg[c].epoch <= epoch[NodeOf[c]]
      BY <2>3 DEF ListFromCache, At, ListInv, ReadersInOrder
    <3>2. Return(c) \/ Goto(c, "list", [epoch |-> arg[c].epoch])
      BY <2>3 DEF ListFromCache
    <3>3. CASE Return(c)
      BY <1>1, <3>3, GotoInOrder DEF Return, Readers
    <3>4. CASE Goto(c, "list", [epoch |-> arg[c].epoch])
      BY <1>1, <3>1, <3>4, GotoInOrder
    <3> QED BY <3>2, <3>3, <3>4
  <2> QED BY <2>1, <2>2, <2>3
<1> QED BY <1>1, <1>3, KeptInOrder DEF ListInv

\* What a SELECT has read is at least as new as the last bump of the epoch,
\* since no read instance lags.
LEMMA ReadInOrder ==
    ASSUME TypeOK, ListInv, "lag" \notin Faults, NEW c \in Clients, NEW kind, NEW e,
           e <= epoch[NodeOf[c]], NEW p \in ReadPositions
    PROVE  SetsInOrder(<< SetListTask(kind, e, p) >>, epoch[NodeOf[c]], flushedAt[NodeOf[c]])
<1>1. p = Len(log)
  BY DEF ReadPositions
<1>2. p >= flushedAt[NodeOf[c]]
  BY <1>1, LocalType, ListTypes, LogType DEF ListInv, FlushesInOrder, TypeOK
<1> QED BY <1>2 DEF SetsInOrder, InOrder, SetListTask

\* The SELECTs of List and Count keep the order: they see the whole log.
LEMMA QueryInOrder ==
    ASSUME TypeOK, ListInv, "lag" \notin Faults, NEW c \in Clients,
           QueryList(c) \/ QueryCount(c)
    PROVE  ListInv'
<1>1. /\ UNCHANGED log /\ LogIsLonger /\ Return(c)
      /\ UNCHANGED lists /\ UNCHANGED <<epoch, flushedAt>>
  BY CommitIsLonger DEF QueryList, QueryCount, dbVars, cacheVars
<1>2. ReadersInOrder'
  BY <1>1, GotoInOrder DEF Return, Readers
<1>3. arg[c].epoch \in Nat /\ arg[c].epoch <= epoch[NodeOf[c]]
  BY LocalType DEF QueryList, QueryCount, At, ArgFits, ListInv, ReadersInOrder
<1>4. TasksInOrder'
  <2>1. CASE QueryList(c)
    <3> DEFINE fill(p) == FillTasks("setCached", {Entry(log[p], id) : id \in Selected(log[p])})
               set(p) == << SetListTask("List", arg[c].epoch, p) >>
    <3>1. PICK p \in ReadPositions : Then(c, fill(p) \o set(p))
      BY <2>1 DEF QueryList
    <3>2. {Entry(log[p], id) : id \in Selected(log[p])} \in SUBSET Entity
      BY ReadEntryType DEF Selected, LiveIds
    <3>3. fill(p) \in Seq(Task) /\ set(p) \in Seq(Task)
      BY <1>3, <3>2, FillTasksType, SetListTaskType, SingletonType
    <3>4. SetsInOrder(fill(p), epoch[NodeOf[c]], flushedAt[NodeOf[c]])
      BY NothingSet, NoSetsInOrder
    <3>5. SetsInOrder(set(p), epoch[NodeOf[c]], flushedAt[NodeOf[c]])
      BY <1>3, ReadInOrder
    <3>6. SetsInOrder(fill(p) \o set(p), epoch[NodeOf[c]], flushedAt[NodeOf[c]])
      BY <3>3, <3>4, <3>5, ConcatInOrder
    <3> QED BY <1>1, <3>1, <3>6, ThenInOrder
  <2>2. CASE QueryCount(c)
    BY <1>1, <1>3, <2>2, ReadInOrder, ThenInOrder DEF QueryCount
  <2> QED BY <2>1, <2>2
<1> QED BY <1>1, <1>2, <1>4, KeptInOrder DEF ListInv

\* A bump of a node's epoch: no entry there is, or is about to be, one of the
\* new epoch.
LEMMA BumpInOrder ==
    ASSUME TypeOK, ListInv, NEW n \in Nodes, BumpEpoch(n), UNCHANGED <<log, lists, pc, arg>>,
           \A c \in Clients : /\ todo'[c] \in Seq(Task)
                              /\ SetsInOrder(todo'[c], epoch[NodeOf[c]], flushedAt[NodeOf[c]])
    PROVE  ListInv'
<1>1. \A m \in Nodes : /\ epoch[m] \in Nat
                       /\ \/ epoch'[m] = epoch[m] /\ flushedAt'[m] = flushedAt[m]
                          \/ epoch'[m] = epoch[m] + 1 /\ flushedAt'[m] = Len(log)
  BY ListTypes DEF BumpEpoch, TypeOK, CachesOK
<1>2. ASSUME NEW m \in Nodes, NEW l \in ListEntry, InOrder(l, epoch[m], flushedAt[m])
      PROVE  InOrder(l, epoch'[m], flushedAt'[m])
  <2>1. l.epoch \in Nat /\ epoch[m] \in Nat
    BY ListTypes
  <2> QED BY <1>1, <1>2, <2>1 DEF InOrder
<1>3. FlushesInOrder'
  BY <1>1, LogType DEF ListInv, FlushesInOrder, TypeOK
<1>4. ListsInOrder'
  BY <1>2, ListTypes DEF ListInv, ListsInOrder
<1>5. TasksInOrder'
  <2>1. SUFFICES ASSUME NEW c \in Clients, NEW i \in 1..Len(todo'[c]),
                        todo'[c][i].do = "setList"
                 PROVE  InOrder(todo'[c][i].entry, epoch'[NodeOf[c]], flushedAt'[NodeOf[c]])
    BY DEF TasksInOrder, SetsInOrder
  <2>2. todo'[c][i] \in Task
    BY <2>1
  <2>3. todo'[c][i].entry \in ListEntry
    BY <2>1, <2>2, TaskFields
  <2>4. InOrder(todo'[c][i].entry, epoch[NodeOf[c]], flushedAt[NodeOf[c]])
    BY <2>1 DEF SetsInOrder
  <2> QED BY <1>2, <2>3, <2>4, LocalType
<1>6. ReadersInOrder'
  <2>1. SUFFICES ASSUME NEW c \in Clients, pc[c] \in Readers
                 PROVE  arg[c].epoch <= epoch'[NodeOf[c]]
    BY DEF ReadersInOrder, Readers
  <2>2. arg[c].epoch \in Nat /\ arg[c].epoch <= epoch[NodeOf[c]]
    BY <2>1, LocalType DEF ArgFits, Readers, ListInv, ReadersInOrder
  <2> QED BY <1>1, <2>2, LocalType
<1> QED BY <1>3, <1>4, <1>5, <1>6 DEF ListInv

\* Every task keeps the order: only setList adds, only FlushListCache bumps.
LEMMA AccessCacheInOrder ==
    ASSUME TypeOK, ListInv, NEW c \in Clients, AccessCache(c)
    PROVE  ListInv'
<1> DEFINE n == NodeOf[c]
           task == Head(todo[c])
<1>0. UNCHANGED <<pc, arg>> /\ UNCHANGED log /\ LogIsLonger /\ n \in Nodes
  BY LocalType, CommitIsLonger DEF AccessCache, FillCache, FillCacheMapped, SetMapping, SetList,
     InvalidateCache, InvalidateOldUid, FlushListCache, FlushItems, PublishFlushItem,
     dbVars, cacheVars
<1>1. todo[c] # << >> /\ todo[c] \in Seq(Task)
  BY LocalType DEF AccessCache, FillCache, FillCacheMapped, SetMapping, SetList, InvalidateCache,
     InvalidateOldUid, FlushListCache, FlushItems, PublishFlushItem, Doing
<1>2. /\ task \in Task /\ Tail(todo[c]) \in Seq(Task)
      /\ SetsInOrder(Tail(todo[c]), epoch[n], flushedAt[n])
      /\ task.do = "setList" => InOrder(task.entry, epoch[n], flushedAt[n])
  BY <1>1, HeadAndTailType, TailInOrder DEF ListInv, TasksInOrder
<1>3. ASSUME NEW tasks \in Seq(Task), NoSets(tasks), Then(c, tasks \o Tail(todo[c])),
             UNCHANGED <<lists, epoch, flushedAt>>
      PROVE  ListInv'
  <2>1. SetsInOrder(tasks, epoch[n], flushedAt[n])
    BY <1>3, NoSetsInOrder
  <2>2. SetsInOrder(tasks \o Tail(todo[c]), epoch[n], flushedAt[n])
    BY <1>2, <2>1, ConcatInOrder
  <2>3. TasksInOrder'
    BY <1>3, <2>2, ThenInOrder
  <2> QED BY <1>0, <1>3, <2>3, KeptInOrder DEF ListInv
<1>4. Done(c) => Then(c, Tail(todo[c]))
  BY DEF Done, Then
<1>5. CASE FillCache(c)
  <2>1. task.entities \in SUBSET Entity
    BY <1>2, <1>5, TaskFields DEF FillCache, Doing
  <2>2. PICK e \in task.entities :
          Then(c, FillTasks("setCached", task.entities \ {e}) \o Tail(todo[c]))
    BY <1>5 DEF FillCache
  <2>3. FillTasks("setCached", task.entities \ {e}) \in Seq(Task)
        /\ NoSets(FillTasks("setCached", task.entities \ {e}))
    BY <2>1, FillTasksType, NothingSet
  <2> QED BY <1>3, <1>5, <2>2, <2>3 DEF FillCache
<1>6. CASE FillCacheMapped(c)
  <2>1. task.entities \in SUBSET Entity
    BY <1>2, <1>6, TaskFields DEF FillCacheMapped, Doing
  <2>2. PICK e \in task.entities :
          Then(c, << [do |-> "setMapping", uid |-> e.uid, id |-> e.id] >>
                    \o FillTasks("setCachedMapped", task.entities \ {e})
                    \o Tail(todo[c]))
    BY <1>6 DEF FillCacheMapped
  <2> DEFINE set  == << [do |-> "setMapping", uid |-> e.uid, id |-> e.id] >>
             rest == FillTasks("setCachedMapped", task.entities \ {e})
  <2>3. rest \in Seq(Task) /\ NoSets(rest)
    BY <2>1, FillTasksType, NothingSet
  <2>4. set \in Seq(Task) /\ NoSets(set)
    BY <2>1, TaskType, SingletonType, NothingSet DEF Entity
  <2>5. set \o rest \in Seq(Task) /\ NoSets(set \o rest)
    BY <2>3, <2>4, ConcatType, ConcatNoSets
  <2> QED BY <1>3, <1>6, <2>2, <2>5 DEF FillCacheMapped
<1>7. CASE SetList(c)
  <2> DEFINE new == task.entry
  <2>1. InOrder(new, epoch[n], flushedAt[n])
    BY <1>2, <1>7 DEF SetList, Doing
  <2>2. \A m \in Nodes : lists'[m] \subseteq lists[m] \cup (IF m = n THEN {new} ELSE {})
    BY <1>0, <1>7 DEF SetList, TypeOK, CachesOK
  <2>3. ListsInOrder'
    BY <1>7, <2>1, <2>2 DEF SetList, ListInv, ListsInOrder
  <2>4. TasksInOrder'
    BY <1>2, <1>4, <1>7, ThenInOrder DEF SetList
  <2> QED BY <1>0, <1>7, <2>3, <2>4, KeptInOrder DEF SetList, ListInv
<1>8. CASE SetMapping(c) \/ InvalidateCache(c) \/ InvalidateOldUid(c) \/ FlushItems(c)
             \/ PublishFlushItem(c)
  <2>1. Done(c) /\ UNCHANGED lists /\ UNCHANGED <<epoch, flushedAt>>
    BY <1>8 DEF SetMapping, InvalidateCache, InvalidateOldUid, FlushItems, PublishFlushItem,
       cacheVars
  <2>2. TasksInOrder'
    BY <1>2, <1>4, <2>1, ThenInOrder
  <2> QED BY <1>0, <2>1, <2>2, KeptInOrder DEF ListInv
<1>9. CASE FlushListCache(c)
  <2>1. \A d \in Clients : /\ todo'[d] \in Seq(Task)
                           /\ SetsInOrder(todo'[d], epoch[NodeOf[d]], flushedAt[NodeOf[d]])
    <3>1. \A d \in Clients : todo'[d] = IF d = c THEN Tail(todo[c]) ELSE todo[d]
      BY <1>9 DEF FlushListCache, Done, TypeOK, TodoOK
    <3>2. \A d \in Clients : /\ todo[d] \in Seq(Task)
                             /\ SetsInOrder(todo[d], epoch[NodeOf[d]], flushedAt[NodeOf[d]])
      BY LocalType DEF ListInv, TasksInOrder
    <3> QED BY <1>2, <3>1, <3>2
  <2> QED BY <1>0, <1>9, <2>1, BumpInOrder DEF FlushListCache
<1> QED BY <1>5, <1>6, <1>7, <1>8, <1>9 DEF AccessCache
-----------------------------------------------------------------------------
(* What happens beside the clients keeps ListInv.                            *)

\* A step of the environment that bumps no epoch and at most drops lists.
LEMMA DropInOrder ==
    ASSUME TypeOK, ListInv, UNCHANGED log, UNCHANGED clientVars, UNCHANGED <<epoch, flushedAt>>,
           \A n \in Nodes : lists'[n] \subseteq lists[n]
    PROVE  ListInv'
<1>1. LogIsLonger
  BY CommitIsLonger
<1>2. ListsInOrder'
  BY DEF ListInv, ListsInOrder
<1> QED BY <1>1, <1>2, KeptInOrder DEF ListInv, clientVars

\* So do deliveries, losses, expirations, subscriptions and replication.
LEMMA EnvironmentInOrder ==
    ASSUME TypeOK, ListInv
    PROVE  /\ \A m \in msgs : Deliver(m) \/ LoseMessage(m) => ListInv'
           /\ \A n \in Nodes : Expire(n) \/ Subscribe(n) => ListInv'
           /\ Replicate => ListInv'
           /\ UNCHANGED vars => ListInv'
<1>1. ASSUME NEW m \in msgs, Deliver(m)
      PROVE  ListInv'
  <2>1. CASE OnBumpEpoch(m)
    <3>1. m.to \in Nodes
      BY MessageFields DEF TypeOK, MessagesOK
    <3>2. /\ UNCHANGED <<log, lists, pc, arg>> /\ UNCHANGED todo
          /\ BumpEpoch(m.to)
      BY <2>1 DEF OnBumpEpoch, dbVars, clientVars
    <3>3. \A c \in Clients : /\ todo'[c] \in Seq(Task)
                             /\ SetsInOrder(todo'[c], epoch[NodeOf[c]], flushedAt[NodeOf[c]])
      BY <3>2, LocalType DEF ListInv, TasksInOrder
    <3> QED BY <3>1, <3>2, <3>3, BumpInOrder
  <2>2. CASE OnCacheInvalidated(m) \/ OnCacheFlushItem(m)
    BY <2>2, DropInOrder DEF OnCacheInvalidated, OnCacheFlushItem, dbVars
  <2> QED BY <1>1, <2>1, <2>2 DEF Deliver
<1>2. ASSUME NEW m \in msgs, LoseMessage(m)
      PROVE  ListInv'
  BY <1>2, DropInOrder DEF LoseMessage, dbVars, cacheVars
<1>3. ASSUME NEW n \in Nodes, Expire(n)
      PROVE  ListInv'
  <2>1. UNCHANGED log /\ UNCHANGED clientVars /\ UNCHANGED <<epoch, flushedAt>>
    BY <1>3 DEF Expire, ExpireItem, ExpireMapping, ExpireLists, dbVars
  <2>2. \A m \in Nodes : lists'[m] \subseteq lists[m]
    BY <1>3 DEF Expire, ExpireItem, ExpireMapping, ExpireLists, TypeOK, CachesOK
  <2> QED BY <2>1, <2>2, DropInOrder
<1>4. ASSUME NEW n \in Nodes, Subscribe(n)
      PROVE  ListInv'
  BY <1>4, DropInOrder DEF Subscribe, dbVars, cacheVars
<1>5. CASE Replicate
  BY <1>5, DropInOrder DEF Replicate, cacheVars
<1>6. CASE UNCHANGED vars
  BY <1>6, DropInOrder DEF vars, dbVars, cacheVars
<1> QED BY <1>1, <1>2, <1>3, <1>4, <1>5, <1>6

\* A node that restarts has no lists and no readers; it may count the writes
\* before its start as flushed.
LEMMA RestartInOrder ==
    ASSUME TypeOK, ListInv, NEW n \in Nodes, Restart(n)
    PROVE  ListInv'
<1>1. \A m \in Nodes : \/ lists'[m] = lists[m] /\ flushedAt'[m] = flushedAt[m] /\ m # n
                       \/ lists'[m] = {} /\ flushedAt'[m] = Len(log) /\ m = n
  BY DEF Restart, TypeOK, CachesOK
<1>2. \A c \in Clients : \/ /\ NodeOf[c] # n
                            /\ pc'[c] = pc[c] /\ arg'[c] = arg[c] /\ todo'[c] = todo[c]
                         \/ pc'[c] = "idle" /\ todo'[c] = << >>
  BY DEF Restart
<1>3. UNCHANGED log /\ UNCHANGED epoch
  BY DEF Restart, dbVars
<1>4. FlushesInOrder'
  BY <1>1, <1>3, LogType DEF ListInv, FlushesInOrder, TypeOK
<1>5. ListsInOrder'
  BY <1>1, <1>3 DEF ListInv, ListsInOrder
<1>6. TasksInOrder'
  <2>1. ASSUME NEW c \in Clients
        PROVE  SetsInOrder(todo'[c], epoch[NodeOf[c]], flushedAt'[NodeOf[c]])
    <3>1. CASE todo'[c] = << >>
      BY <3>1, NothingSet, NoSetsInOrder
    <3>2. CASE NodeOf[c] # n /\ todo'[c] = todo[c]
      <4>1. flushedAt'[NodeOf[c]] = flushedAt[NodeOf[c]]
        BY <1>1, <3>2, LocalType
      <4> QED BY <3>2, <4>1 DEF ListInv, TasksInOrder
    <3> QED BY <1>2, <3>1, <3>2
  <2> QED BY <1>3, <2>1 DEF TasksInOrder
<1>7. ReadersInOrder'
  BY <1>2, <1>3 DEF ListInv, ReadersInOrder
<1> QED BY <1>4, <1>5, <1>6, <1>7 DEF ListInv

\* The order holds in the first state.
LEMMA InitInOrder == Init => ListInv
<1> SUFFICES ASSUME Init PROVE ListInv
  OBVIOUS
<1>1. FlushesInOrder
  BY DEF Init, FlushesInOrder
<1>2. ListsInOrder /\ ReadersInOrder
  BY DEF Init, ListsInOrder, ReadersInOrder
<1>3. TasksInOrder
  BY NothingSet, NoSetsInOrder DEF Init, TasksInOrder
<1> QED BY <1>1, <1>2, <1>3 DEF ListInv

\* Every step keeps the order: one case per disjunct of Next.
LEMMA NextInOrder ==
    ASSUME TypeOK, ListInv, "lag" \notin Faults, [Next]_vars
    PROVE  ListInv'
<1>1. ASSUME NEW c \in Clients, Read(c) \/ Write(c)
      PROVE  ListInv'
  BY <1>1, ReadIsPlain, WriteIsPlain, PlainStepInOrder, ReaderInOrder
<1>2. ASSUME NEW c \in Clients, Query(c) \/ Execute(c) \/ AccessCache(c)
      PROVE  ListInv'
  BY <1>2, QueryIsPlain, ExecuteIsPlain, PlainStepInOrder, ReaderInOrder, QueryInOrder,
     AccessCacheInOrder
<1>3. ASSUME NEW c \in Clients, DatabaseError(c)
      PROVE  ListInv'
  <2>1. PlainStep(c)
    BY <1>3, ReturnIsPlain DEF DatabaseError, PlainStep, dbVars, cacheVars
  <2> QED BY <2>1, PlainStepInOrder
<1>4. ASSUME NEW n \in Nodes, Restart(n)
      PROVE  ListInv'
  BY <1>4, RestartInOrder
<1> QED BY <1>1, <1>2, <1>3, <1>4, EnvironmentInOrder DEF Next, Continue
-----------------------------------------------------------------------------
\* The epochs of every reader, task and entry are in order.
LEMMA ListInvHolds == ASSUME "lag" \notin Faults PROVE Spec => []ListInv
<1>1. Init => TypeOK /\ ListInv
  BY InitType, InitInOrder
<1>2. TypeOK /\ ListInv /\ [Next]_vars => (TypeOK /\ ListInv)'
  BY NextType, NextInOrder
<1> QED BY <1>1, <1>2, PTL DEF Spec

\* Without replication lag no node ever serves a list or a count that was read
\* before the last flush it made or heard of: whatever the interleaving of
\* readers, writers and messages, and whichever of them crash or are lost.
THEOREM ListsAreFresh == ASSUME "lag" \notin Faults PROVE Spec => []CurrentListsAreFresh
<1>1. ListInv => CurrentListsAreFresh
  BY DEF ListInv, ListsInOrder, InOrder, CurrentListsAreFresh
<1> QED BY <1>1, ListInvHolds, PTL

\* The whole inductive invariant.
THEOREM InvariantHolds == ASSUME "lag" \notin Faults PROVE Spec => []IInv
  BY TypeCorrect, CommitInvHolds, ListInvHolds, PTL DEF IInv
-----------------------------------------------------------------------------
(* FlushInv: entries have what was read, and every change is flushed.        *)

\* The other clients go on as they were.
OthersStay(c) ==
    \A d \in Clients : d # c => todo'[d] = todo[d] /\ pc'[d] = pc[d] /\ arg'[d] = arg[d]

\* What a client's step changes in pc, arg and todo is its own.
LEMMA OthersStayHolds ==
    ASSUME TypeOK, NEW c \in Clients,
           UNCHANGED <<pc, arg>> \/ \E label, a : Goto(c, label, a),
           UNCHANGED todo \/ \E tasks : Then(c, tasks)
    PROVE  OthersStay(c)
<1>1. \A d \in Clients : d # c => pc'[d] = pc[d] /\ arg'[d] = arg[d]
  BY DEF Goto, TypeOK, ControlOK
<1>2. \A d \in Clients : d # c => todo'[d] = todo[d]
  BY DEF Then, TypeOK, TodoOK
<1> QED BY <1>1, <1>2 DEF OthersStay

\* What an entry was read from stays in the log.
LEMMA ReadStays ==
    ASSUME TypeOK, UNCHANGED log \/ \E t : Commit(t), NEW entry, ReadFrom(log, entry)
    PROVE  ReadFrom(log', entry)
<1>1. log \in Seq([Ids -> Row]) /\ Len(log) \in Nat
  BY LogType DEF TypeOK, TableOK
<1>2. ASSUME NEW t, Commit(t)
      PROVE  ReadFrom(log', entry)
  <2>1. Len(log') = Len(log) + 1 /\ \A p \in 1..Len(log) : log'[p] = log[p]
    BY <1>1, <1>2 DEF Commit
  <2> QED BY <1>1, <2>1 DEF ReadFrom
<1> QED BY <1>2 DEF ReadFrom

\* Lists and tasks that a step leaves alone have what was read.
LEMMA KeptRead ==
    ASSUME TypeOK, FlushInv, UNCHANGED log \/ \E t : Commit(t)
    PROVE  /\ (\A n \in Nodes : lists'[n] \subseteq lists[n]) => ListsRead'
           /\ UNCHANGED todo => TasksRead'
<1>1. (\A n \in Nodes : lists'[n] \subseteq lists[n]) => ListsRead'
  BY ReadStays DEF FlushInv, ListsRead
<1>2. UNCHANGED todo => TasksRead'
  BY ReadStays DEF FlushInv, TasksRead, SetsReadFrom
<1> QED BY <1>1, <1>2

\* A client gets tasks that cache what was read.
LEMMA ThenRead ==
    ASSUME TypeOK, FlushInv, UNCHANGED log \/ \E t : Commit(t), NEW c \in Clients, NEW tasks,
           Then(c, tasks), SetsReadFrom(log', tasks)
    PROVE  TasksRead'
<1>1. ASSUME NEW d \in Clients
      PROVE  SetsReadFrom(log', todo'[d])
  <2>1. CASE d = c
    <3>1. todo'[d] = tasks
      BY <2>1 DEF Then, TypeOK, TodoOK
    <3> QED BY <3>1
  <2>2. CASE d # c
    <3>1. todo'[d] = todo[d]
      BY <2>2 DEF Then, TypeOK, TodoOK
    <3> QED BY <3>1, ReadStays DEF FlushInv, TasksRead, SetsReadFrom
  <2> QED BY <2>1, <2>2
<1> QED BY <1>1 DEF TasksRead

\* A step that has nothing to do with lists.
LEMMA PlainStepRead ==
    ASSUME TypeOK, FlushInv, NEW c \in Clients, PlainStep(c)
    PROVE  ListsRead' /\ TasksRead' /\ OthersStay(c)
<1>1. ListsRead'
  BY KeptRead DEF PlainStep
<1>2. TasksRead'
  <2>1. \A tasks : NoSets(tasks) => SetsReadFrom(log', tasks)
    BY DEF NoSets, SetsReadFrom
  <2> QED BY <2>1, KeptRead, ThenRead DEF PlainStep
<1> QED BY <1>1, <1>2, OthersStayHolds DEF PlainStep

\* The tasks that flush the lists.
LEMMA FlushesConcat ==
    ASSUME NEW s \in Seq(Task), NEW t \in Seq(Task), Flushes(s) \/ Flushes(t)
    PROVE  Flushes(s \o t)
<1>1. CASE Flushes(s)
  <2>1. PICK i \in 1..Len(s) : s[i].do = "flushListCache"
    BY <1>1 DEF Flushes
  <2>2. i \in 1..Len(s \o t) /\ (s \o t)[i] = s[i]
    OBVIOUS
  <2> QED BY <2>1, <2>2 DEF Flushes
<1>2. CASE Flushes(t)
  <2>1. PICK i \in 1..Len(t) : t[i].do = "flushListCache"
    BY <1>2 DEF Flushes
  <2>2. i + Len(s) \in 1..Len(s \o t) /\ (s \o t)[i + Len(s)] = t[i]
    OBVIOUS
  <2> QED BY <2>1, <2>2 DEF Flushes
<1> QED BY <1>1, <1>2

LEMMA FlushesTail ==
    ASSUME NEW s \in Seq(Task), s # << >>, Head(s).do # "flushListCache", Flushes(s)
    PROVE  Flushes(Tail(s))
<1>1. PICK i \in 1..Len(s) : s[i].do = "flushListCache"
  BY DEF Flushes
<1>2. i # 1
  BY <1>1
<1>3. i - 1 \in 1..Len(Tail(s)) /\ Tail(s)[i - 1] = s[i]
  BY <1>2
<1> QED BY <1>1, <1>3 DEF Flushes

\* Every write flushes the lists among its tasks.
LEMMA WriteTasksFlush ==
    /\ ~Flushes(<< >>)
    /\ Flushes(FlushAllTasks)
    /\ \A id : Flushes(DeleteTasks(id))
    /\ \A e \in Entity : Flushes(FillTasks("setCached", {e}) \o << FlushListTask >>)
    /\ \A u \in Uids, e \in Entity : Flushes(UpdateTasks(u, e))
<1>1. << FlushListTask >> \in Seq(Task) /\ Flushes(<< FlushListTask >>)
  BY TaskType, SingletonType DEF Flushes, FlushListTask
<1>2. ASSUME NEW t, NEW u
      PROVE  /\ Flushes(<< t, FlushListTask >>)
             /\ Flushes(<< t, FlushListTask, u >>)
  <2>1. /\ 2 \in 1..Len(<< t, FlushListTask >>) /\ << t, FlushListTask >>[2] = FlushListTask
        /\ 2 \in 1..Len(<< t, FlushListTask, u >>) /\ << t, FlushListTask, u >>[2] = FlushListTask
    OBVIOUS
  <2>2. FlushListTask.do = "flushListCache"
    BY DEF FlushListTask
  <2> QED BY <2>1, <2>2 DEF Flushes
<1>3. Flushes(FlushAllTasks) /\ \A id : Flushes(DeleteTasks(id))
  BY <1>2 DEF FlushAllTasks, DeleteTasks
<1>4. ASSUME NEW e \in Entity
      PROVE  Flushes(FillTasks("setCached", {e}) \o << FlushListTask >>)
  BY <1>1, FillTasksType, FlushesConcat
<1>5. ASSUME NEW u \in Uids, NEW e \in Entity
      PROVE  Flushes(UpdateTasks(u, e))
  <2> DEFINE s1 == IF u # e.uid THEN << [do |-> "invalidateUid", uid |-> u] >> ELSE << >>
             s2 == << InvalidateTask(e.id), FlushListTask >>
             s3 == FillTasks("setCached", {NextVersion(e)})
  <2>1. s1 \in Seq(Task)
    BY TaskType, SingletonType
  <2>2. s2 \in Seq(Task) /\ Flushes(s2)
    BY <1>2, TaskType, SingletonType DEF Entity
  <2>3. s3 \in Seq(Task)
    BY UpdateTasksType, FillTasksType
  <2> HIDE DEF s1, s2, s3
  <2>4. s1 \o s2 \in Seq(Task) /\ Flushes(s1 \o s2)
    BY <2>1, <2>2, ConcatType, FlushesConcat
  <2>5. Flushes((s1 \o s2) \o s3)
    BY <2>3, <2>4, FlushesConcat
  <2> QED BY <2>5 DEF UpdateTasks, s1, s2, s3
<1>6. ~Flushes(<< >>)
  BY DEF Flushes
<1> QED BY <1>3, <1>4, <1>5, <1>6

\* A client's step leaves a change of the table unflushed only if it will flush it.
QuietStep(c) ==
    /\ UNCHANGED up
    /\ UNCHANGED <<pc, arg>> \/ \E label, a : Called(label) /\ Goto(c, label, a)
    /\ \/ WillFlush(c)'
       \/ ~WillFlush(c) /\ UNCHANGED <<log, flushedAt>> /\ msgs \subseteq msgs'

\* Such a step keeps every change flushed or due to be.
LEMMA QuietStepFlushes ==
    ASSUME TypeOK, FlushInv, NEW c \in Clients, QuietStep(c), OthersStay(c)
    PROVE  up' = Nodes /\ BulkIsCalled' /\ ChangesAreFlushed'
<1>1. up' = Nodes
  BY DEF QuietStep, FlushInv
<1>2. BulkIsCalled'
  <2>1. ASSUME NEW d \in Clients
        PROVE  Called(pc'[d])
    <3>1. CASE d # c \/ UNCHANGED <<pc, arg>>
      BY <3>1 DEF OthersStay, FlushInv, BulkIsCalled
    <3>2. ASSUME NEW label, NEW a, Called(label), Goto(c, label, a), d = c
          PROVE  Called(pc'[d])
      BY <3>2 DEF Goto, TypeOK, ControlOK
    <3> QED BY <3>1, <3>2 DEF QuietStep
  <2> QED BY <2>1 DEF BulkIsCalled
<1>3. ChangesAreFlushed'
  <2>1. CASE WillFlush(c)'
    BY <2>1 DEF ChangesAreFlushed, FlushDue
  <2>2. CASE ~WillFlush(c) /\ UNCHANGED <<log, flushedAt>> /\ msgs \subseteq msgs'
    <3>1. \A n \in Nodes : FlushDue(n) => FlushDue(n)'
      <4>1. \A d \in Clients : WillFlush(d) => WillFlush(d)'
        BY <2>2 DEF OthersStay, WillFlush
      <4> QED BY <2>2, <4>1 DEF FlushDue, Bump
    <3>2. Primary' = Primary
      BY <2>2 DEF Primary
    <3> QED BY <2>2, <3>1, <3>2 DEF ChangesAreFlushed, FlushInv
  <2> QED BY <2>1, <2>2 DEF QuietStep
<1> QED BY <1>1, <1>2, <1>3

\* A client that has no tasks and runs no bulk update has nothing to flush.
LEMMA NothingToFlush ==
    ASSUME NEW c \in Clients, NEW label, At(c, label), label \notin {"updateByIds", "updateByUids"}
    PROVE  ~WillFlush(c)
  BY WriteTasksFlush DEF At, WillFlush

\* A client that goes on with tasks that flush the lists will do so.
LEMMA ThenFlushes ==
    ASSUME TypeOK, NEW c \in Clients, NEW tasks, Then(c, tasks), Flushes(tasks)
    PROVE  WillFlush(c)'
<1>1. todo'[c] = tasks
  BY DEF Then, TypeOK, TodoOK
<1> QED BY <1>1 DEF WillFlush

\* Reads change no table.
LEMMA ReadIsQuiet ==
    ASSUME NEW c \in Clients, Read(c)
    PROVE  QuietStep(c)
<1>1. ~WillFlush(c)
  <2>1. At(c, "idle")
    BY DEF Read, GetByID, GetByUid, GetByIds, GetByUids, List, Count, Call
  <2> QED BY <2>1, NothingToFlush
<1>2. UNCHANGED up /\ UNCHANGED <<log, flushedAt>> /\ msgs' = msgs
  BY DEF Read, GetByID, GetByUid, GetByIds, GetByUids, List, Count, dbVars, cacheVars
<1>3. UNCHANGED <<pc, arg>> \/ \E label, a : Called(label) /\ Goto(c, label, a)
  <2>1. \A label \in {"idle", "getByID", "mapped", "getByUid", "getByIds", "getByUids", "list",
                      "listCached", "count"} : Called(label)
    BY DEF Called
  <2> QED BY <2>1 DEF Read, GetByID, GetByIDCached, Return, GetByUid, GetByIds, GetByUids, GetBulk,
           List, Count
<1> QED BY <1>1, <1>2, <1>3 DEF QuietStep

\* A delete that is answered flushes.
LEMMA DeleteRowsIsQuiet ==
    ASSUME TypeOK, WritesFlush, NEW c \in Clients, NEW rows, NEW tasks, Flushes(tasks),
           DeleteRows(c, rows, tasks)
    PROVE  QuietStep(c)
<1>1. Then(c, tasks)
  BY DEF DeleteRows, Answered, WritesFlush, WritesInvalidate
<1> QED BY <1>1, ThenFlushes DEF DeleteRows, QuietStep

\* So do the other writes that are one statement; those of several start with none.
LEMMA WriteIsQuiet ==
    ASSUME TypeOK, WritesFlush, NEW c \in Clients, Write(c)
    PROVE  QuietStep(c)
<1>1. ASSUME NEW row \in NewRow, Create(c, row)
      PROVE  QuietStep(c)
  <2>1. PICK id \in Ids :
          LET t == [Primary EXCEPT ![id] = Inserted(row)]
              e == Entry(t, id)
          IN  AnsweredWith(c, e, FillTasks("setCached", {e}) \o << FlushListTask >>)
    BY <1>1 DEF Create
  <2> DEFINE t == [Primary EXCEPT ![id] = Inserted(row)]
             e == Entry(t, id)
             tasks == FillTasks("setCached", {e}) \o << FlushListTask >>
  <2>2. e \in Entity
    BY LogType, RowType, EntryType DEF TypeOK
  <2>3. Flushes(tasks)
    BY <2>2, WriteTasksFlush
  <2>4. Then(c, tasks)
    BY <2>1 DEF AnsweredWith, WritesFlush, WritesInvalidate
  <2> HIDE DEF tasks, t
  <2>5. WillFlush(c)'
    BY <2>3, <2>4, ThenFlushes
  <2> QED BY <1>1, <2>5 DEF Create, QuietStep
<1>2. ASSUME NEW batch \in Batches, CreateBulk(c, batch)
      PROVE  QuietStep(c)
  BY <1>2 DEF CreateBulk, Call, WritesFlush, WritesInvalidate
<1>3. ASSUME NEW u \in Uids, NEW a \in Ages, Update(c, u, a)
      PROVE  QuietStep(c)
  <2>1. ~WillFlush(c)
    BY <1>3, NothingToFlush DEF Update, Call
  <2>2. Called("update") /\ Called("updateGet")
    BY DEF Called
  <2>3. \E label, b : Called(label) /\ Goto(c, label, b)
    BY <1>3, <2>2 DEF Update
  <2> QED BY <1>3, <2>1, <2>3 DEF Update, QuietStep, dbVars, cacheVars
<1>4. ASSUME NEW label \in {"updateByIds", "updateByUids"}, NEW keys, NEW a,
             UpdateBulk(c, label, keys, a)
      PROVE  QuietStep(c)
  <2>1. ~WillFlush(c)
    BY <1>4, NothingToFlush DEF UpdateBulk, Call
  <2>2. Called(label)
    BY <1>4 DEF UpdateBulk, Call, Called
  <2> QED BY <1>4, <2>1, <2>2 DEF UpdateBulk, QuietStep, dbVars, cacheVars
<1>5. ASSUME NEW id \in Ids, Delete(c, id) \/ HardDelete(c, id)
      PROVE  QuietStep(c)
  BY <1>5, WriteTasksFlush, DeleteRowsIsQuiet DEF Delete, HardDelete
<1>6. ASSUME NEW ids \in SUBSET Ids, DeleteOlder(c, ids) \/ HardDeleteOlder(c, ids)
      PROVE  QuietStep(c)
  BY <1>6, WriteTasksFlush, DeleteRowsIsQuiet DEF DeleteOlder, HardDeleteOlder
<1> QED BY <1>1, <1>2, <1>3, <1>4, <1>5, <1>6 DEF Write, UpdateAgeByIds, UpdateAgeByUids

\* The SELECTs of the reads change no table.
LEMMA QueryIsQuiet ==
    ASSUME NEW c \in Clients, Query(c)
    PROVE  QuietStep(c)
<1>1. ~WillFlush(c)
  <2>1. \E label \in {"mapped", "listCached", "getByID", "getByUid", "getByIds", "getByUids",
                      "list", "count"} : At(c, label)
    BY DEF Query, GetByMappedID, ListFromCache, QueryByID, QueryByUid, QueryByIds, QueryByUids,
       QueryList, QueryCount
  <2> QED BY <2>1, NothingToFlush
<1>2. UNCHANGED up /\ UNCHANGED <<log, flushedAt>> /\ msgs' = msgs
  BY DEF Query, GetByMappedID, ListFromCache, QueryByID, QueryByUid, QueryByIds, QueryByUids,
     QueryList, QueryCount, dbVars, cacheVars
<1>3. \E label, a : Called(label) /\ Goto(c, label, a)
  <2>1. \A label \in {"idle", "getByID", "getByIds", "getByUids", "list"} : Called(label)
    BY DEF Called
  <2>2. CASE QueryByIds(c) \/ QueryByUids(c)
    <3>1. pc[c] \in {"getByIds", "getByUids"}
      BY <2>2 DEF QueryByIds, QueryByUids, At
    <3>2. \E chunk, found, do : QueryChunk(c, chunk, found, do)
      BY <2>2 DEF QueryByIds, QueryByUids
    <3> QED BY <2>1, <3>1, <3>2 DEF QueryChunk, Return
  <2>3. CASE GetByMappedID(c) \/ ListFromCache(c)
    BY <2>1, <2>3 DEF GetByMappedID, ListFromCache, GetByIDCached, Return
  <2>4. CASE QueryByID(c) \/ QueryByUid(c) \/ QueryList(c) \/ QueryCount(c)
    BY <2>1, <2>4 DEF QueryByID, QueryByUid, QueryList, QueryCount, Return
  <2> QED BY <2>2, <2>3, <2>4 DEF Query
<1> QED BY <1>1, <1>2, <1>3 DEF QuietStep

\* A bulk update that has changed a row remembers it until its tasks flush.
LEMMA UpdateChunkIsQuiet ==
    ASSUME TypeOK, FlushInv, WritesFlush, NEW c \in Clients,
           NEW label \in {"updateByIds", "updateByUids"}, At(c, label),
           NEW chunk, NEW hit, UpdateChunk(c, chunk, hit)
    PROVE  QuietStep(c)
<1> DEFINE changed == arg[c].changed \/ hit # {}
<1>0. pc[c] = label /\ todo[c] = << >> /\ arg[c].changed \in BOOLEAN
  BY LocalType DEF At, ArgFits
<1>1. Called("idle") /\ Called(pc[c])
  BY DEF Called, FlushInv, BulkIsCalled
<1>2. UNCHANGED up /\ UNCHANGED flushedAt /\ msgs' = msgs
      /\ \E l, a : Called(l) /\ Goto(c, l, a)
  BY <1>1 DEF UpdateChunk, Return, cacheVars
<1>3. hit = {} => UNCHANGED log
  BY DEF UpdateChunk, dbVars
<1>4. CASE chunk # arg[c].keys /\ UNCHANGED todo
           /\ Goto(c, pc[c], [keys |-> arg[c].keys \ chunk, age |-> arg[c].age,
                              changed |-> changed])
  <2>1. pc'[c] = label /\ arg'[c].changed = changed /\ todo'[c] = << >>
    BY <1>0, <1>4 DEF Goto, TypeOK, ControlOK
  <2>2. CASE changed
    BY <1>2, <2>1, <2>2 DEF QuietStep, WillFlush
  <2>3. CASE ~changed
    <3>1. ~WillFlush(c)
      BY <1>0, <2>3, WriteTasksFlush DEF WillFlush
    <3> QED BY <1>2, <1>3, <2>3, <3>1 DEF QuietStep
  <2> QED BY <2>2, <2>3
<1>5. CASE Then(c, IF changed THEN FlushAllTasks ELSE << >>)
  <2>1. CASE changed
    <3>1. WillFlush(c)'
      BY <1>5, <2>1, ThenFlushes, WriteTasksFlush
    <3> QED BY <1>2, <3>1 DEF QuietStep
  <2>2. CASE ~changed
    <3>1. ~WillFlush(c)
      BY <1>0, <2>2, WriteTasksFlush DEF WillFlush
    <3> QED BY <1>2, <1>3, <2>2, <3>1 DEF QuietStep
  <2> QED BY <2>1, <2>2
<1> QED BY <1>4, <1>5 DEF UpdateChunk, WritesFlush, WritesInvalidate

\* The statements of the writes.
LEMMA ExecuteIsQuiet ==
    ASSUME TypeOK, FlushInv, WritesFlush, NEW c \in Clients, Execute(c)
    PROVE  QuietStep(c)
<1>0. Called("idle") /\ Called("update")
  BY DEF Called
<1>1. CASE InsertChunk(c) \/ InsertChunkFails(c)
  BY <1>1 DEF InsertChunk, InsertChunkFails, At, FlushInv, BulkIsCalled, Called, WritesFlush,
     WritesInvalidate
<1>2. CASE UpdateMisses(c) \/ UpdateIsDuplicate(c)
  <2>1. ~WillFlush(c)
    BY <1>2, NothingToFlush DEF UpdateMisses, UpdateIsDuplicate
  <2> QED BY <1>0, <1>2, <2>1 DEF UpdateMisses, UpdateIsDuplicate, QuietStep, Return, dbVars,
             cacheVars
<1>3. CASE QueryExisting(c)
  <2>1. ~WillFlush(c)
    BY <1>3, NothingToFlush DEF QueryExisting
  <2>2. \E label, a : Called(label) /\ Goto(c, label, a)
    BY <1>0, <1>3 DEF QueryExisting, Return
  <2> QED BY <1>3, <2>1, <2>2 DEF QueryExisting, QuietStep, dbVars, cacheVars
<1>4. CASE ExecUpdate(c)
  <2>1. arg[c].new \in Entity /\ arg[c].oldUid \in Uids
    BY <1>4, LocalType DEF ExecUpdate, At, ArgFits
  <2>2. Then(c, UpdateTasks(arg[c].oldUid, arg[c].new))
    BY <1>4 DEF ExecUpdate, AnsweredWith, WritesFlush, WritesInvalidate
  <2>3. WillFlush(c)'
    BY <2>1, <2>2, ThenFlushes, WriteTasksFlush
  <2> QED BY <1>0, <1>4, <2>3 DEF ExecUpdate, QuietStep, Return
<1>5. CASE UpdateChunkByIds(c)
  BY <1>5, UpdateChunkIsQuiet DEF UpdateChunkByIds
<1>6. CASE UpdateChunkByUids(c)
  <2>1. PICK chunk, hit : UpdateChunk(c, chunk, hit)
    BY <1>6 DEF UpdateChunkByUids
  <2> QED BY <1>6, <2>1, UpdateChunkIsQuiet DEF UpdateChunkByUids
<1> QED BY <1>1, <1>2, <1>3, <1>4, <1>5, <1>6 DEF Execute

\* A failed statement loses no flush, since no bulk update runs.
LEMMA DatabaseErrorIsQuiet ==
    ASSUME TypeOK, FlushInv, WritesFlush, NEW c \in Clients, DatabaseError(c)
    PROVE  QuietStep(c)
<1>1. At(c, pc[c]) /\ pc[c] \notin {"updateByIds", "updateByUids"}
  BY DEF DatabaseError, At, FlushInv, BulkIsCalled, Called, WritesFlush, WritesInvalidate
<1>2. ~WillFlush(c)
  BY <1>1, NothingToFlush
<1>3. Called("idle")
  BY DEF Called
<1> QED BY <1>2, <1>3 DEF DatabaseError, QuietStep, Return, dbVars, cacheVars

\* A bump: on this node nothing has changed since, another one's is as due as before.
LEMMA BumpFlushes ==
    ASSUME TypeOK, FlushInv, NEW n \in Nodes, BumpEpoch(n), UNCHANGED <<log, up, pc>>,
           \A m \in Nodes : m # n /\ FlushDue(m) => FlushDue(m)'
    PROVE  up' = Nodes /\ BulkIsCalled' /\ ChangesAreFlushed'
<1>1. Primary' = Primary
  BY DEF Primary
<1>2. ASSUME NEW m \in Nodes, ~FlushDue(m)', NEW p \in 1..Len(log), p >= flushedAt'[m]
      PROVE  Selected(log[p]) = Selected(Primary)
  <2>1. CASE m = n
    <3>1. flushedAt'[m] = Len(log)
      BY <2>1 DEF BumpEpoch, TypeOK, CachesOK
    <3>2. p = Len(log)
      BY <1>2, <3>1, LogType DEF TypeOK
    <3> QED BY <3>2 DEF Primary
  <2>2. CASE m # n
    <3>1. flushedAt'[m] = flushedAt[m]
      BY <2>2 DEF BumpEpoch, TypeOK, CachesOK
    <3> QED BY <1>2, <2>2, <3>1 DEF FlushInv, ChangesAreFlushed
  <2> QED BY <2>1, <2>2
<1> QED BY <1>1, <1>2 DEF FlushInv, BulkIsCalled, ChangesAreFlushed

\* Every task keeps the flushes due, but for the flush, which makes them.
LEMMA AccessCacheFlushes ==
    ASSUME TypeOK, FlushInv, NEW c \in Clients, AccessCache(c)
    PROVE  up' = Nodes /\ BulkIsCalled' /\ ChangesAreFlushed'
<1> DEFINE n == NodeOf[c]
           task == Head(todo[c])
<1>0. UNCHANGED <<log, up, pc, arg>> /\ n \in Nodes
  BY LocalType DEF AccessCache, FillCache, FillCacheMapped, SetMapping, SetList,
     InvalidateCache, InvalidateOldUid, FlushListCache, FlushItems, PublishFlushItem, dbVars
<1>1. todo[c] # << >> /\ todo[c] \in Seq(Task)
  BY LocalType DEF AccessCache, FillCache, FillCacheMapped, SetMapping, SetList, InvalidateCache,
     InvalidateOldUid, FlushListCache, FlushItems, PublishFlushItem, Doing
<1>2. task \in Task /\ Tail(todo[c]) \in Seq(Task)
  BY <1>1, HeadAndTailType
<1>3. Done(c) => Then(c, Tail(todo[c]))
  BY DEF Done, Then
<1>4. ASSUME NEW tasks \in Seq(Task), Then(c, tasks \o Tail(todo[c])), task.do # "flushListCache",
             UNCHANGED flushedAt, msgs \subseteq msgs'
      PROVE  up' = Nodes /\ BulkIsCalled' /\ ChangesAreFlushed'
  <2>1. Flushes(todo[c]) => Flushes(tasks \o Tail(todo[c]))
    BY <1>1, <1>2, <1>4, FlushesTail, FlushesConcat
  <2>2. WillFlush(c) => WillFlush(c)'
    BY <1>0, <1>4, <2>1, ThenFlushes DEF WillFlush
  <2>3. QuietStep(c)
    BY <1>0, <1>4, <2>2 DEF QuietStep
  <2>4. OthersStay(c)
    BY <1>0, <1>4, OthersStayHolds
  <2> QED BY <2>3, <2>4, QuietStepFlushes
<1>5. CASE FillCache(c)
  <2>1. task.do = "setCached" /\ task.entities \in SUBSET Entity
    BY <1>2, <1>5, TaskFields DEF FillCache, Doing
  <2>2. PICK e \in task.entities :
          Then(c, FillTasks("setCached", task.entities \ {e}) \o Tail(todo[c]))
    BY <1>5 DEF FillCache
  <2>3. FillTasks("setCached", task.entities \ {e}) \in Seq(Task)
    BY <2>1, FillTasksType
  <2> QED BY <1>4, <1>5, <2>1, <2>2, <2>3 DEF FillCache
<1>6. CASE FillCacheMapped(c)
  <2>1. task.do = "setCachedMapped" /\ task.entities \in SUBSET Entity
    BY <1>2, <1>6, TaskFields DEF FillCacheMapped, Doing
  <2>2. PICK e \in task.entities :
          Then(c, << [do |-> "setMapping", uid |-> e.uid, id |-> e.id] >>
                    \o FillTasks("setCachedMapped", task.entities \ {e})
                    \o Tail(todo[c]))
    BY <1>6 DEF FillCacheMapped
  <2> DEFINE set  == << [do |-> "setMapping", uid |-> e.uid, id |-> e.id] >>
             rest == FillTasks("setCachedMapped", task.entities \ {e})
  <2>3. rest \in Seq(Task)
    BY <2>1, FillTasksType
  <2>4. set \in Seq(Task)
    BY <2>1, TaskType, SingletonType DEF Entity
  <2>5. set \o rest \in Seq(Task)
    BY <2>3, <2>4, ConcatType
  <2> QED BY <1>4, <1>6, <2>1, <2>2, <2>5 DEF FillCacheMapped
<1>7. CASE SetMapping(c) \/ SetList(c) \/ InvalidateCache(c) \/ InvalidateOldUid(c)
             \/ FlushItems(c) \/ PublishFlushItem(c)
  <2>1. Done(c) /\ UNCHANGED flushedAt /\ msgs \subseteq msgs' /\ task.do # "flushListCache"
    BY <1>7 DEF SetMapping, SetList, InvalidateCache, InvalidateOldUid, FlushItems,
       PublishFlushItem, Publish, Doing, cacheVars
  <2>2. << >> \in Seq(Task) /\ << >> \o Tail(todo[c]) = Tail(todo[c])
    BY <1>2
  <2> QED BY <1>3, <1>4, <2>1, <2>2
<1>8. CASE FlushListCache(c)
  <2>1. \A m \in Nodes : Bump(m) \in msgs'
    BY <1>8 DEF FlushListCache, Publish, Bump, FlushInv
  <2> QED BY <1>0, <1>8, <2>1, BumpFlushes DEF FlushListCache, FlushDue
<1> QED BY <1>5, <1>6, <1>7, <1>8 DEF AccessCache

\* What a task puts into a list cache was read, and none comes from elsewhere.
LEMMA AccessCacheRead ==
    ASSUME TypeOK, FlushInv, NEW c \in Clients, AccessCache(c)
    PROVE  ListsRead' /\ TasksRead'
<1> DEFINE n == NodeOf[c]
           task == Head(todo[c])
<1>0. UNCHANGED log /\ n \in Nodes
  BY LocalType DEF AccessCache, FillCache, FillCacheMapped, SetMapping, SetList,
     InvalidateCache, InvalidateOldUid, FlushListCache, FlushItems, PublishFlushItem, dbVars
<1>1. todo[c] # << >> /\ todo[c] \in Seq(Task)
  BY LocalType DEF AccessCache, FillCache, FillCacheMapped, SetMapping, SetList, InvalidateCache,
     InvalidateOldUid, FlushListCache, FlushItems, PublishFlushItem, Doing
<1>2. /\ task \in Task /\ Tail(todo[c]) \in Seq(Task)
      /\ task.do = "setList" => ReadFrom(log, task.entry)
  BY <1>1, HeadAndTailType DEF FlushInv, TasksRead, SetsReadFrom
<1>3. ASSUME NEW tasks \in Seq(Task), NoSets(tasks), Then(c, tasks \o Tail(todo[c]))
      PROVE  TasksRead'
  <2> DEFINE rest == Tail(todo[c])
  <2>1. ASSUME NEW i \in 1..Len(tasks \o rest), (tasks \o rest)[i].do = "setList"
        PROVE  ReadFrom(log, (tasks \o rest)[i].entry)
    <3>1. CASE i \in 1..Len(tasks)
      <4>1. (tasks \o rest)[i] = tasks[i]
        BY <1>2, <3>1
      <4> QED BY <1>3, <2>1, <3>1, <4>1 DEF NoSets
    <3>2. CASE i \notin 1..Len(tasks)
      <4>1. /\ i - Len(tasks) + 1 \in 1..Len(todo[c])
            /\ (tasks \o rest)[i] = todo[c][i - Len(tasks) + 1]
        BY <1>1, <1>2, <3>2
      <4> QED BY <2>1, <4>1 DEF FlushInv, TasksRead, SetsReadFrom
    <3> QED BY <3>1, <3>2
  <2> HIDE DEF rest
  <2>2. SetsReadFrom(log', tasks \o rest)
    BY <1>0, <2>1 DEF SetsReadFrom
  <2> QED BY <1>0, <1>3, <2>2, ThenRead DEF rest
<1>4. Done(c) => TasksRead'
  <2>1. << >> \in Seq(Task) /\ << >> \o Tail(todo[c]) = Tail(todo[c])
    BY <1>2
  <2>2. NoSets(<< >>)
    BY NothingSet
  <2> QED BY <1>3, <2>1, <2>2 DEF Done, Then
<1>5. UNCHANGED lists => ListsRead'
  BY <1>0, KeptRead
<1>6. CASE FillCache(c)
  <2>1. task.entities \in SUBSET Entity
    BY <1>2, <1>6, TaskFields DEF FillCache, Doing
  <2>2. PICK e \in task.entities :
          Then(c, FillTasks("setCached", task.entities \ {e}) \o Tail(todo[c]))
    BY <1>6 DEF FillCache
  <2>3. FillTasks("setCached", task.entities \ {e}) \in Seq(Task)
        /\ NoSets(FillTasks("setCached", task.entities \ {e}))
    BY <2>1, FillTasksType, NothingSet
  <2> QED BY <1>3, <1>5, <1>6, <2>2, <2>3 DEF FillCache
<1>7. CASE FillCacheMapped(c)
  <2>1. task.entities \in SUBSET Entity
    BY <1>2, <1>7, TaskFields DEF FillCacheMapped, Doing
  <2>2. PICK e \in task.entities :
          Then(c, << [do |-> "setMapping", uid |-> e.uid, id |-> e.id] >>
                    \o FillTasks("setCachedMapped", task.entities \ {e})
                    \o Tail(todo[c]))
    BY <1>7 DEF FillCacheMapped
  <2> DEFINE set  == << [do |-> "setMapping", uid |-> e.uid, id |-> e.id] >>
             rest == FillTasks("setCachedMapped", task.entities \ {e})
  <2>3. rest \in Seq(Task) /\ NoSets(rest)
    BY <2>1, FillTasksType, NothingSet
  <2>4. set \in Seq(Task) /\ NoSets(set)
    BY <2>1, TaskType, SingletonType, NothingSet DEF Entity
  <2>5. set \o rest \in Seq(Task) /\ NoSets(set \o rest)
    BY <2>3, <2>4, ConcatType, ConcatNoSets
  <2> QED BY <1>3, <1>5, <1>7, <2>2, <2>5 DEF FillCacheMapped
<1>8. CASE SetList(c)
  <2>1. \A m \in Nodes : lists'[m] \subseteq lists[m] \cup (IF m = n THEN {task.entry} ELSE {})
    BY <1>0, <1>8 DEF SetList, TypeOK, CachesOK
  <2>2. ReadFrom(log, task.entry)
    BY <1>2, <1>8 DEF SetList, Doing
  <2>3. ListsRead'
    BY <1>0, <2>1, <2>2 DEF FlushInv, ListsRead
  <2> QED BY <1>4, <1>8, <2>3 DEF SetList
<1>9. CASE SetMapping(c) \/ InvalidateCache(c) \/ InvalidateOldUid(c) \/ FlushItems(c)
             \/ PublishFlushItem(c) \/ FlushListCache(c)
  BY <1>4, <1>5, <1>9 DEF SetMapping, InvalidateCache, InvalidateOldUid, FlushItems,
     PublishFlushItem, FlushListCache, cacheVars
<1> QED BY <1>6, <1>7, <1>8, <1>9 DEF AccessCache

\* The readers of lists and counts get what the one position of the log has.
LEMMA ReaderRead ==
    ASSUME TypeOK, FlushInv, NEW c \in Clients,
           \/ List(c) \/ Count(c) \/ ListFromCache(c) \/ QueryList(c) \/ QueryCount(c)
    PROVE  ListsRead' /\ TasksRead' /\ OthersStay(c)
<1>1. UNCHANGED log /\ UNCHANGED lists
  BY DEF List, Count, ListFromCache, QueryList, QueryCount, dbVars, cacheVars
<1>2. ListsRead'
  BY <1>1, KeptRead
<1>3. \E label, a : Goto(c, label, a)
  BY DEF List, Count, ListFromCache, QueryList, QueryCount, Return
<1>4. CASE List(c) \/ Count(c) \/ ListFromCache(c)
  <2>1. UNCHANGED todo
    BY <1>4 DEF List, Count, ListFromCache
  <2> QED BY <1>1, <1>2, <1>3, <2>1, KeptRead, OthersStayHolds
<1>5. ASSUME NEW kind, NEW e, NEW p \in ReadPositions
      PROVE  SetsReadFrom(log, << SetListTask(kind, e, p) >>)
  BY LogType DEF SetsReadFrom, ReadFrom, SetListTask, TypeOK
<1>6. CASE QueryList(c)
  <2> DEFINE fill(p) == FillTasks("setCached", {Entry(log[p], id) : id \in Selected(log[p])})
             set(p) == << SetListTask("List", arg[c].epoch, p) >>
  <2>1. PICK p \in ReadPositions : Then(c, fill(p) \o set(p))
    BY <1>6 DEF QueryList
  <2>2. {Entry(log[p], id) : id \in Selected(log[p])} \in SUBSET Entity
    BY ReadEntryType DEF Selected, LiveIds
  <2>3. fill(p) \in Seq(Task) /\ NoSets(fill(p))
    BY <2>2, FillTasksType, NothingSet
  <2>4. set(p) \in Seq(Task) /\ SetsReadFrom(log, set(p))
    <3>1. arg[c].epoch \in Nat
      BY <1>6, LocalType DEF QueryList, At, ArgFits
    <3> QED BY <1>5, <3>1, SetListTaskType, SingletonType
  <2> HIDE DEF fill, set
  <2>5. ASSUME NEW i \in 1..Len(fill(p) \o set(p)), (fill(p) \o set(p))[i].do = "setList"
        PROVE  ReadFrom(log, (fill(p) \o set(p))[i].entry)
    <3>1. CASE i \in 1..Len(fill(p))
      <4>1. (fill(p) \o set(p))[i] = fill(p)[i]
        BY <2>3, <2>4, <3>1
      <4> QED BY <2>3, <2>5, <3>1, <4>1 DEF NoSets
    <3>2. CASE i \notin 1..Len(fill(p))
      <4>1. /\ i - Len(fill(p)) \in 1..Len(set(p))
            /\ (fill(p) \o set(p))[i] = set(p)[i - Len(fill(p))]
        BY <2>3, <2>4, <3>2
      <4> QED BY <2>4, <2>5, <4>1 DEF SetsReadFrom
    <3> QED BY <3>1, <3>2
  <2>6. SetsReadFrom(log', fill(p) \o set(p))
    BY <1>1, <2>5 DEF SetsReadFrom
  <2> QED BY <1>1, <1>2, <1>3, <2>1, <2>6, ThenRead, OthersStayHolds DEF fill, set
<1>7. CASE QueryCount(c)
  <2>1. PICK p \in ReadPositions : Then(c, << SetListTask("Count", arg[c].epoch, p) >>)
    BY <1>7 DEF QueryCount
  <2> QED BY <1>1, <1>2, <1>3, <1>5, <2>1, ThenRead, OthersStayHolds
<1> QED BY <1>4, <1>6, <1>7

\* A step of the environment that bumps no epoch and loses no message of a bump.
LEMMA QuietEnvironment ==
    ASSUME TypeOK, FlushInv, UNCHANGED log, UNCHANGED clientVars, UNCHANGED flushedAt,
           up' = Nodes, \A n \in Nodes : lists'[n] \subseteq lists[n],
           \A n \in Nodes : Bump(n) \in msgs => Bump(n) \in msgs'
    PROVE  FlushInv'
<1>1. ListsRead' /\ TasksRead'
  BY KeptRead DEF clientVars
<1>2. BulkIsCalled'
  BY DEF FlushInv, BulkIsCalled, clientVars
<1>3. \A n \in Nodes : FlushDue(n) => FlushDue(n)'
  BY DEF FlushDue, WillFlush, Flushes, Bump, clientVars
<1>4. ChangesAreFlushed'
  BY <1>3 DEF FlushInv, ChangesAreFlushed, Primary
<1> QED BY <1>1, <1>2, <1>4 DEF FlushInv

\* Deliveries and expirations keep the invariant; nothing is lost, nobody restarts.
LEMMA EnvironmentFlushes ==
    ASSUME TypeOK, FlushInv, WritesFlush
    PROVE  /\ \A m \in msgs : Deliver(m) \/ LoseMessage(m) => FlushInv'
           /\ \A n \in Nodes : Expire(n) \/ Restart(n) \/ Subscribe(n) => FlushInv'
           /\ Replicate => FlushInv'
           /\ UNCHANGED vars => FlushInv'
<1>1. ASSUME NEW m \in msgs, Deliver(m)
      PROVE  FlushInv'
  <2>1. CASE OnBumpEpoch(m)
    <3>1. m.to \in Nodes /\ m.kind = "bumpEpoch" /\ msgs' = msgs \ {m}
      BY <2>1, MessageFields DEF OnBumpEpoch, Receive, TypeOK, MessagesOK
    <3>2. /\ UNCHANGED <<log, up, pc>> /\ UNCHANGED clientVars
          /\ UNCHANGED lists /\ BumpEpoch(m.to)
      BY <2>1 DEF OnBumpEpoch, dbVars, clientVars
    <3>3. \A n \in Nodes : n # m.to /\ FlushDue(n) => FlushDue(n)'
      BY <3>1, <3>2 DEF FlushDue, WillFlush, Flushes, Bump, clientVars
    <3>4. up' = Nodes /\ BulkIsCalled' /\ ChangesAreFlushed'
      BY <3>1, <3>2, <3>3, BumpFlushes
    <3>5. ListsRead' /\ TasksRead'
      BY <3>2, KeptRead DEF clientVars
    <3> QED BY <3>4, <3>5 DEF FlushInv
  <2>2. CASE OnCacheInvalidated(m) \/ OnCacheFlushItem(m)
    <3>1. m.kind # "bumpEpoch" /\ msgs' = msgs \ {m}
      BY <2>2 DEF OnCacheInvalidated, OnCacheFlushItem, Receive
    <3>2. \A n \in Nodes : Bump(n) \in msgs => Bump(n) \in msgs'
      BY <3>1 DEF Bump
    <3> QED BY <2>2, <3>2, QuietEnvironment DEF OnCacheInvalidated, OnCacheFlushItem, dbVars,
               FlushInv
  <2> QED BY <1>1, <2>1, <2>2 DEF Deliver
<1>2. \A m \in msgs : ~LoseMessage(m)
  BY DEF LoseMessage, WritesFlush, WritesInvalidate
<1>3. ASSUME NEW n \in Nodes, Expire(n)
      PROVE  FlushInv'
  <2>1. UNCHANGED log /\ UNCHANGED clientVars /\ UNCHANGED flushedAt /\ UNCHANGED <<msgs, up>>
    BY <1>3 DEF Expire, ExpireItem, ExpireMapping, ExpireLists, dbVars
  <2>2. \A m \in Nodes : lists'[m] \subseteq lists[m]
    BY <1>3 DEF Expire, ExpireItem, ExpireMapping, ExpireLists, TypeOK, CachesOK
  <2> QED BY <2>1, <2>2, QuietEnvironment DEF FlushInv
<1>4. \A n \in Nodes : ~Restart(n) /\ ~Subscribe(n)
  BY DEF Restart, Subscribe, WritesFlush, WritesInvalidate, FlushInv
<1>5. ~Replicate
  BY DEF Replicate, WritesFlush, WritesInvalidate
<1>6. CASE UNCHANGED vars
  BY <1>6, QuietEnvironment DEF vars, dbVars, cacheVars, FlushInv
<1> QED BY <1>1, <1>2, <1>3, <1>4, <1>5, <1>6

\* Nothing is cached or due in the first state.
LEMMA InitFlushes == ASSUME WritesFlush PROVE Init => FlushInv
<1> SUFFICES ASSUME Init PROVE FlushInv
  OBVIOUS
<1>1. up = Nodes /\ BulkIsCalled
  BY DEF Init, WritesFlush, WritesInvalidate, BulkIsCalled, Called
<1>2. ListsRead /\ TasksRead
  BY DEF Init, ListsRead, TasksRead, SetsReadFrom
<1>3. ChangesAreFlushed
  <2>1. \A p \in 1..Len(log) : p = Len(log)
    BY DEF Init
  <2> QED BY <2>1 DEF ChangesAreFlushed, Primary
<1> QED BY <1>1, <1>2, <1>3 DEF FlushInv

\* Every step keeps the invariant: one case per disjunct of Next.
LEMMA NextFlushes ==
    ASSUME TypeOK, FlushInv, WritesFlush, [Next]_vars
    PROVE  FlushInv'
<1>1. ASSUME NEW c \in Clients, QuietStep(c), ListsRead', TasksRead', OthersStay(c)
      PROVE  FlushInv'
  BY <1>1, QuietStepFlushes DEF FlushInv
<1>2. ASSUME NEW c \in Clients, Read(c) \/ Write(c)
      PROVE  FlushInv'
  <2>1. QuietStep(c)
    BY <1>2, ReadIsQuiet, WriteIsQuiet
  <2>2. ListsRead' /\ TasksRead' /\ OthersStay(c)
    BY <1>2, ReadIsPlain, WriteIsPlain, PlainStepRead, ReaderRead
  <2> QED BY <1>1, <2>1, <2>2
<1>3. ASSUME NEW c \in Clients, Query(c) \/ Execute(c)
      PROVE  FlushInv'
  <2>1. QuietStep(c)
    BY <1>3, QueryIsQuiet, ExecuteIsQuiet
  <2>2. ListsRead' /\ TasksRead' /\ OthersStay(c)
    BY <1>3, QueryIsPlain, ExecuteIsPlain, PlainStepRead, ReaderRead
  <2> QED BY <1>1, <2>1, <2>2
<1>4. ASSUME NEW c \in Clients, AccessCache(c)
      PROVE  FlushInv'
  BY <1>4, AccessCacheRead, AccessCacheFlushes DEF FlushInv
<1>5. ASSUME NEW c \in Clients, DatabaseError(c)
      PROVE  FlushInv'
  <2>1. PlainStep(c)
    BY <1>5, ReturnIsPlain DEF DatabaseError, PlainStep, dbVars, cacheVars
  <2> QED BY <1>1, <1>5, <2>1, PlainStepRead, DatabaseErrorIsQuiet
<1> QED BY <1>2, <1>3, <1>4, <1>5, EnvironmentFlushes DEF Next, Continue

\* Once all calls have returned and all publications have arrived, every list and
\* every count that a node's epoch makes visible is the table's: for any number of
\* nodes and clients, any interleaving of readers, writers and deliveries, and
\* statements that fail.  No epoch of a node outlives the writes it has not seen.
THEOREM QuietListsCurrent == ASSUME WritesFlush PROVE Spec => []QuietListsAreCurrent
<1>1. TypeOK /\ ListInv /\ FlushInv => QuietListsAreCurrent
  <2> SUFFICES ASSUME TypeOK, ListInv, FlushInv, Quiet, NEW n \in Nodes, NEW l \in lists[n],
                      l.epoch = epoch[n]
               PROVE  l.ids = Selected(Primary)
    BY DEF QuietListsAreCurrent
  <2>1. ~FlushDue(n)
    BY NothingToFlush DEF Quiet, FlushDue
  <2>2. l.asOf \in 1..Len(log) /\ l.ids = Selected(log[l.asOf])
    BY DEF FlushInv, ListsRead, ReadFrom
  <2>3. l.asOf >= flushedAt[n]
    BY DEF ListInv, ListsInOrder, InOrder
  <2> QED BY <2>1, <2>2, <2>3 DEF FlushInv, ChangesAreFlushed
<1>2. "lag" \notin Faults
  BY DEF WritesFlush, WritesInvalidate
<1>3. Init => FlushInv
  BY InitFlushes
<1>4. TypeOK /\ FlushInv /\ [Next]_vars => FlushInv'
  BY NextFlushes
<1>5. Spec => []TypeOK /\ []ListInv
  BY <1>2, TypeCorrect, ListInvHolds
<1> QED BY <1>1, <1>3, <1>4, <1>5, PTL DEF Spec
=============================================================================

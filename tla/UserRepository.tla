--------------------------- MODULE UserRepository ---------------------------
(***************************************************************************)
(* The generated repository userRepository (src/example/dal/user.gen.go):  *)
(* several processes ("nodes") each keep an in-memory cache of single      *)
(* rows, of unique key -> id mappings and of lists in front of one MySQL   *)
(* table, protect updates by a version column, and tell each other through *)
(* Redis publish/subscribe what to drop from their caches.                 *)
(*                                                                         *)
(* A client is a goroutine that calls one repository operation at a time.  *)
(* An operation is a first step (its look-up in the cache, or its SQL      *)
(* statement when it looks nothing up), the SQL statements that follow,    *)
(* and the list of cache accesses and publications it still has to make    *)
(* once the database has answered: todo[c].  Steps of different clients,   *)
(* deliveries and expirations interleave between any two of them.          *)
(***************************************************************************)
EXTENDS Integers, Sequences, FiniteSets

CONSTANTS
    Nodes,          \* the processes that run the repository
    Clients,        \* the goroutines that call it
    NodeOf,         \* [Clients -> Nodes]
    MaxId,          \* bound: ids the AUTO_INCREMENT column hands out
    Uids,           \* values of a unique column (uid; email is treated alike)
    Ages,           \* values of a column that is not unique
    Matching,       \* the Ages that the list's and the custom delete's WHERE select
    Seed,           \* the rows there are when the nodes start: a sequence of [uid, age]
    MaxCacheItems,  \* caching.maxItemsCount
    BatchSize,      \* batchSize of the bulk operations
    MaxCommits,     \* bound: write statements that change the table
    Ops,            \* the operations the clients call
    Faults,         \* what may go wrong: see AllFaults
    None            \* "not there"

AllOps == {"GetByID", "GetByUid", "GetByIds", "GetByUids", "List", "Count", "Create",
           "CreateBulk", "Update", "UpdateBulk", "Delete", "HardDelete", "DeleteOlder",
           "HardDeleteOlder"}

\* dbError: a statement fails.  lostAck: a statement is executed and its answer
\* is an error.  loseMsg: a publication fails three times, or Redis drops it.
\* lag: the read instances apply the writes some time after the write instance.
\* restart: a node restarts and for a while is not subscribed to any channel.
AllFaults == {"dbError", "lostAck", "loseMsg", "lag", "restart"}

Ids == 1..MaxId

Entity == [id: Ids, ver: Nat, uid: Uids, age: Ages]
NewRow == [uid: Uids, age: Ages]

ASSUME ConstantsAssumption ==
    /\ NodeOf \in [Clients -> Nodes]
    /\ MaxId \in Nat
    /\ Uids # {} /\ Ages # {}
    /\ Matching \subseteq Ages
    /\ Seed \in Seq(NewRow)
    /\ Len(Seed) <= MaxId
    /\ \A i, j \in 1..Len(Seed) : Seed[i].uid = Seed[j].uid => i = j   \* the unique index
    /\ MaxCacheItems \in Nat
    /\ BatchSize \in Nat \ {0}
    /\ MaxCommits \in Nat
    /\ Ops \subseteq AllOps
    /\ Faults \subseteq AllFaults
    /\ None \notin Entity \cup Uids \cup Ids

VARIABLES
    log,        \* the table after each write: log[Len(log)] is the write instance's
    synced,     \* every read instance has applied log[1..synced]
    items,      \* items[n][id]: what node n's cache holds under user_id:<id>
    uidMap,     \* uidMap[n][u]: the id node n's cache holds under user_uid:<u>
    lists,      \* lists[n]: entries of node n's listCache and countCache
    epoch,      \* listEpoch of each node
    flushedAt,  \* auxiliary: Len(log) when the node's epoch was last bumped
    msgs,       \* publications on their way to a subscribed node
    up,         \* the nodes that are subscribed
    pc,         \* what a client executes next once its todo list is empty
    arg,        \* the local variables it needs for it
    todo,       \* what it still does with the caches, in order
    held        \* the entity that the client got last and may update

dbVars     == <<log, synced>>
cacheVars  == <<items, uidMap, lists, epoch, flushedAt>>
clientVars == <<pc, arg, todo, held>>
vars == <<dbVars, cacheVars, msgs, up, clientVars>>
-----------------------------------------------------------------------------
(* The database.  A row is never forgotten: "unborn" before its INSERT,      *)
(* "deleted" by a soft delete, "purged" by a hard delete.                     *)

Row == [state: {"unborn", "live", "deleted", "purged"}, ver: Nat, uid: Uids, age: Ages]

Primary == log[Len(log)]

IsLive(t, id) == t[id].state = "live"
LiveIds(t) == {id \in Ids : IsLive(t, id)}

\* A soft delete scrambles the unique columns: only live rows have a uid.
IdsOfUid(t, u) == {id \in LiveIds(t) : t[id].uid = u}

\* The ids that a list returns.
Selected(t) == {id \in LiveIds(t) : t[id].age \in Matching}

Entry(t, id) == [id |-> id, ver |-> t[id].ver, uid |-> t[id].uid, age |-> t[id].age]

Inserted(row) == [state |-> "live", ver |-> 0, uid |-> row.uid, age |-> row.age]

\* Mutant of Touched: the SET clause without the version.
TouchedSameVersion(row, uid, age) ==
    [state |-> "live", ver |-> row.ver, uid |-> uid, age |-> age]

\* The statement's SET clause, with version = version + 1.
Touched(row, uid, age) ==
    [state |-> "live", ver |-> row.ver + 1, uid |-> uid, age |-> age]

SoftDeleted(row) ==
    [state |-> "deleted", ver |-> row.ver + 1, uid |-> row.uid, age |-> row.age]

\* Mutant of Purged: the id of a purged row is handed out again.
PurgedAndReused(row) == [state |-> "unborn", ver |-> row.ver, uid |-> row.uid, age |-> row.age]

Purged(row) == [state |-> "purged", ver |-> row.ver, uid |-> row.uid, age |-> row.age]

\* AUTO_INCREMENT: the ids below first have been handed out, the others not.
IsNextId(t, first) == \A id \in Ids : t[id].state = "unborn" <=> id >= first

\* The positions of the log at which a read instance may be.
ReadPositions == IF "lag" \in Faults THEN synced..Len(log) ELSE {Len(log)}

Commit(t) == /\ Len(log) <= MaxCommits
             /\ log' = Append(log, t)
             /\ UNCHANGED synced
-----------------------------------------------------------------------------
(* The publish/subscribe layer, as the repository sees it.                   *)

Message == [to: Nodes, kind: {"invalidateId"}, key: Ids]
      \cup [to: Nodes, kind: {"invalidateUid"}, key: Uids]
      \cup [to: Nodes, kind: {"bumpEpoch", "flushItem"}, key: {None}]

Publish(kind, key) == msgs' = msgs \cup {[to |-> n, kind |-> kind, key |-> key] : n \in up}
-----------------------------------------------------------------------------
(* What an operation does with the caches once the database has answered.    *)

ListEntry == [kind: {"List", "Count"}, epoch: Nat, ids: SUBSET Ids, asOf: Nat]

Task == [do: {"setCached", "setCachedMapped"}, entities: SUBSET Entity]
   \cup [do: {"setMapping"}, uid: Uids, id: Ids]
   \cup [do: {"setList"}, entry: ListEntry]
   \cup [do: {"invalidateCache"}, id: Ids]
   \cup [do: {"invalidateUid"}, uid: Uids]
   \cup [do: {"flushListCache", "flushItems", "publishFlushItem"}]

\* setCached for every entity of a result; with "setCachedMapped" each of them
\* also gets its mapping.
FillTasks(do, entities) ==
    IF entities = {} THEN << >> ELSE << [do |-> do, entities |-> entities] >>

InvalidateTask(id) == [do |-> "invalidateCache", id |-> id]
FlushListTask == [do |-> "flushListCache"]

\* Mutants of FlushAllTasks: other nodes keep their items; nobody flushes lists.
FlushAllTasksHere == << [do |-> "flushItems"], FlushListTask >>
FlushAllItemsTasks == << [do |-> "flushItems"], [do |-> "publishFlushItem"] >>

\* FlushAllCache: the single items here, the lists here and elsewhere, the
\* single items elsewhere.
FlushAllTasks == << [do |-> "flushItems"], FlushListTask, [do |-> "publishFlushItem"] >>

\* Mutant of NextVersion: the version goes down.
PreviousVersion(e) == [id |-> e.id, ver |-> e.ver - 1, uid |-> e.uid, age |-> e.age]

\* entity.Version++
NextVersion(e) == [id |-> e.id, ver |-> e.ver + 1, uid |-> e.uid, age |-> e.age]

\* Mutant of UpdateTasks: the mapping of the old uid is forgotten.
UpdateTasksWithoutMapping(oldUid, e) ==
    << InvalidateTask(e.id), FlushListTask >> \o FillTasks("setCached", {NextVersion(e)})

\* Mutant of UpdateTasks: the row is cached under the version it had.
UpdateTasksSameVersion(oldUid, e) ==
    << InvalidateTask(e.id), FlushListTask >> \o FillTasks("setCached", {e})

\* After the UPDATE of a row that had oldUid to e: the mapping of the old uid,
\* the row, the lists; then the new row becomes part of the local cache.
UpdateTasks(oldUid, e) ==
    (IF oldUid # e.uid THEN << [do |-> "invalidateUid", uid |-> oldUid] >> ELSE << >>)
    \o << InvalidateTask(e.id), FlushListTask >>
    \o FillTasks("setCached", {NextVersion(e)})
-----------------------------------------------------------------------------
\* The nodes have run for a while, so that they are subscribed, unless the
\* start of a node is itself part of the run.
Init ==
    /\ log = << [id \in Ids |-> IF id <= Len(Seed) THEN Inserted(Seed[id])
                                ELSE [state |-> "unborn", ver |-> 0,
                                      uid |-> CHOOSE u \in Uids : TRUE,
                                      age |-> CHOOSE a \in Ages : TRUE]] >>
    /\ synced = 1
    /\ items = [n \in Nodes |-> [id \in Ids |-> None]]
    /\ uidMap = [n \in Nodes |-> [u \in Uids |-> None]]
    /\ lists = [n \in Nodes |-> {}]
    /\ epoch = [n \in Nodes |-> 0]
    /\ flushedAt = [n \in Nodes |-> 0]
    /\ msgs = {}
    /\ up = IF "restart" \in Faults THEN {} ELSE Nodes
    /\ pc = [c \in Clients |-> "idle"]
    /\ arg = [c \in Clients |-> None]
    /\ todo = [c \in Clients |-> << >>]
    /\ held = [c \in Clients |-> None]
-----------------------------------------------------------------------------
(* Control of a client.                                                      *)

At(c, label) == pc[c] = label /\ todo[c] = << >>
Call(c, op) == op \in Ops /\ At(c, "idle")

Goto(c, label, a) == /\ pc' = [pc EXCEPT ![c] = label]
                     /\ arg' = [arg EXCEPT ![c] = a]
Return(c) == Goto(c, "idle", None)
Then(c, tasks) == todo' = [todo EXCEPT ![c] = tasks]
Hold(c, e) == held' = [held EXCEPT ![c] = e]

\* A statement that changed the table is answered and the operation goes on
\* with its tasks; or the answer is an error, which the operation returns.
Answered(c, tasks) == \/ Then(c, tasks)
                      \/ "lostAck" \in Faults /\ UNCHANGED todo

\* The same for an operation that gives its caller the entity e.
AnsweredWith(c, e, tasks) == \/ Then(c, tasks) /\ Hold(c, e)
                             \/ "lostAck" \in Faults /\ UNCHANGED <<todo, held>>
-----------------------------------------------------------------------------
(* Reading single rows.                                                      *)

\* getByIDCached: a hit ends the operation, a miss goes on to the database.
GetByIDCached(c, id) ==
    LET cached == items[NodeOf[c]][id]
    IN  \/ cached # None /\ Hold(c, cached) /\ Return(c)
        \/ cached = None /\ UNCHANGED held /\ Goto(c, "getByID", [id |-> id])

GetByID(c, id) ==
    /\ Call(c, "GetByID")
    /\ GetByIDCached(c, id)
    /\ UNCHANGED <<dbVars, cacheVars, msgs, up, todo>>

\* getByID, on any read instance; then setCached of the row.
QueryByID(c) ==
    /\ At(c, "getByID")
    /\ \E p \in ReadPositions :
         LET id == arg[c].id
         IN  \/ /\ IsLive(log[p], id)
                /\ Then(c, FillTasks("setCached", {Entry(log[p], id)}))
                /\ Hold(c, Entry(log[p], id))
             \/ ~IsLive(log[p], id) /\ UNCHANGED <<todo, held>>   \* ErrNotFound
    /\ Return(c)
    /\ UNCHANGED <<dbVars, cacheVars, msgs, up>>

\* A cached mapping leads to GetByID of its id, whose look-up is a later step.
GetByUid(c, u) ==
    /\ Call(c, "GetByUid")
    /\ LET id == uidMap[NodeOf[c]][u]
       IN  \/ id # None /\ Goto(c, "mapped", [id |-> id])
           \/ id = None /\ Goto(c, "getByUid", [uid |-> u])
    /\ UNCHANGED <<dbVars, cacheVars, msgs, up, todo, held>>

GetByMappedID(c) ==
    /\ At(c, "mapped")
    /\ GetByIDCached(c, arg[c].id)
    /\ UNCHANGED <<dbVars, cacheVars, msgs, up, todo>>

\* getByUid; only the mapping is cached, not the row.
QueryByUid(c) ==
    /\ At(c, "getByUid")
    /\ \E p \in ReadPositions :
         \/ \E id \in IdsOfUid(log[p], arg[c].uid) :
              /\ Then(c, << [do |-> "setMapping", uid |-> arg[c].uid, id |-> id] >>)
              /\ Hold(c, Entry(log[p], id))
         \/ IdsOfUid(log[p], arg[c].uid) = {} /\ UNCHANGED <<todo, held>>
    /\ Return(c)
    /\ UNCHANGED <<dbVars, cacheVars, msgs, up>>
-----------------------------------------------------------------------------
(* Reading several rows by key: what is not in the cache is read in chunks,  *)
(* and cached once all chunks have been read.                                *)

\* The subsets that one statement reads: BatchSize keys, or the last ones.
Chunks(keys) == {k \in SUBSET keys : IF Cardinality(keys) <= BatchSize THEN k = keys
                                     ELSE Cardinality(k) = BatchSize}

GetBulk(c, label, missing) ==
    IF missing = {} THEN UNCHANGED <<pc, arg>>
                    ELSE Goto(c, label, [keys |-> missing, got |-> {}])

GetByIds(c, ids) ==
    /\ Call(c, "GetByIds")
    /\ GetBulk(c, "getByIds", {id \in ids : items[NodeOf[c]][id] = None})
    /\ UNCHANGED <<dbVars, cacheVars, msgs, up, todo, held>>

GetByUids(c, uids) ==
    /\ Call(c, "GetByUids")
    /\ GetBulk(c, "getByUids", {u \in uids : LET id == uidMap[NodeOf[c]][u]
                                             IN  \/ id = None
                                                 \/ items[NodeOf[c]][id] = None})
    /\ UNCHANGED <<dbVars, cacheVars, msgs, up, todo, held>>

\* One chunk is read, which found the rows; after the last one all are cached.
QueryChunk(c, chunk, found, do) ==
    LET got == arg[c].got \cup found
    IN  \/ chunk # arg[c].keys /\ UNCHANGED todo
           /\ Goto(c, pc[c], [keys |-> arg[c].keys \ chunk, got |-> got])
        \/ chunk = arg[c].keys /\ Return(c) /\ Then(c, FillTasks(do, got))

QueryByIds(c) ==
    /\ At(c, "getByIds")
    /\ \E p \in ReadPositions, chunk \in Chunks(arg[c].keys) :
         QueryChunk(c, chunk, {Entry(log[p], id) : id \in chunk \cap LiveIds(log[p])},
                    "setCached")
    /\ UNCHANGED <<dbVars, cacheVars, msgs, up, held>>

QueryByUids(c) ==
    /\ At(c, "getByUids")
    /\ \E p \in ReadPositions, chunk \in Chunks(arg[c].keys) :
         QueryChunk(c, chunk, {Entry(log[p], id) :
                                 id \in {i \in LiveIds(log[p]) : log[p][i].uid \in chunk}},
                    "setCachedMapped")
    /\ UNCHANGED <<dbVars, cacheVars, msgs, up, held>>
-----------------------------------------------------------------------------
(* Lists and counts.  The key of an entry carries the epoch that was current *)
(* when the operation began.                                                 *)

CachedLists(n, kind) == {l \in lists[n] : l.kind = kind /\ l.epoch = epoch[n]}

SetListTask(kind, e, p) ==
    [do |-> "setList",
     entry |-> [kind |-> kind, epoch |-> e, ids |-> Selected(log[p]), asOf |-> p]]

List(c) ==
    /\ Call(c, "List")
    /\ LET n == NodeOf[c]
       IN  \/ \E l \in CachedLists(n, "List") :
                Goto(c, "listCached", [epoch |-> epoch[n], ids |-> l.ids])
           \/ CachedLists(n, "List") = {} /\ Goto(c, "list", [epoch |-> epoch[n]])
    /\ UNCHANGED <<dbVars, cacheVars, msgs, up, todo, held>>

\* A cached list is returned only if every one of its rows is cached too.
ListFromCache(c) ==
    /\ At(c, "listCached")
    /\ IF \A id \in arg[c].ids : items[NodeOf[c]][id] # None
       THEN Return(c)
       ELSE Goto(c, "list", [epoch |-> arg[c].epoch])
    /\ UNCHANGED <<dbVars, cacheVars, msgs, up, todo, held>>

QueryList(c) ==
    /\ At(c, "list")
    /\ \E p \in ReadPositions :
         Then(c, FillTasks("setCached", {Entry(log[p], id) : id \in Selected(log[p])})
                 \o << SetListTask("List", arg[c].epoch, p) >>)
    /\ Return(c)
    /\ UNCHANGED <<dbVars, cacheVars, msgs, up, held>>

\* A cached count is returned as it is, which changes nothing.
Count(c) ==
    /\ Call(c, "Count")
    /\ CachedLists(NodeOf[c], "Count") = {}
    /\ Goto(c, "count", [epoch |-> epoch[NodeOf[c]]])
    /\ UNCHANGED <<dbVars, cacheVars, msgs, up, todo, held>>

QueryCount(c) ==
    /\ At(c, "count")
    /\ \E p \in ReadPositions : Then(c, << SetListTask("Count", arg[c].epoch, p) >>)
    /\ Return(c)
    /\ UNCHANGED <<dbVars, cacheVars, msgs, up, held>>
-----------------------------------------------------------------------------
(* Creating rows.                                                            *)

\* A uid that a live row has makes the INSERT fail, which changes nothing.
Create(c, row) ==
    /\ Call(c, "Create")
    /\ IdsOfUid(Primary, row.uid) = {}
    /\ \E id \in Ids :
         LET t == [Primary EXCEPT ![id] = Inserted(row)]
             e == Entry(t, id)
         IN  /\ IsNextId(Primary, id)
             /\ Commit(t)
             /\ AnsweredWith(c, e, FillTasks("setCached", {e}) \o << FlushListTask >>)
    /\ UNCHANGED <<cacheVars, msgs, up, pc, arg>>

Batches == UNION {[1..k -> NewRow] : k \in Ids}

CreateBulk(c, batch) ==
    /\ Call(c, "CreateBulk")
    /\ Goto(c, "createBulk", [batch |-> batch])
    /\ UNCHANGED <<dbVars, cacheVars, msgs, up, todo, held>>

ChunkLen(c) == IF Len(arg[c].batch) <= BatchSize THEN Len(arg[c].batch) ELSE BatchSize

\* Mutant of ChunkIsDuplicate: the table has no unique index.
ChunkRepeatsUid(c) ==
    \E i, j \in 1..ChunkLen(c) : i < j /\ arg[c].batch[i].uid = arg[c].batch[j].uid

ChunkIsDuplicate(c) ==
    \E i \in 1..ChunkLen(c) :
        \/ IdsOfUid(Primary, arg[c].batch[i].uid) # {}
        \/ \E j \in 1..(i - 1) : arg[c].batch[j].uid = arg[c].batch[i].uid

\* One chunk of createBulk.  Its rows get consecutive ids and are cached; the
\* lists are flushed only after the last chunk.
InsertChunk(c) ==
    /\ At(c, "createBulk")
    /\ ~ChunkIsDuplicate(c)
    /\ \E first \in Ids :
         LET batch == arg[c].batch
             k     == ChunkLen(c)
             new   == first..(first + k - 1)
             t     == [id \in Ids |-> IF id \in new THEN Inserted(batch[id - first + 1])
                                                    ELSE Primary[id]]
             fill  == FillTasks("setCached", {Entry(t, id) : id \in new})
         IN  /\ first + k - 1 <= MaxId
             /\ IsNextId(Primary, first)
             /\ Commit(t)
             /\ \/ /\ k = Len(batch)
                   /\ Return(c)
                   /\ Then(c, fill \o << FlushListTask >>)
                \/ /\ k < Len(batch)
                   /\ Goto(c, "createBulk", [batch |-> SubSeq(batch, k + 1, Len(batch))])
                   /\ Then(c, fill)
                \/ /\ "lostAck" \in Faults
                   /\ Return(c)
                   /\ UNCHANGED todo
    /\ UNCHANGED <<cacheVars, msgs, up, held>>

\* The INSERT of a chunk fails: the operation returns the error.
InsertChunkFails(c) ==
    /\ At(c, "createBulk")
    /\ ChunkIsDuplicate(c)
    /\ Return(c)
    /\ UNCHANGED <<dbVars, cacheVars, msgs, up, todo, held>>
-----------------------------------------------------------------------------
(* Updating one row, under the version that the caller's entity carries.     *)

\* The caller has changed an entity it holds.  GetByID of the row, here its
\* look-up in the cache, tells which uid the row had.
Update(c, uid, age) ==
    /\ Call(c, "Update")
    /\ held[c] # None
    /\ LET e      == [id |-> held[c].id, ver |-> held[c].ver, uid |-> uid, age |-> age]
           cached == items[NodeOf[c]][e.id]
       IN  \/ cached # None /\ Goto(c, "update", [new |-> e, oldUid |-> cached.uid])
           \/ cached = None /\ Goto(c, "updateGet", [new |-> e, oldUid |-> e.uid])
    /\ UNCHANGED <<dbVars, cacheVars, msgs, up, todo, held>>

\* GetByID goes to the database; without a row Update fails.
QueryExisting(c) ==
    /\ At(c, "updateGet")
    /\ \E p \in ReadPositions :
         LET id == arg[c].new.id
         IN  \/ /\ IsLive(log[p], id)
                /\ Then(c, FillTasks("setCached", {Entry(log[p], id)}))
                /\ Goto(c, "update", [new |-> arg[c].new, oldUid |-> log[p][id].uid])
             \/ ~IsLive(log[p], id) /\ UNCHANGED todo /\ Return(c)
    /\ UNCHANGED <<dbVars, cacheVars, msgs, up, held>>

\* Mutant of VersionMatches: the WHERE clause without the version.
RowIsLive(e) == IsLive(Primary, e.id)

VersionMatches(e) == IsLive(Primary, e.id) /\ Primary[e.id].ver = e.ver

ExecUpdate(c) ==
    /\ At(c, "update")
    /\ LET e == arg[c].new
       IN  /\ VersionMatches(e)
           /\ IdsOfUid(Primary, e.uid) \subseteq {e.id}
           /\ Commit([Primary EXCEPT ![e.id] = Touched(@, e.uid, e.age)])
           /\ AnsweredWith(c, NextVersion(e), UpdateTasks(arg[c].oldUid, e))
    /\ Return(c)
    /\ UNCHANGED <<cacheVars, msgs, up>>

\* Mutant of UpdateMisses: RowsAffected is not looked at.
UpdateMissesUnseen(c) ==
    /\ At(c, "update")
    /\ ~VersionMatches(arg[c].new)
    /\ Then(c, UpdateTasks(arg[c].oldUid, arg[c].new))
    /\ Return(c)
    /\ UNCHANGED <<dbVars, cacheVars, msgs, up, held>>

\* No row has this id and version: ErrNotFound, after InvalidateCache.
UpdateMisses(c) ==
    /\ At(c, "update")
    /\ ~VersionMatches(arg[c].new)
    /\ Then(c, << InvalidateTask(arg[c].new.id) >>)
    /\ Return(c)
    /\ UNCHANGED <<dbVars, cacheVars, msgs, up, held>>

\* Another live row has the new uid.
UpdateIsDuplicate(c) ==
    /\ At(c, "update")
    /\ VersionMatches(arg[c].new)
    /\ ~(IdsOfUid(Primary, arg[c].new.uid) \subseteq {arg[c].new.id})
    /\ Return(c)
    /\ UNCHANGED <<dbVars, cacheVars, msgs, up, todo, held>>
-----------------------------------------------------------------------------
(* Updating many rows: chunk by chunk, whatever their versions.              *)

UpdateBulk(c, label, keys, age) ==
    /\ Call(c, "UpdateBulk")
    /\ Goto(c, label, [keys |-> keys, age |-> age, changed |-> FALSE])
    /\ UNCHANGED <<dbVars, cacheVars, msgs, up, todo, held>>

UpdateAgeByIds(c, ids, age) == UpdateBulk(c, "updateByIds", ids, age)
UpdateAgeByUids(c, uids, age) == UpdateBulk(c, "updateByUids", uids, age)

\* The UPDATE of one chunk changes the rows hit.  All caches are flushed after
\* the last chunk, if any chunk changed a row.
UpdateChunk(c, chunk, hit) ==
    LET changed == arg[c].changed \/ hit # {}
    IN  /\ IF hit = {} THEN UNCHANGED dbVars
           ELSE Commit([id \in Ids |-> IF id \in hit
                                       THEN Touched(Primary[id], Primary[id].uid, arg[c].age)
                                       ELSE Primary[id]])
        /\ \/ /\ chunk # arg[c].keys
              /\ Goto(c, pc[c], [keys |-> arg[c].keys \ chunk, age |-> arg[c].age, changed |-> changed])
              /\ UNCHANGED todo
           \/ /\ chunk = arg[c].keys
              /\ Return(c)
              /\ Then(c, IF changed THEN FlushAllTasks ELSE << >>)
           \/ /\ "lostAck" \in Faults
              /\ Return(c)
              /\ UNCHANGED todo
        /\ UNCHANGED <<cacheVars, msgs, up, held>>

UpdateChunkByIds(c) ==
    /\ At(c, "updateByIds")
    /\ \E chunk \in Chunks(arg[c].keys) : UpdateChunk(c, chunk, chunk \cap LiveIds(Primary))

UpdateChunkByUids(c) ==
    /\ At(c, "updateByUids")
    /\ \E chunk \in Chunks(arg[c].keys) :
         UpdateChunk(c, chunk, {id \in LiveIds(Primary) : Primary[id].uid \in chunk})
-----------------------------------------------------------------------------
(* Deleting.  No row affected is ErrNotFound, or 0 rows: nothing changes.    *)

Stored(t) == {id \in Ids : t[id].state \in {"live", "deleted"}}

DeleteRows(c, rows, tasks) ==
    /\ Commit([id \in Ids |-> IF id \in DOMAIN rows THEN rows[id] ELSE Primary[id]])
    /\ Answered(c, tasks)
    /\ UNCHANGED <<cacheVars, msgs, up, pc, arg, held>>

\* Mutant of DeleteTasks: the lists are forgotten.
DeleteTasksWithoutLists(id) == << InvalidateTask(id) >>

DeleteTasks(id) == << InvalidateTask(id), FlushListTask >>

Delete(c, id) ==
    /\ Call(c, "Delete")
    /\ id \in LiveIds(Primary)
    /\ DeleteRows(c, [i \in {id} |-> SoftDeleted(Primary[i])], DeleteTasks(id))

HardDelete(c, id) ==
    /\ Call(c, "HardDelete")
    /\ id \in Stored(Primary)
    /\ DeleteRows(c, [i \in {id} |-> Purged(Primary[i])], DeleteTasks(id))

\* The WHERE and the LIMIT, which has no ORDER BY, select the rows ids.
DeleteOlder(c, ids) ==
    /\ Call(c, "DeleteOlder")
    /\ ids # {} /\ ids \subseteq Selected(Primary)
    /\ DeleteRows(c, [i \in ids |-> SoftDeleted(Primary[i])], FlushAllTasks)

\* Its WHERE does not look at deleted_at.
HardDeleteOlder(c, ids) ==
    /\ Call(c, "HardDeleteOlder")
    /\ ids # {} /\ ids \subseteq {i \in Stored(Primary) : Primary[i].age \in Matching}
    /\ DeleteRows(c, [i \in ids |-> Purged(Primary[i])], FlushAllTasks)
-----------------------------------------------------------------------------
(* The accesses to the caches.                                               *)

Doing(c, do) == todo[c] # << >> /\ Head(todo[c]).do = do
Done(c) == todo' = [todo EXCEPT ![c] = Tail(@)]

\* cache.ItemCount: rows and mappings share one cache.
ItemCount(n) == Cardinality({id \in Ids : items[n][id] # None})
                  + Cardinality({u \in Uids : uidMap[n][u] # None})

\* setCached: a full cache takes no row, not even a new version of one it has.
SetCached(n, e) ==
    items' = IF ItemCount(n) < MaxCacheItems THEN [items EXCEPT ![n][e.id] = e] ELSE items

\* The loop over the entities of a result takes the next one, in any order.
FillCache(c) ==
    /\ Doing(c, "setCached")
    /\ \E e \in Head(todo[c]).entities :
         /\ SetCached(NodeOf[c], e)
         /\ Then(c, FillTasks("setCached", Head(todo[c]).entities \ {e}) \o Tail(todo[c]))
    /\ UNCHANGED <<dbVars, uidMap, lists, epoch, flushedAt, msgs, up, pc, arg, held>>

FillCacheMapped(c) ==
    /\ Doing(c, "setCachedMapped")
    /\ \E e \in Head(todo[c]).entities :
         /\ SetCached(NodeOf[c], e)
         /\ Then(c, << [do |-> "setMapping", uid |-> e.uid, id |-> e.id] >>
                    \o FillTasks("setCachedMapped", Head(todo[c]).entities \ {e})
                    \o Tail(todo[c]))
    /\ UNCHANGED <<dbVars, uidMap, lists, epoch, flushedAt, msgs, up, pc, arg, held>>

\* cache.Set of a mapping, which does not look at ItemCount.
SetMapping(c) ==
    /\ Doing(c, "setMapping")
    /\ LET m == Head(todo[c])
       IN  uidMap' = [uidMap EXCEPT ![NodeOf[c]][m.uid] = m.id]
    /\ Done(c)
    /\ UNCHANGED <<dbVars, items, lists, epoch, flushedAt, msgs, up, pc, arg, held>>

\* Mutant of SetList: the key is built again after the SELECT.
SetListUnderNewKey(c) ==
    /\ Doing(c, "setList")
    /\ LET n   == NodeOf[c]
           new == [Head(todo[c]).entry EXCEPT !.epoch = epoch[n]]
       IN  lists' = [lists EXCEPT ![n] =
                       {l \in @ : l.kind # new.kind \/ l.epoch # new.epoch} \cup {new}]
    /\ Done(c)
    /\ UNCHANGED <<dbVars, items, uidMap, epoch, flushedAt, msgs, up, pc, arg, held>>

\* listCache.Set and countCache.Set under the key built when the call began.
SetList(c) ==
    /\ Doing(c, "setList")
    /\ LET new == Head(todo[c]).entry
       IN  lists' = [lists EXCEPT ![NodeOf[c]] =
                       {l \in @ : l.kind # new.kind \/ l.epoch # new.epoch} \cup {new}]
    /\ Done(c)
    /\ UNCHANGED <<dbVars, items, uidMap, epoch, flushedAt, msgs, up, pc, arg, held>>

InvalidateCache(c) ==
    /\ Doing(c, "invalidateCache")
    /\ items' = [items EXCEPT ![NodeOf[c]][Head(todo[c]).id] = None]
    /\ Publish("invalidateId", Head(todo[c]).id)
    /\ Done(c)
    /\ UNCHANGED <<dbVars, uidMap, lists, epoch, flushedAt, up, pc, arg, held>>

\* Update's own cache.Delete and InvalidateCache of the old uid's mapping.
InvalidateOldUid(c) ==
    /\ Doing(c, "invalidateUid")
    /\ uidMap' = [uidMap EXCEPT ![NodeOf[c]][Head(todo[c]).uid] = None]
    /\ Publish("invalidateUid", Head(todo[c]).uid)
    /\ Done(c)
    /\ UNCHANGED <<dbVars, items, lists, epoch, flushedAt, up, pc, arg, held>>

\* bumpEpoch stores the time of day, in nanoseconds: a value no key has yet.
BumpEpoch(n) == /\ epoch' = [epoch EXCEPT ![n] = @ + 1]
                /\ flushedAt' = [flushedAt EXCEPT ![n] = Len(log)]

FlushListCache(c) ==
    /\ Doing(c, "flushListCache")
    /\ BumpEpoch(NodeOf[c])
    /\ Publish("bumpEpoch", None)
    /\ Done(c)
    /\ UNCHANGED <<dbVars, items, uidMap, lists, up, pc, arg, held>>

\* cache.Flush: rows and mappings.
FlushCache(n) == /\ items' = [items EXCEPT ![n] = [id \in Ids |-> None]]
                 /\ uidMap' = [uidMap EXCEPT ![n] = [u \in Uids |-> None]]

FlushItems(c) ==
    /\ Doing(c, "flushItems")
    /\ FlushCache(NodeOf[c])
    /\ Done(c)
    /\ UNCHANGED <<dbVars, lists, epoch, flushedAt, msgs, up, pc, arg, held>>

PublishFlushItem(c) ==
    /\ Doing(c, "publishFlushItem")
    /\ Publish("flushItem", None)
    /\ Done(c)
    /\ UNCHANGED <<dbVars, cacheVars, up, pc, arg, held>>
-----------------------------------------------------------------------------
(* Deliveries: the handlers that NewUserRepository registers.                *)

Receive(m, kind) == m.kind = kind /\ msgs' = msgs \ {m}

OnCacheInvalidated(m) ==
    /\ \/ /\ Receive(m, "invalidateId")
          /\ items' = [items EXCEPT ![m.to][m.key] = None]
          /\ UNCHANGED uidMap
       \/ /\ Receive(m, "invalidateUid")
          /\ uidMap' = [uidMap EXCEPT ![m.to][m.key] = None]
          /\ UNCHANGED items
    /\ UNCHANGED <<dbVars, lists, epoch, flushedAt, up, clientVars>>

OnBumpEpoch(m) ==
    /\ Receive(m, "bumpEpoch")
    /\ BumpEpoch(m.to)
    /\ UNCHANGED <<dbVars, items, uidMap, lists, up, clientVars>>

OnCacheFlushItem(m) ==
    /\ Receive(m, "flushItem")
    /\ FlushCache(m.to)
    /\ UNCHANGED <<dbVars, lists, epoch, flushedAt, up, clientVars>>
-----------------------------------------------------------------------------
(* Expiration of cache entries: any time after they were set, since nothing  *)
(* else here takes time.                                                     *)

\* Mutant of ExpireItem: single items are set with NoExpiration.
NeverExpireItem(n, id) == FALSE

ExpireItem(n, id) ==
    /\ items[n][id] # None
    /\ items' = [items EXCEPT ![n][id] = None]
    /\ UNCHANGED <<dbVars, uidMap, lists, epoch, flushedAt, msgs, up, clientVars>>

ExpireMapping(n, u) ==
    /\ uidMap[n][u] # None
    /\ uidMap' = [uidMap EXCEPT ![n][u] = None]
    /\ UNCHANGED <<dbVars, items, lists, epoch, flushedAt, msgs, up, clientVars>>

ExpireLists(n) ==
    /\ \E l \in lists[n] : lists' = [lists EXCEPT ![n] = @ \ {l}]
    /\ UNCHANGED <<dbVars, items, uidMap, epoch, flushedAt, msgs, up, clientVars>>
-----------------------------------------------------------------------------
(* What may go wrong.                                                        *)

Querying == {"getByID", "getByUid", "getByIds", "getByUids", "list", "count", "createBulk",
             "updateGet", "update", "updateByIds", "updateByUids"}

\* A statement fails or the circuit breaker is open: the operation returns the
\* error and does nothing else.
DatabaseError(c) ==
    /\ "dbError" \in Faults
    /\ pc[c] \in Querying /\ todo[c] = << >>
    /\ Return(c)
    /\ UNCHANGED <<dbVars, cacheVars, msgs, up, todo, held>>

\* The read instances apply the next write.
Replicate ==
    /\ "lag" \in Faults
    /\ synced < Len(log)
    /\ synced' = synced + 1
    /\ UNCHANGED <<log, cacheVars, msgs, up, clientVars>>

LoseMessage(m) ==
    /\ "loseMsg" \in Faults
    /\ msgs' = msgs \ {m}
    /\ UNCHANGED <<dbVars, cacheVars, up, clientVars>>

\* The process ends in the middle of whatever its clients do, and a new one
\* starts with empty caches.  Its epoch is a new time of day; nothing is left
\* that could tell it from the old one.
Restart(n) ==
    /\ "restart" \in Faults
    /\ FlushCache(n)
    /\ lists' = [lists EXCEPT ![n] = {}]
    /\ flushedAt' = [flushedAt EXCEPT ![n] = Len(log)]
    /\ up' = up \ {n}
    /\ msgs' = {m \in msgs : m.to # n}
    /\ pc' = [c \in Clients |-> IF NodeOf[c] = n THEN "idle" ELSE pc[c]]
    /\ arg' = [c \in Clients |-> IF NodeOf[c] = n THEN None ELSE arg[c]]
    /\ todo' = [c \in Clients |-> IF NodeOf[c] = n THEN << >> ELSE todo[c]]
    /\ held' = [c \in Clients |-> IF NodeOf[c] = n THEN None ELSE held[c]]
    /\ UNCHANGED <<dbVars, epoch>>

\* Two seconds after its start the node listens to its channels.
Subscribe(n) ==
    /\ n \notin up
    /\ up' = up \cup {n}
    /\ UNCHANGED <<dbVars, cacheVars, msgs, clientVars>>
-----------------------------------------------------------------------------
Read(c) == \/ \E id \in Ids : GetByID(c, id)
           \/ \E u \in Uids : GetByUid(c, u)
           \/ \E ids \in SUBSET Ids : GetByIds(c, ids)
           \/ \E uids \in SUBSET Uids : GetByUids(c, uids)
           \/ List(c)
           \/ Count(c)

Write(c) == \/ \E row \in NewRow : Create(c, row)
            \/ \E batch \in Batches : CreateBulk(c, batch)
            \/ \E u \in Uids, a \in Ages : Update(c, u, a)
            \/ \E ids \in SUBSET Ids, a \in Ages : UpdateAgeByIds(c, ids, a)
            \/ \E uids \in SUBSET Uids, a \in Ages : UpdateAgeByUids(c, uids, a)
            \/ \E id \in Ids : Delete(c, id) \/ HardDelete(c, id)
            \/ \E ids \in SUBSET Ids : DeleteOlder(c, ids) \/ HardDeleteOlder(c, ids)

Query(c) == \/ GetByMappedID(c) \/ ListFromCache(c)
            \/ QueryByID(c) \/ QueryByUid(c) \/ QueryByIds(c) \/ QueryByUids(c)
            \/ QueryList(c) \/ QueryCount(c)

Execute(c) == \/ InsertChunk(c) \/ InsertChunkFails(c)
              \/ QueryExisting(c) \/ ExecUpdate(c) \/ UpdateMisses(c) \/ UpdateIsDuplicate(c)
              \/ UpdateChunkByIds(c) \/ UpdateChunkByUids(c)

AccessCache(c) == \/ FillCache(c) \/ FillCacheMapped(c) \/ SetMapping(c) \/ SetList(c)
                  \/ InvalidateCache(c) \/ InvalidateOldUid(c) \/ FlushListCache(c)
                  \/ FlushItems(c) \/ PublishFlushItem(c)

\* What a client does once it has called an operation.
Continue(c) == Query(c) \/ Execute(c) \/ AccessCache(c) \/ DatabaseError(c)

Deliver(m) == OnCacheInvalidated(m) \/ OnBumpEpoch(m) \/ OnCacheFlushItem(m)

Expire(n) == \/ \E id \in Ids : ExpireItem(n, id)
             \/ \E u \in Uids : ExpireMapping(n, u)
             \/ ExpireLists(n)

Next == \/ \E c \in Clients : Read(c) \/ Write(c) \/ Continue(c)
        \/ \E m \in msgs : Deliver(m) \/ LoseMessage(m)
        \/ \E n \in Nodes : Expire(n) \/ Restart(n) \/ Subscribe(n)
        \/ Replicate

Spec == Init /\ [][Next]_vars

\* The Go scheduler runs every goroutine, go-cache's timers expire what was
\* cached, and the read instances catch up.  Nothing makes a client call an
\* operation, a message arrive (a lost one does not) or a node restart.
Fairness == /\ \A c \in Clients : WF_vars(Continue(c))
            /\ \A n \in Nodes : /\ \A id \in Ids : WF_vars(ExpireItem(n, id))
                                /\ \A u \in Uids : WF_vars(ExpireMapping(n, u))
                                /\ WF_vars(ExpireLists(n))
            /\ WF_vars(Replicate)

FairSpec == Spec /\ Fairness
-----------------------------------------------------------------------------
(* Type invariant.                                                           *)

Labels == {"idle", "mapped", "listCached"} \cup Querying

ArgFits(label, a) ==
    /\ label \in {"getByID", "mapped"} => a \in [id: Ids]
    /\ label = "getByUid" => a \in [uid: Uids]
    /\ label = "getByIds" => a \in [keys: SUBSET Ids, got: SUBSET Entity]
    /\ label = "getByUids" => a \in [keys: SUBSET Uids, got: SUBSET Entity]
    /\ label = "listCached" => a \in [epoch: Nat, ids: SUBSET Ids]
    /\ label \in {"list", "count"} => a \in [epoch: Nat]
    /\ label = "createBulk" => a \in [batch: Seq(NewRow)]
    /\ label \in {"updateGet", "update"} => a \in [new: Entity, oldUid: Uids]
    /\ label = "updateByIds" => a \in [keys: SUBSET Ids, age: Ages, changed: BOOLEAN]
    /\ label = "updateByUids" => a \in [keys: SUBSET Uids, age: Ages, changed: BOOLEAN]

TableOK == /\ log \in Seq([Ids -> Row])
           /\ synced \in 1..Len(log)

CachesOK == /\ items \in [Nodes -> [Ids -> Entity \cup {None}]]
            /\ uidMap \in [Nodes -> [Uids -> Ids \cup {None}]]
            /\ lists \in [Nodes -> SUBSET ListEntry]
            /\ epoch \in [Nodes -> Nat]
            /\ flushedAt \in [Nodes -> Nat]

MessagesOK == /\ msgs \subseteq Message
              /\ up \subseteq Nodes

ControlOK == /\ pc \in [Clients -> Labels]
             /\ DOMAIN arg = Clients
             /\ \A c \in Clients : ArgFits(pc[c], arg[c])

TodoOK == todo \in [Clients -> Seq(Task)]
HeldOK == held \in [Clients -> Entity \cup {None}]

\* Every variable has its type: the local variables of a running operation and
\* the tasks it has left, too.
TypeOK == TableOK /\ CachesOK /\ MessagesOK /\ ControlOK /\ TodoOK /\ HeldOK
-----------------------------------------------------------------------------
(* Properties.                                                               *)

\* The row e.id was once live with exactly these contents and this version.
CommittedIn(l, e) == \E p \in 1..Len(l) : IsLive(l[p], e.id) /\ Entry(l[p], e.id) = e
Committed(e) == CommittedIn(log, e)

\* Whatever a cache serves was once in the table, under its id: the fills after
\* Create, CreateBulk and Update, which no SELECT has read back, included.
CacheHoldsCommittedRows ==
    \A n \in Nodes, id \in Ids :
        items[n][id] # None => items[n][id].id = id /\ Committed(items[n][id])

\* An Update that finds the version of the entity it is given replaces exactly
\* the contents its caller last saw, however stale the caches and the read
\* instances are: the version check of update() loses no write.
NoLostUpdate ==
    [][\A c \in Clients : pc[c] = "update" /\ pc'[c] # "update" /\ log' # log
                           => Entry(Primary, held[c].id) = held[c]]_vars

\* A list or count that the current epoch makes visible was read after the last
\* bump of the node's epoch, so it has every write that returned on the node
\* before (FlushListCache): the reader took the epoch before its SELECT.
CurrentListsAreFresh ==
    \A n \in Nodes : \A l \in lists[n] :
        l.epoch = epoch[n] => l.asOf >= flushedAt[n]

\* No call is running and no publication is on its way.
Quiet == /\ \A c \in Clients : At(c, "idle")
         /\ msgs = {}

\* Once writers and messages have come to rest, every visible list of every
\* node has the rows that the table has: FlushListCache's comment "All lists
\* cache should be flushed" in Create.
QuietListsAreCurrent ==
    Quiet => \A n \in Nodes : \A l \in lists[n] :
                 l.epoch = epoch[n] => l.ids = Selected(Primary)

\* UpdateAgeByIds: "if this operation successfully updates one or more rows, it
\* will trigger a global FlushAllCache()".  At rest no node serves a row that
\* differs from the table's.
QuietItemsAreCurrent ==
    Quiet => \A n \in Nodes, id \in Ids :
                 items[n][id] # None =>
                     IsLive(Primary, id) /\ items[n][id] = Entry(Primary, id)

\* A mapping leads to the row that has the uid, or to one that is not there.
QuietMappingsAreSound ==
    Quiet => \A n \in Nodes, u \in Uids :
                 uidMap[n][u] # None /\ IsLive(Primary, uidMap[n][u])
                     => Primary[uidMap[n][u]].uid = u

\* Delete and HardDelete: "Lets clear item from cache and on next use use DB as
\* source of truth".  At rest no cache serves a row that has been deleted.
DeletedRowsLeaveTheCaches ==
    Quiet => \A n \in Nodes, id \in Ids :
                 items[n][id] # None => IsLive(Primary, id)

\* A uid that a live row has is found: no mapping sends GetByUid to an id that
\* is not that row (README: scrambling frees a uid "upon re-registration").
RegisteredUidIsFound ==
    Quiet => \A n \in Nodes, u \in Uids : \A id \in IdsOfUid(Primary, u) :
                 uidMap[n][u] \in {None, id}

\* Once no write happens any more, every cache ends up without a stale row, a
\* stale visible list or a mapping to a row that no longer has the uid, no
\* matter which messages were lost and which nodes restarted: the time to live.
Fresh == \A n \in Nodes :
           /\ \A id \in Ids : items[n][id] # None =>
                 IsLive(Primary, id) /\ items[n][id] = Entry(Primary, id)
           /\ \A u \in Uids : uidMap[n][u] # None => uidMap[n][u] \in IdsOfUid(Primary, u)
           /\ \A l \in lists[n] : l.epoch = epoch[n] => l.ids = Selected(Primary)

CachesConverge == <>[]Fresh
=============================================================================

--------------------------- MODULE PostRepository ---------------------------
(***************************************************************************)
(* The generated repository postRepository (src/example/dal/post.gen.go).  *)
(* It shares the write and invalidation scheme of userRepository, without  *)
(* unique columns and soft deletes, and is modelled here for what its      *)
(* callers do with it: they walk through a list page by page, list rows by *)
(* many keys in chunks, pluck a column and delete what has expired, while  *)
(* other goroutines and processes write.                                   *)
(*                                                                         *)
(* Two of its mechanisms read the clock.  The epoch in the key of every    *)
(* list is the time of the last flush, and the column created orders a     *)
(* list whose pages are cut by id.  The clock here advances on its own and  *)
(* with every write: a write statement outlasts the clock's resolution.     *)
(***************************************************************************)
EXTENDS Integers, Sequences, FiniteSets

CONSTANTS
    Nodes,          \* the processes that run the repository
    Clients,        \* the goroutines that call it
    NodeOf,         \* [Clients -> Nodes]
    Ops,            \* [Clients -> SUBSET AllOps]: what each of them calls
    MaxId,          \* bound: ids the AUTO_INCREMENT column hands out
    Stories,        \* values of a column that a WHERE selects on
    Expirable,      \* the Stories whose rows DeleteExpired's WHERE selects
    Seed,           \* stories of the rows there are at the start
    PageSize,       \* the pageSize of the callers
    BatchSize,      \* rows or keys of one statement: 500
    MaxDelete,      \* the greatest limit of DeleteExpired: 5000
    MaxCacheItems,  \* caching.maxItemsCount
    TicksPerSecond, \* readings of the clock in a second
    MaxClock,       \* bound: readings of the clock
    MaxCommits,     \* bound: write statements that change the table
    Faults,         \* what may go wrong: see AllFaults
    None            \* "not there"

PageKinds  == {"ListById", "RecentPosts"}
ValueKinds == {"CountListById", "CountRecentPosts", "GetStoryUidsByUser"}
ListKinds  == PageKinds \cup ValueKinds

AllOps == ListKinds \cup {"ListByKeys", "GetByID", "Create", "CreateBulk", "Update", "Delete",
                          "DeleteExpired"}

\* dbError: a statement fails.  lostAck: it is executed and its answer is an
\* error.  loseMsg: a publication does not reach a node.
AllFaults == {"dbError", "lostAck", "loseMsg"}

Ids == 1..MaxId
Entity == [id: Ids, ver: Nat, story: Stories]

ASSUME ConstantsAssumption ==
    /\ NodeOf \in [Clients -> Nodes]
    /\ Ops \in [Clients -> SUBSET AllOps]
    /\ MaxId \in Nat
    /\ Stories # {} /\ Expirable \subseteq Stories
    /\ Seed \in Seq(Stories) /\ Len(Seed) <= MaxId
    /\ PageSize \in Nat \ {0} /\ BatchSize \in Nat \ {0} /\ MaxDelete \in Nat \ {0}
    /\ MaxCacheItems \in Nat
    /\ TicksPerSecond \in Nat \ {0}
    /\ MaxClock \in Nat /\ MaxCommits \in Nat
    /\ Faults \subseteq AllFaults

VARIABLES
    log,        \* the table after each write: log[Len(log)] is the present one
    clock,      \* the time of day, in ticks
    items,      \* items[n][id]: what node n's cache holds under post_id:<id>
    lists,      \* lists[n]: entries of node n's listCache and countCache
    epoch,      \* listEpoch of each node: a reading of the clock
    flushedAt,  \* auxiliary: Len(log) when the node's epoch was last bumped
    msgs,       \* publications on their way to a node
    pc,         \* what a client executes next once its todo list is empty
    arg,        \* the local variables it needs for it
    todo,       \* what it still does with the caches, in order
    held,       \* the entity that the client got last and may update
    walk        \* how far the client has got with its pages or chunks

dbVars     == <<log, clock>>
cacheVars  == <<items, lists, epoch, flushedAt>>
clientVars == <<pc, arg, todo, held, walk>>
vars == <<dbVars, cacheVars, msgs, clientVars>>
-----------------------------------------------------------------------------
(* The database.  A row is never forgotten: "unborn" before its INSERT,      *)
(* "deleted" after its DELETE.                                                *)

Row == [state: {"unborn", "live", "deleted"}, ver: Nat, story: Stories, created: Nat]

Primary == log[Len(log)]

LiveIds(t) == {id \in Ids : t[id].state = "live"}

Entry(t, id) == [id |-> id, ver |-> t[id].ver, story |-> t[id].story]

Inserted(story, second) ==
    [state |-> "live", ver |-> 0, story |-> story, created |-> second]

\* The UPDATE's SET clause: every column but created, and version + 1.
Touched(row, story) ==
    [state |-> "live", ver |-> row.ver + 1, story |-> story, created |-> row.created]

DeletedRow(row) ==
    [state |-> "deleted", ver |-> row.ver, story |-> row.story, created |-> row.created]

\* AUTO_INCREMENT: the ids below first have been handed out, the others not.
IsNextId(t, first) == \A id \in Ids : t[id].state = "unborn" <=> id >= first

\* Whoever reads the clock after this reads a later time.
TimePasses == clock < MaxClock /\ clock' = clock + 1

\* time.Now().Truncate(time.Second)
CurrentSecond == clock \div TicksPerSecond
-----------------------------------------------------------------------------
(* The queries of the lists.  keys are the values that the WHERE admits, all *)
(* of Stories without a WHERE; start is the id after which a page begins, or *)
(* 0 for the first page.                                                     *)

ListQuery == [kind: ListKinds \cup {"ListByKeys"}, keys: SUBSET Stories, start: Nat]

Matches(t, keys) == {id \in LiveIds(t) : t[id].story \in keys}

\* Mutant of Beyond: the cursor's own row is part of the next page.
FromCursorOn(q, id) == \/ q.start = 0
                       \/ q.kind = "RecentPosts" /\ id <= q.start
                       \/ q.kind = "ListById" /\ id >= q.start

\* The WHERE clause that pagination adds.
Beyond(q, id) == \/ q.start = 0
                 \/ q.kind = "RecentPosts" /\ id < q.start
                 \/ q.kind = "ListById" /\ id > q.start

Candidates(t, q) == {id \in Matches(t, q.keys) : Beyond(q, id)}

\* Mutant of Precedes: rows of the same second come in any order.
PrecedesBySecond(t, kind, i, j) ==
    IF kind = "ListById" THEN i < j ELSE t[i].created > t[j].created

\* The ORDER BY clause: id, or created DESC, id DESC.
Precedes(t, kind, i, j) ==
    IF kind = "ListById" THEN i < j
    ELSE t[i].created > t[j].created \/ (t[i].created = t[j].created /\ i > j)

\* LIMIT: all the candidates if they fit, else the first PageSize.
IsPage(t, q, page) ==
    /\ page \subseteq Candidates(t, q)
    /\ Cardinality(page) <= PageSize
    /\ page = Candidates(t, q) \/ Cardinality(page) = PageSize
    /\ \A i \in page, j \in Candidates(t, q) \ page : ~Precedes(t, q.kind, j, i)

\* The rows of which the answer to q is made.
IsAnswer(t, q, ids) == IF q.kind \in PageKinds THEN IsPage(t, q, ids)
                                               ELSE ids = Matches(t, q.keys)

\* The rows that may come last in a page.
LastOf(t, kind, page) == {i \in page : \A j \in page : ~Precedes(t, kind, i, j)}
-----------------------------------------------------------------------------
(* The publish/subscribe layer, as the repository sees it.                   *)

Message == [to: Nodes, kind: {"invalidateId"}, key: Ids]
      \cup [to: Nodes, kind: {"bumpEpoch", "flushItem"}, key: {None}]

Publish(kind, key) ==
    msgs' = msgs \cup {[to |-> n, kind |-> kind, key |-> key] : n \in Nodes}
-----------------------------------------------------------------------------
(* What an operation does with the caches once the database has answered.    *)

ListEntry == [query: ListQuery, epoch: Nat, ids: SUBSET Ids, asOf: Nat]

Task == [do: {"setCached"}, entities: SUBSET Entity]
   \cup [do: {"setList"}, entry: ListEntry]
   \cup [do: {"invalidateCache"}, id: Ids]
   \cup [do: {"flushListCache", "flushItems", "publishFlushItem"}]

\* setCached for every entity of a result.
FillTasks(entities) ==
    IF entities = {} THEN << >> ELSE << [do |-> "setCached", entities |-> entities] >>

InvalidateTask(id) == [do |-> "invalidateCache", id |-> id]
FlushListTask == [do |-> "flushListCache"]

\* FlushAllCache
FlushAllTasks == << [do |-> "flushItems"], FlushListTask, [do |-> "publishFlushItem"] >>

\* Mutant of NextVersion: the version goes down.
PreviousVersion(e) == [id |-> e.id, ver |-> e.ver - 1, story |-> e.story]

\* entity.Version++
NextVersion(e) == [id |-> e.id, ver |-> e.ver + 1, story |-> e.story]

\* The end of Update: the row, the lists; then the new row is cached.
UpdateTasks(e) ==
    << InvalidateTask(e.id), FlushListTask >> \o FillTasks({NextVersion(e)})
-----------------------------------------------------------------------------
Init ==
    /\ log = << [id \in Ids |-> IF id <= Len(Seed) THEN Inserted(Seed[id], 0)
                                ELSE [state |-> "unborn", ver |-> 0, created |-> 0,
                                      story |-> CHOOSE s \in Stories : TRUE]] >>
    /\ clock = 0
    /\ items = [n \in Nodes |-> [id \in Ids |-> None]]
    /\ lists = [n \in Nodes |-> {}]
    /\ epoch = [n \in Nodes |-> 0]
    /\ flushedAt = [n \in Nodes |-> 1]
    /\ msgs = {}
    /\ pc = [c \in Clients |-> "idle"]
    /\ arg = [c \in Clients |-> None]
    /\ todo = [c \in Clients |-> << >>]
    /\ held = [c \in Clients |-> None]
    /\ walk = [c \in Clients |-> None]
-----------------------------------------------------------------------------
(* Control of a client.                                                      *)

At(c, label) == pc[c] = label /\ todo[c] = << >>
Call(c, op) == op \in Ops[c] /\ At(c, "idle")

Goto(c, label, a) == /\ pc' = [pc EXCEPT ![c] = label]
                     /\ arg' = [arg EXCEPT ![c] = a]
Return(c) == Goto(c, "idle", None)
Then(c, tasks) == todo' = [todo EXCEPT ![c] = tasks]
Hold(c, e) == held' = [held EXCEPT ![c] = e]

\* A statement that changed the table is answered and the operation goes on
\* with its tasks; or the answer is an error, which the operation returns.
Answered(c, tasks) == \/ Then(c, tasks)
                      \/ "lostAck" \in Faults /\ UNCHANGED todo

\* The same for an operation that gives its caller the entity e.
AnsweredWith(c, e, tasks) == \/ Then(c, tasks) /\ Hold(c, e)
                             \/ "lostAck" \in Faults /\ UNCHANGED <<todo, held>>
-----------------------------------------------------------------------------
(* A walk: the caller takes page after page, the last id of one being the    *)
(* startID of the next, until a page is not full; or one call of a list by   *)
(* keys takes chunk after chunk.  must are the rows that were there when the *)
(* walk began and have been since: it has to return each of them once.       *)

Walk == [query: ListQuery, seen: SUBSET Ids, twice: SUBSET Ids, must: SUBSET Ids, done: BOOLEAN]

ASSUME NoneAssumption == None \notin Walk

BeginWalk(c, q, must) ==
    walk' = [walk EXCEPT ![c] = [query |-> q, seen |-> {}, twice |-> {}, must |-> must,
                                 done |-> FALSE]]

\* What the walk of c has got once it gets the rows ids.
Advanced(w, start, ids, done) ==
    [query |-> [w.query EXCEPT !.start = start], seen |-> w.seen \cup ids,
     twice |-> w.twice \cup (w.seen \cap ids), must |-> w.must, done |-> done]

\* The caller gets a page; t tells the order in it.
TakePage(c, t, page) ==
    \E last \in IF page = {} THEN {walk[c].query.start}
                             ELSE LastOf(t, walk[c].query.kind, page) :
        walk' = [walk EXCEPT ![c] = Advanced(@, last, page, Cardinality(page) < PageSize)]

\* The rows for which the walk w is still answerable once t is the table: those
\* that still match, for a list by keys under the same key.
StillMust(w, t) ==
    {id \in w.must : /\ id \in Matches(t, w.query.keys)
                     /\ w.query.kind = "ListByKeys" => t[id].story = Primary[id].story}

\* A write makes t the table.
Commit(t) ==
    /\ Len(log) <= MaxCommits
    /\ TimePasses
    /\ log' = Append(log, t)
    /\ walk' = [c \in Clients |->
                  IF walk[c] = None THEN None
                  ELSE [walk[c] EXCEPT !.must = StillMust(walk[c], t)]]
-----------------------------------------------------------------------------
(* Reading single rows.                                                      *)

\* getByIDCached: a hit ends the operation, a miss goes on to the database.
GetByID(c, id) ==
    /\ Call(c, "GetByID")
    /\ LET cached == items[NodeOf[c]][id]
       IN  \/ cached # None /\ Hold(c, cached) /\ UNCHANGED <<pc, arg>>
           \/ cached = None /\ UNCHANGED held /\ Goto(c, "getByID", [id |-> id])
    /\ UNCHANGED <<dbVars, cacheVars, msgs, todo, walk>>

QueryByID(c) ==
    /\ At(c, "getByID")
    /\ LET id == arg[c].id
       IN  \/ /\ id \in LiveIds(Primary)
              /\ Then(c, FillTasks({Entry(Primary, id)}))
              /\ Hold(c, Entry(Primary, id))
           \/ id \notin LiveIds(Primary) /\ UNCHANGED <<todo, held>>   \* ErrNotFound
    /\ Return(c)
    /\ UNCHANGED <<dbVars, cacheVars, msgs, walk>>
-----------------------------------------------------------------------------
(* Lists, counts and plucks.  The key of an entry carries the epoch that was *)
(* current when the call began.                                              *)

\* The entries of node n that a call with the query q finds.
CachedLists(n, q) == {l \in lists[n] : l.query = q /\ l.epoch = epoch[n]}

\* A look-up in listCache or countCache.  A list of ids leads on to the cache
\* of single rows; a count or a pluck is returned as it is, which changes
\* nothing.
LookUp(c, q) ==
    LET n == NodeOf[c]
    IN  \/ /\ q.kind \in PageKinds
           /\ \E l \in CachedLists(n, q) : Goto(c, "listCached", l)
        \/ /\ CachedLists(n, q) = {}
           /\ Goto(c, "list", [query |-> q, epoch |-> epoch[n]])

\* The rows that matched the keys ever since the node's lists were flushed.
SettledMatches(n, keys) ==
    {id \in Ids : \A p \in flushedAt[n]..Len(log) : id \in Matches(log[p], keys)}

IsWalking(c, kind, keys) ==
    walk[c] # None /\ walk[c].query.kind = kind /\ walk[c].query.keys = keys /\ ~walk[c].done

\* ListById or RecentPosts: the next page of the caller's walk, or the first
\* page of a new one.
ListPage(c, kind, keys) ==
    /\ Call(c, kind)
    /\ \/ /\ IsWalking(c, kind, keys)
          /\ LookUp(c, walk[c].query)
          /\ UNCHANGED walk
       \/ /\ ~IsWalking(c, kind, keys)
          /\ LET q == [kind |-> kind, keys |-> keys, start |-> 0]
             IN  LookUp(c, q) /\ BeginWalk(c, q, SettledMatches(NodeOf[c], keys))
    /\ UNCHANGED <<dbVars, cacheVars, msgs, todo, held>>

\* A cached list is returned only if every one of its rows is cached too.
ListFromCache(c) ==
    /\ At(c, "listCached")
    /\ \/ /\ \A id \in arg[c].ids : items[NodeOf[c]][id] # None
          /\ TakePage(c, Primary, arg[c].ids)
          /\ Return(c)
       \/ /\ \E id \in arg[c].ids : items[NodeOf[c]][id] = None
          /\ Goto(c, "list", [query |-> arg[c].query, epoch |-> arg[c].epoch])
          /\ UNCHANGED walk
    /\ UNCHANGED <<dbVars, cacheVars, msgs, todo, held>>

\* CountListById, CountRecentPosts and GetStoryUidsByUser.
ListValue(c, kind, keys) ==
    /\ Call(c, kind)
    /\ LookUp(c, [kind |-> kind, keys |-> keys, start |-> 0])
    /\ UNCHANGED <<dbVars, cacheVars, msgs, todo, held, walk>>

SetListTask(q, e, ids) ==
    [do |-> "setList", entry |-> [query |-> q, epoch |-> e, ids |-> ids, asOf |-> Len(log)]]

\* listById, recentPosts, countListById, countRecentPosts, getStoryUidsByUser.
QueryList(c) ==
    /\ At(c, "list")
    /\ \E ids \in SUBSET Ids :
         LET q == arg[c].query
             isPage == q.kind \in PageKinds
         IN  /\ IsAnswer(Primary, q, ids)
             /\ Then(c, (IF isPage THEN FillTasks({Entry(Primary, id) : id \in ids}) ELSE << >>)
                        \o << SetListTask(q, arg[c].epoch, ids) >>)
             /\ \/ isPage /\ TakePage(c, Primary, ids)
                \/ ~isPage /\ UNCHANGED walk
    /\ Return(c)
    /\ UNCHANGED <<dbVars, cacheVars, msgs, held>>
-----------------------------------------------------------------------------
(* Lists by many keys: read in chunks, without a look at any cache, and the  *)
(* rows of each chunk are cached before the next is read.                     *)

\* languageIds or storyUids, no value twice.
KeyLists == {k \in UNION {[1..m -> Stories] : m \in 1..Cardinality(Stories)} :
               \A i, j \in DOMAIN k : k[i] = k[j] => i = j}

RangeOf(s) == {s[i] : i \in DOMAIN s}

\* ListByLanguages and ListByUserAndStories.
ListByKeys(c, keys) ==
    /\ Call(c, "ListByKeys")
    /\ Goto(c, "listByKeys", [keys |-> keys])
    /\ BeginWalk(c, [kind |-> "ListByKeys", keys |-> RangeOf(keys), start |-> 0],
                 Matches(Primary, RangeOf(keys)))
    /\ UNCHANGED <<dbVars, cacheVars, msgs, todo, held>>

\* Mutant of RestOf: the next chunk begins one element later.
RestOfSkipsOne(s) == SubSeq(s, BatchSize + 2, Len(s))

\* The chunk that i and end cut from a slice, and what is left.
ChunkOf(s) == SubSeq(s, 1, IF Len(s) <= BatchSize THEN Len(s) ELSE BatchSize)
RestOf(s) == SubSeq(s, BatchSize + 1, Len(s))

QueryKeys(c) ==
    /\ At(c, "listByKeys")
    /\ LET rest  == RestOf(arg[c].keys)
           found == Matches(Primary, RangeOf(ChunkOf(arg[c].keys)))
       IN  /\ Then(c, FillTasks({Entry(Primary, id) : id \in found}))
           /\ walk' = [walk EXCEPT ![c] = Advanced(@, 0, found, rest = << >>)]
           /\ \/ rest = << >> /\ Return(c)
              \/ rest # << >> /\ Goto(c, "listByKeys", [keys |-> rest])
    /\ UNCHANGED <<dbVars, cacheVars, msgs, held>>
-----------------------------------------------------------------------------
(* Creating rows: created and updated are stamped before the INSERT.         *)

Create(c, story) ==
    /\ Call(c, "Create")
    /\ Goto(c, "create", [stories |-> << story >>, second |-> CurrentSecond])
    /\ UNCHANGED <<dbVars, cacheVars, msgs, todo, held, walk>>

CreateBulk(c, stories) ==
    /\ Call(c, "CreateBulk")
    /\ Goto(c, "createBulk", [stories |-> stories, second |-> CurrentSecond])
    /\ UNCHANGED <<dbVars, cacheVars, msgs, todo, held, walk>>

\* The rows get consecutive ids from first on.
WithNew(first, stories, second) ==
    [id \in Ids |-> IF id \in first..(first + Len(stories) - 1)
                    THEN Inserted(stories[id - first + 1], second) ELSE Primary[id]]

InsertPost(c) ==
    /\ At(c, "create")
    /\ \E id \in Ids :
         LET t == WithNew(id, arg[c].stories, arg[c].second)
         IN  /\ IsNextId(Primary, id)
             /\ Commit(t)
             /\ AnsweredWith(c, Entry(t, id), FillTasks({Entry(t, id)}) \o << FlushListTask >>)
    /\ Return(c)
    /\ UNCHANGED <<cacheVars, msgs>>

\* One chunk of createBulk.  Its rows are cached; the lists are flushed only
\* after the last chunk.
InsertChunk(c) ==
    /\ At(c, "createBulk")
    /\ \E first \in Ids :
         LET chunk == ChunkOf(arg[c].stories)
             rest  == RestOf(arg[c].stories)
             t     == WithNew(first, chunk, arg[c].second)
             fill  == FillTasks({Entry(t, id) : id \in first..(first + Len(chunk) - 1)})
         IN  /\ first + Len(chunk) - 1 <= MaxId
             /\ IsNextId(Primary, first)
             /\ Commit(t)
             /\ \/ /\ rest = << >>
                   /\ Return(c)
                   /\ Then(c, fill \o << FlushListTask >>)
                \/ /\ rest # << >>
                   /\ Goto(c, "createBulk", [stories |-> rest, second |-> arg[c].second])
                   /\ Then(c, fill)
                \/ "lostAck" \in Faults /\ Return(c) /\ UNCHANGED todo
    /\ UNCHANGED <<cacheVars, msgs, held>>
-----------------------------------------------------------------------------
(* Changing and deleting rows: the statement is the operation's first step.  *)

VersionMatches(e) == e.id \in LiveIds(Primary) /\ Primary[e.id].ver = e.ver

\* The caller has changed an entity it holds, and calls Update.
Update(c, story) ==
    /\ Call(c, "Update")
    /\ held[c] # None
    /\ LET e == [id |-> held[c].id, ver |-> held[c].ver, story |-> story]
       IN  /\ VersionMatches(e)
           /\ Commit([Primary EXCEPT ![e.id] = Touched(@, story)])
           /\ AnsweredWith(c, NextVersion(e), UpdateTasks(e))
    /\ UNCHANGED <<cacheVars, msgs, pc, arg>>

\* No row has this id and version: ErrNotFound, after InvalidateCache.
UpdateMisses(c) ==
    /\ Call(c, "Update")
    /\ held[c] # None /\ ~VersionMatches(held[c])
    /\ Then(c, << InvalidateTask(held[c].id) >>)
    /\ UNCHANGED <<dbVars, cacheVars, msgs, pc, arg, held, walk>>

DeleteRows(c, ids, tasks) ==
    /\ Commit([id \in Ids |-> IF id \in ids THEN DeletedRow(Primary[id]) ELSE Primary[id]])
    /\ Answered(c, tasks)
    /\ UNCHANGED <<cacheVars, msgs, pc, arg, held>>

\* No row affected is ErrNotFound: nothing changes.
Delete(c, id) ==
    /\ Call(c, "Delete")
    /\ id \in LiveIds(Primary)
    /\ DeleteRows(c, {id}, << InvalidateTask(id), FlushListTask >>)

Clamped(limit) == IF limit <= 0 \/ limit > MaxDelete THEN MaxDelete ELSE limit

\* The LIMIT, which has no ORDER BY, selects any rows of the WHERE.
DeleteExpired(c, ids, limit) ==
    /\ Call(c, "DeleteExpired")
    /\ ids # {} /\ ids \subseteq Matches(Primary, Expirable)
    /\ \/ ids = Matches(Primary, Expirable) /\ Cardinality(ids) <= Clamped(limit)
       \/ Cardinality(ids) = Clamped(limit)
    /\ DeleteRows(c, ids, FlushAllTasks)
-----------------------------------------------------------------------------
(* The accesses to the caches.                                               *)

Doing(c, do) == todo[c] # << >> /\ Head(todo[c]).do = do
Done(c) == todo' = [todo EXCEPT ![c] = Tail(@)]

ItemCount(n) == Cardinality({id \in Ids : items[n][id] # None})

\* setCached: a full cache takes no row, not even a new version of one it has.
\* The loop over the entities of a result takes the next one, in any order.
FillCache(c) ==
    /\ Doing(c, "setCached")
    /\ \E e \in Head(todo[c]).entities :
         /\ items' = IF ItemCount(NodeOf[c]) < MaxCacheItems
                     THEN [items EXCEPT ![NodeOf[c]][e.id] = e] ELSE items
         /\ Then(c, FillTasks(Head(todo[c]).entities \ {e}) \o Tail(todo[c]))
    /\ UNCHANGED <<dbVars, lists, epoch, flushedAt, msgs, pc, arg, held, walk>>

\* listCache.Set and countCache.Set under the key built when the call began.
SetList(c) ==
    /\ Doing(c, "setList")
    /\ LET new == Head(todo[c]).entry
       IN  lists' = [lists EXCEPT ![NodeOf[c]] =
                       {l \in @ : l.query # new.query \/ l.epoch # new.epoch} \cup {new}]
    /\ Done(c)
    /\ UNCHANGED <<dbVars, items, epoch, flushedAt, msgs, pc, arg, held, walk>>

InvalidateCache(c) ==
    /\ Doing(c, "invalidateCache")
    /\ items' = [items EXCEPT ![NodeOf[c]][Head(todo[c]).id] = None]
    /\ Publish("invalidateId", Head(todo[c]).id)
    /\ Done(c)
    /\ UNCHANGED <<dbVars, lists, epoch, flushedAt, pc, arg, held, walk>>

\* Mutant of BumpEpoch: the epoch is the time of day in seconds.
BumpEpochInSeconds(n) == /\ epoch' = [epoch EXCEPT ![n] = CurrentSecond]
                         /\ flushedAt' = [flushedAt EXCEPT ![n] = Len(log)]

\* bumpEpoch: time.Now().UnixNano()
BumpEpoch(n) == /\ epoch' = [epoch EXCEPT ![n] = clock]
                /\ flushedAt' = [flushedAt EXCEPT ![n] = Len(log)]

FlushListCache(c) ==
    /\ Doing(c, "flushListCache")
    /\ BumpEpoch(NodeOf[c])
    /\ Publish("bumpEpoch", None)
    /\ Done(c)
    /\ UNCHANGED <<dbVars, items, lists, pc, arg, held, walk>>

FlushCache(n) == items' = [items EXCEPT ![n] = [id \in Ids |-> None]]

FlushItems(c) ==
    /\ Doing(c, "flushItems")
    /\ FlushCache(NodeOf[c])
    /\ Done(c)
    /\ UNCHANGED <<dbVars, lists, epoch, flushedAt, msgs, pc, arg, held, walk>>

PublishFlushItem(c) ==
    /\ Doing(c, "publishFlushItem")
    /\ Publish("flushItem", None)
    /\ Done(c)
    /\ UNCHANGED <<dbVars, cacheVars, pc, arg, held, walk>>
-----------------------------------------------------------------------------
(* Deliveries: the handlers that NewPostRepository registers.                *)

Receive(m, kind) == m.kind = kind /\ msgs' = msgs \ {m}

OnCacheInvalidated(m) ==
    /\ Receive(m, "invalidateId")
    /\ items' = [items EXCEPT ![m.to][m.key] = None]
    /\ UNCHANGED <<dbVars, lists, epoch, flushedAt, clientVars>>

OnBumpEpoch(m) ==
    /\ Receive(m, "bumpEpoch")
    /\ BumpEpoch(m.to)
    /\ UNCHANGED <<dbVars, items, lists, clientVars>>

OnCacheFlushItem(m) ==
    /\ Receive(m, "flushItem")
    /\ FlushCache(m.to)
    /\ UNCHANGED <<dbVars, lists, epoch, flushedAt, clientVars>>
-----------------------------------------------------------------------------
(* Time, expirations and failures.                                           *)

ExpireItem(n, id) ==
    /\ items[n][id] # None
    /\ items' = [items EXCEPT ![n][id] = None]
    /\ UNCHANGED <<dbVars, lists, epoch, flushedAt, msgs, clientVars>>

ExpireLists(n) ==
    /\ \E l \in lists[n] : lists' = [lists EXCEPT ![n] = @ \ {l}]
    /\ UNCHANGED <<dbVars, items, epoch, flushedAt, msgs, clientVars>>

Querying == {"getByID", "list", "listByKeys", "create", "createBulk"}

\* A statement fails or the circuit breaker is open: the operation returns the
\* error and does nothing else.
DatabaseError(c) ==
    /\ "dbError" \in Faults
    /\ pc[c] \in Querying /\ todo[c] = << >>
    /\ Return(c)
    /\ UNCHANGED <<dbVars, cacheVars, msgs, todo, held, walk>>

Tick == TimePasses /\ UNCHANGED <<log, cacheVars, msgs, clientVars>>

LoseMessage(m) ==
    /\ "loseMsg" \in Faults
    /\ msgs' = msgs \ {m}
    /\ UNCHANGED <<dbVars, cacheVars, clientVars>>
-----------------------------------------------------------------------------
Read(c) == \/ \E id \in Ids : GetByID(c, id)
           \/ ListPage(c, "ListById", Stories)
           \/ \E s \in Stories : ListPage(c, "RecentPosts", {s})
           \/ ListValue(c, "CountListById", Stories)
           \/ \E s \in Stories, kind \in {"CountRecentPosts", "GetStoryUidsByUser"} :
                ListValue(c, kind, {s})
           \/ \E keys \in KeyLists : ListByKeys(c, keys)

Write(c) == \/ \E s \in Stories : Create(c, s) \/ Update(c, s)
            \/ \E k \in Ids : \E stories \in [1..k -> Stories] : CreateBulk(c, stories)
            \/ UpdateMisses(c)
            \/ \E id \in Ids : Delete(c, id)
            \/ \E ids \in SUBSET Ids, limit \in 0..(MaxDelete + 1) : DeleteExpired(c, ids, limit)

AccessCache(c) == \/ FillCache(c) \/ SetList(c) \/ InvalidateCache(c) \/ FlushListCache(c)
                  \/ FlushItems(c) \/ PublishFlushItem(c)

\* What a client does once it has called an operation.
Continue(c) == \/ QueryByID(c) \/ ListFromCache(c) \/ QueryList(c) \/ QueryKeys(c)
               \/ InsertPost(c) \/ InsertChunk(c) \/ AccessCache(c) \/ DatabaseError(c)

Deliver(m) == OnCacheInvalidated(m) \/ OnBumpEpoch(m) \/ OnCacheFlushItem(m)

Expire(n) == ExpireLists(n) \/ \E id \in Ids : ExpireItem(n, id)

Next == \/ \E c \in Clients : Read(c) \/ Write(c) \/ Continue(c)
        \/ \E m \in msgs : Deliver(m) \/ LoseMessage(m)
        \/ \E n \in Nodes : Expire(n)
        \/ Tick

Spec == Init /\ [][Next]_vars
-----------------------------------------------------------------------------
(* Type invariant.                                                           *)

ArgFits(label, a) ==
    /\ label = "getByID" => a \in [id: Ids]
    /\ label = "listCached" => a \in ListEntry /\ a.query.kind \in PageKinds
    /\ label = "list" => a \in [query: ListQuery, epoch: Nat]
    /\ label = "listByKeys" => a \in [keys: Seq(Stories)]
    /\ label \in {"create", "createBulk"} => a \in [stories: Seq(Stories), second: Nat]

TableOK == /\ log \in Seq([Ids -> Row]) /\ log # << >>
           /\ clock \in Nat

CachesOK == /\ items \in [Nodes -> [Ids -> Entity \cup {None}]]
            /\ lists \in [Nodes -> SUBSET ListEntry]
            /\ epoch \in [Nodes -> Nat]
            /\ flushedAt \in [Nodes -> Nat]

Labels == {"idle", "listCached"} \cup Querying

ControlOK == /\ pc \in [Clients -> Labels]
             /\ DOMAIN arg = Clients
             /\ \A c \in Clients : ArgFits(pc[c], arg[c])

\* Every variable has its type: the local variables of a running operation and
\* the tasks it has left, too.
TypeOK == /\ TableOK /\ CachesOK /\ ControlOK
          /\ msgs \subseteq Message
          /\ todo \in [Clients -> Seq(Task)]
          /\ held \in [Clients -> Entity \cup {None}]
          /\ walk \in [Clients -> Walk \cup {None}]
-----------------------------------------------------------------------------
(* Properties.                                                               *)

\* A page, count or pluck that the current epoch makes visible was read after
\* the last bump of the node's epoch, for two readings of the clock with a
\* statement between them differ: the epoch is UnixNano and not Unix.
CurrentListsAreFresh ==
    \A n \in Nodes : \A l \in lists[n] :
        l.epoch = epoch[n] => l.asOf >= flushedAt[n]

\* Of the rows a walk has to return, none came twice and at its end none is
\* missing.
ReturnsEachOnce(w) == w.must \cap w.twice = {} /\ (w.done => w.must \subseteq w.seen)

Walking(c, kind) == walk[c] # None /\ walk[c].query.kind = kind

\* A caller that walks through ListById up to a page that is not full gets every
\* row that was there all the time exactly once, from whatever mixture of cached
\* pages and SELECTs and while others write.
ListByIdReturnsAll ==
    \A c \in Clients : Walking(c, "ListById") => ReturnsEachOnce(walk[c])

\* The rows were stamped in the order of their ids.
CreatedFollowsId ==
    \A i, j \in Ids : i < j /\ Primary[j].state # "unborn"
                        => Primary[i].created <= Primary[j].created

\* The same for RecentPosts, whose pages are cut by id and ordered by created:
\* it holds as long as no two creations were stamped in one order and inserted
\* in the other.
RecentPostsReturnsAll ==
    \A c \in Clients :
        Walking(c, "RecentPosts") /\ CreatedFollowsId => ReturnsEachOnce(walk[c])

\* A list by keys returns every row that had the same one of them all the time
\* exactly once, however its keys are cut into chunks and whatever is written
\* between two of them.  (A row that moves from one key to another may be missed
\* or returned twice.)
ListByKeysReturnsAll ==
    \A c \in Clients : Walking(c, "ListByKeys") => ReturnsEachOnce(walk[c])
=============================================================================

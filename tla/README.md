# A model of dalforge's data access layer

dalforge reads a YAML description of an entity and writes a Go data access
layer for it: a repository type with a MySQL table, an in-memory cache in front
of it, a circuit breaker around it and Redis publish/subscribe between the
processes that run it. What is hard about the program is not the generator but
what it generates, so that the model is about the generated code that the
repository keeps beside its generator, `src/example/dal/`. (The Redis and the
server provider are copied without a change from
`src/generator/templates/dal/`, so that the model is of the templates, too.)

Contents: 1 the system, 2 the modules, 3 the runs, 4 the proofs, 5 what the
model leaves out, 6 what the runs found, 7 the plan.

## 1. The system

| component | state | operations | interacts with |
|---|---|---|---|
| User repository (`user.gen.go`) | `cache` (rows under `user_id:<id>`, mappings under `user_uid:<uid>` and `user_email:<email>`), `listCache`, `countCache`, `listEpoch` | `Create`, `CreateBulk`, `Update`, `Delete`, `HardDelete`, `GetByID`, `GetByUid`, `GetByEmail`, `ListBy...`, `CountListBy...`, `GetByIds`, `GetByUids`, `UpdateStatusByUids`, `UpdateAgeByIds`, `DeleteOlder`, `HardDeleteOlder`, `CreateTable`, handlers of the four topics | the database through the breaker and `DBProvider`; other processes through `CacheProvider` |
| Post repository (`post.gen.go`) | the same without mappings | `Create`, `CreateBulk`, `Update`, `Delete`, `GetByID`, lists and counts in pages, lists by many keys, `GetStoryUidsByUser` (a pluck), `DeleteExpired`, `CreateTable`, handlers | the same |
| Redis cache provider (`rediscacheprovider.gen.go`) | the client, handlers per entity and topic, `pubsubs`, the context, `isClosed` | `Connect` with retries, four publications with a goroutine each, four registrations with a listening goroutine each, `Close` | called by the repositories; calls their handlers |
| Server provider (`serverprovider.gen.go`) | configuration, groups of entities with write and read connections | `NewServerProvider`, `Connect`, `Disconnect`, `GetDatabase`, `AllDatabases` | called by the repositories for each statement |
| Circuit breaker (settings in the constructors of the repositories; the library is gobreaker) | closed, open or half open; consecutive failures; generation | `Execute` | around each statement but those of `CreateTable` |
| Schema creation (`CreateTable`) | the tables and indexes of each database | `tableExists`, then statement by statement | `AllDatabases` of the server provider, past the breaker |
| Configuration provider | none | `BlockedReads`, `BlockedWrites` | asked when a call begins |
| Telemetry, utilities, no-op provider | counters | | |
| Generator (`src/generator/`) | none that lasts | validation, query building, templates, files | reads YAML, writes the files above |

How one operation runs. A read looks into the cache and, if that misses, reads
from a random read instance and puts what it got into the cache. A write
executes its statement on the write instance and then removes what it knows to
be stale from its own cache, publishes what other processes shall remove, and
bumps the epoch that is part of every list's key. There is no lock around any
of this: between the statement and the cache access another goroutine, another
process, or a handler of a message may do anything.

Hard behaviours, each with its properties (the full list with the lines of the
code is in `PROJECT.json` under "hazards"):

* *Stale fills*: a row read before a write is cached after its invalidation.
  The version in `Update`'s WHERE clause must make this harmless to writers
  (`NoLostUpdate`, `ImplementsStore`), the time to live must end it
  (`CachesConverge`), and a deleted row comes back
  (`DeletedRowsLeaveTheCaches`, a finding).
* *Lists and epochs*: a list read before a flush must not become visible after
  it (`CurrentListsAreFresh`, `QuietListsAreCurrent`).
* *Fills without a SELECT*: `Create`, `CreateBulk` and `Update` cache what they
  believe the row to be (`CacheHoldsCommittedRows`).
* *Order of the invalidations* of a mapping, a row and the lists, on this node
  and on others, through four unordered channels (`QuietItemsAreCurrent`,
  `QuietMappingsAreSound`).
* *Partial failure* of the operations that work in chunks.
* *Lost answers, lost messages, crashes, late subscriptions, replication lag*:
  none of these may break more than freshness (`CacheHoldsCommittedRows`,
  `NoLostUpdate`), and that not for ever (`CachesConverge`).
* *Walks*: a caller that goes from page to page gets some pages from a cache and
  some from the database, while others write; a list by many keys is read in
  chunks (`ListByIdReturnsAll`, `RecentPostsReturnsAll`,
  `ListByKeysReturnsAll`).
* *The clock as an epoch*: two bumps, or a bump and a read, may find the same
  time of day (`CurrentListsAreFresh` of `PostRepository`).
* *`Close` in the middle of anything*: a listener that still sleeps, that has
  subscribed but not told `Close` of it, a publication between two attempts, a
  client that a second `Connect` has replaced (`ClosedProviderIsDeaf`,
  `CloseEndsListeners`, `PublicationsEnd`).
* *Retries of what was done already*: the lost answer of a publication
  (`ImplementsBroadcast`), of a schema statement (`TableIsWhereWritesGo`).
* *`Connect` that fails halfway and is called again*: the groups of two attempts
  are mixed (`NamedEntitiesStayHome`, `OneGroupPerEntity`).
* *Several goroutines or processes in `CreateTable`* (`OneCreatorPerTable`).
* *Late results at the breaker*: an answer to a call of an earlier generation, a
  row that is not found, concurrent failures (`BreakerRecovers`,
  `NotFoundIsHealthy`).

## 2. The modules

| module | contents |
|---|---|
| `UserRepository` | the User repository: nodes, clients, database, caches, messages, faults; its properties |
| `UserRepositoryInvariant` | the inductive invariants: `IInv` in three parts (`TypeOK`, `CommitInv`, `ListInv`); what holds the caches current at rest, `FlushInv` for lists and `RestInv` for rows and mappings; `SequentialSpec`, the repository with calls that do not overlap |
| `OptimisticStore` | the abstract specification: a table with compare-and-set and reads of any past contents; no caches, versions or messages |
| `RepositoryStore` | the refinement mapping from `UserRepository` to `OptimisticStore` |
| `PostRepository` | the Post repository: walks, chunks of keys, expiration in bulk, and epochs that are readings of a clock |
| `RedisCacheProvider` | the provider of each process, with the goroutines that it starts |
| `Broadcast` | the abstract specification of a cache provider: what the repositories rely on |
| `ServerProvider` | configuration, `Connect`, `Disconnect`, and the way from an entity to its databases; operators without a specification of their own |
| `CircuitBreaker` | the breaker's states and generations under the constructor's settings; likewise |
| `DatabaseAccess` | the two composed with the calls of one repository and with `CreateTable` |
| `MCUserRepository`, `MCPostRepository`, `MCRedisCacheProvider`, `MCDatabaseAccess` | constants and constraints for TLC, symmetry |
| `UserRepositoryProofs`, `UserRepositorySafety`, `UserRepositoryLists`, `UserRepositoryRest` | the proofs about `UserRepository`: types; commits and the refinement; lists; the rest |
| `PostRepositoryProofs`, `PostRepositoryWalks` | the proofs about `PostRepository` |
| `RedisCacheProviderProofs`, `DatabaseAccessProofs` | the proofs about the other two |

How they fit together. `UserRepository` and `PostRepository` contain their own
picture of the messages: sets of publications that may be delayed, reordered,
repeated in effect, or lost. That this is what the real provider gives them, and
no worse, is what `Broadcast` states and `RedisCacheProvider` is shown to
implement: a handler hears only what was accepted for its own entity and topic.
Likewise the repositories' `DatabaseError` stands for every way in which
`DatabaseAccess` ends a call with an error: no group, no connection, a failing
statement, an open breaker.

### UserRepository: state

| variable | code |
|---|---|
| `log`, `synced` | the table after each write statement: the last element is what the write instance has, and the read instances are anywhere from `log[synced]` on |
| `items[n]`, `uidMap[n]` | `cache` of process n: rows and mappings |
| `lists[n]` | `listCache` and `countCache`; an entry has the epoch of its key, the ids, and (auxiliary) `asOf`, the length of the log that it was read at |
| `epoch[n]`, `flushedAt[n]` | `listEpoch`; (auxiliary) the length of the log when it was last bumped |
| `msgs`, `up` | publications on their way; the nodes that listen |
| `pc[c]`, `arg[c]` | where goroutine c is in an operation, and its local variables |
| `todo[c]` | the cache accesses and publications it has still to make, in order |
| `held[c]` | the entity it got last from `GetByID`, `GetByUid`, `Create` or `Update`, from which it makes the argument of its next `Update` |

### UserRepository: actions

One action per step that another goroutine can observe: the cache look-up that
begins an operation (`GetByID`, `GetByUid`, `List`, ...), a statement
(`QueryByID`, `ExecUpdate`, `InsertChunk`, ...), one access to a cache
(`FillCache`, `SetMapping`, `SetList`, `InvalidateCache`, `FlushListCache`,
...), one delivery (`OnCacheInvalidated`, `OnBumpEpoch`, `OnCacheFlushItem`).
What a statement's answer obliges the operation to do is the list `todo[c]`,
built by operators that carry the code's name and order: `UpdateTasks` is the
end of `Update`, `FlushAllTasks` is `FlushAllCache`, and so on.

A local cache access and the publication that follows it are one step. The
publication is asynchronous and takes effect at its delivery, which is any time
later; a crash between the two is the loss of the message (`LoseMessage`),
which is why the runs with `restart` also have `loseMsg`. A node also receives
what it publishes itself, as Redis has it.

### UserRepository: abstractions

* `uid` stands for each unique column; `GetByEmail` is `GetByUid` with another
  column, and `Update` treats the two alike. `age` stands for every other
  column. `Updated` and `Created` are left out.
* One WHERE (`Matching`) and one page stand for a list's arguments: entries
  under different arguments have different keys and never meet. What pages do to
  each other is the subject of `PostRepository`.
* The order in a chunk, a page and a result is left out; a chunk is any subset
  of the keys with `BatchSize` elements, which covers each order of the keys.
* An expired entry of go-cache is one that is gone. An entry may expire any
  time after it was set, since no other step here is measured in time.
* A call that `BlockedReads` or `BlockedWrites` refuses is a call not made. A
  call that begins and ends without a change of state (a hit in `countCache`,
  `Delete` of a row that is not there) is not a step.
* `epoch` counts the bumps. The code stores the time of day in nanoseconds;
  `PostRepository` has the clock, and shows that equal readings do no harm. A
  clock that is set back is not modelled.
* After a restart the epoch is a new time of day and the caches are empty; the
  model keeps the number, which no entry has any more.
* Two identical messages on their way to one node are one message, for a
  handler that runs twice does nothing the second time but bump an epoch.
* The callers hand `Create` an entity with version 0, the column's default.
* `setCached`'s look at `ItemCount` and its `Set` are one step.

### PostRepository

The variables that have the names of those above are the same code in
`post.gen.go`. New are

| variable | code |
|---|---|
| `clock` | `time.Now()`: `UnixNano` for an epoch, `Truncate(time.Second)` for `created` |
| `walk[c]` | the caller's loop over the pages of a list, or the loop over chunks inside a list by keys: the rows got, those got twice, and (auxiliary) `must`, those that matched when it began and have ever since |

`ListPage` is `ListById` and `RecentPosts` up to the look-up, with the last id of
the page before as `startID`; `ListFromCache` is the second look-up, row by row,
of a cached page; `QueryList` is the SELECT, with the WHERE (`Beyond`), the ORDER
BY (`Precedes`) and the LIMIT (`IsPage`) of each query. `must` is what the walk is
held to: for a list that may come from a cache, the rows that matched in every
table since the node's last flush; for a list by keys, which does not look at
the list cache, the rows that match when it begins.

Abstractions beyond those of `UserRepository`: one column `story` stands for
each column that a WHERE selects on; the two counts and the pluck, which cache
a value under an epoch like a page, are one action with the kind as its
parameter; all callers use one page size; a write statement outlasts the
clock's resolution, so that a `Commit` advances the clock, and everything else
may happen within one reading of it (the resolution is nanoseconds, a statement
is a round trip to MySQL). Restarts and lag are left to `UserRepository`.

### RedisCacheProvider

| variable | code |
|---|---|
| `client[n]`, `tries[n]`, `connected[n]` | `p.client`, numbered; the attempts left of the `Connect` in progress; what the last one returned |
| `closing[n]`, `shut[n]`, `ended[n]` | how far `Close` has come (context cancelled, `pubsubs` closed, client closed and `isClosed` set); the closed clients; the subscriptions it has closed |
| `handler[n][t]` | the four maps of handlers, as one map from topics (kind and entity) |
| `at[n][t]`, `on[n][t]` | where the listening goroutine is (sleeping its two seconds, subscribed, in `pubsubs` and in its loop, ended), and the client it has subscribed on |
| `call[c]` | a publishing goroutine: who, for what topic, the attempts left |
| `inbox[n][t]`, `heard[n][t]` | what is on its way to a listener; (auxiliary) what its handler was run for |
| `missed[n]` | (auxiliary) the subscriptions that `Close` cannot know, see 6 |

Each attempt, each step of `Close`, each step of a listener is an action. The
lock is held from the first to the last step of `Close` and within one step
elsewhere, so that it appears as the guard `LockIsFree`; the publications look
at `isClosed` without it, as the code does. Redis is external: a publication
reaches any subset of the open subscriptions, an attempt that returns an error
may have reached them too, and a subscription ends with its client. The
lengths of the back-offs and of the sleep are left out: they may last any time.
A copy enters an inbox only if its connection survives until it has arrived.

### ServerProvider, CircuitBreaker, DatabaseAccess

| variable | code |
|---|---|
| `config`, `groups` | `s.config`; `s.groups`, where a group is named by the `Connect` and the place in the configuration that made it |
| `opened` | the `sql.DB` that are open |
| `connects`, `connected`, `ready` | the calls of `Connect`; its last one succeeded and `Disconnect` has not been called; one has succeeded |
| `breaker`, `failures`, `expired`, `current` | gobreaker's state, its consecutive failures, whether the timeout has passed, and the calls that belong to the present generation |
| `entity` | the entity of the repository |
| `at[c]`, `doing[c]`, `conn[c]` | goroutine c: asked for admission, or in a query of the given kind on the given connection, or in `CreateTable` |
| `dbs[c]`, `stmt[c]` | the databases and the statement that `CreateTable` has before it |
| `table[i]` | the statements of the schema that instance i has executed |
| `calm`, `answered` | (auxiliary) no call fails any more that could be answered; a `CreateTable` has returned nil after it found databases |

A Go map is gone through in any order: `GroupsFor` is the set of groups that the
search may return, and `GetDatabase` the set of connections. `ConnectUpTo` is a
`Connect` that got through some groups and some instances of the next.
`CanExecute` is MySQL's CREATE TABLE without IF NOT EXISTS and CREATE INDEX after
it. A statement that fails may have been executed.

Abstractions: one entity and one repository at a time; `Connect` is called while
the process uses no repository (it writes the map of groups without a lock);
the breaker's timeout passes at some time after it has opened; `Interval` is at
its default, so that a closed breaker never forgets its failures by itself;
every error but `ErrNotFound` is one kind of failure. The entities of a group are
a set: a list that repeats a name (even "all", which the code then refuses) is
not told apart from one that does not. `Disconnect` is called after a `Connect`
that has succeeded.

### Bounds

*UserRepository.* `MaxId` and `MaxCommits` bound ids and writes, and are guards
(`Ids`, `Commit`). One or two rows, one or two uids, two clients on one node or
on two, two writes. Every hazard above needs at most two operations that
overlap and one or two writes: one to make a cache stale, one to be wronged by
it. `BatchSize` 1 makes each bulk operation of two keys one of two chunks;
`MaxCacheItems` 2 in `Sequential` is a row and its mapping: an update then finds
the cache full of what it has to remove first.

*PostRepository.* `MaxClock` bounds the clock, and `PageSize`, `BatchSize` and
`MaxDelete` are 1, so that two rows make two pages and two keys two chunks. One
goroutine walks and one writes. The action constraint `Bounded` keeps the reader
to one list at a time (entries under different keys never meet), the writer
from beginning a write while messages of its last are under way, the second
write to an insertion, and failures to the time before the first write. The
VIEW `Visible` leaves out entries under past epochs, which no look-up finds,
and the details of a walk that is over.

*RedisCacheProvider.* `Calls` has one publication: inboxes are sets and no
copy's way depends on another's, so that two publications show nothing one does
not. One entity, two of the four kinds in each behaviour (`FewKinds`), one
process that publishes and one that also listens and may connect twice
(`Roles`), and a second registration for one of the kinds (`Repositories`). These
constraints forbid calls, which nobody is obliged to make, and one of two
outcomes of an attempt, so that no fair behaviour is cut off in its middle.
Two attempts per loop instead of five and three.

*DatabaseAccess.* Five configurations (`SmallConfigs`), with a group for User and
a fallback, a fallback that comes first, two groups that name User, two groups
of one name, and two fallbacks, which `NewServerProvider` refuses; two
instances, two statements, two goroutines, two `Connect`s, and a breaker that
opens at the second failure.

### Fairness

*UserRepository.* `FairSpec` has weak fairness on what every client does after
it has called an operation (the Go scheduler runs each goroutine, and the
statements have an answer or an error), on each expiration (go-cache does not
serve an entry past its time) and on replication. Nothing obliges a client to
call, a message to arrive, or a node to subscribe. `CachesConverge` therefore
rests on the time to live alone, as it has to when messages get lost.

*RedisCacheProvider.* Weak fairness on each goroutine that the provider has
started, on the attempts of `Connect` and of a publication, and on the rest of
`Close`. Nobody has to connect, publish, register or close.

*DatabaseAccess.* Weak fairness on the steps of a call that has begun and on the
breaker's timeout. That calls keep coming and can be answered is not fairness of
the code: these are the premises of `BreakerRecovers`.

No run checks for deadlock: a client that has no operation to call within the
bounds stops, and so does a process whose provider is closed.

## 3. The runs

Nodes and clients of `MCUserRepository` are exchanged by symmetry, but not in
the liveness run.

| run | instance | shows |
|---|---|---|
| `Items` | 2 nodes; `GetByID`, `Update`, `Delete`; every fault but lag | types; caches serve only what was committed; no lost update; `IInv` |
| `Store` | 1 node, 2 clients, 2 uids; `GetByID`, `Update`, `HardDelete`; lag | `ImplementsStore` for stale reads; two updates that overlap leave committed contents in the cache they share |
| `Bulk` | 1 node, 2 clients, 2 rows; bulk get, create, update, delete; failing statements and lost answers | `IInv`; `ImplementsStore` for chunks |
| `Lists` | 2 nodes; `List`, `Count`, `Delete` | visible lists are fresh; lists at rest are right |
| `Converge` | 2 nodes, fair; one writes, the other reads rows, mappings and lists; lag, loss, restart, late subscription | after the write, the caches of rows, of mappings and of lists of both nodes end up fresh |
| `DeletedServed` | 2 nodes; `GetByID`, `Delete` | violation, see 6 |
| `Sequential` | 2 nodes, calls that do not overlap; nearly all operations; a cache that gets full | at rest rows, mappings and lists of all nodes are right |
| `BulkUpdateFails` | 2 nodes; `GetByID`, bulk update; failing statements | violation, see 6 |
| `Reregister` | 1 node; `GetByUid`, `Create`, `Delete` | violation, see 6 |
| `Posts` | `MCPostRepository`: 1 node, a reader and a writer; failing statements, lost answers and messages | walks and lists by keys return every row that stayed, once; visible lists are fresh although the epoch is a reading of the clock |
| `Channels` | `MCRedisCacheProvider`: 2 processes that connect, publish, register and close | `ImplementsBroadcast`; a closed provider is deaf; listeners and publications end; who has registered comes to listen |
| `Access` | `MCDatabaseAccess`: 2 goroutines, 5 configurations | an entity has one group and its own; the table is where the writes go; one creator; what `Disconnect` closes; the breaker recovers and ErrNotFound does not open it |

The action constraint `OneCallAtATime` of `Sequential`, `BulkUpdateFails` and
`Reregister` lets an operation begin only when no other runs and its messages
have been delivered; these runs explore `SequentialSpec`, which the theorems
about rest are about. It separates two questions: whether
each operation invalidates all it must, which is checked there, and what
overlapping operations do to each other. With overlap the three properties of
`Sequential` do not hold (`DeletedServed` is an example), by the design of
caches with a time to live; `QuietListsAreCurrent` does, thanks to the epochs,
and is checked in `Lists` with overlap.

In `Converge` the action constraint `WriterAndReader` gives each client its role:
c1 reads rows by their ids and deletes one, c2 reads by uid and lists. It forbids
beginnings of calls, which no fairness demands, so that it cuts no fair behaviour
off. There is one write, a `Delete`: it makes all three kinds of entries stale at
once, and a crash of the writer's process, a lost message or a reader that does
not listen yet leaves them so until they expire. Without the expiration of any
one kind the property fails.

The faults of `Lists` are in its theorem: the run has none, since
`QuietListsAreCurrent` has to be told of every flush, and that
`CurrentListsAreFresh` survives lost messages, crashes and late subscriptions is
`ListsAreFresh` of section 4.

In `Store` a client that overwrites contents it has not seen shows as a
changed uid: `OptimisticStore` is permissive about the age, which bulk updates
set without looking at a version, and strict about everything else.

Each property of `Posts` has a plausible bug that breaks it: a page that begins
with the last row of the one before, an order by the second alone, a chunk that
starts one key too late, an epoch in seconds. So has each of the other runs:
`PROJECT.json` lists them under "mutants", and the modules have them next to the
definitions that they change.

`DisconnectClosesAll` and `NamedEntitiesStayHome` have premises (`connects = 1`,
distinct names, a `Connect` that has succeeded), because without them the code
does otherwise: see 6. `RecentPostsReturnsAll` has the premise `CreatedFollowsId`
for the same reason.

## 4. The proofs

Each theorem is about `Spec` of its module, for every value of the constants
that satisfies the module's assumptions: any number of nodes, clients, rows and
writes, all operations, all faults. Five theorems cover less than that, and say
so: two are about read instances that do not lag, one assumes `WritesFlush`, and
two are about `SequentialSpec` and assume `WritesInvalidate`; see below.

| module | theorem | says |
|---|---|---|
| `UserRepositoryProofs` | `TypeCorrect` | `[]TypeOK` |
| `UserRepositorySafety` | `CacheIsHonest` | `[]CacheHoldsCommittedRows` |
| | `UpdatesAreNotLost` | `NoLostUpdate` |
| | `Implements` | `ImplementsStore` |
| `UserRepositoryLists` | `ListsAreFresh` | `[]CurrentListsAreFresh`, if the read instances do not lag |
| | `InvariantHolds` | `[]IInv`, if the read instances do not lag |
| | `QuietListsCurrent` | `[]QuietListsAreCurrent`, if `WritesFlush` |
| `UserRepositoryRest` | `QuietItemsCurrent` | `SequentialSpec => []QuietItemsAreCurrent`, if `WritesInvalidate` |
| | `QuietMappingsSound` | `SequentialSpec => []QuietMappingsAreSound`, if `WritesInvalidate` |
| `PostRepositoryProofs` | `TypeCorrect` | `[]TypeOK` |
| | `ListsAreFresh` | `[]CurrentListsAreFresh` |
| `PostRepositoryWalks` | `ListByIdComplete` | `[]ListByIdReturnsAll` |
| | `ListByKeysComplete` | `[]ListByKeysReturnsAll` |
| | `RecentPostsComplete` | `[]RecentPostsReturnsAll` |
| `RedisCacheProviderProofs` | `TypeCorrect` | `[]TypeOK` |
| | `ClosedIsDeaf` | `[]ClosedProviderIsDeaf` |
| | `Implements` | `ImplementsBroadcast` |
| `DatabaseAccessProofs` | `TypeCorrect` | `[]TypeOK` |
| | `OneCreator` | `[]OneCreatorPerTable` |
| | `NotFoundHealthy` | `NotFoundIsHealthy` |
| | `OneGroupHolds` | `[]OneGroupPerEntity` |
| | `StayHome` | `[]NamedEntitiesStayHome` |
| | `ClosesAll` | `[]DisconnectClosesAll` |
| | `TableServed` | `[]TableIsWhereWritesGo` |

The assumptions are the types of the constants (`ConstantsAssumption` and the
like; `BatchSize`, `PageSize` and the numbers of attempts are positive) and that
`None` is none of the values it is told apart from. `ConstantsAssumption` also
says that the rows a behaviour begins with have different uids, which is the
unique index of `user.sql`. No theorem assumes fairness.

### UserRepository

*Types.* `TypeOK` is inductive by itself. It includes the local variables of
every operation (`ArgFits`) and the tasks, from which the caches get their
contents.

*Honest caches and no lost update.* `CacheHoldsCommittedRows` is not inductive:
what a cache gets comes from a task, and what a task carries comes from a
statement, or from rows collected over several chunks. `CommitInv` says of all
of these that they were committed (`TasksCommitted`, `GotCommitted`,
`HeldCommitted`), which stays true because the log only grows. For updates two
more facts are needed. `LogGrows` says that a row is born once, dies once and
has a higher version after each change between, so that two live rows with the
same id and version are the same row (`SameVersionSameRow`). `UpdatesHeld` says
that a running update has the id and the version of the entity its caller
holds. An update that finds this version then replaces the very contents the
caller held. No assumption about caches, messages or replicas enters: the
version check is all that writers rely on.

*The store.* `Implements` shows each step to be one of `OptimisticStore`, or one
that changes nothing of what it shows. The mapping forgets versions, caches,
messages and replicas, so that each thing the store asks for has to come from
somewhere else. That a read returns past contents is `HeldCommitted`. That
`Replace` finds the very contents its caller saw, where the code compares
versions only, is `UpdatesHeld` and `SameVersionSameRow`. That an id is used
once comes from `LogGrows`: a row that is unborn now never was in the table
(`UnbornIsFresh`). That uids stay apart is the one thing to be proved along with
the invariant, and it is proved on the store: each of its writes leaves
`UniqueUids`, so that the table has it again (`StoreKeepsUnique`). The lemmas go
action by action: `CreateIsStoreStep`, `InsertChunkIsStoreStep`,
`ExecUpdateIsStoreStep`, `UpdateChunkIsStoreStep`, `DeleteRowsIsStoreStep`;
everything else changes at most what one client has seen.

*Fresh lists.* `ListInv` follows the epoch that a reader takes when it begins:
the entry it will set has an epoch that its node had (`ReadersInOrder`,
`TasksInOrder`), and if this is still the node's epoch then nobody has bumped
it since, so the SELECT, which came after the reader took it, came after the
last bump too. With lag the theorem is false: the read instance may be behind
the write that caused the flush.

*Lists at rest.* A fresh list is one that was read after the last flush the node
has heard of; that it is also what the table has once everything is at rest
needs that every change is followed by a flush. `ChangesAreFlushed` says for
each node: either a flush is due (its message is on the way, a client has it in
its tasks, or runs a bulk update that has changed rows), or what lists select has
not changed since the node's last bump. With `ListsRead` and `TasksRead` (an
entry has what the table had when it was read) and `ListInv` this gives the
property when nothing is due any more. It is proved with overlap: the epochs need
no one to wait. `WritesFlush` is the hypothesis that what is due does happen: no
answer, message or node is lost, replicas do not lag, and the bulk operations
that return at a failing chunk (`CreateBulk`, `UpdateAgeByIds`) are not called
where statements fail. Without it the property is false (for the early return
see `BulkUpdateFails`).

*Rows and mappings at rest.* `RestInv` says of each cached row that it is the
table's, or that it is about to be dropped on that node: by a task, by a message,
or by the flush at the end of a bulk update (`ItemsFit`, `DropDue`); of each
mapping that the row it leads to was born and has the uid if it lives, or that
it is about to be dropped (`MappingsFit`). A fill keeps this because what an
operation carries is in the table now (`RunningFits`), and that is true only
since nobody else writes meanwhile (`OneRuns`): with overlap the properties are
false, which is what `DeletedServed` shows. So the theorems are about
`SequentialSpec`. `WritesInvalidate` is `WritesFlush` but for `CreateBulk`, whose
early return leaves no row stale.

### PostRepository

*Fresh lists.* With a clock the argument above is not enough: a bump may set the
epoch to the value it had. `FreshInv` says of each entry, in a cache or on its
way there, that it is `Safe`: its epoch is a past reading of the clock; if it is
the present reading, then the entry was read from the present table; and if it
is the node's epoch, then the entry is not older than the last flush. The second
part is what a bump needs that finds the clock where the entry's reader found
it, and it holds since no write happened between the two: a write statement
outlasts the clock's resolution. With an epoch in seconds it fails, and so does
the property (a mutant of the run).

*Complete walks.* A page may come from a cache, so that `WalkInv` speaks about
the table of the time when it was read: every entry is a page of `log[asOf]`
(`EntriesOK`), an entry that is found is not older than the flush (`FreshInv`
again), and the rows of `must` matched in every table since then (`IdOK`). So
each of them that lies behind the walk's cursor is a candidate for the page,
whichever table the page comes from; and since the page is cut by id, the order
it has, what is skipped lies behind the page's last row (`PageKeepsWalk`). For
`RecentPosts`, which is cut by id but ordered by `created`, this step holds only
as long as `created` follows the id. A row keeps its stamp for ever, also when it
is deleted, so that if the present table has this order all earlier ones had it
too, whichever of them a page came from: `PagesOK` has `InOrder(Primary)` as the
premise of what the walk has got. For lists by keys `KeysOK`
says that the rows of `must` that have not been seen are those whose key is
still in the rest of the slice (`ChunkParts`: a chunk and the rest share no
key).

### RedisCacheProvider

`ClosedIsDeaf` rests on `CloseKnows`, which follows a subscription through the
steps of `Close`: when the context is cancelled every subscription that is not in
`pubsubs` yet is on the present client or in `missed`; when the `pubsubs` are
closed the others are closed or on the present client; when `Close` is done that
client is closed, and whatever subscribes later does so on it. `Implements` needs
`ListenersKnown`: where a goroutine listens a handler is registered, and what is
on its way was accepted for its topic; then each step is a step of `Broadcast` or
changes nothing that it shows.

### DatabaseAccess

`OneCreator` rests on `Creators`: whoever is past CREATE TABLE on a database works
on one that has the table, where a second CREATE TABLE fails. Its hard part is
that two connections may lead to one instance, and that a `Connect` must not
change what the connections of a running `CreateTable` mean (`GroupsKnown`).
What `Connect` and `CreateTable` leave behind follows from `Serving`. A group is
registered under its own name, and after one success each name is registered,
so that a later `Connect` that fails halfway replaces groups but removes none
(`GroupsNamed`); after the first `Connect` all that is open belongs to groups
that `Disconnect` will find (`OpenKnown`). `TablesServed` is about the database
where the writes of a group go, its first write instance: once a `CreateTable`
has answered nil it has the table. A `CreateTable` stops where it meets the
table, at a database that may be another group's or another instance of this
one; so the invariant follows each of them on its way: the first instance of the
entity's group has the table, or is the database that it is at. It has the premise
that the configuration leaves no choice of group (`IsUnambiguous`).

`NotFoundHealthy` needs from `TypeOK` that an open breaker has no call of its
generation and a half-open one has one at most: then the answer of that call is
the trial's.

### Only model-checked

Every safety property that a passing run checks is proved, and so are the
refinements. What only TLC checks is liveness, which is out of the prover's
reach: `CachesConverge`, `CloseEndsListeners`, `PublicationsEnd`,
`RegisteredListens`, `BreakerRecovers`.

## 5. What is not modelled

* *The generator.* Validation is one pass of independent checks over one data
  structure; query building puts pieces of SQL and Go together from the names in
  the YAML; rendering executes templates and writes files. Nothing of it has
  state, order or concurrency, each function ends in a string, and what could be
  said about a string is its wording. What the strings do is modelled: the
  statements and handlers of `src/example/dal/` are the generator's output for
  the two example entities.
* *The configuration provider.* A call that `BlockedReads` or `BlockedWrites`
  refuses is a call not made.
* *Telemetry and utilities*: counters that nothing reads, random uids.
* *The no-op cache provider*: empty functions. A repository that uses it is
  `UserRepository` or `PostRepository` with one node, whose messages to itself
  are all lost.
* *MySQL, Redis, go-cache and gobreaker* are external, and modelled from how the
  code uses them. Deadlines of contexts and the pools of connections are left
  out: a query has an answer or an error.

Hazards in `PROJECT.json` without a property have the reason in their note: most
are about what one goroutine does with a value (a slice shared with the cache, a
version set by the caller) that the models pass by value, or need no search.

## 6. What the runs found

* `DeletedServed`. A `GetByID` has read a row; another client deletes it, and
  its invalidations are done; then the `GetByID` caches the row. `Delete`'s
  comment expects that the "next use use DB as source of truth"
  (`user.gen.go:703`); the row is served for up to five minutes. The same
  happens to an old version of an updated row, but there `Update` is protected
  by the version.
* `BulkUpdateFails`. If a later chunk fails, `UpdateAgeByIds` returns before
  `FlushAllCache`, although earlier chunks have changed rows; its
  documentation promises the flush if "one or more rows" were updated
  (`user.gen.go:2343`). `CreateBulk` has the same early return before
  `FlushListCache` (`user.gen.go:469`).
* `Reregister`. Delete removes the row from the caches but not the mapping of
  its uid. `Create` with the same uid, which the scrambling of unique columns
  is there for (`README.md:19`), is followed by a `GetByUid` that finds the old
  mapping and reports ErrNotFound until it expires.

Met while modelling, and part of the models, without a run of their own:

* *Pages.* `RecentPosts` continues with `id < startID` while it orders by
  `created`; where the two orders differ (two creations that were stamped in one
  order and inserted in the other) a walk skips rows. A row that moves from one
  key to another between two chunks of a list by keys is missed or returned
  twice.
* *Breaker.* It opens at the failure after the configured number (`>`), while
  `user.yaml:65` and `post.yaml:49` say how many times to fail. A duplicate key
  or a cancelled context counts as a failure of the database. `README.md:17`
  says that all database calls are wrapped; those of `CreateTable` are not.
* *CreateTable* returns nil as soon as it meets a database that has the table,
  though indexes may be missing there and the table itself in the databases
  after it, and also if the entity has no database at all.
* *Connections.* A `Connect` that fails leaves open what it has opened, and a
  later one replaces the groups without closing theirs; `Disconnect` closes only
  those of the groups registered last. If two groups have the same name the
  later one replaces the earlier, whose entities then go to the fallback.
* *Redis.* Each attempt of `Connect` makes a new client and closes none. A
  listener that subscribes on one of them after a failed `Connect`, and is
  overtaken by a second `Connect` and by `Close` before it is in `pubsubs`, stays
  subscribed for ever (`missed`). The second handler of one process for the same
  entity and topic is dropped without an error.
* `rediscacheprovider_test.go` publishes right after it has registered and waits
  for its handler, but the listener sleeps for two seconds before it subscribes
  and misses what is published in between, unless the publication has to be
  tried again. The comment
  of `DefaultConfigProvider` says that it always returns true; it returns false.

## 7. The plan

Done: the two repositories, the Redis provider, the server provider, the
breaker and `CreateTable`, the abstract store and the abstract broadcast, and
the proofs of section 4.

Left:

1. Larger bounds: three clients in `Items`, two lists in `Lists`, a third row in
   `Posts`, two processes with subscriptions in `Channels`.
2. The safety that the liveness properties rest on, as theorems: for
   `CachesConverge`, that a cached row which is not the table's has an expiration
   before it; for `CloseEndsListeners`, that no listener is left on an open client.
3. `RestInv` for operations that overlap but do not touch the same row.
4. A clock that is set back, with the epochs' property weakened to what then
   holds.

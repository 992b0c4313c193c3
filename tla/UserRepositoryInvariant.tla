----------------------- MODULE UserRepositoryInvariant -----------------------
(* Inductive invariants of UserRepository.                                    *)
EXTENDS UserRepository

(* Why no cache invents a row and no update is lost.                          *)

\* How the contents r of a row may have become s: a row is born once, dies once,
\* and gets a higher version with each change in between.
Precedes(r, s) ==
    \/ r = s
    \/ r.state = "unborn"
    \/ r.state # "unborn" /\ s.state \in {"deleted", "purged"}
    \/ r.state = "live" /\ s.state = "live" /\ r.ver < s.ver

\* Of two tables in the history the later one has each row as it was or became.
LogGrows ==
    \A p, q \in 1..Len(log) : p <= q => \A id \in Ids : Precedes(log[p][id], log[q][id])

\* What a client, an operation or a cache has of a row is committed.
Fills(task) == task.do \in {"setCached", "setCachedMapped"}

FillsCommitted(l, tasks) ==
    \A i \in 1..Len(tasks) : Fills(tasks[i]) => \A e \in tasks[i].entities : CommittedIn(l, e)

TasksCommitted == \A c \in Clients : FillsCommitted(log, todo[c])

GotCommitted == \A c \in Clients : pc[c] \in {"getByIds", "getByUids"} =>
                                       \A e \in arg[c].got : Committed(e)

HeldCommitted == \A c \in Clients : held[c] # None => Committed(held[c])

\* An update runs with the id and the version of the entity its caller holds.
UpdatesHeld == \A c \in Clients : pc[c] \in {"updateGet", "update"} =>
                   held[c] # None /\ arg[c].new.id = held[c].id /\ arg[c].new.ver = held[c].ver

\* Inductive together with TypeOK: what is cached comes from what is held, read or written,
\* and what was committed once stays so in a log that only grows.
CommitInv == /\ LogGrows
             /\ CacheHoldsCommittedRows
             /\ TasksCommitted
             /\ GotCommitted
             /\ HeldCommitted
             /\ UpdatesHeld
-----------------------------------------------------------------------------
(* Why a visible list has all the writes that came before the last flush.     *)

\* The entry has an epoch that a node with epoch e has had, and if that is the
\* present one then it was read at or after f, when the node's epoch was bumped.
InOrder(l, e, f) == l.epoch <= e /\ (l.epoch = e => l.asOf >= f)

SetsInOrder(tasks, e, f) ==
    \A i \in 1..Len(tasks) : tasks[i].do = "setList" => InOrder(tasks[i].entry, e, f)

FlushesInOrder == \A n \in Nodes : flushedAt[n] <= Len(log)

ListsInOrder == \A n \in Nodes : \A l \in lists[n] : InOrder(l, epoch[n], flushedAt[n])

TasksInOrder == \A c \in Clients : SetsInOrder(todo[c], epoch[NodeOf[c]], flushedAt[NodeOf[c]])

ReadersInOrder == \A c \in Clients : pc[c] \in {"list", "listCached", "count"} =>
                                         arg[c].epoch <= epoch[NodeOf[c]]

\* Inductive together with TypeOK, if no read instance lags: no epoch in use is
\* above the node's, and one that equals it was taken after the last bump.
ListInv == FlushesInOrder /\ ListsInOrder /\ TasksInOrder /\ ReadersInOrder

\* The inductive invariant: types; caches, operations and callers have only rows
\* that were committed; lists carry the epoch from before their SELECT.
IInv == TypeOK /\ CommitInv /\ ListInv
-----------------------------------------------------------------------------
(* Why the visible lists are current once everything is at rest.              *)

\* The tasks bump the epoch of the client's node and tell the other nodes.
Flushes(tasks) == \E i \in 1..Len(tasks) : tasks[i].do = "flushListCache"

\* The client will flush the lists if no statement of its operation fails.
WillFlush(c) == \/ Flushes(todo[c])
                \/ pc[c] \in {"updateByIds", "updateByUids"} /\ arg[c].changed

Bump(n) == [to |-> n, kind |-> "bumpEpoch", key |-> None]

FlushDue(n) == Bump(n) \in msgs \/ \E c \in Clients : WillFlush(c)

\* The rows that lists select are those that were there at the last bump of the
\* node's epoch and ever since, or another bump is due.
ChangesAreFlushed ==
    \A n \in Nodes : \/ FlushDue(n)
                     \/ \A p \in 1..Len(log) :
                            p >= flushedAt[n] => Selected(log[p]) = Selected(Primary)

\* The entry has what the table had when it was read.
ReadFrom(l, entry) == entry.asOf \in 1..Len(l) /\ entry.ids = Selected(l[entry.asOf])

SetsReadFrom(l, tasks) ==
    \A i \in 1..Len(tasks) : tasks[i].do = "setList" => ReadFrom(l, tasks[i].entry)

ListsRead == \A n \in Nodes : \A entry \in lists[n] : ReadFrom(log, entry)
TasksRead == \A c \in Clients : SetsReadFrom(log, todo[c])

\* The bulk operations that run are among those that are called.
Called(label) == /\ label = "createBulk" => "CreateBulk" \in Ops
                 /\ label \in {"updateByIds", "updateByUids"} => "UpdateBulk" \in Ops

BulkIsCalled == \A c \in Clients : Called(pc[c])

\* Every write that has changed a row invalidates it, on every node: messages and
\* answers arrive, and no bulk update fails at a later chunk, which returns
\* without FlushAllCache.
WritesInvalidate == /\ Faults \subseteq {"dbError"}
                    /\ "dbError" \in Faults => "UpdateBulk" \notin Ops

\* And flushes the lists: no CreateBulk fails at a later chunk, either.
WritesFlush == WritesInvalidate /\ "CreateBulk" \notin Ops

\* Inductive together with TypeOK and ListInv, if WritesFlush.
FlushInv == /\ up = Nodes
            /\ BulkIsCalled
            /\ ListsRead
            /\ TasksRead
            /\ ChangesAreFlushed
-----------------------------------------------------------------------------
(* Why single rows and mappings are current at rest if calls do not overlap.  *)

\* Calls that do not overlap: an operation begins only when none is running and
\* the publications of those before it have been delivered.
OneCallAtATime == (\E c \in Clients : At(c, "idle") /\ ~At(c, "idle")') => Quiet

SequentialSpec == Init /\ [][Next /\ OneCallAtATime]_vars

CurrentIn(t, e) == IsLive(t, e.id) /\ e = Entry(t, e.id)

\* What the task caches is in the table t.
TaskFits(t, task) ==
    /\ Fills(task) => \A e \in task.entities : CurrentIn(t, e)
    /\ task.do = "setMapping" => IsLive(t, task.id) /\ t[task.id].uid = task.uid

TasksFit(t, tasks) == \A i \in 1..Len(tasks) : TaskFits(t, tasks[i])

\* So is what an operation has read; an update knows the uid that the row has.
LocalsFit(t, label, a) ==
    /\ label \in {"getByIds", "getByUids"} => \A e \in a.got : CurrentIn(t, e)
    /\ label = "update" => IsLive(t, a.new.id) /\ a.oldUid = t[a.new.id].uid

OnlyFills(tasks) == \A i \in 1..Len(tasks) : tasks[i].do = "setCached"

\* One operation runs; as long as it has statements to execute, no publication
\* is on its way, and none is among its tasks.
OneRuns ==
    /\ \A c, d \in Clients : At(c, "idle") \/ At(d, "idle") \/ c = d
    /\ \A c \in Clients : pc[c] # "idle" => msgs = {} /\ OnlyFills(todo[c])

RunningFits == \A c \in Clients : /\ TasksFit(Primary, todo[c])
                                  /\ LocalsFit(Primary, pc[c], arg[c])

\* The tasks drop the row id from the caches of all nodes, or the mapping of u.
Drops(tasks, id) ==
    \E i \in 1..Len(tasks) : \/ tasks[i].do = "publishFlushItem"
                             \/ tasks[i].do = "invalidateCache" /\ tasks[i].id = id

Forgets(tasks, u) ==
    \E i \in 1..Len(tasks) : \/ tasks[i].do = "publishFlushItem"
                             \/ tasks[i].do = "invalidateUid" /\ tasks[i].uid = u

\* The node is about to be told so, or to be told to flush its cache.
Told(n, kind, key) == \/ [to |-> n, kind |-> kind, key |-> key] \in msgs
                      \/ [to |-> n, kind |-> "flushItem", key |-> None] \in msgs

\* A bulk update has changed rows and will flush.
Changing(c) == pc[c] \in {"updateByIds", "updateByUids"} /\ arg[c].changed

DropDue(n, id) == \/ Told(n, "invalidateId", id)
                  \/ \E c \in Clients : Changing(c) \/ Drops(todo[c], id)

ForgetDue(n, u) == \/ Told(n, "invalidateUid", u)
                   \/ \E c \in Clients : Forgets(todo[c], u)

\* What is cached is what the table has, or is about to be dropped.
ItemsFit ==
    \A n \in Nodes, id \in Ids :
        \/ items[n][id] = None
        \/ DropDue(n, id)
        \/ IsLive(Primary, id) /\ items[n][id] = Entry(Primary, id)

\* An id that a mapping leads to was given to a row, which if live has the uid.
Leads(t, id, u) == t[id].state # "unborn" /\ (IsLive(t, id) => t[id].uid = u)

MappingsFit ==
    \A n \in Nodes, u \in Uids :
        uidMap[n][u] = None \/ ForgetDue(n, u) \/ Leads(Primary, uidMap[n][u], u)

\* Inductive together with TypeOK, if WritesInvalidate and OneCallAtATime.
RestInv == /\ up = Nodes
           /\ BulkIsCalled
           /\ OneRuns
           /\ RunningFits
           /\ ItemsFit
           /\ MappingsFit
=============================================================================

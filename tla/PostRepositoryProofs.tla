------------------------ MODULE PostRepositoryProofs ------------------------
(* Theorems about PostRepository, for every value of its constants: its types, *)
(* and that the current lists are fresh.                                       *)
EXTENDS PostRepository, SequenceTheorems, TLAPS

-----------------------------------------------------------------------------
(* The tasks.                                                                 *)

LEMMA TaskType ==
    /\ \A es \in SUBSET Entity : [do |-> "setCached", entities |-> es] \in Task
    /\ \A l \in ListEntry : [do |-> "setList", entry |-> l] \in Task
    /\ \A id \in Ids : InvalidateTask(id) \in Task
    /\ FlushListTask \in Task
    /\ [do |-> "flushItems"] \in Task
    /\ [do |-> "publishFlushItem"] \in Task
<1>1. \A es \in SUBSET Entity : [do |-> "setCached", entities |-> es] \in Task
  BY DEF Task
<1>2. \A l \in ListEntry : [do |-> "setList", entry |-> l] \in Task
  BY DEF Task
<1>3. \A id \in Ids : InvalidateTask(id) \in Task
  BY DEF Task, InvalidateTask
<1>4. FlushListTask \in Task /\ [do |-> "flushItems"] \in Task /\ [do |-> "publishFlushItem"] \in Task
  BY DEF Task, FlushListTask
<1>. QED
  BY <1>1, <1>2, <1>3, <1>4

\* The fields of a task follow from what it does.
LEMMA TaskFields ==
    ASSUME NEW t \in Task
    PROVE  /\ t.do = "setCached" => t.entities \in SUBSET Entity
           /\ t.do = "setList" => t.entry \in ListEntry
           /\ t.do = "invalidateCache" => t.id \in Ids
BY DEF Task

LEMMA SeqTypes ==
    ASSUME NEW S
    PROVE  /\ << >> \in Seq(S)
           /\ \A t \in S : << t >> \in Seq(S)
           /\ \A t, u \in S : << t, u >> \in Seq(S)
           /\ \A t, u, v \in S : << t, u, v >> \in Seq(S)
           /\ \A s, t \in Seq(S) : s \o t \in Seq(S)
           /\ \A s \in Seq(S) : s # << >> => Head(s) \in S /\ Tail(s) \in Seq(S)
OBVIOUS

LEMMA FillTasksType ==
    ASSUME NEW es \in SUBSET Entity
    PROVE  FillTasks(es) \in Seq(Task)
BY TaskType, SeqTypes DEF FillTasks

\* The chunks of a slice.
LEMMA ChunkTypes ==
    ASSUME NEW S, NEW s \in Seq(S)
    PROVE  ChunkOf(s) \in Seq(S) /\ RestOf(s) \in Seq(S)
<1>1. BatchSize \in Nat \ {0} /\ Len(s) \in Nat
  BY ConstantsAssumption DEF ConstantsAssumption
<1>2. ASSUME NEW k \in 0..Len(s)
      PROVE  SubSeq(s, 1, k) \in Seq(S)
  BY <1>1, SubSeqProperties
<1>3. RestOf(s) \in Seq(S)
  <2>1. \A i \in (BatchSize + 1)..Len(s) : i \in 1..Len(s)
    BY <1>1
  <2>. QED
    BY <1>1, <2>1, SubSeqProperties DEF RestOf
<1>. QED
  BY <1>1, <1>2, <1>3 DEF ChunkOf
-----------------------------------------------------------------------------
(* The table.                                                                 *)

LEMMA PrimaryType ==
    ASSUME TableOK
    PROVE  Len(log) \in Nat \ {0} /\ Primary \in [Ids -> Row]
<1>1. Len(log) \in Nat \ {0}
  BY EmptySeq DEF TableOK
<1>2. Len(log) \in 1..Len(log)
  BY <1>1
<1>. QED
  BY <1>1, <1>2 DEF TableOK, Primary

LEMMA EntryType ==
    ASSUME NEW t \in [Ids -> Row], NEW id \in Ids
    PROVE  Entry(t, id) \in Entity
BY DEF Entry, Entity, Row

\* Every statement leaves rows behind it.
LEMMA RowType ==
    /\ \A s \in Stories, second \in Nat : Inserted(s, second) \in Row
    /\ \A r \in Row, s \in Stories : Touched(r, s) \in Row
    /\ \A r \in Row : DeletedRow(r) \in Row
<1>1. \A s \in Stories, second \in Nat : Inserted(s, second) \in Row
  BY DEF Row, Inserted
<1>2. \A r \in Row, s \in Stories : Touched(r, s) \in Row
  BY DEF Row, Touched
<1>3. \A r \in Row : DeletedRow(r) \in Row
  BY DEF Row, DeletedRow
<1>. QED
  BY <1>1, <1>2, <1>3

LEMMA WithNewType ==
    ASSUME TableOK, NEW first \in Ids, NEW stories \in Seq(Stories), NEW second \in Nat
    PROVE  WithNew(first, stories, second) \in [Ids -> Row]
<1>1. ASSUME NEW id \in Ids, id \in first..(first + Len(stories) - 1)
      PROVE  Inserted(stories[id - first + 1], second) \in Row
  <2>1. Len(stories) \in Nat /\ id \in Int /\ first \in Int
    BY ConstantsAssumption DEF Ids, ConstantsAssumption
  <2>2. \A a, b, l \in Int : a \in b..(b + l - 1) => a - b + 1 \in 1..l
    OBVIOUS
  <2>3. id - first + 1 \in 1..Len(stories)
    BY <1>1, <2>1, <2>2
  <2>4. stories[id - first + 1] \in Stories
    BY <2>3
  <2>. QED
    BY <2>4, RowType
<1>. QED
  BY <1>1, PrimaryType DEF WithNew

\* A write that makes a table of rows adds it to the log, and time passes.
LEMMA CommitType ==
    ASSUME TableOK, walk \in [Clients -> Walk \cup {None}], NEW t \in [Ids -> Row], Commit(t)
    PROVE  /\ TableOK'
           /\ walk' \in [Clients -> Walk \cup {None}]
           /\ Len(log') = Len(log) + 1 /\ clock' = clock + 1
<1>1. log' = Append(log, t) /\ clock' = clock + 1
  BY DEF Commit, TimePasses
<1>2. log' \in Seq([Ids -> Row]) /\ Len(log') = Len(log) + 1
  BY <1>1 DEF TableOK
<1>3. log' # << >>
  BY <1>2, PrimaryType, EmptySeq
<1>4. ASSUME NEW c \in Clients, walk[c] # None
      PROVE  [walk[c] EXCEPT !.must = StillMust(walk[c], t)] \in Walk
  <2>1. walk[c] \in Walk
    BY <1>4
  <2>2. StillMust(walk[c], t) \subseteq walk[c].must
    BY DEF StillMust
  <2>. HIDE DEF StillMust
  <2>. QED
    BY <2>1, <2>2 DEF Walk
<1>5. walk' \in [Clients -> Walk \cup {None}]
  BY <1>4 DEF Commit
<1>. QED
  BY <1>1, <1>2, <1>3, <1>5 DEF TableOK
-----------------------------------------------------------------------------
(* The parts that actions are made of.                                        *)

\* What the type invariant says of one client.
LEMMA LocalType ==
    ASSUME TypeOK, NEW c \in Clients
    PROVE  /\ NodeOf[c] \in Nodes
           /\ pc[c] \in Labels /\ ArgFits(pc[c], arg[c])
           /\ todo[c] \in Seq(Task)
           /\ todo[c] # << >> => Head(todo[c]) \in Task /\ Tail(todo[c]) \in Seq(Task)
           /\ held[c] \in Entity \cup {None}
           /\ walk[c] \in Walk \cup {None}
           /\ epoch[NodeOf[c]] \in Nat
           /\ lists[NodeOf[c]] \subseteq ListEntry
BY ConstantsAssumption, SeqTypes DEF ConstantsAssumption, TypeOK, ControlOK, CachesOK

LEMMA GotoType ==
    ASSUME ControlOK, NEW c \in Clients, NEW label \in Labels, NEW a,
           ArgFits(label, a), Goto(c, label, a)
    PROVE  ControlOK'
<1>1. pc' \in [Clients -> Labels] /\ DOMAIN arg' = Clients
  BY DEF ControlOK, Goto
<1>2. ASSUME NEW d \in Clients
      PROVE  ArgFits(pc'[d], arg'[d])
  <2>1. CASE d = c
    <3>1. pc'[d] = label /\ arg'[d] = a
      BY <2>1 DEF ControlOK, Goto
    <3>. QED
      BY <3>1
  <2>2. CASE d # c
    <3>1. pc'[d] = pc[d] /\ arg'[d] = arg[d]
      BY <2>2 DEF ControlOK, Goto
    <3>. QED
      BY <3>1 DEF ControlOK
  <2>. QED
    BY <2>1, <2>2
<1>. QED
  BY <1>1, <1>2 DEF ControlOK

LEMMA ReturnType ==
    ASSUME ControlOK, NEW c \in Clients, Return(c)
    PROVE  ControlOK'
<1>1. "idle" \in Labels /\ ArgFits("idle", None)
  BY DEF Labels, ArgFits
<1>. QED
  BY <1>1, GotoType DEF Return

LEMMA ThenType ==
    ASSUME TypeOK, NEW c \in Clients, NEW tasks \in Seq(Task), Then(c, tasks)
    PROVE  todo' \in [Clients -> Seq(Task)]
BY DEF TypeOK, Then

LEMMA HoldType ==
    ASSUME TypeOK, NEW c \in Clients, NEW e \in Entity, Hold(c, e)
    PROVE  held' \in [Clients -> Entity \cup {None}]
BY DEF TypeOK, Hold

LEMMA UnchangedType ==
    ASSUME TypeOK
    PROVE  /\ UNCHANGED dbVars => TableOK'
           /\ UNCHANGED cacheVars => CachesOK'
           /\ UNCHANGED msgs => msgs' \subseteq Message
           /\ UNCHANGED <<pc, arg>> => ControlOK'
           /\ UNCHANGED todo => todo' \in [Clients -> Seq(Task)]
           /\ UNCHANGED held => held' \in [Clients -> Entity \cup {None}]
           /\ UNCHANGED walk => walk' \in [Clients -> Walk \cup {None}]
BY DEF TypeOK, TableOK, CachesOK, ControlOK, dbVars, cacheVars

LEMMA BeginWalkType ==
    ASSUME TypeOK, NEW c \in Clients, NEW q \in ListQuery, NEW must \in SUBSET Ids,
           BeginWalk(c, q, must)
    PROVE  walk' \in [Clients -> Walk \cup {None}]
<1>1. [query |-> q, seen |-> {}, twice |-> {}, must |-> must, done |-> FALSE] \in Walk
  BY DEF Walk
<1>. QED
  BY <1>1 DEF TypeOK, BeginWalk

LEMMA AdvancedType ==
    ASSUME NEW w \in Walk, NEW start \in Nat, NEW ids \in SUBSET Ids, NEW done \in BOOLEAN
    PROVE  Advanced(w, start, ids, done) \in Walk
<1>1. [w.query EXCEPT !.start = start] \in ListQuery
  BY DEF Walk, ListQuery
<1>. DEFINE q == [w.query EXCEPT !.start = start]
<1>. HIDE DEF q
<1>2. Advanced(w, start, ids, done) =
        [query |-> q, seen |-> w.seen \cup ids,
         twice |-> w.twice \cup (w.seen \cap ids), must |-> w.must, done |-> done]
  BY DEF Advanced, q
<1>3. w.seen \in SUBSET Ids /\ w.twice \in SUBSET Ids /\ w.must \in SUBSET Ids
  BY DEF Walk
<1>4. w.seen \cup ids \in SUBSET Ids /\ w.twice \cup (w.seen \cap ids) \in SUBSET Ids
  BY <1>3
<1>5. q \in ListQuery
  BY <1>1 DEF q
<1>. QED
  BY <1>2, <1>3, <1>4, <1>5 DEF Walk
-----------------------------------------------------------------------------
(* A client that reads a list is on a walk, but for counts and plucks.        *)

OnPage(c) == /\ pc[c] \in {"list", "listCached"}
             /\ arg[c].query.kind \in PageKinds

WalksOK == \A c \in Clients :
    /\ OnPage(c) => walk[c] # None /\ walk[c].query = arg[c].query
    /\ pc[c] = "listByKeys" => walk[c] # None /\ walk[c].query.kind = "ListByKeys"

LEMMA TakePageType ==
    ASSUME TypeOK, NEW c \in Clients, NEW t, NEW page \in SUBSET Ids, walk[c] # None,
           TakePage(c, t, page)
    PROVE  walk' \in [Clients -> Walk \cup {None}]
<1>. DEFINE full == Cardinality(page) < PageSize
<1>1. PICK last \in IF page = {} THEN {walk[c].query.start}
                    ELSE LastOf(t, walk[c].query.kind, page) :
           walk' = [walk EXCEPT ![c] = Advanced(walk[c], last, page, full)]
  BY DEF TakePage, TypeOK
<1>2. walk[c] \in Walk
  BY LocalType
<1>3. last \in Nat
  <2>1. \A id \in Ids : id \in Nat
    BY ConstantsAssumption DEF ConstantsAssumption, Ids
  <2>2. walk[c].query.start \in Nat
    BY <1>2 DEF Walk, ListQuery
  <2>3. LastOf(t, walk[c].query.kind, page) \subseteq page
    BY DEF LastOf
  <2>. QED
    BY <1>1, <2>1, <2>2, <2>3
<1>4. full \in BOOLEAN
  OBVIOUS
<1>. HIDE DEF full
<1>5. Advanced(walk[c], last, page, full) \in Walk
  BY <1>2, <1>3, <1>4, AdvancedType
<1>. QED
  BY <1>1, <1>5 DEF TypeOK

\* A look-up goes to a cached entry or to the database.
LEMMA LookUpType ==
    ASSUME TypeOK, NEW c \in Clients, NEW q \in ListQuery, q.kind \in ListKinds, LookUp(c, q)
    PROVE  ControlOK'
<1>1. ASSUME NEW l \in CachedLists(NodeOf[c], q), q.kind \in PageKinds, Goto(c, "listCached", l)
      PROVE  ControlOK'
  <2>1. l \in ListEntry /\ l.query = q
    BY LocalType DEF CachedLists
  <2>2. "listCached" \in Labels /\ ArgFits("listCached", l)
    BY <1>1, <2>1 DEF Labels, ArgFits
  <2>. QED
    BY <1>1, <2>2, GotoType DEF TypeOK
<1>2. CASE Goto(c, "list", [query |-> q, epoch |-> epoch[NodeOf[c]]])
  <2>1. "list" \in Labels /\ ArgFits("list", [query |-> q, epoch |-> epoch[NodeOf[c]]])
    BY LocalType DEF Labels, Querying, ArgFits
  <2>. QED
    BY <1>2, <2>1, GotoType DEF TypeOK
<1>. QED
  BY <1>1, <1>2 DEF LookUp
-----------------------------------------------------------------------------
(* Reads keep the types.                                                      *)

LEMMA QueryTypes ==
    ASSUME NEW keys \in SUBSET Stories, NEW kind \in ListKinds \cup {"ListByKeys"}
    PROVE  [kind |-> kind, keys |-> keys, start |-> 0] \in ListQuery
BY DEF ListQuery

LEMMA GetByIDType ==
    ASSUME TypeOK, NEW c \in Clients, NEW id \in Ids, GetByID(c, id)
    PROVE  TypeOK'
<1>. DEFINE cached == items[NodeOf[c]][id]
<1>1. cached \in Entity \cup {None}
  BY LocalType DEF TypeOK, CachesOK
<1>2. "getByID" \in Labels /\ ArgFits("getByID", [id |-> id])
  BY DEF Labels, Querying, ArgFits
<1>3. ControlOK' /\ held' \in [Clients -> Entity \cup {None}]
  BY <1>1, <1>2, GotoType, HoldType, UnchangedType DEF GetByID, TypeOK
<1>. QED
  BY <1>3, UnchangedType DEF GetByID, TypeOK

LEMMA ListPageType ==
    ASSUME TypeOK, NEW c \in Clients, NEW kind \in PageKinds, NEW keys \in SUBSET Stories,
           ListPage(c, kind, keys)
    PROVE  TypeOK'
<1>1. CASE IsWalking(c, kind, keys) /\ LookUp(c, walk[c].query) /\ UNCHANGED walk
  <2>1. walk[c].query \in ListQuery /\ walk[c].query.kind \in ListKinds
    BY <1>1, LocalType DEF IsWalking, Walk, ListKinds
  <2>. QED
    BY <1>1, <2>1, LookUpType, UnchangedType DEF ListPage, TypeOK
<1>2. CASE LET q == [kind |-> kind, keys |-> keys, start |-> 0]
           IN  LookUp(c, q) /\ BeginWalk(c, q, SettledMatches(NodeOf[c], keys))
  <2>. DEFINE q == [kind |-> kind, keys |-> keys, start |-> 0]
  <2>1. q \in ListQuery /\ q.kind \in ListKinds
    BY DEF ListQuery, ListKinds
  <2>2. SettledMatches(NodeOf[c], keys) \in SUBSET Ids
    BY DEF SettledMatches
  <2>3. LookUp(c, q) /\ BeginWalk(c, q, SettledMatches(NodeOf[c], keys))
    BY <1>2
  <2>. HIDE DEF q
  <2>. QED
    BY <2>1, <2>2, <2>3, LookUpType, BeginWalkType, UnchangedType DEF ListPage, TypeOK
<1>. QED
  BY <1>1, <1>2 DEF ListPage

LEMMA ListValueType ==
    ASSUME TypeOK, NEW c \in Clients, NEW kind \in ValueKinds, NEW keys \in SUBSET Stories,
           ListValue(c, kind, keys)
    PROVE  TypeOK'
<1>. DEFINE q == [kind |-> kind, keys |-> keys, start |-> 0]
<1>1. q \in ListQuery /\ q.kind \in ListKinds
  BY DEF ListQuery, ListKinds
<1>2. LookUp(c, q)
  BY DEF ListValue
<1>. HIDE DEF q
<1>. QED
  BY <1>1, <1>2, LookUpType, UnchangedType DEF ListValue, TypeOK

LEMMA KeyListsType ==
    ASSUME NEW keys \in KeyLists
    PROVE  /\ keys \in Seq(Stories) /\ RangeOf(keys) \in SUBSET Stories
           /\ \A i, j \in DOMAIN keys : keys[i] = keys[j] => i = j
<1>1. PICK m \in 1..Cardinality(Stories) : keys \in [1..m -> Stories]
  BY DEF KeyLists
<1>2. m \in Nat
  OBVIOUS
<1>3. keys \in Seq(Stories)
  BY <1>1, <1>2, SeqDef
<1>. QED
  BY <1>1, <1>3 DEF KeyLists, RangeOf

LEMMA MatchesType ==
    ASSUME NEW t, NEW keys
    PROVE  Matches(t, keys) \in SUBSET Ids
BY DEF Matches, LiveIds

LEMMA ListByKeysType ==
    ASSUME TypeOK, NEW c \in Clients, NEW keys \in KeyLists, ListByKeys(c, keys)
    PROVE  TypeOK'
<1>. DEFINE q == [kind |-> "ListByKeys", keys |-> RangeOf(keys), start |-> 0]
<1>1. q \in ListQuery
  BY KeyListsType DEF ListQuery
<1>2. "listByKeys" \in Labels /\ ArgFits("listByKeys", [keys |-> keys])
  BY KeyListsType DEF Labels, Querying, ArgFits
<1>3. ControlOK'
  BY <1>2, GotoType DEF ListByKeys, TypeOK
<1>4. BeginWalk(c, q, Matches(Primary, RangeOf(keys)))
  BY DEF ListByKeys
<1>. HIDE DEF q
<1>. QED
  BY <1>1, <1>3, <1>4, MatchesType, BeginWalkType, UnchangedType DEF ListByKeys, TypeOK

LEMMA QueryByIDType ==
    ASSUME TypeOK, NEW c \in Clients, QueryByID(c)
    PROVE  TypeOK'
<1>. DEFINE e == Entry(Primary, arg[c].id)
<1>1. arg[c].id \in Ids
  BY LocalType DEF QueryByID, At, ArgFits
<1>2. e \in Entity
  BY <1>1, PrimaryType, EntryType DEF TypeOK
<1>3. {e} \in SUBSET Entity
  BY <1>2
<1>. HIDE DEF e
<1>4. FillTasks({e}) \in Seq(Task)
  BY <1>3, FillTasksType
<1>5. \/ Then(c, FillTasks({e})) /\ Hold(c, e)
      \/ UNCHANGED <<todo, held>>
  BY DEF QueryByID, e
<1>6. /\ todo' \in [Clients -> Seq(Task)]
      /\ held' \in [Clients -> Entity \cup {None}]
  BY <1>2, <1>4, <1>5, ThenType, HoldType, UnchangedType
<1>7. ControlOK'
  BY ReturnType DEF QueryByID, TypeOK
<1>. QED
  BY <1>6, <1>7, UnchangedType DEF QueryByID, TypeOK

LEMMA ListFromCacheType ==
    ASSUME TypeOK, WalksOK, NEW c \in Clients, ListFromCache(c)
    PROVE  TypeOK'
<1>1. arg[c] \in ListEntry /\ arg[c].query.kind \in PageKinds /\ pc[c] = "listCached"
  BY LocalType DEF ListFromCache, At, ArgFits
<1>2. walk[c] # None
  BY <1>1 DEF WalksOK, OnPage
<1>3. CASE TakePage(c, Primary, arg[c].ids) /\ Return(c)
  <2>1. arg[c].ids \in SUBSET Ids
    BY <1>1 DEF ListEntry
  <2>. QED
    BY <1>2, <1>3, <2>1, TakePageType, ReturnType, UnchangedType DEF ListFromCache, TypeOK
<1>4. CASE Goto(c, "list", [query |-> arg[c].query, epoch |-> arg[c].epoch]) /\ UNCHANGED walk
  <2>1. "list" \in Labels
    BY DEF Labels, Querying
  <2>2. ArgFits("list", [query |-> arg[c].query, epoch |-> arg[c].epoch])
    BY <1>1 DEF ArgFits, ListEntry
  <2>3. ControlOK'
    BY <1>4, <2>1, <2>2, GotoType DEF TypeOK
  <2>. QED
    BY <1>4, <2>3, UnchangedType DEF ListFromCache, TypeOK
<1>. QED
  BY <1>3, <1>4 DEF ListFromCache

\* The rows that a list has read are cached, and the list after them.
LEMMA EntriesType ==
    ASSUME TableOK, NEW ids \in SUBSET Ids
    PROVE  FillTasks({Entry(Primary, id) : id \in ids}) \in Seq(Task)
<1>1. {Entry(Primary, id) : id \in ids} \in SUBSET Entity
  BY PrimaryType, EntryType
<1>. QED
  BY <1>1, FillTasksType

LEMMA QueryListType ==
    ASSUME TypeOK, WalksOK, NEW c \in Clients, QueryList(c)
    PROVE  TypeOK'
<1>. DEFINE q == arg[c].query
<1>1. pc[c] = "list" /\ arg[c] \in [query : ListQuery, epoch : Nat]
  BY LocalType DEF QueryList, At, ArgFits
<1>2. PICK ids \in SUBSET Ids :
        /\ Then(c, (IF q.kind \in PageKinds THEN FillTasks({Entry(Primary, id) : id \in ids})
                    ELSE << >>) \o << SetListTask(q, arg[c].epoch, ids) >>)
        /\ \/ q.kind \in PageKinds /\ TakePage(c, Primary, ids)
           \/ q.kind \notin PageKinds /\ UNCHANGED walk
  BY DEF QueryList
<1>3. SetListTask(q, arg[c].epoch, ids) \in Task
  <2>1. [query |-> q, epoch |-> arg[c].epoch, ids |-> ids, asOf |-> Len(log)] \in ListEntry
    BY <1>1, PrimaryType DEF ListEntry, TypeOK
  <2>. QED
    BY <2>1, TaskType DEF SetListTask
<1>. DEFINE task == SetListTask(q, arg[c].epoch, ids)
            fill == FillTasks({Entry(Primary, id) : id \in ids})
<1>4. fill \in Seq(Task) /\ << >> \in Seq(Task) /\ task \in Task
  BY <1>3, EntriesType, SeqTypes DEF TypeOK
<1>5. Then(c, (IF q.kind \in PageKinds THEN fill ELSE << >>) \o << task >>)
  BY <1>2
<1>. HIDE DEF task, fill
<1>6. (IF q.kind \in PageKinds THEN fill ELSE << >>) \o << task >> \in Seq(Task)
  BY <1>4, SeqTypes
<1>7. todo' \in [Clients -> Seq(Task)]
  BY <1>5, <1>6, ThenType
<1>8. walk' \in [Clients -> Walk \cup {None}]
  <2>1. q.kind \in PageKinds => walk[c] # None
    BY <1>1 DEF WalksOK, OnPage
  <2>. QED
    BY <1>2, <2>1, TakePageType, UnchangedType
<1>9. ControlOK'
  BY ReturnType DEF QueryList, TypeOK
<1>. QED
  BY <1>7, <1>8, <1>9, UnchangedType DEF QueryList, TypeOK

LEMMA QueryKeysType ==
    ASSUME TypeOK, WalksOK, NEW c \in Clients, QueryKeys(c)
    PROVE  TypeOK'
<1>. DEFINE rest == RestOf(arg[c].keys)
            found == Matches(Primary, RangeOf(ChunkOf(arg[c].keys)))
<1>1. pc[c] = "listByKeys" /\ arg[c].keys \in Seq(Stories)
  BY LocalType DEF QueryKeys, At, ArgFits
<1>2. walk[c] \in Walk
  BY <1>1, LocalType DEF WalksOK
<1>3. rest \in Seq(Stories) /\ found \in SUBSET Ids
  BY <1>1, ChunkTypes, MatchesType
<1>4. /\ Then(c, FillTasks({Entry(Primary, id) : id \in found}))
      /\ walk' = [walk EXCEPT ![c] = Advanced(@, 0, found, rest = << >>)]
      /\ Return(c) \/ Goto(c, "listByKeys", [keys |-> rest])
  BY DEF QueryKeys
<1>. HIDE DEF rest, found
<1>5. todo' \in [Clients -> Seq(Task)]
  <2>1. FillTasks({Entry(Primary, id) : id \in found}) \in Seq(Task)
    BY <1>3, EntriesType DEF TypeOK
  <2>. QED
    BY <1>4, <2>1, ThenType
<1>6. walk' \in [Clients -> Walk \cup {None}]
  <2>. DEFINE last == rest = << >>
  <2>1. last \in BOOLEAN
    OBVIOUS
  <2>2. walk' = [walk EXCEPT ![c] = Advanced(walk[c], 0, found, last)]
    BY <1>4 DEF TypeOK
  <2>. HIDE DEF last
  <2>3. Advanced(walk[c], 0, found, last) \in Walk
    BY <1>2, <1>3, <2>1, AdvancedType
  <2>. QED
    BY <2>2, <2>3 DEF TypeOK
<1>7. ControlOK'
  <2>1. "listByKeys" \in Labels /\ ArgFits("listByKeys", [keys |-> rest])
    BY <1>3 DEF Labels, Querying, ArgFits
  <2>. QED
    BY <1>4, <2>1, GotoType, ReturnType DEF TypeOK
<1>. QED
  BY <1>5, <1>6, <1>7, UnchangedType DEF QueryKeys, TypeOK
-----------------------------------------------------------------------------
(* Writes keep the types.                                                     *)

\* A task list that the operation goes on with, or that is dropped.
LEMMA AnsweredType ==
    ASSUME TypeOK, NEW c \in Clients, NEW tasks \in Seq(Task), Answered(c, tasks)
    PROVE  todo' \in [Clients -> Seq(Task)]
BY ThenType, UnchangedType DEF Answered

LEMMA AnsweredWithType ==
    ASSUME TypeOK, NEW c \in Clients, NEW e \in Entity, NEW tasks \in Seq(Task),
           AnsweredWith(c, e, tasks)
    PROVE  /\ todo' \in [Clients -> Seq(Task)]
           /\ held' \in [Clients -> Entity \cup {None}]
BY ThenType, HoldType, UnchangedType DEF AnsweredWith

LEMMA SecondType ==
    ASSUME TableOK
    PROVE  CurrentSecond \in Nat
<1>1. clock \in Nat /\ TicksPerSecond \in Nat /\ TicksPerSecond > 0
  BY ConstantsAssumption DEF ConstantsAssumption, TableOK
<1>2. \A a, b \in Nat : b > 0 => a \div b \in Nat
  OBVIOUS
<1>. QED
  BY <1>1, <1>2 DEF CurrentSecond

LEMMA CreatingType ==
    ASSUME TypeOK, NEW c \in Clients, NEW label \in {"create", "createBulk"},
           NEW stories \in Seq(Stories),
           Goto(c, label, [stories |-> stories, second |-> CurrentSecond]),
           UNCHANGED <<dbVars, cacheVars, msgs, todo, held, walk>>
    PROVE  TypeOK'
<1>. DEFINE a == [stories |-> stories, second |-> CurrentSecond]
<1>1. a \in [stories : Seq(Stories), second : Nat]
  BY SecondType DEF TypeOK
<1>. HIDE DEF a
<1>2. label \in Labels /\ ArgFits(label, a)
  BY <1>1 DEF Labels, Querying, ArgFits
<1>3. Goto(c, label, a)
  BY DEF a
<1>4. ControlOK'
  BY <1>2, <1>3, GotoType DEF TypeOK
<1>. QED
  BY <1>4, UnchangedType DEF TypeOK

LEMMA CreateType ==
    ASSUME TypeOK, NEW c \in Clients, NEW s \in Stories, Create(c, s)
    PROVE  TypeOK'
<1>1. << s >> \in Seq(Stories)
  BY SeqTypes
<1>. QED
  BY <1>1, CreatingType DEF Create

LEMMA CreateBulkType ==
    ASSUME TypeOK, NEW c \in Clients, NEW k \in Ids, NEW stories \in [1..k -> Stories],
           CreateBulk(c, stories)
    PROVE  TypeOK'
<1>1. k \in Nat
  BY ConstantsAssumption DEF ConstantsAssumption, Ids
<1>2. stories \in Seq(Stories)
  BY <1>1, SeqDef
<1>. QED
  BY <1>2, CreatingType DEF CreateBulk

LEMMA InsertPostType ==
    ASSUME TypeOK, NEW c \in Clients, InsertPost(c)
    PROVE  TypeOK'
<1>1. arg[c].stories \in Seq(Stories) /\ arg[c].second \in Nat
  BY LocalType DEF InsertPost, At, ArgFits
<1>2. PICK id \in Ids :
        LET t == WithNew(id, arg[c].stories, arg[c].second)
        IN  /\ Commit(t)
            /\ AnsweredWith(c, Entry(t, id), FillTasks({Entry(t, id)}) \o << FlushListTask >>)
  BY DEF InsertPost
<1>. DEFINE t == WithNew(id, arg[c].stories, arg[c].second)
            e == Entry(t, id)
<1>3. t \in [Ids -> Row] /\ e \in Entity
  BY <1>1, WithNewType, EntryType DEF TypeOK
<1>4. Commit(t) /\ AnsweredWith(c, e, FillTasks({e}) \o << FlushListTask >>)
  BY <1>2
<1>. HIDE DEF t, e
<1>5. FillTasks({e}) \o << FlushListTask >> \in Seq(Task)
  BY <1>3, FillTasksType, TaskType, SeqTypes
<1>6. TableOK' /\ walk' \in [Clients -> Walk \cup {None}]
  BY <1>3, <1>4, CommitType DEF TypeOK
<1>7. /\ todo' \in [Clients -> Seq(Task)]
      /\ held' \in [Clients -> Entity \cup {None}]
  BY <1>3, <1>4, <1>5, AnsweredWithType
<1>8. ControlOK'
  BY ReturnType DEF InsertPost, TypeOK
<1>. QED
  BY <1>6, <1>7, <1>8, UnchangedType DEF InsertPost, TypeOK

LEMMA InsertChunkType ==
    ASSUME TypeOK, NEW c \in Clients, InsertChunk(c)
    PROVE  TypeOK'
<1>. DEFINE chunk == ChunkOf(arg[c].stories)
            rest  == RestOf(arg[c].stories)
            second == arg[c].second
<1>1. arg[c].stories \in Seq(Stories) /\ second \in Nat
  BY LocalType DEF InsertChunk, At, ArgFits
<1>2. chunk \in Seq(Stories) /\ rest \in Seq(Stories)
  BY <1>1, ChunkTypes
<1>3. PICK first \in Ids :
        LET t    == WithNew(first, chunk, second)
            fill == FillTasks({Entry(t, id) : id \in first..(first + Len(chunk) - 1)})
        IN  /\ first + Len(chunk) - 1 <= MaxId
            /\ Commit(t)
            /\ \/ Return(c) /\ Then(c, fill \o << FlushListTask >>)
               \/ /\ Goto(c, "createBulk", [stories |-> rest, second |-> second])
                  /\ Then(c, fill)
               \/ Return(c) /\ UNCHANGED todo
  BY DEF InsertChunk
<1>. DEFINE t == WithNew(first, chunk, second)
            fill == FillTasks({Entry(t, id) : id \in first..(first + Len(chunk) - 1)})
<1>4. /\ Commit(t)
      /\ \/ Return(c) /\ Then(c, fill \o << FlushListTask >>)
         \/ /\ Goto(c, "createBulk", [stories |-> rest, second |-> second])
            /\ Then(c, fill)
         \/ Return(c) /\ UNCHANGED todo
  BY <1>3
<1>5. t \in [Ids -> Row]
  BY <1>1, <1>2, WithNewType DEF TypeOK
<1>6. \A id \in first..(first + Len(chunk) - 1) : id \in Ids
  <2>. HIDE DEF chunk
  <2>. QED
    BY <1>2, <1>3, ConstantsAssumption DEF ConstantsAssumption, Ids
<1>7. fill \in Seq(Task)
  <2>. DEFINE new == first..(first + Len(chunk) - 1)
  <2>1. new \subseteq Ids
    BY <1>6
  <2>. HIDE DEF t, new
  <2>2. {Entry(t, id) : id \in new} \in SUBSET Entity
    BY <1>5, <2>1, EntryType
  <2>. QED
    BY <2>2, FillTasksType DEF new
<1>8. TableOK' /\ walk' \in [Clients -> Walk \cup {None}]
  <2>. HIDE DEF t
  <2>. QED
    BY <1>4, <1>5, CommitType DEF TypeOK
<1>9. ControlOK'
  <2>1. "createBulk" \in Labels
    BY DEF Labels, Querying
  <2>2. ArgFits("createBulk", [stories |-> rest, second |-> second])
    BY <1>1, <1>2 DEF ArgFits
  <2>. QED
    BY <1>4, <2>1, <2>2, GotoType, ReturnType DEF TypeOK
<1>10. todo' \in [Clients -> Seq(Task)]
  <2>. HIDE DEF fill
  <2>1. fill \o << FlushListTask >> \in Seq(Task)
    BY <1>7, TaskType, SeqTypes
  <2>. QED
    BY <1>4, <1>7, <2>1, ThenType, UnchangedType
<1>. QED
  BY <1>8, <1>9, <1>10, UnchangedType DEF InsertChunk, TypeOK

LEMMA UpdateTasksType ==
    ASSUME NEW e \in Entity
    PROVE  NextVersion(e) \in Entity /\ UpdateTasks(e) \in Seq(Task)
<1>1. e.id \in Ids /\ e.ver \in Nat /\ e.story \in Stories
  BY DEF Entity
<1>2. NextVersion(e) \in Entity
  BY <1>1 DEF Entity, NextVersion
<1>3. << InvalidateTask(e.id), FlushListTask >> \in Seq(Task)
  BY <1>1, TaskType, SeqTypes
<1>4. FillTasks({NextVersion(e)}) \in Seq(Task)
  BY <1>2, FillTasksType
<1>. QED
  BY <1>2, <1>3, <1>4, SeqTypes DEF UpdateTasks

LEMMA UpdateType ==
    ASSUME TypeOK, NEW c \in Clients, NEW s \in Stories, Update(c, s)
    PROVE  TypeOK'
<1>. DEFINE e == [id |-> held[c].id, ver |-> held[c].ver, story |-> s]
            t == [Primary EXCEPT ![e.id] = Touched(@, s)]
<1>1. held[c] \in Entity
  BY LocalType DEF Update
<1>2. e \in Entity
  BY <1>1 DEF Entity
<1>3. /\ Commit(t)
      /\ AnsweredWith(c, NextVersion(e), UpdateTasks(e))
  BY DEF Update
<1>4. t \in [Ids -> Row]
  <2>1. e.id \in Ids
    BY <1>1 DEF Entity
  <2>2. Primary[e.id] \in Row
    BY <2>1, PrimaryType DEF TypeOK
  <2>3. Touched(Primary[e.id], s) \in Row
    BY <2>2, RowType
  <2>4. t = [Primary EXCEPT ![e.id] = Touched(Primary[e.id], s)]
    BY <2>1, PrimaryType DEF TypeOK
  <2>. HIDE DEF e
  <2>. QED
    BY <2>1, <2>3, <2>4, PrimaryType DEF TypeOK
<1>. HIDE DEF e, t
<1>5. TableOK' /\ walk' \in [Clients -> Walk \cup {None}]
  BY <1>3, <1>4, CommitType DEF TypeOK
<1>6. /\ todo' \in [Clients -> Seq(Task)]
      /\ held' \in [Clients -> Entity \cup {None}]
  BY <1>2, <1>3, UpdateTasksType, AnsweredWithType
<1>. QED
  BY <1>5, <1>6, UnchangedType DEF Update, TypeOK

LEMMA UpdateMissesType ==
    ASSUME TypeOK, NEW c \in Clients, UpdateMisses(c)
    PROVE  TypeOK'
<1>1. held[c].id \in Ids
  BY LocalType DEF UpdateMisses, Entity
<1>2. << InvalidateTask(held[c].id) >> \in Seq(Task)
  BY <1>1, TaskType, SeqTypes
<1>. QED
  BY <1>2, ThenType, UnchangedType DEF UpdateMisses, TypeOK

LEMMA DeleteRowsType ==
    ASSUME TypeOK, NEW c \in Clients, NEW ids, NEW tasks \in Seq(Task),
           DeleteRows(c, ids, tasks)
    PROVE  TypeOK'
<1>. DEFINE t == [id \in Ids |-> IF id \in ids THEN DeletedRow(Primary[id]) ELSE Primary[id]]
<1>1. t \in [Ids -> Row]
  <2>1. \A id \in Ids : Primary[id] \in Row /\ DeletedRow(Primary[id]) \in Row
    BY PrimaryType, RowType DEF TypeOK
  <2>. QED
    BY <2>1
<1>2. Commit(t) /\ Answered(c, tasks)
  BY DEF DeleteRows
<1>. HIDE DEF t
<1>3. TableOK' /\ walk' \in [Clients -> Walk \cup {None}]
  BY <1>1, <1>2, CommitType DEF TypeOK
<1>4. todo' \in [Clients -> Seq(Task)]
  BY <1>2, AnsweredType
<1>. QED
  BY <1>3, <1>4, UnchangedType DEF DeleteRows, TypeOK

LEMMA DeletesType ==
    ASSUME TypeOK, NEW c \in Clients,
           \/ \E id \in Ids : Delete(c, id)
           \/ \E ids \in SUBSET Ids, limit \in 0..(MaxDelete + 1) : DeleteExpired(c, ids, limit)
    PROVE  TypeOK'
<1>1. ASSUME NEW id \in Ids, Delete(c, id)
      PROVE  TypeOK'
  <2>1. << InvalidateTask(id), FlushListTask >> \in Seq(Task)
    BY TaskType, SeqTypes
  <2>. QED
    BY <1>1, <2>1, DeleteRowsType DEF Delete
<1>2. ASSUME NEW ids, NEW limit, DeleteExpired(c, ids, limit)
      PROVE  TypeOK'
  <2>1. FlushAllTasks \in Seq(Task)
    BY TaskType, SeqTypes DEF FlushAllTasks
  <2>. QED
    BY <1>2, <2>1, DeleteRowsType DEF DeleteExpired
<1>. QED
  BY <1>1, <1>2
-----------------------------------------------------------------------------
(* The accesses to the caches, deliveries and expirations keep the types.     *)

LEMMA PublishType ==
    ASSUME TypeOK, NEW kind, NEW key,
           \/ kind = "invalidateId" /\ key \in Ids
           \/ kind \in {"bumpEpoch", "flushItem"} /\ key = None,
           Publish(kind, key)
    PROVE  msgs' \subseteq Message
<1>1. \A n \in Nodes : [to |-> n, kind |-> kind, key |-> key] \in Message
  BY DEF Message
<1>. QED
  BY <1>1 DEF TypeOK, Publish

\* A client with a task left does the first one.
LEMMA DoingType ==
    ASSUME TypeOK, NEW c \in Clients, NEW do, Doing(c, do)
    PROVE  /\ Head(todo[c]) \in Task /\ Tail(todo[c]) \in Seq(Task)
           /\ Done(c) => todo' \in [Clients -> Seq(Task)]
BY LocalType DEF Doing, Done, TypeOK

LEMMA FillCacheType ==
    ASSUME TypeOK, NEW c \in Clients, FillCache(c)
    PROVE  TypeOK'
<1>. DEFINE es == Head(todo[c]).entities
            n == NodeOf[c]
<1>1. es \in SUBSET Entity /\ Tail(todo[c]) \in Seq(Task) /\ n \in Nodes
  BY DoingType, TaskFields, LocalType DEF FillCache, Doing
<1>2. PICK e \in es :
        /\ items' = IF ItemCount(n) < MaxCacheItems
                    THEN [items EXCEPT ![n][e.id] = e] ELSE items
        /\ Then(c, FillTasks(es \ {e}) \o Tail(todo[c]))
  BY DEF FillCache
<1>. HIDE DEF es, n
<1>3. e \in Entity /\ e.id \in Ids
  BY <1>1 DEF Entity
<1>4. CachesOK'
  BY <1>1, <1>2, <1>3 DEF FillCache, TypeOK, CachesOK
<1>5. todo' \in [Clients -> Seq(Task)]
  <2>1. FillTasks(es \ {e}) \in Seq(Task)
    BY <1>1, FillTasksType
  <2>2. FillTasks(es \ {e}) \o Tail(todo[c]) \in Seq(Task)
    BY <1>1, <2>1, SeqTypes
  <2>. QED
    BY <1>2, <2>2, ThenType
<1>. QED
  BY <1>4, <1>5, UnchangedType DEF FillCache, TypeOK

LEMMA SetListType ==
    ASSUME TypeOK, NEW c \in Clients, SetList(c)
    PROVE  TypeOK'
<1>1. Head(todo[c]).entry \in ListEntry /\ NodeOf[c] \in Nodes
  BY DoingType, TaskFields, LocalType DEF SetList, Doing
<1>2. CachesOK'
  BY <1>1 DEF SetList, TypeOK, CachesOK
<1>3. todo' \in [Clients -> Seq(Task)]
  BY DoingType DEF SetList
<1>. QED
  BY <1>2, <1>3, UnchangedType DEF SetList, TypeOK

LEMMA InvalidateCacheType ==
    ASSUME TypeOK, NEW c \in Clients, InvalidateCache(c)
    PROVE  TypeOK'
<1>1. Head(todo[c]).id \in Ids /\ NodeOf[c] \in Nodes
  BY DoingType, TaskFields, LocalType DEF InvalidateCache, Doing
<1>2. CachesOK'
  BY <1>1 DEF InvalidateCache, TypeOK, CachesOK
<1>3. msgs' \subseteq Message
  BY <1>1, PublishType DEF InvalidateCache
<1>4. todo' \in [Clients -> Seq(Task)]
  BY DoingType DEF InvalidateCache
<1>. QED
  BY <1>2, <1>3, <1>4, UnchangedType DEF InvalidateCache, TypeOK

LEMMA BumpEpochType ==
    ASSUME TypeOK, NEW n \in Nodes, BumpEpoch(n)
    PROVE  epoch' \in [Nodes -> Nat] /\ flushedAt' \in [Nodes -> Nat]
BY PrimaryType DEF BumpEpoch, TypeOK, TableOK, CachesOK

LEMMA FlushCacheType ==
    ASSUME TypeOK, NEW n \in Nodes, FlushCache(n)
    PROVE  items' \in [Nodes -> [Ids -> Entity \cup {None}]]
BY DEF FlushCache, TypeOK, CachesOK

LEMMA FlushesType ==
    ASSUME TypeOK, NEW c \in Clients,
           FlushListCache(c) \/ FlushItems(c) \/ PublishFlushItem(c)
    PROVE  TypeOK'
<1>1. NodeOf[c] \in Nodes
  BY LocalType
<1>2. CASE FlushListCache(c)
  <2>1. epoch' \in [Nodes -> Nat] /\ flushedAt' \in [Nodes -> Nat]
    BY <1>1, <1>2, BumpEpochType DEF FlushListCache
  <2>2. CachesOK'
    BY <1>2, <2>1 DEF FlushListCache, TypeOK, CachesOK
  <2>3. msgs' \subseteq Message /\ todo' \in [Clients -> Seq(Task)]
    BY <1>2, PublishType, DoingType DEF FlushListCache
  <2>. QED
    BY <1>2, <2>2, <2>3, UnchangedType DEF FlushListCache, TypeOK
<1>3. CASE FlushItems(c)
  <2>1. items' \in [Nodes -> [Ids -> Entity \cup {None}]]
    BY <1>1, <1>3, FlushCacheType DEF FlushItems
  <2>2. CachesOK'
    BY <1>3, <2>1 DEF FlushItems, TypeOK, CachesOK
  <2>3. todo' \in [Clients -> Seq(Task)]
    BY <1>3, DoingType DEF FlushItems
  <2>. QED
    BY <1>3, <2>2, <2>3, UnchangedType DEF FlushItems, TypeOK
<1>4. CASE PublishFlushItem(c)
  <2>1. msgs' \subseteq Message /\ todo' \in [Clients -> Seq(Task)]
    BY <1>4, PublishType, DoingType DEF PublishFlushItem
  <2>. QED
    BY <1>4, <2>1, UnchangedType DEF PublishFlushItem, TypeOK
<1>. QED
  BY <1>2, <1>3, <1>4

LEMMA DeliverType ==
    ASSUME TypeOK, NEW m \in msgs, Deliver(m) \/ LoseMessage(m)
    PROVE  TypeOK'
<1>1. m \in Message /\ m.to \in Nodes /\ (m.kind = "invalidateId" => m.key \in Ids)
  BY DEF TypeOK, Message
<1>2. CASE OnCacheInvalidated(m)
  <2>1. CachesOK' /\ msgs' \subseteq Message
    BY <1>1, <1>2 DEF OnCacheInvalidated, Receive, TypeOK, CachesOK
  <2>. QED
    BY <1>2, <2>1, UnchangedType DEF OnCacheInvalidated, TypeOK, clientVars
<1>3. CASE OnBumpEpoch(m)
  <2>1. epoch' \in [Nodes -> Nat] /\ flushedAt' \in [Nodes -> Nat]
    BY <1>1, <1>3, BumpEpochType DEF OnBumpEpoch
  <2>2. CachesOK' /\ msgs' \subseteq Message
    BY <1>3, <2>1 DEF OnBumpEpoch, Receive, TypeOK, CachesOK
  <2>. QED
    BY <1>3, <2>2, UnchangedType DEF OnBumpEpoch, TypeOK, clientVars
<1>4. CASE OnCacheFlushItem(m)
  <2>1. items' \in [Nodes -> [Ids -> Entity \cup {None}]]
    BY <1>1, <1>4, FlushCacheType DEF OnCacheFlushItem
  <2>2. CachesOK' /\ msgs' \subseteq Message
    BY <1>4, <2>1 DEF OnCacheFlushItem, Receive, TypeOK, CachesOK
  <2>. QED
    BY <1>4, <2>2, UnchangedType DEF OnCacheFlushItem, TypeOK, clientVars
<1>5. CASE LoseMessage(m)
  <2>1. msgs' \subseteq Message
    BY <1>5 DEF LoseMessage, TypeOK
  <2>. QED
    BY <1>5, <2>1, UnchangedType DEF LoseMessage, TypeOK, clientVars
<1>. QED
  BY <1>2, <1>3, <1>4, <1>5 DEF Deliver

LEMMA RestType ==
    ASSUME TypeOK,
           \/ \E n \in Nodes : Expire(n)
           \/ Tick
           \/ \E c \in Clients : DatabaseError(c)
           \/ UNCHANGED vars
    PROVE  TypeOK'
<1>1. ASSUME NEW n \in Nodes, NEW id \in Ids, ExpireItem(n, id)
      PROVE  TypeOK'
  <2>1. CachesOK'
    BY <1>1 DEF ExpireItem, TypeOK, CachesOK
  <2>. QED
    BY <1>1, <2>1, UnchangedType DEF ExpireItem, TypeOK, clientVars
<1>2. ASSUME NEW n \in Nodes, ExpireLists(n)
      PROVE  TypeOK'
  <2>1. CachesOK'
    BY <1>2 DEF ExpireLists, TypeOK, CachesOK
  <2>. QED
    BY <1>2, <2>1, UnchangedType DEF ExpireLists, TypeOK, clientVars
<1>3. CASE Tick
  <2>1. TableOK'
    BY <1>3 DEF Tick, TimePasses, TypeOK, TableOK
  <2>. QED
    BY <1>3, <2>1, UnchangedType DEF Tick, TypeOK, clientVars
<1>4. ASSUME NEW c \in Clients, DatabaseError(c)
      PROVE  TypeOK'
  BY <1>4, ReturnType, UnchangedType DEF DatabaseError, TypeOK
<1>5. CASE UNCHANGED vars
  BY <1>5, UnchangedType DEF vars, clientVars, TypeOK
<1>. QED
  BY <1>1, <1>2, <1>3, <1>4, <1>5 DEF Expire
-----------------------------------------------------------------------------
(* The walks stay with their clients.                                         *)

\* A step of c leaves the others where they are, and a walk in place.
LEMMA WalksFrame ==
    ASSUME WalksOK, NEW c \in Clients,
           \A d \in Clients \ {c} :
               /\ pc'[d] = pc[d] /\ arg'[d] = arg[d]
               /\ walk[d] # None => walk'[d] # None /\ walk'[d].query = walk[d].query,
           OnPage(c)' => walk'[c] # None /\ walk'[c].query = arg'[c].query,
           pc'[c] = "listByKeys" => walk'[c] # None /\ walk'[c].query.kind = "ListByKeys"
    PROVE  WalksOK'
<1>1. ASSUME NEW d \in Clients \ {c}
      PROVE  /\ OnPage(d)' => walk'[d] # None /\ walk'[d].query = arg'[d].query
             /\ pc'[d] = "listByKeys" => walk'[d] # None /\ walk'[d].query.kind = "ListByKeys"
  <2>1. OnPage(d)' => OnPage(d)
    BY <1>1 DEF OnPage
  <2>. QED
    BY <1>1, <2>1 DEF WalksOK
<1>. QED
  BY <1>1 DEF WalksOK

\* Goto moves c alone.
LEMMA GotoFrame ==
    ASSUME ControlOK, NEW c \in Clients, NEW label, NEW a, Goto(c, label, a)
    PROVE  /\ pc'[c] = label /\ arg'[c] = a
           /\ \A d \in Clients \ {c} : pc'[d] = pc[d] /\ arg'[d] = arg[d]
BY DEF ControlOK, Goto

\* A write takes rows out of must, and changes nothing else of a walk.
LEMMA CommitWalks ==
    ASSUME TypeOK, NEW t, Commit(t), NEW c \in Clients
    PROVE  /\ walk[c] = None <=> walk'[c] = None
           /\ walk[c] # None =>
                /\ walk[c] \in Walk /\ walk'[c] \in Walk
                /\ walk'[c].query = walk[c].query /\ walk'[c].seen = walk[c].seen
                /\ walk'[c].twice = walk[c].twice /\ walk'[c].done = walk[c].done
                /\ walk'[c].must = StillMust(walk[c], t)
<1>1. walk'[c] = IF walk[c] = None THEN None
                 ELSE [walk[c] EXCEPT !.must = StillMust(walk[c], t)]
  BY DEF Commit
<1>2. CASE walk[c] # None
  <2>1. walk[c] \in Walk
    BY <1>2 DEF TypeOK
  <2>2. StillMust(walk[c], t) \in SUBSET Ids
    <3>1. walk[c].must \in SUBSET Ids
      BY <2>1 DEF Walk
    <3>. QED
      BY <3>1 DEF StillMust
  <2>. HIDE DEF StillMust
  <2>3. walk'[c] \in Walk
    BY <1>1, <1>2, <2>1, <2>2 DEF Walk
  <2>4. walk'[c] # None
    BY <2>3, NoneAssumption
  <2>5. /\ walk'[c].query = walk[c].query /\ walk'[c].seen = walk[c].seen
        /\ walk'[c].twice = walk[c].twice /\ walk'[c].done = walk[c].done
        /\ walk'[c].must = StillMust(walk[c], t)
    BY <1>1, <1>2, <2>1 DEF Walk
  <2>. QED
    BY <1>2, <2>1, <2>3, <2>4, <2>5
<1>. QED
  BY <1>1, <1>2

\* A walk that begins, and one that gets rows.
LEMMA BeginWalks ==
    ASSUME TypeOK, NEW c \in Clients, NEW q \in ListQuery, NEW must \in SUBSET Ids,
           BeginWalk(c, q, must)
    PROVE  /\ \A d \in Clients \ {c} : walk'[d] = walk[d]
           /\ walk'[c] = [query |-> q, seen |-> {}, twice |-> {}, must |-> must, done |-> FALSE]
           /\ walk'[c] # None
<1>1. [query |-> q, seen |-> {}, twice |-> {}, must |-> must, done |-> FALSE] \in Walk
  BY DEF Walk
<1>. QED
  BY <1>1, NoneAssumption DEF BeginWalk, TypeOK

\* The first call of a list that is a page of a walk.
LEMMA LookUpFrame ==
    ASSUME TypeOK, NEW c \in Clients, NEW q, LookUp(c, q)
    PROVE  /\ pc'[c] \in {"list", "listCached"} /\ arg'[c].query = q
           /\ pc'[c] = "listCached" => q.kind \in PageKinds
           /\ \A d \in Clients \ {c} : pc'[d] = pc[d] /\ arg'[d] = arg[d]
<1>1. ASSUME NEW l \in CachedLists(NodeOf[c], q), q.kind \in PageKinds, Goto(c, "listCached", l)
      PROVE  /\ pc'[c] = "listCached" /\ arg'[c].query = q
             /\ \A d \in Clients \ {c} : pc'[d] = pc[d] /\ arg'[d] = arg[d]
  BY <1>1, GotoFrame DEF CachedLists, TypeOK
<1>2. CASE Goto(c, "list", [query |-> q, epoch |-> epoch[NodeOf[c]]])
  BY <1>2, GotoFrame DEF TypeOK
<1>. QED
  BY <1>1, <1>2 DEF LookUp

LEMMA ReadWalks ==
    ASSUME TypeOK, WalksOK, NEW c \in Clients, Read(c)
    PROVE  WalksOK'
<1>1. ASSUME NEW id \in Ids, GetByID(c, id)
      PROVE  WalksOK'
  <2>1. UNCHANGED walk
    BY <1>1 DEF GetByID
  <2>2. CASE UNCHANGED <<pc, arg>>
    BY <2>1, <2>2 DEF WalksOK, OnPage
  <2>3. CASE Goto(c, "getByID", [id |-> id])
    BY <2>1, <2>3, GotoFrame, WalksFrame DEF TypeOK, OnPage
  <2>. QED
    BY <1>1, <2>2, <2>3 DEF GetByID
<1>2. ASSUME NEW kind \in PageKinds, NEW keys \in SUBSET Stories, ListPage(c, kind, keys)
      PROVE  WalksOK'
  <2>1. CASE IsWalking(c, kind, keys) /\ LookUp(c, walk[c].query) /\ UNCHANGED walk
    BY <2>1, LookUpFrame, WalksFrame DEF IsWalking, OnPage
  <2>. DEFINE q == [kind |-> kind, keys |-> keys, start |-> 0]
  <2>2. CASE LookUp(c, q) /\ BeginWalk(c, q, SettledMatches(NodeOf[c], keys))
    <3>. DEFINE must == SettledMatches(NodeOf[c], keys)
    <3>1. q \in ListQuery /\ must \in SUBSET Ids /\ BeginWalk(c, q, must)
      BY <2>2, QueryTypes DEF ListKinds, SettledMatches
    <3>. HIDE DEF q, must
    <3>2. /\ \A d \in Clients \ {c} : walk'[d] = walk[d]
          /\ walk'[c].query = q /\ walk'[c] # None
      <4>1. /\ \A d \in Clients \ {c} : walk'[d] = walk[d]
            /\ walk'[c] = [query |-> q, seen |-> {}, twice |-> {}, must |-> must, done |-> FALSE]
            /\ walk'[c] # None
        BY <3>1, BeginWalks
      <4>. QED
        BY <4>1
    <3>. QED
      BY <2>2, <3>2, LookUpFrame, WalksFrame DEF OnPage
  <2>. QED
    BY <1>2, <2>1, <2>2 DEF ListPage
<1>3. ASSUME NEW kind \in ValueKinds, NEW keys, ListValue(c, kind, keys)
      PROVE  WalksOK'
  <2>. DEFINE q == [kind |-> kind, keys |-> keys, start |-> 0]
  <2>1. q.kind \notin PageKinds
    BY DEF ValueKinds, PageKinds
  <2>2. LookUp(c, q) /\ UNCHANGED walk
    BY <1>3 DEF ListValue
  <2>. HIDE DEF q
  <2>. QED
    BY <2>1, <2>2, LookUpFrame, WalksFrame DEF OnPage
<1>4. ASSUME NEW keys \in KeyLists, ListByKeys(c, keys)
      PROVE  WalksOK'
  <2>. DEFINE q == [kind |-> "ListByKeys", keys |-> RangeOf(keys), start |-> 0]
  <2>1. q \in ListQuery /\ q.kind = "ListByKeys"
    BY KeyListsType DEF ListQuery
  <2>. DEFINE must == Matches(Primary, RangeOf(keys))
  <2>2. /\ Goto(c, "listByKeys", [keys |-> keys]) /\ BeginWalk(c, q, must)
        /\ must \in SUBSET Ids
    BY <1>4, MatchesType DEF ListByKeys
  <2>. HIDE DEF q, must
  <2>3. /\ \A d \in Clients \ {c} : walk'[d] = walk[d]
        /\ walk'[c].query = q /\ walk'[c] # None
    <3>1. /\ \A d \in Clients \ {c} : walk'[d] = walk[d]
          /\ walk'[c] = [query |-> q, seen |-> {}, twice |-> {}, must |-> must, done |-> FALSE]
          /\ walk'[c] # None
      BY <2>1, <2>2, BeginWalks
    <3>. QED
      BY <3>1
  <2>. QED
    BY <2>1, <2>2, <2>3, GotoFrame, WalksFrame DEF OnPage, TypeOK
<1>5. Stories \in SUBSET Stories /\ \A s \in Stories : {s} \in SUBSET Stories
  OBVIOUS
<1>. QED
  BY <1>1, <1>2, <1>3, <1>4, <1>5 DEF Read, PageKinds, ValueKinds

LEMMA WriteWalks ==
    ASSUME TypeOK, WalksOK, NEW c \in Clients, Write(c)
    PROVE  WalksOK'
<1>1. ASSUME NEW label \in {"create", "createBulk"}, NEW a, Goto(c, label, a), UNCHANGED walk
      PROVE  WalksOK'
  BY <1>1, GotoFrame, WalksFrame DEF TypeOK, OnPage
<1>2. ASSUME NEW t, Commit(t), UNCHANGED <<pc, arg>>
      PROVE  WalksOK'
  BY <1>2, CommitWalks DEF WalksOK, OnPage
<1>3. ASSUME UpdateMisses(c)
      PROVE  WalksOK'
  BY <1>3 DEF UpdateMisses, WalksOK, OnPage
<1>4. ASSUME NEW s, Create(c, s)
      PROVE  WalksOK'
  BY <1>1, <1>4 DEF Create
<1>5. ASSUME NEW s, CreateBulk(c, s)
      PROVE  WalksOK'
  BY <1>1, <1>5 DEF CreateBulk
<1>6. ASSUME NEW s, Update(c, s)
      PROVE  WalksOK'
  BY <1>2, <1>6 DEF Update
<1>7. ASSUME NEW ids, NEW tasks, DeleteRows(c, ids, tasks)
      PROVE  WalksOK'
  BY <1>2, <1>7 DEF DeleteRows
<1>. QED
  BY <1>3, <1>4, <1>5, <1>6, <1>7 DEF Write, Delete, DeleteExpired

\* A page that the walk of c gets moves its start and fills seen and twice.
LEMMA PageWalks ==
    ASSUME TypeOK, NEW c \in Clients, NEW t, NEW page \in SUBSET Ids, walk[c] # None,
           TakePage(c, t, page)
    PROVE  /\ \A d \in Clients \ {c} : walk'[d] = walk[d]
           /\ walk[c] \in Walk
           /\ walk'[c] # None
           /\ \E last \in IF page = {} THEN {walk[c].query.start}
                          ELSE LastOf(t, walk[c].query.kind, page) :
                walk'[c] = Advanced(walk[c], last, page, Cardinality(page) < PageSize)
<1>1. walk[c] \in Walk /\ walk' \in [Clients -> Walk \cup {None}]
  BY TakePageType DEF TypeOK
<1>. DEFINE full == Cardinality(page) < PageSize
<1>2. PICK last \in IF page = {} THEN {walk[c].query.start}
                    ELSE LastOf(t, walk[c].query.kind, page) :
           walk' = [walk EXCEPT ![c] = Advanced(walk[c], last, page, full)]
  BY DEF TakePage, TypeOK
<1>3. last \in Nat
  <2>1. \A id \in Ids : id \in Nat
    BY ConstantsAssumption DEF ConstantsAssumption, Ids
  <2>2. walk[c].query.start \in Nat
    BY <1>1 DEF Walk, ListQuery
  <2>3. LastOf(t, walk[c].query.kind, page) \subseteq page
    BY DEF LastOf
  <2>. QED
    BY <1>2, <2>1, <2>2, <2>3
<1>4. full \in BOOLEAN
  OBVIOUS
<1>5. /\ \A d \in Clients \ {c} : walk'[d] = walk[d]
      /\ walk'[c] = Advanced(walk[c], last, page, full)
  <2>. HIDE DEF full
  <2>. QED
    BY <1>2 DEF TypeOK
<1>6. walk'[c] \in Walk
  <2>. HIDE DEF full
  <2>. QED
    BY <1>1, <1>3, <1>4, <1>5, AdvancedType
<1>. QED
  BY <1>1, <1>2, <1>5, <1>6, NoneAssumption

LEMMA ContinueWalks ==
    ASSUME TypeOK, WalksOK, NEW c \in Clients, Continue(c)
    PROVE  WalksOK'
<1>1. ASSUME Return(c), UNCHANGED walk
      PROVE  WalksOK'
  BY <1>1, GotoFrame, WalksFrame DEF TypeOK, OnPage, Return
<1>2. ASSUME UNCHANGED <<pc, arg, walk>>
      PROVE  WalksOK'
  BY <1>2 DEF WalksOK, OnPage
<1>3. CASE QueryByID(c) \/ DatabaseError(c)
  BY <1>1, <1>3 DEF QueryByID, DatabaseError
<1>4. CASE AccessCache(c)
  BY <1>2, <1>4 DEF AccessCache, FillCache, SetList, InvalidateCache, FlushListCache,
                    FlushItems, PublishFlushItem
<1>5. ASSUME NEW page \in SUBSET Ids, OnPage(c), TakePage(c, Primary, page), Return(c)
      PROVE  WalksOK'
  <2>1. walk[c] # None
    BY <1>5 DEF WalksOK
  <2>2. \A d \in Clients \ {c} : walk'[d] = walk[d]
    BY <1>5, <2>1, PageWalks
  <2>. QED
    BY <1>5, <2>2, GotoFrame, WalksFrame DEF TypeOK, OnPage, Return
<1>6. CASE ListFromCache(c)
  <2>1. arg[c] \in ListEntry /\ OnPage(c)
    BY <1>6, LocalType DEF ListFromCache, At, ArgFits, OnPage
  <2>2. CASE TakePage(c, Primary, arg[c].ids) /\ Return(c)
    BY <1>5, <2>1, <2>2 DEF ListEntry
  <2>3. CASE Goto(c, "list", [query |-> arg[c].query, epoch |-> arg[c].epoch]) /\ UNCHANGED walk
    <3>1. walk[c] # None /\ walk[c].query = arg[c].query
      BY <2>1 DEF WalksOK
    <3>. QED
      BY <2>3, <3>1, GotoFrame, WalksFrame DEF TypeOK, OnPage
  <2>. QED
    BY <1>6, <2>2, <2>3 DEF ListFromCache
<1>7. CASE QueryList(c)
  BY <1>1, <1>5, <1>7 DEF QueryList, At, OnPage
<1>8. CASE QueryKeys(c)
  <2>. DEFINE rest == RestOf(arg[c].keys)
              found == Matches(Primary, RangeOf(ChunkOf(arg[c].keys)))
  <2>1. pc[c] = "listByKeys" /\ walk[c] \in Walk /\ walk[c].query.kind = "ListByKeys"
    BY <1>8, LocalType DEF QueryKeys, At, WalksOK
  <2>2. /\ walk' = [walk EXCEPT ![c] = Advanced(@, 0, found, rest = << >>)]
        /\ Return(c) \/ Goto(c, "listByKeys", [keys |-> rest])
    BY <1>8 DEF QueryKeys
  <2>3. found \in SUBSET Ids
    BY MatchesType
  <2>. HIDE DEF rest, found
  <2>. DEFINE last == rest = << >>
              w == Advanced(walk[c], 0, found, last)
  <2>4. w \in Walk
    <3>1. last \in BOOLEAN
      OBVIOUS
    <3>. HIDE DEF last
    <3>. QED
      BY <2>1, <2>3, <3>1, AdvancedType
  <2>5. w.query.kind = walk[c].query.kind
    BY <2>1 DEF Advanced, Walk, ListQuery
  <2>6. walk'[c] = w /\ \A d \in Clients \ {c} : walk'[d] = walk[d]
    BY <2>2 DEF TypeOK
  <2>. HIDE DEF w
  <2>7. walk'[c] # None /\ walk'[c].query.kind = "ListByKeys"
    BY <2>1, <2>4, <2>5, <2>6, NoneAssumption
  <2>8. /\ pc'[c] \notin {"list", "listCached"}
        /\ \A d \in Clients \ {c} : pc'[d] = pc[d] /\ arg'[d] = arg[d]
    BY <2>2, GotoFrame DEF TypeOK, Return
  <2>9. ~OnPage(c)'
    BY <2>8 DEF OnPage
  <2>. QED
    BY <2>6, <2>7, <2>8, <2>9, WalksFrame
<1>9. CASE InsertPost(c) \/ InsertChunk(c)
  <2>1. ASSUME NEW t, Commit(t), NEW label \in {"idle", "createBulk"}, NEW a, Goto(c, label, a)
        PROVE  WalksOK'
    BY <2>1, CommitWalks, GotoFrame, WalksFrame DEF TypeOK, OnPage
  <2>. QED
    BY <1>9, <2>1 DEF InsertPost, InsertChunk, Return
<1>. QED
  BY <1>3, <1>4, <1>6, <1>7, <1>8, <1>9 DEF Continue
-----------------------------------------------------------------------------
(* The type invariant.                                                        *)

LEMMA InitType ==
    ASSUME Init
    PROVE  TypeOK /\ WalksOK
<1>. DEFINE t == [id \in Ids |-> IF id <= Len(Seed) THEN Inserted(Seed[id], 0)
                                 ELSE [state |-> "unborn", ver |-> 0, created |-> 0,
                                       story |-> CHOOSE s \in Stories : TRUE]]
<1>1. t \in [Ids -> Row]
  <2>1. ASSUME NEW id \in Ids, id <= Len(Seed)
        PROVE  Inserted(Seed[id], 0) \in Row
    <3>1. Seed[id] \in Stories
      BY <2>1, ConstantsAssumption DEF ConstantsAssumption, Ids
    <3>. QED
      BY <3>1, RowType
  <2>2. (CHOOSE s \in Stories : TRUE) \in Stories
    BY ConstantsAssumption DEF ConstantsAssumption
  <2>3. [state |-> "unborn", ver |-> 0, created |-> 0,
         story |-> CHOOSE s \in Stories : TRUE] \in Row
    BY <2>2 DEF Row
  <2>. QED
    BY <2>1, <2>3
<1>2. log = << t >>
  BY DEF Init
<1>. HIDE DEF t
<1>3. TableOK
  <2>1. log \in Seq([Ids -> Row]) /\ Len(log) = 1
    BY <1>1, <1>2
  <2>. QED
    BY <2>1, EmptySeq DEF Init, TableOK
<1>4. CachesOK
  BY DEF Init, CachesOK
<1>5. ControlOK
  BY DEF Init, ControlOK, Labels, ArgFits
<1>6. \A c \in Clients : pc[c] = "idle"
  BY DEF Init
<1>7. WalksOK
  BY <1>6 DEF WalksOK, OnPage
<1>8. todo \in [Clients -> Seq(Task)]
  BY SeqTypes DEF Init
<1>. QED
  BY <1>3, <1>4, <1>5, <1>7, <1>8 DEF Init, TypeOK

LEMMA NextType ==
    ASSUME TypeOK, WalksOK, [Next]_vars
    PROVE  TypeOK' /\ WalksOK'
<1>1. ASSUME NEW c \in Clients, Read(c)
      PROVE  TypeOK'
  <2>1. Stories \in SUBSET Stories /\ \A s \in Stories : {s} \in SUBSET Stories
    OBVIOUS
  <2>. QED
    BY <1>1, <2>1, GetByIDType, ListPageType, ListValueType, ListByKeysType
       DEF Read, PageKinds, ValueKinds
<1>2. ASSUME NEW c \in Clients, Write(c)
      PROVE  TypeOK'
  BY <1>2, CreateType, UpdateType, CreateBulkType, UpdateMissesType, DeletesType DEF Write
<1>3. ASSUME NEW c \in Clients, Continue(c)
      PROVE  TypeOK'
  BY <1>3, QueryByIDType, ListFromCacheType, QueryListType, QueryKeysType, InsertPostType,
     InsertChunkType, FillCacheType, SetListType, InvalidateCacheType, FlushesType, RestType
     DEF Continue, AccessCache
<1>4. ASSUME UNCHANGED <<pc, arg, walk>>
      PROVE  WalksOK'
  BY <1>4 DEF WalksOK, OnPage
<1>5. ASSUME NEW m \in msgs, Deliver(m) \/ LoseMessage(m)
      PROVE  TypeOK' /\ WalksOK'
  BY <1>4, <1>5, DeliverType DEF Deliver, OnCacheInvalidated, OnBumpEpoch, OnCacheFlushItem,
                                 LoseMessage, clientVars
<1>6. ASSUME NEW n \in Nodes, Expire(n)
      PROVE  TypeOK' /\ WalksOK'
  BY <1>4, <1>6, RestType DEF Expire, ExpireLists, ExpireItem, clientVars
<1>7. CASE Tick \/ UNCHANGED vars
  BY <1>4, <1>7, RestType DEF Tick, vars, clientVars
<1>. QED
  BY <1>1, <1>2, <1>3, <1>5, <1>6, <1>7, ReadWalks, WriteWalks, ContinueWalks DEF Next

LEMMA Typed == Spec => [](TypeOK /\ WalksOK)
<1>1. Init => TypeOK /\ WalksOK
  BY InitType
<1>2. TypeOK /\ WalksOK /\ [Next]_vars => (TypeOK /\ WalksOK)'
  BY NextType
<1>. QED
  BY <1>1, <1>2, PTL DEF Spec

\* Every variable of the repository always has its type.  (That a page reaches a
\* walk, WalksOK, is needed for it: ListFromCache and QueryList advance the walk
\* that their call began.)
THEOREM TypeCorrect == Spec => []TypeOK
BY Typed, PTL
-----------------------------------------------------------------------------
(* The entries that are in a list cache or on their way into it.              *)

\* The entries that the tasks s put into the cache.
PendingOf(s) == {s[i].entry : i \in {j \in DOMAIN s : s[j].do = "setList"}}

LEMMA PendingLaws ==
    /\ PendingOf(<< >>) = {}
    /\ \A t \in Task : PendingOf(<< t >>) = IF t.do = "setList" THEN {t.entry} ELSE {}
    /\ \A s, t \in Seq(Task) : PendingOf(s \o t) = PendingOf(s) \cup PendingOf(t)
    /\ \A s \in Seq(Task) : s # << >> =>
         PendingOf(s) = PendingOf(<< Head(s) >>) \cup PendingOf(Tail(s))
<1>1. PendingOf(<< >>) = {}
  BY DEF PendingOf
<1>2. ASSUME NEW t \in Task
      PROVE  PendingOf(<< t >>) = IF t.do = "setList" THEN {t.entry} ELSE {}
  <2>1. DOMAIN << t >> = {1} /\ << t >>[1] = t
    OBVIOUS
  <2>. QED
    BY <2>1 DEF PendingOf
<1>3. ASSUME NEW s \in Seq(Task), NEW t \in Seq(Task)
      PROVE  PendingOf(s \o t) = PendingOf(s) \cup PendingOf(t)
  <2>. DEFINE u == s \o t
  <2>1. /\ u \in Seq(Task) /\ Len(u) = Len(s) + Len(t)
        /\ \A i \in 1..Len(s) : u[i] = s[i]
        /\ \A i \in 1..Len(t) : u[Len(s) + i] = t[i]
    BY ConcatProperties
  <2>2. Len(s) \in Nat /\ Len(t) \in Nat
    OBVIOUS
  <2>. HIDE DEF u
  <2>3. ASSUME NEW l \in PendingOf(u)
        PROVE  l \in PendingOf(s) \cup PendingOf(t)
    <3>1. PICK i \in 1..Len(u) : u[i].do = "setList" /\ u[i].entry = l
      BY <2>1 DEF PendingOf
    <3>2. CASE i <= Len(s)
      <4>1. i \in 1..Len(s)
        BY <3>2
      <4>. QED
        BY <2>1, <3>1, <4>1 DEF PendingOf
    <3>3. CASE i > Len(s)
      <4>1. i - Len(s) \in 1..Len(t) /\ i = Len(s) + (i - Len(s))
        BY <2>1, <2>2, <3>3
      <4>2. u[i] = t[i - Len(s)]
        BY <2>1, <4>1
      <4>. QED
        BY <3>1, <4>1, <4>2 DEF PendingOf
    <3>. QED
      BY <2>2, <3>2, <3>3
  <2>4. ASSUME NEW l \in PendingOf(s)
        PROVE  l \in PendingOf(u)
    <3>1. PICK i \in 1..Len(s) : s[i].do = "setList" /\ s[i].entry = l
      BY DEF PendingOf
    <3>2. i \in 1..Len(u)
      BY <2>1, <2>2
    <3>. QED
      BY <2>1, <3>1, <3>2 DEF PendingOf
  <2>5. ASSUME NEW l \in PendingOf(t)
        PROVE  l \in PendingOf(u)
    <3>1. PICK i \in 1..Len(t) : t[i].do = "setList" /\ t[i].entry = l
      BY DEF PendingOf
    <3>2. Len(s) + i \in 1..Len(u)
      BY <2>1, <2>2
    <3>. QED
      BY <2>1, <3>1, <3>2 DEF PendingOf
  <2>. QED
    BY <2>3, <2>4, <2>5 DEF u
<1>4. ASSUME NEW s \in Seq(Task), s # << >>
      PROVE  PendingOf(s) = PendingOf(<< Head(s) >>) \cup PendingOf(Tail(s))
  <2>1. << Head(s) >> \in Seq(Task) /\ Tail(s) \in Seq(Task) /\ s = << Head(s) >> \o Tail(s)
    BY <1>4, SeqTypes, HeadTailProperties, ConcatProperties
  <2>. QED
    BY <1>3, <2>1
<1>. QED
  BY <1>1, <1>2, <1>3, <1>4

LEMMA PendingConcat ==
    ASSUME NEW s \in Seq(Task), NEW t \in Seq(Task)
    PROVE  PendingOf(s \o t) = PendingOf(s) \cup PendingOf(t)
BY PendingLaws

\* No task but setList puts an entry into the cache.
LEMMA NoEntries ==
    /\ \A es \in SUBSET Entity : PendingOf(FillTasks(es)) = {}
    /\ PendingOf(<< FlushListTask >>) = {}
    /\ \A id \in Ids : PendingOf(<< InvalidateTask(id) >>) = {}
    /\ \A id \in Ids : PendingOf(<< InvalidateTask(id), FlushListTask >>) = {}
    /\ \A e \in Entity : PendingOf(UpdateTasks(e)) = {}
    /\ PendingOf(FlushAllTasks) = {}
<1>1. \A es \in SUBSET Entity : PendingOf(FillTasks(es)) = {}
  BY PendingLaws, TaskType DEF FillTasks
<1>2. PendingOf(<< FlushListTask >>) = {}
  BY PendingLaws, TaskType DEF FlushListTask
<1>3. \A id \in Ids : PendingOf(<< InvalidateTask(id) >>) = {}
  BY PendingLaws, TaskType DEF InvalidateTask
<1>4. ASSUME NEW id \in Ids
      PROVE  PendingOf(<< InvalidateTask(id), FlushListTask >>) = {}
  <2>. DEFINE tasks == << InvalidateTask(id), FlushListTask >>
  <2>1. \A i \in DOMAIN tasks : tasks[i].do # "setList"
    BY DEF InvalidateTask, FlushListTask
  <2>. HIDE DEF tasks
  <2>2. PendingOf(tasks) = {}
    BY <2>1 DEF PendingOf
  <2>. QED
    BY <2>2 DEF tasks
<1>5. ASSUME NEW e \in Entity
      PROVE  PendingOf(UpdateTasks(e)) = {}
  <2>. DEFINE first == << InvalidateTask(e.id), FlushListTask >>
              fill  == FillTasks({NextVersion(e)})
  <2>1. first \in Seq(Task) /\ fill \in Seq(Task)
    BY UpdateTasksType, FillTasksType, TaskType, SeqTypes DEF Entity
  <2>2. PendingOf(first) = {} /\ PendingOf(fill) = {}
    BY <1>1, <1>4, UpdateTasksType DEF Entity
  <2>3. UpdateTasks(e) = first \o fill
    BY DEF UpdateTasks
  <2>. HIDE DEF first, fill
  <2>. QED
    BY <2>1, <2>2, <2>3, PendingLaws
<1>6. PendingOf(FlushAllTasks) = {}
  <2>1. \A i \in DOMAIN FlushAllTasks : FlushAllTasks[i].do # "setList"
    BY DEF FlushAllTasks, FlushListTask
  <2>. QED
    BY <2>1 DEF PendingOf
<1>. QED
  BY <1>1, <1>2, <1>3, <1>4, <1>5, <1>6
-----------------------------------------------------------------------------
(* The inductive invariant.                                                   *)

\* An entry has its epoch from the past and was read after the last flush that
\* its epoch knows of.  If its epoch is the present reading of the clock, nothing
\* has been written since: the next flush may give the node the same epoch.
Safe(l, n) == /\ l.epoch <= clock
              /\ l.epoch = clock => l.asOf >= Len(log)
              /\ l.epoch = epoch[n] => l.asOf >= flushedAt[n]

Reading(c) == pc[c] \in {"list", "listCached"}

FreshInv ==
    /\ \A n \in Nodes : /\ epoch[n] <= clock /\ flushedAt[n] <= Len(log)
                        /\ \A l \in lists[n] : Safe(l, n)
    /\ \A c \in Clients : /\ \A l \in PendingOf(todo[c]) : Safe(l, NodeOf[c])
                          /\ Reading(c) => arg[c].epoch <= clock

\* What a step does with the clock, the table and the epochs.
TimeStep == \/ UNCHANGED <<log, clock, epoch, flushedAt>>
            \/ /\ clock' = clock + 1 /\ Len(log') \in {Len(log), Len(log) + 1}
               /\ UNCHANGED <<epoch, flushedAt>>
            \/ UNCHANGED <<log, clock>> /\ \E n \in Nodes : BumpEpoch(n)

\* Whatever the step, a safe entry stays safe.
LEMMA StaysSafe ==
    ASSUME TypeOK, FreshInv, TimeStep, NEW l, l.epoch \in Nat, l.asOf \in Nat,
           NEW n \in Nodes, Safe(l, n)
    PROVE  Safe(l, n)'
<1>1. Len(log) \in Nat /\ clock \in Nat /\ epoch[n] \in Nat /\ flushedAt[n] \in Nat
  BY PrimaryType DEF TypeOK, TableOK, CachesOK
<1>2. l.epoch <= clock /\ epoch[n] <= clock /\ flushedAt[n] <= Len(log)
  BY DEF FreshInv, Safe
<1>3. CASE UNCHANGED <<log, clock, epoch, flushedAt>>
  BY <1>3 DEF Safe
<1>4. CASE clock' = clock + 1 /\ UNCHANGED <<epoch, flushedAt>>
  BY <1>1, <1>2, <1>4 DEF Safe
<1>5. ASSUME UNCHANGED <<log, clock>>, NEW m \in Nodes, BumpEpoch(m)
      PROVE  Safe(l, n)'
  <2>1. CASE m = n
    <3>1. epoch'[n] = clock /\ flushedAt'[n] = Len(log)
      BY <1>5, <2>1 DEF BumpEpoch, TypeOK, CachesOK
    <3>. QED
      BY <1>1, <1>2, <1>5, <3>1 DEF Safe
  <2>2. CASE m # n
    <3>1. epoch'[n] = epoch[n] /\ flushedAt'[n] = flushedAt[n]
      BY <1>5, <2>2 DEF BumpEpoch, TypeOK, CachesOK
    <3>. QED
      BY <1>5, <3>1 DEF Safe
  <2>. QED
    BY <2>1, <2>2
<1>. QED
  BY <1>3, <1>4, <1>5 DEF TimeStep

\* An entry that a SELECT has just filled is safe on every node.
LEMMA NewIsSafe ==
    ASSUME TypeOK, FreshInv, NEW l, l.epoch \in Nat, l.epoch <= clock, l.asOf = Len(log),
           NEW n \in Nodes
    PROVE  Safe(l, n)
<1>1. Len(log) \in Nat /\ flushedAt[n] \in Nat
  BY PrimaryType DEF TypeOK, CachesOK
<1>. QED
  BY <1>1 DEF FreshInv, Safe

LEMMA PendingType ==
    ASSUME TypeOK, NEW c \in Clients, NEW l \in PendingOf(todo[c])
    PROVE  l \in ListEntry /\ l.epoch \in Nat /\ l.asOf \in Nat
<1>1. PICK i \in DOMAIN todo[c] : todo[c][i].do = "setList" /\ todo[c][i].entry = l
  BY DEF PendingOf
<1>2. todo[c][i] \in Task
  BY <1>1, LocalType
<1>. QED
  BY <1>1, <1>2, TaskFields DEF ListEntry

\* A step that brings no entry but those on their way into the cache and those
\* just read keeps the invariant.
LEMMA FreshStep ==
    ASSUME TypeOK, TypeOK', FreshInv, TimeStep,
           \A n \in Nodes : \A l \in lists'[n] :
               l \in lists[n] \/ \E c \in Clients : NodeOf[c] = n /\ l \in PendingOf(todo[c]),
           \A c \in Clients : \A l \in PendingOf(todo'[c]) :
               \/ l \in PendingOf(todo[c])
               \/ UNCHANGED <<log, clock, epoch, flushedAt>> /\ l.epoch <= clock /\ l.asOf = Len(log),
           \A c \in Clients : Reading(c)' => \/ Reading(c) /\ arg'[c].epoch = arg[c].epoch
                                             \/ arg'[c].epoch <= clock
    PROVE  FreshInv'
<1>1. clock \in Nat /\ clock' \in Nat /\ clock <= clock' /\ Len(log) \in Nat
  BY PrimaryType DEF TimeStep, TypeOK, TableOK
<1>2. ASSUME NEW n \in Nodes
      PROVE  epoch'[n] <= clock' /\ flushedAt'[n] <= Len(log')
  <2>1. epoch[n] <= clock /\ flushedAt[n] <= Len(log) /\ epoch[n] \in Nat /\ flushedAt[n] \in Nat
    BY DEF FreshInv, TypeOK, CachesOK
  <2>2. CASE UNCHANGED <<epoch, flushedAt>>
    BY <1>1, <2>1, <2>2 DEF TimeStep
  <2>3. ASSUME UNCHANGED <<log, clock>>, NEW m \in Nodes, BumpEpoch(m)
        PROVE  epoch'[n] <= clock' /\ flushedAt'[n] <= Len(log')
    <3>1. /\ epoch'[n] = IF m = n THEN clock ELSE epoch[n]
          /\ flushedAt'[n] = IF m = n THEN Len(log) ELSE flushedAt[n]
      BY <2>3 DEF BumpEpoch, TypeOK, CachesOK
    <3>. QED
      BY <1>1, <2>1, <2>3, <3>1
  <2>. QED
    BY <2>1, <2>2, <2>3 DEF TimeStep
<1>3. ASSUME NEW n \in Nodes, NEW l \in lists[n]
      PROVE  Safe(l, n)'
  <2>1. l.epoch \in Nat /\ l.asOf \in Nat
    BY DEF TypeOK, CachesOK, ListEntry
  <2>. QED
    BY <1>3, <2>1, StaysSafe DEF FreshInv
<1>4. ASSUME NEW c \in Clients, NEW l \in PendingOf(todo[c])
      PROVE  Safe(l, NodeOf[c])'
  <2>1. Safe(l, NodeOf[c])
    BY <1>4 DEF FreshInv
  <2>. QED
    BY <1>4, <2>1, StaysSafe, PendingType, LocalType
<1>5. ASSUME NEW c \in Clients, NEW l \in PendingOf(todo'[c])
      PROVE  Safe(l, NodeOf[c])'
  <2>1. CASE l \in PendingOf(todo[c])
    BY <1>4, <2>1
  <2>2. CASE UNCHANGED <<log, clock, epoch, flushedAt>> /\ l.epoch <= clock /\ l.asOf = Len(log)
    <3>1. l.epoch \in Nat
      <4>1. PICK i \in DOMAIN todo'[c] : todo'[c][i].do = "setList" /\ todo'[c][i].entry = l
        BY <1>5 DEF PendingOf
      <4>2. todo'[c][i] \in Task
        BY <4>1 DEF TypeOK
      <4>. QED
        BY <4>1, <4>2, TaskFields DEF ListEntry
    <3>2. Safe(l, NodeOf[c])
      BY <2>2, <3>1, NewIsSafe, LocalType
    <3>. QED
      BY <2>2, <3>2 DEF Safe
  <2>. QED
    BY <1>5, <2>1, <2>2
<1>6. ASSUME NEW c \in Clients, Reading(c)'
      PROVE  arg'[c].epoch <= clock'
  <2>1. arg'[c].epoch \in Nat
    BY <1>6 DEF Reading, TypeOK, ControlOK, ArgFits, ListEntry
  <2>2. arg'[c].epoch <= clock
    BY <1>6 DEF FreshInv
  <2>. QED
    BY <1>1, <2>1, <2>2
<1>7. \A n \in Nodes : \A l \in lists'[n] : Safe(l, n)'
  BY <1>3, <1>4
<1>. QED
  BY <1>2, <1>5, <1>6, <1>7 DEF FreshInv
-----------------------------------------------------------------------------
(* What a step does with the table and the clock.                             *)

\* A write appends a table to the log.
LEMMA CommitTable ==
    ASSUME TypeOK, TypeOK', NEW t, Commit(t)
    PROVE  /\ t \in [Ids -> Row]
           /\ Len(log') = Len(log) + 1 /\ clock' = clock + 1
<1>. DEFINE Tables == [Ids -> Row] \cup {t}
<1>1. log \in Seq(Tables) /\ t \in Tables
  <2>1. log \in Seq([Ids -> Row])
    BY DEF TypeOK, TableOK
  <2>2. \A i \in 1..Len(log) : log[i] \in Tables
    BY <2>1
  <2>3. log \in [1..Len(log) -> Tables] /\ Len(log) \in Nat
    BY <2>1, <2>2
  <2>. HIDE DEF Tables
  <2>4. log \in Seq(Tables)
    BY <2>3, SeqDef
  <2>. QED
    BY <2>4 DEF Tables
<1>2. log' = Append(log, t) /\ clock' = clock + 1
  BY DEF Commit, TimePasses
<1>. HIDE DEF Tables
<1>3. Len(log') = Len(log) + 1 /\ log'[Len(log) + 1] = t /\ Len(log) \in Nat
  BY <1>1, <1>2, AppendProperties
<1>4. log' \in Seq([Ids -> Row]) /\ Len(log) + 1 \in 1..Len(log')
  BY <1>3 DEF TypeOK, TableOK
<1>. QED
  BY <1>2, <1>3, <1>4

LEMMA ClientTable ==
    ASSUME NEW c \in Clients, Read(c) \/ Write(c) \/ Continue(c)
    PROVE  \/ UNCHANGED <<log, clock>> /\ UNCHANGED <<epoch, flushedAt>>
           \/ UNCHANGED <<log, clock>> /\ BumpEpoch(NodeOf[c])
           \/ (\E t : Commit(t)) /\ UNCHANGED cacheVars
<1>1. CASE Read(c)
  BY <1>1 DEF Read, GetByID, ListPage, ListValue, ListByKeys, dbVars, cacheVars
<1>2. CASE Write(c)
  BY <1>2 DEF Write, Create, CreateBulk, Update, UpdateMisses, Delete, DeleteExpired, DeleteRows,
              dbVars, cacheVars
<1>3. CASE AccessCache(c)
  BY <1>3 DEF AccessCache, FillCache, SetList, InvalidateCache, FlushListCache, FlushItems,
              PublishFlushItem, dbVars, cacheVars
<1>4. CASE InsertPost(c) \/ InsertChunk(c)
  BY <1>4 DEF InsertPost, InsertChunk
<1>5. CASE QueryByID(c) \/ ListFromCache(c) \/ QueryList(c) \/ QueryKeys(c) \/ DatabaseError(c)
  BY <1>5 DEF QueryByID, ListFromCache, QueryList, QueryKeys, DatabaseError, dbVars, cacheVars
<1>. QED
  BY <1>1, <1>2, <1>3, <1>4, <1>5 DEF Continue

LEMMA TimeOfStep ==
    ASSUME TypeOK, TypeOK', [Next]_vars
    PROVE  TimeStep
<1>1. ASSUME NEW c \in Clients, Read(c) \/ Write(c) \/ Continue(c)
      PROVE  TimeStep
  BY <1>1, ClientTable, CommitTable, LocalType DEF TimeStep, cacheVars
<1>2. ASSUME NEW m \in msgs, Deliver(m) \/ LoseMessage(m)
      PROVE  TimeStep
  <2>1. m.to \in Nodes
    BY DEF TypeOK, Message
  <2>. QED
    BY <1>2, <2>1 DEF TimeStep, Deliver, OnCacheInvalidated, OnBumpEpoch, OnCacheFlushItem,
                      LoseMessage, dbVars, cacheVars
<1>3. ASSUME NEW n \in Nodes, Expire(n)
      PROVE  TimeStep
  BY <1>3 DEF TimeStep, Expire, ExpireLists, ExpireItem, dbVars
<1>4. CASE Tick
  BY <1>4, PrimaryType DEF Tick, TimePasses, TimeStep, cacheVars, TypeOK
<1>5. CASE UNCHANGED vars
  BY <1>5 DEF vars, dbVars, cacheVars, TimeStep
<1>. QED
  BY <1>1, <1>2, <1>3, <1>4, <1>5 DEF Next
-----------------------------------------------------------------------------
(* What a step does with the entries on their way into the cache.             *)

\* The entry that a SELECT of client c gives for the rows ids.
NewEntry(c, ids) ==
    [query |-> arg[c].query, epoch |-> arg[c].epoch, ids |-> ids, asOf |-> Len(log)]

PendingKept == \A d \in Clients : PendingOf(todo'[d]) \subseteq PendingOf(todo[d])

\* A client that goes on with tasks that bring no new entry.
LEMMA ThenPending ==
    ASSUME TypeOK, NEW c \in Clients, NEW tasks, Then(c, tasks),
           PendingOf(tasks) \subseteq PendingOf(todo[c])
    PROVE  PendingKept
<1>1. todo'[c] = tasks /\ \A d \in Clients \ {c} : todo'[d] = todo[d]
  BY DEF Then, TypeOK
<1>. QED
  BY <1>1 DEF PendingKept

LEMMA DonePending ==
    ASSUME TypeOK, NEW c \in Clients, todo[c] # << >>, Done(c)
    PROVE  PendingKept
<1>1. todo'[c] = Tail(todo[c]) /\ \A d \in Clients \ {c} : todo'[d] = todo[d]
  BY DEF Done, TypeOK
<1>2. PendingOf(Tail(todo[c])) \subseteq PendingOf(todo[c])
  BY LocalType, PendingLaws
<1>. QED
  BY <1>1, <1>2 DEF PendingKept

LEMMA InsertPending ==
    ASSUME TypeOK, TypeOK', NEW c \in Clients, InsertPost(c) \/ InsertChunk(c)
    PROVE  PendingKept
<1>1. ASSUME NEW es \in SUBSET Entity
      PROVE  PendingOf(FillTasks(es) \o << FlushListTask >>) = {}
  <2>. DEFINE flush == << FlushListTask >>
  <2>1. /\ FillTasks(es) \in Seq(Task) /\ PendingOf(FillTasks(es)) = {}
        /\ flush \in Seq(Task) /\ PendingOf(flush) = {}
    BY FillTasksType, NoEntries, TaskType, SeqTypes
  <2>. HIDE DEF flush
  <2>2. PendingOf(FillTasks(es) \o flush) = {}
    BY <2>1, PendingConcat
  <2>. QED
    BY <2>2 DEF flush
<1>2. CASE InsertPost(c)
  <2>1. PICK id \in Ids :
          LET t == WithNew(id, arg[c].stories, arg[c].second)
          IN  /\ Commit(t)
              /\ AnsweredWith(c, Entry(t, id), FillTasks({Entry(t, id)}) \o << FlushListTask >>)
    BY <1>2 DEF InsertPost
  <2>. DEFINE t == WithNew(id, arg[c].stories, arg[c].second)
              e == Entry(t, id)
  <2>2. t \in [Ids -> Row]
    <3>1. Commit(t)
      BY <2>1
    <3>. QED
      BY <3>1, CommitTable
  <2>3. e \in Entity
    BY <2>2, EntryType
  <2>4. AnsweredWith(c, e, FillTasks({e}) \o << FlushListTask >>)
    BY <2>1
  <2>. HIDE DEF t, e
  <2>5. PendingOf(FillTasks({e}) \o << FlushListTask >>) = {}
    BY <1>1, <2>3
  <2>. QED
    BY <2>4, <2>5, ThenPending DEF AnsweredWith, PendingKept
<1>3. CASE InsertChunk(c)
  <2>. DEFINE chunk == ChunkOf(arg[c].stories)
  <2>1. chunk \in Seq(Stories)
    BY <1>3, LocalType, ChunkTypes DEF InsertChunk, At, ArgFits
  <2>2. PICK first \in Ids :
          LET t    == WithNew(first, chunk, arg[c].second)
              fill == FillTasks({Entry(t, id) : id \in first..(first + Len(chunk) - 1)})
          IN  /\ first + Len(chunk) - 1 <= MaxId
              /\ Commit(t)
              /\ \/ Then(c, fill \o << FlushListTask >>)
                 \/ Then(c, fill)
                 \/ UNCHANGED todo
    BY <1>3 DEF InsertChunk
  <2>. DEFINE t   == WithNew(first, chunk, arg[c].second)
              new == first..(first + Len(chunk) - 1)
              es  == {Entry(t, id) : id \in new}
  <2>3. t \in [Ids -> Row]
    <3>1. Commit(t)
      BY <2>2
    <3>. QED
      BY <3>1, CommitTable
  <2>4. \A id \in new : id \in Ids
    <3>. HIDE DEF chunk
    <3>. QED
      BY <2>1, <2>2, ConstantsAssumption DEF ConstantsAssumption, Ids
  <2>5. es \in SUBSET Entity
    <3>. HIDE DEF t, new
    <3>. QED
      BY <2>3, <2>4, EntryType
  <2>6. \/ Then(c, FillTasks(es) \o << FlushListTask >>)
        \/ Then(c, FillTasks(es))
        \/ UNCHANGED todo
    BY <2>2
  <2>. HIDE DEF es
  <2>7. /\ PendingOf(FillTasks(es)) = {}
        /\ PendingOf(FillTasks(es) \o << FlushListTask >>) = {}
    BY <1>1, <2>5, NoEntries
  <2>. QED
    BY <2>6, <2>7, ThenPending DEF PendingKept
<1>. QED
  BY <1>2, <1>3

LEMMA WritePending ==
    ASSUME TypeOK, NEW c \in Clients, Write(c)
    PROVE  PendingKept
<1>1. ASSUME NEW tasks, PendingOf(tasks) = {}, Then(c, tasks) \/ UNCHANGED todo
      PROVE  PendingKept
  BY <1>1, ThenPending DEF PendingKept
<1>2. CASE UpdateMisses(c)
  <2>1. held[c].id \in Ids
    BY <1>2, LocalType DEF UpdateMisses, Entity
  <2>. QED
    BY <1>1, <1>2, <2>1, NoEntries DEF UpdateMisses
<1>3. ASSUME NEW s, Create(c, s) \/ CreateBulk(c, s)
      PROVE  PendingKept
  BY <1>3 DEF Create, CreateBulk, PendingKept
<1>4. ASSUME NEW s \in Stories, Update(c, s)
      PROVE  PendingKept
  <2>. DEFINE e == [id |-> held[c].id, ver |-> held[c].ver, story |-> s]
  <2>1. e \in Entity
    BY <1>4, LocalType DEF Update, Entity
  <2>2. AnsweredWith(c, NextVersion(e), UpdateTasks(e))
    BY <1>4 DEF Update
  <2>. HIDE DEF e
  <2>3. PendingOf(UpdateTasks(e)) = {}
    BY <2>1, NoEntries
  <2>. QED
    BY <1>1, <2>2, <2>3 DEF AnsweredWith
<1>5. ASSUME NEW id \in Ids, Delete(c, id)
      PROVE  PendingKept
  BY <1>1, <1>5, NoEntries DEF Delete, DeleteRows, Answered
<1>6. ASSUME NEW ids, NEW limit, DeleteExpired(c, ids, limit)
      PROVE  PendingKept
  BY <1>1, <1>6, NoEntries DEF DeleteExpired, DeleteRows, Answered
<1>. QED
  BY <1>2, <1>3, <1>4, <1>5, <1>6 DEF Write

LEMMA AccessPending ==
    ASSUME TypeOK, NEW c \in Clients, AccessCache(c)
    PROVE  PendingKept
<1>1. todo[c] # << >>
  BY DEF AccessCache, FillCache, SetList, InvalidateCache, FlushListCache, FlushItems,
         PublishFlushItem, Doing
<1>2. CASE FillCache(c)
  <2>. DEFINE es == Head(todo[c]).entities
  <2>1. es \in SUBSET Entity /\ Tail(todo[c]) \in Seq(Task)
    BY <1>2, DoingType, TaskFields DEF FillCache, Doing
  <2>2. PICK e \in es : Then(c, FillTasks(es \ {e}) \o Tail(todo[c]))
    BY <1>2 DEF FillCache
  <2>. HIDE DEF es
  <2>3. PendingOf(FillTasks(es \ {e}) \o Tail(todo[c])) \subseteq PendingOf(todo[c])
    <3>1. FillTasks(es \ {e}) \in Seq(Task) /\ PendingOf(FillTasks(es \ {e})) = {}
      BY <2>1, FillTasksType, NoEntries
    <3>2. PendingOf(Tail(todo[c])) \subseteq PendingOf(todo[c])
      BY <1>1, LocalType, PendingLaws
    <3>. QED
      BY <2>1, <3>1, <3>2, PendingConcat
  <2>. QED
    BY <2>2, <2>3, ThenPending
<1>3. CASE ~FillCache(c)
  BY <1>1, <1>3, DonePending DEF AccessCache, SetList, InvalidateCache, FlushListCache, FlushItems,
                                 PublishFlushItem
<1>. QED
  BY <1>2, <1>3

LEMMA QueryPending ==
    ASSUME TypeOK, NEW c \in Clients, QueryByID(c) \/ ListFromCache(c) \/ QueryKeys(c)
    PROVE  PendingKept
<1>1. ASSUME NEW ids \in SUBSET Ids, Then(c, FillTasks({Entry(Primary, id) : id \in ids}))
      PROVE  PendingKept
  <2>1. {Entry(Primary, id) : id \in ids} \in SUBSET Entity
    BY PrimaryType, EntryType DEF TypeOK
  <2>2. PendingOf(FillTasks({Entry(Primary, id) : id \in ids})) = {}
    BY <2>1, NoEntries
  <2>. QED
    BY <1>1, <2>2, ThenPending
<1>2. CASE QueryByID(c)
  <2>1. arg[c].id \in Ids
    BY <1>2, LocalType DEF QueryByID, At, ArgFits
  <2>. DEFINE es == {Entry(Primary, arg[c].id)}
  <2>2. es \in SUBSET Entity
    BY <2>1, PrimaryType, EntryType DEF TypeOK
  <2>3. Then(c, FillTasks(es)) \/ UNCHANGED todo
    BY <1>2 DEF QueryByID
  <2>. HIDE DEF es
  <2>4. PendingOf(FillTasks(es)) = {}
    BY <2>2, NoEntries
  <2>. QED
    BY <2>3, <2>4, ThenPending DEF PendingKept
<1>3. CASE ListFromCache(c)
  BY <1>3 DEF ListFromCache, PendingKept
<1>4. CASE QueryKeys(c)
  BY <1>1, <1>4, MatchesType DEF QueryKeys
<1>. QED
  BY <1>2, <1>3, <1>4

\* The SELECT of a list, a count or a pluck.
LEMMA ListPending ==
    ASSUME TypeOK, NEW c \in Clients, QueryList(c)
    PROVE  \A d \in Clients : \A l \in PendingOf(todo'[d]) :
             \/ l \in PendingOf(todo[d])
             \/ d = c /\ \E ids \in SUBSET Ids : /\ IsAnswer(Primary, arg[c].query, ids)
                                                 /\ l = NewEntry(c, ids)
<1>. DEFINE q == arg[c].query
<1>1. arg[c] \in [query : ListQuery, epoch : Nat]
  BY LocalType DEF QueryList, At, ArgFits
<1>2. PICK ids \in SUBSET Ids :
        /\ IsAnswer(Primary, q, ids)
        /\ Then(c, (IF q.kind \in PageKinds THEN FillTasks({Entry(Primary, id) : id \in ids})
                    ELSE << >>) \o << SetListTask(q, arg[c].epoch, ids) >>)
  BY DEF QueryList
<1>. DEFINE l == NewEntry(c, ids)
            task == SetListTask(q, arg[c].epoch, ids)
            fill == IF q.kind \in PageKinds THEN FillTasks({Entry(Primary, id) : id \in ids})
                    ELSE << >>
<1>3. l \in ListEntry
  BY <1>1, PrimaryType DEF ListEntry, TypeOK, NewEntry
<1>4. task \in Task /\ task.do = "setList" /\ task.entry = l
  <2>1. task = [do |-> "setList", entry |-> l]
    BY DEF SetListTask, NewEntry
  <2>. HIDE DEF l, task
  <2>. QED
    BY <1>3, <2>1, TaskType
<1>5. fill \in Seq(Task) /\ PendingOf(fill) = {}
  <2>1. {Entry(Primary, id) : id \in ids} \in SUBSET Entity
    BY PrimaryType, EntryType DEF TypeOK
  <2>2. /\ FillTasks({Entry(Primary, id) : id \in ids}) \in Seq(Task)
        /\ PendingOf(FillTasks({Entry(Primary, id) : id \in ids})) = {}
    BY <2>1, NoEntries, FillTasksType
  <2>3. << >> \in Seq(Task) /\ PendingOf(<< >>) = {}
    BY SeqTypes, PendingLaws
  <2>. QED
    BY <2>2, <2>3
<1>6. Then(c, fill \o << task >>)
  BY <1>2
<1>. DEFINE last == << task >>
<1>7. last \in Seq(Task) /\ PendingOf(last) = {l}
  <2>. HIDE DEF fill, task, l
  <2>. QED
    BY <1>4, SeqTypes, PendingLaws
<1>8. todo'[c] = fill \o last /\ \A d \in Clients \ {c} : todo'[d] = todo[d]
  <2>. HIDE DEF fill, task
  <2>. QED
    BY <1>6 DEF Then, TypeOK
<1>. HIDE DEF fill, last, l
<1>9. PendingOf(fill \o last) = {l}
  BY <1>5, <1>7, PendingConcat
<1>10. IsAnswer(Primary, q, ids) /\ l = NewEntry(c, ids)
  BY <1>2 DEF l
<1>11. ASSUME NEW d \in Clients, NEW m \in PendingOf(todo'[d])
       PROVE  m \in PendingOf(todo[d]) \/ (d = c /\ m = l)
  BY <1>8, <1>9, <1>11
<1>. QED
  BY <1>10, <1>11

LEMMA PendingOfStep ==
    ASSUME TypeOK, TypeOK', [Next]_vars, NEW d \in Clients, NEW l \in PendingOf(todo'[d])
    PROVE  \/ l \in PendingOf(todo[d])
           \/ /\ UNCHANGED <<log, clock, epoch, flushedAt>>
              /\ pc[d] = "list"
              /\ \E ids \in SUBSET Ids : /\ IsAnswer(Primary, arg[d].query, ids)
                                         /\ l = NewEntry(d, ids)
<1>1. ASSUME PendingKept
      PROVE  l \in PendingOf(todo[d])
  BY <1>1 DEF PendingKept
<1>2. ASSUME UNCHANGED todo
      PROVE  l \in PendingOf(todo[d])
  BY <1>2
<1>3. ASSUME NEW c \in Clients, Read(c) \/ DatabaseError(c)
      PROVE  UNCHANGED todo
  BY <1>3 DEF Read, GetByID, ListPage, ListValue, ListByKeys, DatabaseError
<1>4. ASSUME NEW c \in Clients, QueryList(c)
      PROVE  UNCHANGED <<log, clock, epoch, flushedAt>> /\ pc[c] = "list"
  BY <1>4 DEF QueryList, At, dbVars, cacheVars
<1>5. ASSUME \/ \E m \in msgs : Deliver(m) \/ LoseMessage(m)
             \/ \E n \in Nodes : Expire(n)
             \/ Tick \/ UNCHANGED vars
      PROVE  UNCHANGED todo
  BY <1>5 DEF Deliver, OnCacheInvalidated, OnBumpEpoch, OnCacheFlushItem, LoseMessage, Expire,
              ExpireLists, ExpireItem, Tick, vars, clientVars
<1>. QED
  BY <1>1, <1>2, <1>3, <1>4, <1>5, InsertPending, WritePending, AccessPending, QueryPending,
     ListPending DEF Next, Continue
-----------------------------------------------------------------------------
(* What a step does with the caches, and with the clients that read them.     *)

LEMMA ListsOfStep ==
    ASSUME TypeOK, [Next]_vars, NEW n \in Nodes, NEW l \in lists'[n]
    PROVE  l \in lists[n] \/ \E c \in Clients : NodeOf[c] = n /\ l \in PendingOf(todo[c])
<1>1. ASSUME NEW c \in Clients, SetList(c)
      PROVE  l \in lists[n] \/ (NodeOf[c] = n /\ l \in PendingOf(todo[c]))
  <2>. DEFINE new == Head(todo[c]).entry
  <2>1. new \in PendingOf(todo[c])
    <3>1. Head(todo[c]) \in Task /\ Head(todo[c]).do = "setList" /\ todo[c] # << >>
      BY <1>1, DoingType DEF SetList, Doing
    <3>. QED
      BY <3>1, LocalType, PendingLaws
  <2>2. lists' = [lists EXCEPT ![NodeOf[c]] =
            {k \in lists[NodeOf[c]] : k.query # new.query \/ k.epoch # new.epoch} \cup {new}]
    BY <1>1, LocalType DEF SetList, TypeOK, CachesOK
  <2>. HIDE DEF new
  <2>. QED
    BY <2>1, <2>2, LocalType DEF TypeOK, CachesOK
<1>2. ASSUME NEW m \in Nodes, ExpireLists(m)
      PROVE  l \in lists[n]
  BY <1>2 DEF ExpireLists, TypeOK, CachesOK
<1>3. CASE UNCHANGED lists
  BY <1>3
<1>4. ASSUME NEW c \in Clients, Read(c) \/ Write(c) \/ Continue(c), ~SetList(c)
      PROVE  UNCHANGED lists
  <2>1. CASE Read(c)
    BY <2>1 DEF Read, GetByID, ListPage, ListValue, ListByKeys, cacheVars
  <2>2. CASE Write(c)
    BY <2>2 DEF Write, Create, CreateBulk, Update, UpdateMisses, Delete, DeleteExpired, DeleteRows,
                cacheVars
  <2>3. CASE AccessCache(c)
    BY <1>4, <2>3 DEF AccessCache, FillCache, InvalidateCache, FlushListCache, FlushItems,
                      PublishFlushItem, cacheVars
  <2>4. CASE Continue(c) /\ ~AccessCache(c)
    BY <2>4 DEF Continue, InsertPost, InsertChunk, QueryByID, ListFromCache, QueryList, QueryKeys,
                DatabaseError, cacheVars
  <2>. QED
    BY <1>4, <2>1, <2>2, <2>3, <2>4
<1>5. ASSUME \/ \E m \in msgs : Deliver(m) \/ LoseMessage(m)
             \/ \E m \in Nodes, id \in Ids : ExpireItem(m, id)
             \/ Tick \/ UNCHANGED vars
      PROVE  UNCHANGED lists
  BY <1>5 DEF Deliver, OnCacheInvalidated, OnBumpEpoch, OnCacheFlushItem, LoseMessage, ExpireItem,
              Tick, vars, cacheVars
<1>. QED
  BY <1>1, <1>2, <1>3, <1>4, <1>5 DEF Next, Expire

\* A client comes to a list by a look-up, or by a list that it found incomplete.
ArgsStep(d) == \/ pc'[d] = pc[d] /\ arg'[d] = arg[d]
               \/ pc'[d] \notin {"list", "listCached"}
               \/ pc'[d] = "list" /\ arg'[d].epoch = epoch[NodeOf[d]]
               \/ pc'[d] = "list" /\ pc[d] = "listCached" /\ arg'[d].epoch = arg[d].epoch
               \/ /\ pc'[d] = "listCached"
                  /\ arg'[d] \in lists[NodeOf[d]] /\ arg'[d].epoch = epoch[NodeOf[d]]

LEMMA ArgsOfStep ==
    ASSUME TypeOK, [Next]_vars, NEW d \in Clients
    PROVE  ArgsStep(d)
<1>1. CASE UNCHANGED <<pc, arg>>
  BY <1>1 DEF ArgsStep
<1>2. ASSUME NEW c \in Clients, NEW label, NEW a, label \notin {"list", "listCached"},
             Goto(c, label, a)
      PROVE  ArgsStep(d)
  BY <1>2, GotoFrame DEF ArgsStep, TypeOK
<1>3. ASSUME NEW c \in Clients, NEW q, LookUp(c, q)
      PROVE  ArgsStep(d)
  <2>1. CASE d = c
    <3>1. ASSUME NEW l \in CachedLists(NodeOf[c], q), Goto(c, "listCached", l)
          PROVE  ArgsStep(c)
      BY <3>1, GotoFrame DEF CachedLists, ArgsStep, TypeOK
    <3>2. CASE Goto(c, "list", [query |-> q, epoch |-> epoch[NodeOf[c]]])
      BY <3>2, GotoFrame DEF ArgsStep, TypeOK
    <3>. QED
      BY <1>3, <2>1, <3>1, <3>2 DEF LookUp
  <2>2. CASE d # c
    BY <1>3, <2>2, LookUpFrame DEF ArgsStep
  <2>. QED
    BY <2>1, <2>2
<1>4. ASSUME NEW c \in Clients, ListFromCache(c)
      PROVE  ArgsStep(d)
  <2>1. pc[c] = "listCached"
    BY <1>4 DEF ListFromCache, At
  <2>2. CASE Goto(c, "list", [query |-> arg[c].query, epoch |-> arg[c].epoch])
    BY <2>1, <2>2, GotoFrame DEF ArgsStep, TypeOK
  <2>3. CASE Return(c)
    BY <1>2, <2>3 DEF Return
  <2>. QED
    BY <1>4, <2>2, <2>3 DEF ListFromCache
<1>5. ASSUME NEW c \in Clients, Read(c)
      PROVE  ArgsStep(d)
  <2>1. ASSUME NEW id, GetByID(c, id)
        PROVE  ArgsStep(d)
    <3>1. UNCHANGED <<pc, arg>> \/ Goto(c, "getByID", [id |-> id])
      BY <2>1 DEF GetByID
    <3>. QED
      BY <1>1, <1>2, <3>1
  <2>2. ASSUME NEW kind, NEW keys, ListPage(c, kind, keys)
        PROVE  ArgsStep(d)
    BY <1>3, <2>2 DEF ListPage
  <2>3. ASSUME NEW kind, NEW keys, ListValue(c, kind, keys)
        PROVE  ArgsStep(d)
    BY <1>3, <2>3 DEF ListValue
  <2>4. ASSUME NEW keys, ListByKeys(c, keys)
        PROVE  ArgsStep(d)
    <3>1. Goto(c, "listByKeys", [keys |-> keys])
      BY <2>4 DEF ListByKeys
    <3>. QED
      BY <1>2, <3>1
  <2>. QED
    BY <1>5, <2>1, <2>2, <2>3, <2>4 DEF Read
<1>6. ASSUME NEW c \in Clients, Write(c)
      PROVE  ArgsStep(d)
  <2>1. ASSUME NEW s, Create(c, s)
        PROVE  ArgsStep(d)
    <3>1. Goto(c, "create", [stories |-> << s >>, second |-> CurrentSecond])
      BY <2>1 DEF Create
    <3>. QED
      BY <1>2, <3>1
  <2>2. ASSUME NEW s, CreateBulk(c, s)
        PROVE  ArgsStep(d)
    <3>1. Goto(c, "createBulk", [stories |-> s, second |-> CurrentSecond])
      BY <2>2 DEF CreateBulk
    <3>. QED
      BY <1>2, <3>1
  <2>. QED
    BY <1>1, <1>6, <2>1, <2>2 DEF Write, Update, UpdateMisses, Delete, DeleteExpired, DeleteRows
<1>7. ASSUME NEW c \in Clients, AccessCache(c)
      PROVE  ArgsStep(d)
  BY <1>1, <1>7 DEF AccessCache, FillCache, SetList, InvalidateCache, FlushListCache, FlushItems,
                    PublishFlushItem
<1>8. ASSUME NEW c \in Clients, \/ QueryByID(c) \/ QueryList(c) \/ QueryKeys(c)
                                \/ InsertPost(c) \/ InsertChunk(c) \/ DatabaseError(c)
      PROVE  ArgsStep(d)
  <2>1. CASE Return(c)
    BY <1>2, <2>1 DEF Return
  <2>2. ASSUME NEW a, Goto(c, "listByKeys", a) \/ Goto(c, "createBulk", a)
        PROVE  ArgsStep(d)
    BY <1>2, <2>2
  <2>. QED
    BY <1>8, <2>1, <2>2 DEF QueryByID, QueryList, QueryKeys, InsertPost, InsertChunk, DatabaseError
<1>9. ASSUME \/ \E m \in msgs : Deliver(m) \/ LoseMessage(m)
             \/ \E n \in Nodes : Expire(n)
             \/ Tick \/ UNCHANGED vars
      PROVE  ArgsStep(d)
  BY <1>1, <1>9 DEF Deliver, OnCacheInvalidated, OnBumpEpoch, OnCacheFlushItem, LoseMessage, Expire,
                    ExpireLists, ExpireItem, Tick, vars, clientVars
<1>. QED
  BY <1>4, <1>5, <1>6, <1>7, <1>8, <1>9 DEF Next, Continue
-----------------------------------------------------------------------------
LEMMA FreshInit ==
    ASSUME Init
    PROVE  FreshInv
<1>1. Len(log) = 1 /\ clock = 0
  BY DEF Init
<1>2. \A n \in Nodes : epoch[n] = 0 /\ flushedAt[n] = 1 /\ lists[n] = {}
  BY DEF Init
<1>3. \A c \in Clients : todo[c] = << >> /\ pc[c] = "idle"
  BY DEF Init
<1>. QED
  BY <1>1, <1>2, <1>3, PendingLaws DEF FreshInv, Reading

LEMMA FreshNext ==
    ASSUME TypeOK, TypeOK', FreshInv, [Next]_vars
    PROVE  FreshInv'
<1>1. ASSUME NEW c \in Clients, NEW l \in PendingOf(todo'[c])
      PROVE  \/ l \in PendingOf(todo[c])
             \/ UNCHANGED <<log, clock, epoch, flushedAt>> /\ l.epoch <= clock /\ l.asOf = Len(log)
  <2>1. pc[c] = "list" => arg[c].epoch <= clock
    BY DEF FreshInv, Reading
  <2>. QED
    BY <1>1, <2>1, PendingOfStep DEF NewEntry
<1>2. ASSUME NEW c \in Clients, Reading(c)'
      PROVE  \/ Reading(c) /\ arg'[c].epoch = arg[c].epoch
             \/ arg'[c].epoch <= clock
  <2>1. epoch[NodeOf[c]] <= clock
    BY LocalType DEF FreshInv
  <2>. QED
    BY <1>2, <2>1, ArgsOfStep DEF ArgsStep, Reading
<1>. QED
  BY <1>1, <1>2, TimeOfStep, ListsOfStep, FreshStep

LEMMA Fresh == Spec => []FreshInv
<1>1. Init => FreshInv
  BY FreshInit
<1>2. TypeOK /\ TypeOK' /\ FreshInv /\ [Next]_vars => FreshInv'
  BY FreshNext
<1>. QED
  BY <1>1, <1>2, TypeCorrect, PTL DEF Spec

\* A page, count or pluck that the current epoch makes visible was read after the
\* last bump of the node's epoch, in every interleaving of readers, writers and
\* deliveries: an epoch read off a clock that a statement outlasts names no list
\* that is older than the flush.
THEOREM ListsAreFresh == Spec => []CurrentListsAreFresh
<1>1. FreshInv => CurrentListsAreFresh
  BY DEF FreshInv, Safe, CurrentListsAreFresh
<1>. QED
  BY <1>1, Fresh, PTL
=============================================================================

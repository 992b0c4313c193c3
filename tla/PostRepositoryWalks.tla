------------------------- MODULE PostRepositoryWalks -------------------------
(* Whoever walks through ListById or RecentPosts, or lists rows by many keys,   *)
(* gets each row that it has to get exactly once, for every value of           *)
(* PostRepository's constants.                                                 *)
EXTENDS PostRepositoryProofs

-----------------------------------------------------------------------------
(* Slices in chunks.                                                          *)

Distinct(s) == \A i, j \in DOMAIN s : s[i] = s[j] => i = j

\* A chunk and what is left of the slice are the slice, and share no value if
\* the slice has none twice.
LEMMA ChunkParts ==
    ASSUME NEW s \in Seq(Stories)
    PROVE  /\ RangeOf(s) = RangeOf(ChunkOf(s)) \cup RangeOf(RestOf(s))
           /\ Distinct(s) => /\ RangeOf(ChunkOf(s)) \cap RangeOf(RestOf(s)) = {}
                             /\ Distinct(RestOf(s))
<1>. DEFINE chunk == ChunkOf(s)
            rest  == RestOf(s)
<1>1. BatchSize \in Nat \ {0} /\ Len(s) \in Nat
  BY ConstantsAssumption DEF ConstantsAssumption
<1>. DEFINE k == IF Len(s) <= BatchSize THEN Len(s) ELSE BatchSize
<1>2. k \in 0..Len(s) /\ k <= BatchSize /\ (k < Len(s) => k = BatchSize)
  BY <1>1
<1>3. /\ chunk \in Seq(Stories) /\ Len(chunk) = k
      /\ \A i \in 1..k : chunk[i] = s[i]
  <2>1. chunk = SubSeq(s, 1, k)
    BY DEF ChunkOf
  <2>. HIDE DEF chunk, k
  <2>2. \A i \in 1..k : i \in 1..Len(s)
    BY <1>1, <1>2
  <2>. QED
    BY <1>1, <1>2, <2>1, <2>2, SubSeqProperties
<1>4. /\ rest \in Seq(Stories)
      /\ Len(rest) = Len(s) - k
      /\ \A i \in 1..(Len(s) - k) : rest[i] = s[k + i]
  <2>1. rest = SubSeq(s, BatchSize + 1, Len(s))
    BY DEF RestOf
  <2>. HIDE DEF rest, k
  <2>2. \A i \in (BatchSize + 1)..Len(s) : i \in 1..Len(s)
    BY <1>1
  <2>3. CASE k = Len(s)
    <3>1. Len(s) <= BatchSize
      BY <1>1, <1>2, <2>3 DEF k
    <3>2. rest = << >>
      BY <1>1, <2>1, <3>1, SubSeqProperties, EmptySeq
    <3>. QED
      BY <1>1, <2>3, <3>2, SeqTypes
  <2>4. CASE k = BatchSize /\ k < Len(s)
    <3>1. /\ rest \in Seq(Stories) /\ Len(rest) = Len(s) - BatchSize
          /\ \A i \in 1..(Len(s) - BatchSize) : rest[i] = s[BatchSize + i]
      BY <1>1, <2>1, <2>2, <2>4, SubSeqProperties
    <3>. QED
      BY <2>4, <3>1
  <2>. QED
    BY <1>1, <1>2, <2>3, <2>4
<1>. HIDE DEF chunk, rest, k
<1>5. ASSUME NEW v \in RangeOf(s)
      PROVE  v \in RangeOf(chunk) \cup RangeOf(rest)
  <2>1. PICK i \in 1..Len(s) : s[i] = v
    BY DEF RangeOf
  <2>2. CASE i <= k
    <3>1. i \in 1..k
      BY <1>2, <2>2
    <3>. QED
      BY <1>3, <2>1, <3>1 DEF RangeOf
  <2>3. CASE i > k
    <3>1. i - k \in 1..(Len(s) - k) /\ k + (i - k) = i
      BY <1>1, <1>2, <2>3
    <3>2. rest[i - k] = v
      BY <1>4, <2>1, <3>1
    <3>. QED
      BY <1>4, <3>1, <3>2 DEF RangeOf
  <2>. QED
    BY <1>2, <2>2, <2>3
<1>6. ASSUME NEW v \in RangeOf(chunk)
      PROVE  \E i \in 1..k : s[i] = v
  BY <1>3, <1>6 DEF RangeOf
<1>7. ASSUME NEW v \in RangeOf(rest)
      PROVE  \E i \in (k + 1)..Len(s) : s[i] = v
  <2>1. PICK i \in 1..(Len(s) - k) : rest[i] = v
    BY <1>4, <1>7 DEF RangeOf
  <2>2. k + i \in (k + 1)..Len(s)
    BY <1>1, <1>2
  <2>. QED
    BY <1>4, <2>1, <2>2
<1>8. 1..k \subseteq 1..Len(s) /\ (k + 1)..Len(s) \subseteq 1..Len(s)
  BY <1>1, <1>2
<1>9. RangeOf(chunk) \cup RangeOf(rest) \subseteq RangeOf(s)
  <2>1. \A i \in 1..Len(s) : s[i] \in RangeOf(s)
    BY DEF RangeOf
  <2>. QED
    BY <1>6, <1>7, <1>8, <2>1
<1>10. ASSUME Distinct(s), NEW v \in RangeOf(chunk), v \in RangeOf(rest)
       PROVE  FALSE
  <2>1. PICK i \in 1..k : s[i] = v
    BY <1>6
  <2>2. PICK j \in (k + 1)..Len(s) : s[j] = v
    BY <1>7, <1>10
  <2>3. i = j
    BY <1>8, <1>10, <2>1, <2>2 DEF Distinct
  <2>. QED
    BY <1>2, <2>3
<1>11. ASSUME Distinct(s)
       PROVE  Distinct(rest)
  <2>1. ASSUME NEW i \in 1..(Len(s) - k), NEW j \in 1..(Len(s) - k), rest[i] = rest[j]
        PROVE  i = j
    <3>1. k + i \in 1..Len(s) /\ k + j \in 1..Len(s)
      BY <1>1, <1>2
    <3>2. s[k + i] = s[k + j]
      BY <1>4, <2>1
    <3>3. k + i = k + j
      BY <1>11, <3>1, <3>2 DEF Distinct
    <3>. QED
      BY <1>2, <3>3
  <2>. QED
    BY <1>4, <2>1 DEF Distinct
<1>. QED
  BY <1>5, <1>9, <1>10, <1>11 DEF chunk, rest
-----------------------------------------------------------------------------
(* The inductive invariant.                                                   *)

\* A list by keys: the rows it still has to get are the ones under the keys
\* that are left.
KeysOK(c) == Walking(c, "ListByKeys") =>
    /\ ReturnsEachOnce(walk[c])
    /\ pc[c] = "listByKeys" =>
         /\ Distinct(arg[c].keys)
         /\ \A id \in walk[c].must :
              /\ id \in LiveIds(Primary)
              /\ Primary[id].story \in RangeOf(arg[c].keys) <=> id \notin walk[c].seen

\* The rows of t were stamped in the order of their ids.
InOrder(t) == \A i, j \in Ids :
    i < j /\ t[i].state # "unborn" /\ t[j].state # "unborn" => t[i].created <= t[j].created

\* A row that is there keeps the time of its creation.
RowsKept(t, u) == \A id \in Ids :
    t[id].state # "unborn" => u[id].state # "unborn" /\ u[id].created = t[id].created

\* A walk through ListById or RecentPosts.
Paging(c) == walk[c] # None /\ walk[c].query.kind \in PageKinds

\* Its walk has got what it must up to its start and nothing after it.
GotSoFar(w) == /\ w.twice = {}
               /\ \A id \in w.seen : ~Beyond(w.query, id)
               /\ \A id \in w.must : ~Beyond(w.query, id) => id \in w.seen
               /\ w.done => w.must \subseteq w.seen

\* A walk through pages: if their order is that of the ids it has got what it must
\* so far, and the tables its next page may come from have what it must get.
PagesOK(c) == Paging(c) =>
    /\ (walk[c].query.kind = "RecentPosts" => InOrder(Primary)) => GotSoFar(walk[c])
    /\ \A id \in walk[c].must : \A p \in flushedAt[NodeOf[c]]..Len(log) :
         id \in Matches(log[p], walk[c].query.keys)
    /\ pc[c] = "listCached" =>
         \A id \in walk[c].must : id \in Matches(log[arg[c].asOf], walk[c].query.keys)

\* A page that was cached is a page of the table as it was.
EntryOK(l) == /\ l.asOf \in 1..Len(log)
              /\ l.query.kind \in PageKinds => IsPage(log[l.asOf], l.query, l.ids)

EntriesOK ==
    /\ \A n \in Nodes : \A l \in lists[n] : EntryOK(l)
    /\ \A c \in Clients : /\ \A l \in PendingOf(todo[c]) : EntryOK(l)
                          /\ pc[c] = "listCached" => EntryOK(arg[c])

WalkInv == /\ EntriesOK
           /\ \A p \in 1..Len(log) : RowsKept(log[p], Primary)
           /\ \A n \in Nodes : flushedAt[n] > 0
           /\ \A c \in Clients : KeysOK(c) /\ PagesOK(c)

\* What a step does with the table.
LogStep == \/ UNCHANGED log
           \/ \E t \in [Ids -> Row] : log' = Append(log, t)

LEMMA LogGrows ==
    ASSUME TypeOK, LogStep
    PROVE  /\ Len(log) \in Nat \ {0} /\ Len(log') \in Nat /\ Len(log) <= Len(log')
           /\ \A p \in 1..Len(log) : p \in 1..Len(log') /\ log'[p] = log[p]
<1>1. Len(log) \in Nat \ {0} /\ log \in Seq([Ids -> Row])
  BY PrimaryType DEF TypeOK, TableOK
<1>2. ASSUME NEW t \in [Ids -> Row], log' = Append(log, t)
      PROVE  /\ Len(log') = Len(log) + 1
             /\ \A p \in 1..Len(log) : log'[p] = log[p]
  BY <1>1, <1>2, AppendProperties
<1>. QED
  BY <1>1, <1>2 DEF LogStep

LEMMA EntryStays ==
    ASSUME TypeOK, LogStep, NEW l, EntryOK(l)
    PROVE  EntryOK(l)'
<1>1. l.asOf \in 1..Len(log') /\ log'[l.asOf] = log[l.asOf]
  BY LogGrows DEF EntryOK
<1>. QED
  BY <1>1 DEF EntryOK

\* A step that brings no entry but those on their way and pages just read.
LEMMA EntriesStep ==
    ASSUME TypeOK, EntriesOK, LogStep,
           \A n \in Nodes : \A l \in lists'[n] :
               l \in lists[n] \/ \E c \in Clients : NodeOf[c] = n /\ l \in PendingOf(todo[c]),
           \A c \in Clients : \A l \in PendingOf(todo'[c]) :
               l \in PendingOf(todo[c]) \/ (UNCHANGED log /\ EntryOK(l)),
           \A c \in Clients : pc'[c] = "listCached" =>
               \/ pc[c] = "listCached" /\ arg'[c] = arg[c]
               \/ arg'[c] \in lists[NodeOf[c]]
    PROVE  EntriesOK'
<1>1. \A n \in Nodes : \A l \in lists'[n] : EntryOK(l)'
  BY EntryStays DEF EntriesOK
<1>2. \A c \in Clients : \A l \in PendingOf(todo'[c]) : EntryOK(l)'
  BY EntryStays DEF EntriesOK
<1>3. ASSUME NEW c \in Clients, pc'[c] = "listCached"
      PROVE  EntryOK(arg[c])'
  <2>1. PICK l : l = arg'[c]
    OBVIOUS
  <2>2. EntryOK(l)
    BY <1>3, <2>1, LocalType DEF EntriesOK
  <2>3. EntryOK(l)'
    BY <2>2, EntryStays
  <2>. QED
    BY <2>1, <2>3 DEF EntryOK
<1>. QED
  BY <1>1, <1>2, <1>3 DEF EntriesOK
-----------------------------------------------------------------------------
(* What a step does not touch stays right.                                    *)

\* A walk that a step leaves alone, but for the rows that a write takes out of
\* must.
SameWalk(c) == \/ UNCHANGED log /\ walk'[c] = walk[c]
               \/ \E t \in [Ids -> Row] : Commit(t)

LEMMA CommitLog ==
    ASSUME TypeOK, NEW t \in [Ids -> Row], Commit(t)
    PROVE  /\ log' = Append(log, t) /\ Len(log') = Len(log) + 1
           /\ Primary' = t /\ log'[Len(log) + 1] = t
           /\ LogStep
<1>1. log' = Append(log, t) /\ log \in Seq([Ids -> Row])
  BY DEF Commit, TypeOK, TableOK
<1>2. Len(log') = Len(log) + 1 /\ log'[Len(log) + 1] = t
  BY <1>1, AppendProperties
<1>. QED
  BY <1>1, <1>2 DEF Primary, LogStep

\* A list by keys that another client's step, or a write, finds at work.
LEMMA KeysStay ==
    ASSUME TypeOK, NEW c \in Clients, KeysOK(c), SameWalk(c),
           \/ pc'[c] = pc[c] /\ arg'[c] = arg[c]
           \/ pc'[c] # "listByKeys"
    PROVE  KeysOK(c)'
<1>1. CASE UNCHANGED log /\ walk'[c] = walk[c]
  BY <1>1 DEF KeysOK, Walking, ReturnsEachOnce, Primary, LiveIds
<1>2. ASSUME NEW t \in [Ids -> Row], Commit(t), Walking(c, "ListByKeys")'
      PROVE  /\ ReturnsEachOnce(walk[c])'
             /\ pc'[c] = "listByKeys" =>
                  /\ Distinct(arg'[c].keys)
                  /\ \A id \in walk'[c].must :
                       /\ id \in LiveIds(Primary')
                       /\ Primary'[id].story \in RangeOf(arg'[c].keys) <=> id \notin walk'[c].seen
  <2>1. /\ walk[c] # None /\ walk'[c].query = walk[c].query /\ walk'[c].seen = walk[c].seen
        /\ walk'[c].twice = walk[c].twice /\ walk'[c].done = walk[c].done
        /\ walk'[c].must = StillMust(walk[c], t)
        /\ walk[c].query.kind = "ListByKeys"
    BY <1>2, CommitWalks DEF Walking
  <2>2. /\ ReturnsEachOnce(walk[c])
        /\ pc[c] = "listByKeys" =>
             /\ Distinct(arg[c].keys)
             /\ \A id \in walk[c].must :
                  Primary[id].story \in RangeOf(arg[c].keys) <=> id \notin walk[c].seen
    BY <2>1 DEF KeysOK, Walking
  <2>3. /\ walk'[c].must \subseteq walk[c].must
        /\ \A id \in walk'[c].must : id \in LiveIds(t) /\ t[id].story = Primary[id].story
    BY <2>1 DEF StillMust, Matches
  <2>4. ReturnsEachOnce(walk[c])'
    BY <2>1, <2>2, <2>3 DEF ReturnsEachOnce
  <2>5. Primary' = t
    BY <1>2, CommitLog
  <2>6. ASSUME pc'[c] = "listByKeys"
        PROVE  pc[c] = "listByKeys" /\ arg'[c] = arg[c]
    BY <2>6
  <2>. QED
    BY <2>1, <2>2, <2>3, <2>4, <2>5, <2>6
<1>. QED
  BY <1>1, <1>2 DEF SameWalk, KeysOK

\* Rows that match in the tables since the flush match in them after a write, too,
\* if the walk still has to get them.
LEMMA StillMatching ==
    ASSUME TypeOK, NEW t \in [Ids -> Row], Commit(t), NEW w,
           NEW id \in StillMust(w, t), NEW first \in Nat \ {0},
           \A p \in first..Len(log) : id \in Matches(log[p], w.query.keys)
    PROVE  \A p \in first..Len(log') : id \in Matches(log'[p], w.query.keys)
<1>1. /\ Len(log') = Len(log) + 1 /\ log'[Len(log) + 1] = t
      /\ \A p \in 1..Len(log) : log'[p] = log[p]
      /\ Len(log) \in Nat
  BY CommitLog, LogGrows
<1>2. id \in Matches(t, w.query.keys)
  BY DEF StillMust
<1>3. ASSUME NEW p \in first..Len(log')
      PROVE  id \in Matches(log'[p], w.query.keys)
  <2>1. CASE p = Len(log) + 1
    BY <1>1, <1>2, <2>1
  <2>2. CASE p # Len(log) + 1
    <3>1. p \in first..Len(log) /\ p \in 1..Len(log)
      BY <1>1, <2>2
    <3>. QED
      BY <1>1, <3>1
  <2>. QED
    BY <2>1, <2>2
<1>. QED
  BY <1>3

\* A table stamped in the order of the ids was so before.
LEMMA InOrderBefore ==
    ASSUME NEW t, NEW u, RowsKept(t, u), InOrder(u)
    PROVE  InOrder(t)
<1>1. ASSUME NEW i \in Ids, NEW j \in Ids, i < j, t[i].state # "unborn", t[j].state # "unborn"
      PROVE  t[i].created <= t[j].created
  <2>1. /\ u[i].state # "unborn" /\ u[i].created = t[i].created
        /\ u[j].state # "unborn" /\ u[j].created = t[j].created
    BY <1>1 DEF RowsKept
  <2>2. u[i].created <= u[j].created
    BY <1>1, <2>1 DEF InOrder
  <2>. QED
    BY <2>1, <2>2
<1>. QED
  BY <1>1 DEF InOrder

\* A walk through pages that another client's step, or a write, finds under way.
LEMMA PagesStay ==
    ASSUME TypeOK, TypeOK', EntriesOK, NEW c \in Clients, PagesOK(c), SameWalk(c),
           RowsKept(Primary, Primary'),
           flushedAt[NodeOf[c]] \in Nat \ {0},
           flushedAt'[NodeOf[c]] \in Nat, flushedAt[NodeOf[c]] <= flushedAt'[NodeOf[c]],
           \/ pc'[c] = pc[c] /\ arg'[c] = arg[c]
           \/ pc'[c] # "listCached"
    PROVE  PagesOK(c)'
<1>. DEFINE n == NodeOf[c]
<1>1. CASE UNCHANGED log /\ walk'[c] = walk[c]
  <2>1. \A p \in flushedAt'[n]..Len(log') : p \in flushedAt[n]..Len(log)
    BY <1>1, PrimaryType DEF TypeOK
  <2>2. Primary' = Primary
    BY <1>1 DEF Primary
  <2>. QED
    BY <1>1, <2>1, <2>2 DEF PagesOK, Paging, GotSoFar
<1>2. ASSUME NEW t \in [Ids -> Row], Commit(t), Paging(c)'
      PROVE  PagesOK(c)'
  <2>1. /\ walk[c] # None /\ walk'[c].query = walk[c].query /\ walk'[c].seen = walk[c].seen
        /\ walk'[c].twice = walk[c].twice /\ walk'[c].done = walk[c].done
        /\ walk'[c].must = StillMust(walk[c], t)
        /\ Paging(c)
    BY <1>2, CommitWalks DEF Paging
  <2>2. walk'[c].must \subseteq walk[c].must
    BY <2>1 DEF StillMust
  <2>3. /\ \A id \in walk[c].must : \A p \in flushedAt[n]..Len(log) :
             id \in Matches(log[p], walk[c].query.keys)
        /\ pc[c] = "listCached" =>
             \A id \in walk[c].must : id \in Matches(log[arg[c].asOf], walk[c].query.keys)
    BY <2>1 DEF PagesOK
  <2>4. ASSUME NEW id \in walk'[c].must
        PROVE  \A p \in flushedAt'[n]..Len(log') : id \in Matches(log'[p], walk'[c].query.keys)
    <3>1. \A p \in flushedAt[n]..Len(log') : id \in Matches(log'[p], walk[c].query.keys)
      BY <1>2, <2>1, <2>2, <2>3, StillMatching
    <3>2. \A p \in flushedAt'[n]..Len(log') : p \in flushedAt[n]..Len(log')
      BY LogGrows, <1>2, CommitLog
    <3>. QED
      BY <2>1, <3>1, <3>2
  <2>5. ASSUME pc'[c] = "listCached"
        PROVE  \A id \in walk'[c].must : id \in Matches(log'[arg'[c].asOf], walk'[c].query.keys)
    <3>1. pc[c] = "listCached" /\ arg'[c] = arg[c]
      BY <2>5
    <3>2. log'[arg[c].asOf] = log[arg[c].asOf]
      BY <1>2, <3>1, CommitLog, LogGrows DEF EntriesOK, EntryOK
    <3>. QED
      BY <2>1, <2>2, <2>3, <3>1, <3>2
  <2>6. ASSUME walk'[c].query.kind = "RecentPosts" => InOrder(Primary')
        PROVE  GotSoFar(walk'[c])
    <3>1. GotSoFar(walk[c])
      BY <2>1, <2>6, InOrderBefore DEF PagesOK
    <3>. QED
      BY <2>1, <2>2, <3>1 DEF GotSoFar
  <2>7. InOrder(Primary') <=> InOrder(Primary)'
    BY DEF InOrder
  <2>8. GotSoFar(walk'[c]) <=> GotSoFar(walk[c])'
    BY DEF GotSoFar
  <2>. QED
    BY <2>4, <2>5, <2>6, <2>7, <2>8 DEF PagesOK
<1>. QED
  BY <1>1, <1>2 DEF SameWalk, PagesOK

\* In the order of the ids, ascending or descending.
Before(kind, i, j) == IF kind = "ListById" THEN i < j ELSE i > j

\* If that is the order of the stamps it is the order of the pages.
LEMMA OrderOfIds ==
    ASSUME NEW t \in [Ids -> Row], NEW kind \in PageKinds,
           kind = "RecentPosts" => InOrder(t),
           NEW i \in Ids, NEW j \in Ids, t[i].state # "unborn", t[j].state # "unborn"
    PROVE  Precedes(t, kind, i, j) <=> Before(kind, i, j)
<1>1. i \in Nat /\ j \in Nat /\ t[i].created \in Nat /\ t[j].created \in Nat
  BY ConstantsAssumption DEF ConstantsAssumption, Ids, Row
<1>2. CASE kind = "ListById"
  BY <1>2 DEF Precedes, Before
<1>3. CASE kind = "RecentPosts"
  <2>1. i < j => t[i].created <= t[j].created
    BY <1>3 DEF InOrder
  <2>2. j < i => t[j].created <= t[i].created
    BY <1>3 DEF InOrder
  <2>. DEFINE a == t[i].created
              b == t[j].created
  <2>. HIDE DEF a, b
  <2>3. (a > b \/ (a = b /\ i > j)) <=> i > j
    BY <1>1, <2>1, <2>2 DEF a, b
  <2>. QED
    BY <1>3, <2>3 DEF Precedes, Before, a, b
<1>. QED
  BY <1>2, <1>3 DEF PageKinds

\* A page that ends with i begins the next one after i; it begins no earlier.
LEMMA CursorLaws ==
    ASSUME NEW q \in ListQuery, q.kind \in PageKinds, NEW i \in Ids, NEW j \in Ids
    PROVE  /\ Beyond([q EXCEPT !.start = i], j) <=> Before(q.kind, i, j)
           /\ Beyond(q, i) /\ Before(q.kind, i, j) => Beyond(q, j)
           /\ ~Before(q.kind, i, j) /\ ~Before(q.kind, j, i) => i = j
<1>. DEFINE next == [q EXCEPT !.start = i]
<1>1. next.start = i /\ next.kind = q.kind
  BY DEF ListQuery
<1>2. i \in Nat \ {0} /\ j \in Nat \ {0} /\ q.start \in Nat
  BY ConstantsAssumption DEF ConstantsAssumption, Ids, ListQuery
<1>. HIDE DEF next
<1>3. Beyond(next, j) <=> Before(q.kind, i, j)
  BY <1>1, <1>2 DEF Beyond, Before, PageKinds
<1>4. /\ Beyond(q, i) /\ Before(q.kind, i, j) => Beyond(q, j)
      /\ ~Before(q.kind, i, j) /\ ~Before(q.kind, j, i) => i = j
  BY <1>2 DEF Beyond, Before, PageKinds
<1>. QED
  BY <1>3, <1>4 DEF next

\* A page of a table that has all that the walk must get.
LEMMA PageKeepsWalk ==
    ASSUME TypeOK, WalkInv, NEW c \in Clients, Paging(c), PagesOK(c),
           NEW p \in 1..Len(log), NEW page \in SUBSET Ids, IsPage(log[p], walk[c].query, page),
           \A id \in walk[c].must : id \in Matches(log[p], walk[c].query.keys),
           TakePage(c, Primary, page),
           UNCHANGED <<log, flushedAt>>, pc'[c] # "listCached"
    PROVE  PagesOK(c)'
<1>. DEFINE w == walk[c]
            q == walk[c].query
            t == log[p]
            full == Cardinality(page) < PageSize
<1>1. /\ w \in Walk /\ w # None /\ q \in ListQuery /\ q.kind \in PageKinds /\ q.start \in Nat
      /\ w.seen \in SUBSET Ids /\ w.must \in SUBSET Ids
  BY DEF TypeOK, Paging, Walk, ListQuery
<1>2. PICK last \in IF page = {} THEN {q.start} ELSE LastOf(Primary, q.kind, page) :
        walk'[c] = Advanced(w, last, page, full)
  BY <1>1, PageWalks
<1>. DEFINE next == [q EXCEPT !.start = last]
<1>3. /\ walk'[c].query = next /\ next.keys = q.keys /\ next.kind = q.kind
      /\ walk'[c].seen = w.seen \cup page /\ walk'[c].must = w.must
      /\ walk'[c].twice = w.twice \cup (w.seen \cap page) /\ walk'[c].done = full
  <2>1. next.kind = q.kind /\ next.keys = q.keys
    BY <1>1 DEF ListQuery
  <2>2. walk'[c] = [query |-> next, seen |-> w.seen \cup page,
                    twice |-> w.twice \cup (w.seen \cap page), must |-> w.must, done |-> full]
    BY <1>2 DEF Advanced
  <2>. HIDE DEF full, next
  <2>. QED
    BY <2>1, <2>2
<1>4. \A id \in walk'[c].must : \A k \in flushedAt'[NodeOf[c]]..Len(log') :
         id \in Matches(log'[k], walk'[c].query.keys)
  BY <1>3 DEF PagesOK
<1>5. Primary' = Primary
  BY DEF Primary
<1>6. ASSUME q.kind = "RecentPosts" => InOrder(Primary)
      PROVE  GotSoFar(walk'[c])
  <2>1. GotSoFar(w)
    BY <1>6 DEF PagesOK
  <2>2. t \in [Ids -> Row] /\ Primary \in [Ids -> Row] /\ RowsKept(t, Primary)
    BY PrimaryType DEF TypeOK, TableOK, WalkInv
  <2>3. q.kind = "RecentPosts" => InOrder(t)
    BY <1>6, <2>2, InOrderBefore
  <2>4. /\ page \subseteq Candidates(t, q) /\ Candidates(t, q) \subseteq Ids
        /\ \A id \in Candidates(t, q) : t[id].state # "unborn" /\ Primary[id].state # "unborn"
    <3>1. page \subseteq Candidates(t, q) /\ Candidates(t, q) \subseteq Ids
      BY DEF IsPage, Candidates, Matches, LiveIds
    <3>2. \A id \in Candidates(t, q) : t[id].state # "unborn"
      BY DEF Candidates, Matches, LiveIds
    <3>. QED
      BY <2>2, <3>1, <3>2 DEF RowsKept
  <2>5. \A i \in page, j \in Candidates(t, q) \ page : ~Before(q.kind, j, i)
    <3>1. \A i \in page, j \in Candidates(t, q) \ page : ~Precedes(t, q.kind, j, i)
      BY DEF IsPage
    <3>. QED
      BY <1>1, <2>2, <2>3, <2>4, <3>1, OrderOfIds
  <2>6. page # {} => last \in page /\ \A id \in page : ~Before(q.kind, last, id)
    <3>1. page # {} => last \in page /\ \A id \in page : ~Precedes(Primary, q.kind, last, id)
      BY <1>2 DEF LastOf
    <3>. QED
      BY <1>1, <1>6, <2>2, <2>4, <3>1, OrderOfIds
  <2>7. full => page = Candidates(t, q)
    BY ConstantsAssumption DEF IsPage, ConstantsAssumption
  <2>8. \A id \in page : Beyond(q, id)
    BY <2>4 DEF Candidates
  <2>9. \A id \in w.must : Beyond(q, id) => id \in Candidates(t, q)
    BY <1>1 DEF Candidates
  <2>10. CASE page = {}
    <3>1. next = q
      BY <1>1, <1>2, <2>10 DEF ListQuery
    <3>2. full => w.must \subseteq w.seen
      BY <2>1, <2>7, <2>9, <2>10 DEF GotSoFar
    <3>. HIDE DEF full, next
    <3>. QED
      BY <1>3, <2>1, <2>10, <3>1, <3>2 DEF GotSoFar
  <2>11. CASE page # {}
    <3>1. last \in page /\ last \in Ids
      BY <2>6, <2>11
    <3>2. \A j \in Ids : /\ Beyond(next, j) <=> Before(q.kind, last, j)
                         /\ Beyond(next, j) => Beyond(q, j)
                         /\ ~Before(q.kind, last, j) /\ ~Before(q.kind, j, last) => last = j
      BY <1>1, <2>8, <3>1, CursorLaws
    <3>. HIDE DEF full, next
    <3>3. walk'[c].twice = {}
      BY <1>3, <2>1, <2>8 DEF GotSoFar
    <3>4. \A id \in walk'[c].seen : ~Beyond(next, id)
      BY <1>1, <1>3, <2>1, <2>6, <2>11, <3>2 DEF GotSoFar
    <3>5. ASSUME NEW id \in w.must, ~Beyond(next, id)
          PROVE  id \in w.seen \cup page
      <4>1. CASE ~Beyond(q, id)
        BY <2>1, <4>1 DEF GotSoFar
      <4>2. CASE Beyond(q, id) /\ id \notin page
        <5>1. ~Before(q.kind, id, last) /\ ~Before(q.kind, last, id)
          BY <1>1, <2>5, <2>9, <3>1, <3>2, <3>5, <4>2
        <5>. QED
          BY <1>1, <3>1, <3>2, <4>2, <5>1
      <4>. QED
        BY <4>1, <4>2
    <3>6. full => w.must \subseteq w.seen \cup page
      BY <2>1, <2>7, <2>9 DEF GotSoFar
    <3>. QED
      BY <1>3, <3>3, <3>4, <3>5, <3>6 DEF GotSoFar
  <2>. QED
    BY <2>10, <2>11
<1>7. walk'[c].query.kind = q.kind
  BY <1>3
<1>8. GotSoFar(walk'[c]) <=> GotSoFar(walk[c])'
  BY DEF GotSoFar
<1>9. InOrder(Primary)' <=> InOrder(Primary)
  BY <1>5 DEF InOrder
<1>. HIDE DEF q
<1>. QED
  BY <1>4, <1>6, <1>7, <1>8, <1>9 DEF PagesOK
-----------------------------------------------------------------------------
(* Steps.                                                                     *)

\* What a step does with the rows there are.
RowsStep == /\ RowsKept(Primary, Primary')
            /\ \A p \in 1..Len(log') : RowsKept(log'[p], Primary')

LEMMA FlushedGrows ==
    ASSUME TypeOK, TypeOK', FreshInv, WalkInv, TimeStep, NEW n \in Nodes
    PROVE  /\ flushedAt[n] \in Nat \ {0} /\ flushedAt'[n] \in Nat
           /\ flushedAt[n] <= flushedAt'[n] /\ flushedAt'[n] > 0
<1>1. flushedAt[n] \in Nat /\ flushedAt[n] > 0 /\ flushedAt'[n] \in Nat
  BY DEF TypeOK, CachesOK, WalkInv
<1>2. Len(log) \in Nat /\ flushedAt[n] <= Len(log)
  BY PrimaryType DEF TypeOK, FreshInv
<1>3. CASE UNCHANGED flushedAt
  BY <1>1, <1>3
<1>4. ASSUME NEW m \in Nodes, BumpEpoch(m)
      PROVE  flushedAt'[n] \in {flushedAt[n], Len(log)}
  BY <1>4 DEF BumpEpoch, TypeOK, CachesOK
<1>. QED
  BY <1>1, <1>2, <1>3, <1>4 DEF TimeStep

\* A step of c, after which c is right, leaves the others right.
LEMMA WalkStep ==
    ASSUME TypeOK, TypeOK', FreshInv, WalkInv, TimeStep, EntriesOK', RowsStep, NEW c \in Clients,
           \A d \in Clients \ {c} : SameWalk(d) /\ pc'[d] = pc[d] /\ arg'[d] = arg[d],
           KeysOK(c)', PagesOK(c)'
    PROVE  WalkInv'
<1>1. ASSUME NEW d \in Clients \ {c}
      PROVE  KeysOK(d)' /\ PagesOK(d)'
  <2>1. KeysOK(d) /\ PagesOK(d) /\ EntriesOK
    BY DEF WalkInv
  <2>2. KeysOK(d)'
    BY <2>1, KeysStay
  <2>3. PagesOK(d)'
    BY <2>1, FlushedGrows, PagesStay, LocalType DEF RowsStep
  <2>. QED
    BY <2>2, <2>3
<1>. QED
  BY <1>1, FlushedGrows DEF WalkInv, RowsStep

\* A step of c that takes no page and begins no walk.
LEMMA PlainStep ==
    ASSUME TypeOK, TypeOK', FreshInv, WalkInv, TimeStep, EntriesOK', RowsStep, NEW c \in Clients,
           \A d \in Clients \ {c} : pc'[d] = pc[d] /\ arg'[d] = arg[d],
           \A d \in Clients : SameWalk(d),
           \/ pc'[c] = pc[c] /\ arg'[c] = arg[c]
           \/ pc'[c] \notin {"listByKeys", "listCached"}
    PROVE  WalkInv'
<1>1. KeysOK(c) /\ PagesOK(c) /\ EntriesOK
  BY DEF WalkInv
<1>2. KeysOK(c)'
  BY <1>1, KeysStay
<1>3. PagesOK(c)'
  BY <1>1, FlushedGrows, PagesStay, LocalType DEF RowsStep
<1>. QED
  BY <1>2, <1>3, WalkStep
-----------------------------------------------------------------------------
(* The actions.                                                               *)

\* An action of c moves no other client.
LEMMA ClientControl ==
    ASSUME TypeOK, NEW c \in Clients, Read(c) \/ Write(c) \/ Continue(c)
    PROVE  \A d \in Clients \ {c} : pc'[d] = pc[d] /\ arg'[d] = arg[d]
<1>1. ASSUME NEW label, NEW a, Goto(c, label, a)
      PROVE  \A d \in Clients \ {c} : pc'[d] = pc[d] /\ arg'[d] = arg[d]
  BY <1>1, GotoFrame DEF TypeOK
<1>2. CASE UNCHANGED <<pc, arg>>
  BY <1>2
<1>3. CASE Read(c)
  <2>1. ASSUME NEW id, GetByID(c, id)
        PROVE  UNCHANGED <<pc, arg>> \/ Goto(c, "getByID", [id |-> id])
    BY <2>1 DEF GetByID
  <2>2. ASSUME NEW kind, NEW keys, ListPage(c, kind, keys)
        PROVE  \E q : LookUp(c, q)
    BY <2>2 DEF ListPage
  <2>3. ASSUME NEW kind, NEW keys, ListValue(c, kind, keys)
        PROVE  \E q : LookUp(c, q)
    BY <2>3 DEF ListValue
  <2>4. ASSUME NEW keys, ListByKeys(c, keys)
        PROVE  Goto(c, "listByKeys", [keys |-> keys])
    BY <2>4 DEF ListByKeys
  <2>. QED
    BY <1>1, <1>2, <1>3, <2>1, <2>2, <2>3, <2>4, LookUpFrame DEF Read
<1>4. CASE Write(c)
  <2>1. ASSUME NEW s, Create(c, s) \/ CreateBulk(c, s)
        PROVE  \E label, a : Goto(c, label, a)
    BY <2>1 DEF Create, CreateBulk
  <2>. QED
    BY <1>1, <1>2, <1>4, <2>1 DEF Write, Update, UpdateMisses, Delete, DeleteExpired, DeleteRows
<1>5. CASE AccessCache(c)
  BY <1>2, <1>5 DEF AccessCache, FillCache, SetList, InvalidateCache, FlushListCache, FlushItems,
                    PublishFlushItem
<1>6. CASE \/ QueryByID(c) \/ QueryList(c) \/ QueryKeys(c) \/ ListFromCache(c)
           \/ InsertPost(c) \/ InsertChunk(c) \/ DatabaseError(c)
  <2>1. \E label, a : Goto(c, label, a)
    BY <1>6 DEF QueryByID, QueryList, QueryKeys, ListFromCache, InsertPost, InsertChunk,
                DatabaseError, Return
  <2>. QED
    BY <1>1, <2>1
<1>. QED
  BY <1>3, <1>4, <1>5, <1>6 DEF Continue

\* What begins a walk or takes a page of one.
WalkAction(c) == \/ \E kind \in PageKinds, keys \in SUBSET Stories : ListPage(c, kind, keys)
                 \/ \E keys \in KeyLists : ListByKeys(c, keys)
                 \/ ListFromCache(c) \/ QueryList(c) \/ QueryKeys(c)

\* Every other action leaves its own client's walk alone and ends at no look-up
\* of a list by id and at no list by keys.
LEMMA PlainAction ==
    ASSUME TypeOK, TypeOK', NEW c \in Clients, Read(c) \/ Write(c) \/ Continue(c), ~WalkAction(c)
    PROVE  /\ \A d \in Clients : SameWalk(d)
           /\ \/ pc'[c] = pc[c] /\ arg'[c] = arg[c]
              \/ pc'[c] \notin {"listByKeys", "listCached"}
<1>1. ASSUME UNCHANGED <<pc, arg>>
      PROVE  pc'[c] = pc[c] /\ arg'[c] = arg[c]
  BY <1>1
<1>2. ASSUME NEW label, NEW a, label \notin {"listByKeys", "listCached"}, Goto(c, label, a)
      PROVE  pc'[c] \notin {"listByKeys", "listCached"}
  BY <1>2, GotoFrame DEF TypeOK
<1>3. ASSUME UNCHANGED log /\ UNCHANGED walk
      PROVE  \A d \in Clients : SameWalk(d)
  BY <1>3 DEF SameWalk
<1>4. ASSUME NEW t, Commit(t)
      PROVE  \A d \in Clients : SameWalk(d)
  BY <1>4, CommitTable DEF SameWalk
<1>5. CASE Read(c)
  <2>1. ASSUME NEW id, GetByID(c, id)
        PROVE  /\ UNCHANGED log /\ UNCHANGED walk
               /\ UNCHANGED <<pc, arg>> \/ Goto(c, "getByID", [id |-> id])
    BY <2>1 DEF GetByID, dbVars
  <2>2. ASSUME NEW kind \in ValueKinds, NEW keys, ListValue(c, kind, keys)
        PROVE  /\ UNCHANGED log /\ UNCHANGED walk
               /\ \E q : q.kind = kind /\ LookUp(c, q)
    BY <2>2 DEF ListValue, dbVars
  <2>3. ASSUME NEW kind \in ValueKinds, NEW q, q.kind = kind, LookUp(c, q)
        PROVE  pc'[c] \notin {"listByKeys", "listCached"}
    <3>1. kind \notin PageKinds
      BY <2>3 DEF ValueKinds, PageKinds
    <3>. QED
      BY <2>3, <3>1, LookUpFrame
  <2>4. \/ \E id \in Ids : GetByID(c, id)
        \/ \E kind \in ValueKinds : \E keys : ListValue(c, kind, keys)
    <3>1. "ListById" \in PageKinds /\ "RecentPosts" \in PageKinds
      BY DEF PageKinds
    <3>2. Stories \in SUBSET Stories /\ \A s \in Stories : {s} \in SUBSET Stories
      OBVIOUS
    <3>3. /\ ~ListPage(c, "ListById", Stories)
          /\ \A s \in Stories : ~ListPage(c, "RecentPosts", {s})
          /\ \A keys \in KeyLists : ~ListByKeys(c, keys)
      BY <3>1, <3>2 DEF WalkAction
    <3>4. \/ \E id \in Ids : GetByID(c, id)
          \/ ListValue(c, "CountListById", Stories)
          \/ \E s \in Stories, kind \in {"CountRecentPosts", "GetStoryUidsByUser"} :
               ListValue(c, kind, {s})
      BY <1>5, <3>3 DEF Read
    <3>. QED
      BY <3>4 DEF ValueKinds
  <2>5. ASSUME NEW id, Goto(c, "getByID", [id |-> id])
        PROVE  pc'[c] \notin {"listByKeys", "listCached"}
    BY <1>2, <2>5
  <2>6. CASE \E id \in Ids : GetByID(c, id)
    BY <1>1, <1>3, <2>1, <2>5, <2>6
  <2>7. CASE \E kind \in ValueKinds : \E keys : ListValue(c, kind, keys)
    BY <1>3, <2>2, <2>3, <2>7
  <2>. QED
    BY <2>4, <2>6, <2>7
<1>6. CASE Write(c)
  <2>1. ASSUME NEW s, Create(c, s) \/ CreateBulk(c, s)
        PROVE  /\ UNCHANGED log /\ UNCHANGED walk
               /\ pc'[c] \notin {"listByKeys", "listCached"}
    <3>1. \E label \in {"create", "createBulk"} : \E a : Goto(c, label, a)
      BY <2>1 DEF Create, CreateBulk
    <3>. QED
      BY <1>2, <2>1, <3>1 DEF Create, CreateBulk, dbVars
  <2>2. CASE UpdateMisses(c)
    BY <1>1, <1>3, <2>2 DEF UpdateMisses, dbVars
  <2>3. ASSUME NEW s, Update(c, s)
        PROVE  (\E t : Commit(t)) /\ UNCHANGED <<pc, arg>>
    BY <2>3 DEF Update
  <2>4. ASSUME NEW ids, NEW tasks, DeleteRows(c, ids, tasks)
        PROVE  (\E t : Commit(t)) /\ UNCHANGED <<pc, arg>>
    BY <2>4 DEF DeleteRows
  <2>. QED
    BY <1>1, <1>3, <1>4, <1>6, <2>1, <2>2, <2>3, <2>4 DEF Write, Delete, DeleteExpired
<1>7. CASE AccessCache(c)
  BY <1>1, <1>3, <1>7 DEF AccessCache, FillCache, SetList, InvalidateCache, FlushListCache,
                          FlushItems, PublishFlushItem, dbVars
<1>8. CASE InsertPost(c) \/ InsertChunk(c)
  <2>1. (\E t : Commit(t)) /\ \E label \in {"idle", "createBulk"} : \E a : Goto(c, label, a)
    BY <1>8 DEF InsertPost, InsertChunk, Return
  <2>. QED
    BY <1>2, <1>4, <2>1
<1>9. CASE QueryByID(c) \/ DatabaseError(c)
  <2>1. UNCHANGED log /\ UNCHANGED walk /\ Goto(c, "idle", None)
    BY <1>9 DEF QueryByID, DatabaseError, dbVars, Return
  <2>. QED
    BY <1>2, <1>3, <2>1
<1>. QED
  BY <1>5, <1>6, <1>7, <1>8, <1>9 DEF Continue, WalkAction

LEMMA LogOfStep ==
    ASSUME TypeOK, TypeOK', [Next]_vars
    PROVE  LogStep
<1>1. ASSUME NEW c \in Clients, Read(c) \/ Write(c) \/ Continue(c)
      PROVE  LogStep
  <2>1. CASE UNCHANGED <<log, clock>>
    BY <2>1 DEF LogStep
  <2>2. ASSUME NEW t, Commit(t)
        PROVE  LogStep
    BY <2>2, CommitTable DEF LogStep, Commit
  <2>. QED
    BY <1>1, <2>1, <2>2, ClientTable
<1>2. ASSUME \/ \E m \in msgs : Deliver(m) \/ LoseMessage(m)
             \/ \E n \in Nodes : Expire(n)
             \/ Tick \/ UNCHANGED vars
      PROVE  UNCHANGED log
  BY <1>2 DEF Deliver, OnCacheInvalidated, OnBumpEpoch, OnCacheFlushItem, LoseMessage, Expire,
              ExpireLists, ExpireItem, Tick, vars, dbVars
<1>. QED
  BY <1>1, <1>2 DEF Next, LogStep

\* Statements keep the rows there are: new ones get ids that nobody had.
LEMMA RowsOfWrite ==
    ASSUME TypeOK
    PROVE  /\ \A ids : RowsKept(Primary, [id \in Ids |-> IF id \in ids THEN DeletedRow(Primary[id])
                                                                       ELSE Primary[id]])
           /\ \A id \in LiveIds(Primary) : \A s :
                RowsKept(Primary, [Primary EXCEPT ![id] = Touched(@, s)])
           /\ \A first \in Ids : \A stories, second :
                IsNextId(Primary, first) => RowsKept(Primary, WithNew(first, stories, second))
<1>1. Primary \in [Ids -> Row]
  BY PrimaryType DEF TypeOK
<1>2. \A ids : RowsKept(Primary, [id \in Ids |-> IF id \in ids THEN DeletedRow(Primary[id])
                                                              ELSE Primary[id]])
  BY DEF RowsKept, DeletedRow
<1>3. \A id \in LiveIds(Primary) : \A s : RowsKept(Primary, [Primary EXCEPT ![id] = Touched(@, s)])
  BY <1>1 DEF RowsKept, LiveIds, Touched
<1>4. ASSUME NEW first \in Ids, NEW stories, NEW second, IsNextId(Primary, first)
      PROVE  RowsKept(Primary, WithNew(first, stories, second))
  <2>1. ASSUME NEW id \in Ids, Primary[id].state # "unborn"
        PROVE  id \notin first..(first + Len(stories) - 1)
    BY <1>4, <2>1 DEF IsNextId
  <2>2. ASSUME NEW id \in Ids, Primary[id].state # "unborn"
        PROVE  WithNew(first, stories, second)[id] = Primary[id]
    BY <2>1, <2>2 DEF WithNew
  <2>. QED
    BY <2>2 DEF RowsKept
<1>. QED
  BY <1>2, <1>3, <1>4

LEMMA RowsOfStep ==
    ASSUME TypeOK, TypeOK', WalkInv, [Next]_vars
    PROVE  RowsStep
<1>1. ASSUME UNCHANGED log
      PROVE  RowsKept(Primary, Primary')
  BY <1>1 DEF RowsKept, Primary
<1>2. ASSUME NEW t, Commit(t), RowsKept(Primary, t)
      PROVE  RowsKept(Primary, Primary')
  BY <1>2, CommitTable, CommitLog
<1>3. ASSUME NEW c \in Clients, NEW ids, NEW tasks, DeleteRows(c, ids, tasks)
      PROVE  RowsKept(Primary, Primary')
  BY <1>2, <1>3, RowsOfWrite DEF DeleteRows
<1>4. ASSUME NEW c \in Clients, NEW s \in Stories, Update(c, s)
      PROVE  RowsKept(Primary, Primary')
  <2>. DEFINE e == [id |-> held[c].id, ver |-> held[c].ver, story |-> s]
  <2>1. e.id \in LiveIds(Primary) /\ Commit([Primary EXCEPT ![e.id] = Touched(@, s)])
    BY <1>4 DEF Update, VersionMatches
  <2>2. RowsKept(Primary, [Primary EXCEPT ![e.id] = Touched(@, s)])
    BY <2>1, RowsOfWrite
  <2>. QED
    BY <1>2, <2>1, <2>2
<1>5. ASSUME NEW c \in Clients, InsertPost(c) \/ InsertChunk(c)
      PROVE  RowsKept(Primary, Primary')
  <2>1. \E first \in Ids : \E stories, second :
          IsNextId(Primary, first) /\ Commit(WithNew(first, stories, second))
    BY <1>5 DEF InsertPost, InsertChunk
  <2>. QED
    BY <1>2, <2>1, RowsOfWrite
<1>6. ASSUME NEW c \in Clients, Read(c) \/ Write(c) \/ Continue(c)
      PROVE  RowsKept(Primary, Primary')
  <2>1. CASE UNCHANGED log
    BY <1>1, <2>1
  <2>2. CASE log' # log
    <3>1. ~Read(c)
      BY <2>2 DEF Read, GetByID, ListPage, ListValue, ListByKeys, dbVars
    <3>2. CASE Write(c)
      BY <1>3, <1>4, <2>2, <3>2 DEF Write, Create, CreateBulk, UpdateMisses, Delete, DeleteExpired,
                                   dbVars
    <3>3. CASE Continue(c)
      BY <1>5, <2>2, <3>3 DEF Continue, QueryByID, ListFromCache, QueryList, QueryKeys, AccessCache,
            FillCache, SetList, InvalidateCache, FlushListCache, FlushItems, PublishFlushItem,
            DatabaseError, dbVars
    <3>. QED
      BY <1>6, <3>1, <3>2, <3>3
  <2>. QED
    BY <2>1, <2>2
<1>7. RowsKept(Primary, Primary')
  <2>1. ASSUME \/ \E m \in msgs : Deliver(m) \/ LoseMessage(m)
               \/ \E n \in Nodes : Expire(n)
               \/ Tick \/ UNCHANGED vars
        PROVE  UNCHANGED log
    BY <2>1 DEF Deliver, OnCacheInvalidated, OnBumpEpoch, OnCacheFlushItem, LoseMessage, Expire,
                ExpireLists, ExpireItem, Tick, vars, dbVars
  <2>. QED
    BY <1>1, <1>6, <2>1 DEF Next
<1>8. ASSUME NEW p \in 1..Len(log')
      PROVE  RowsKept(log'[p], Primary')
  <2>1. CASE p = Len(log')
    BY <2>1 DEF RowsKept, Primary
  <2>2. CASE p # Len(log')
    <3>1. p \in 1..Len(log) /\ log'[p] = log[p]
      <4>1. LogStep
        BY LogOfStep
      <4>2. CASE UNCHANGED log
        BY <4>2
      <4>3. ASSUME NEW t \in [Ids -> Row], log' = Append(log, t)
            PROVE  p \in 1..Len(log) /\ log'[p] = log[p]
        <5>1. log \in Seq([Ids -> Row]) /\ Len(log) \in Nat /\ Len(log') = Len(log) + 1
          BY <4>3, PrimaryType, AppendProperties DEF TypeOK, TableOK
        <5>2. p \in 1..Len(log)
          BY <2>2, <5>1
        <5>. QED
          BY <4>1, <5>2, LogGrows
      <4>. QED
        BY <4>1, <4>2, <4>3 DEF LogStep
    <3>2. RowsKept(log[p], Primary)
      BY <3>1 DEF WalkInv
    <3>. QED
      BY <1>7, <3>1, <3>2 DEF RowsKept
  <2>. QED
    BY <2>1, <2>2
<1>. QED
  BY <1>7, <1>8 DEF RowsStep

\* Every list that is cached is an answer of the table it was read from.
LEMMA EntriesOfStep ==
    ASSUME TypeOK, TypeOK', EntriesOK, [Next]_vars
    PROVE  EntriesOK'
<1>1. ASSUME NEW c \in Clients, NEW l \in PendingOf(todo'[c])
      PROVE  l \in PendingOf(todo[c]) \/ (UNCHANGED log /\ EntryOK(l))
  <2>1. ASSUME NEW ids \in SUBSET Ids, IsAnswer(Primary, arg[c].query, ids), l = NewEntry(c, ids)
        PROVE  EntryOK(l)
    <3>1. l.asOf = Len(log) /\ l.query = arg[c].query /\ l.ids = ids
      BY <2>1 DEF NewEntry
    <3>2. Len(log) \in 1..Len(log)
      BY PrimaryType DEF TypeOK
    <3>. QED
      BY <2>1, <3>1, <3>2 DEF EntryOK, IsAnswer, PageKinds, Primary
  <2>. QED
    BY <1>1, <2>1, PendingOfStep
<1>2. ASSUME NEW c \in Clients, pc'[c] = "listCached"
      PROVE  \/ pc[c] = "listCached" /\ arg'[c] = arg[c]
             \/ arg'[c] \in lists[NodeOf[c]]
  BY <1>2, ArgsOfStep DEF ArgsStep
<1>. QED
  BY <1>1, <1>2, ListsOfStep, LogOfStep, EntriesStep

\* A look-up finds a list that was read after the last flush.
LEMMA LookUpSettled ==
    ASSUME TypeOK, FreshInv, EntriesOK, NEW c \in Clients, NEW q, LookUp(c, q)
    PROVE  pc'[c] = "listCached" => arg'[c].asOf \in flushedAt[NodeOf[c]]..Len(log)
<1>1. ASSUME NEW l \in CachedLists(NodeOf[c], q), Goto(c, "listCached", l)
      PROVE  arg'[c].asOf \in flushedAt[NodeOf[c]]..Len(log)
  <2>1. l \in lists[NodeOf[c]] /\ l.epoch = epoch[NodeOf[c]]
    BY DEF CachedLists
  <2>2. flushedAt[NodeOf[c]] \in Nat /\ l.asOf \in 1..Len(log) /\ l.asOf >= flushedAt[NodeOf[c]]
    BY <2>1, LocalType DEF FreshInv, Safe, EntriesOK, EntryOK, TypeOK, CachesOK
  <2>3. arg'[c] = l
    BY <1>1, GotoFrame DEF TypeOK
  <2>. QED
    BY <2>2, <2>3
<1>2. CASE Goto(c, "list", [query |-> q, epoch |-> epoch[NodeOf[c]]])
  BY <1>2, GotoFrame DEF TypeOK
<1>. QED
  BY <1>1, <1>2 DEF LookUp

LEMMA WalkListPage ==
    ASSUME TypeOK, FreshInv, WalkInv, NEW c \in Clients, NEW kind \in PageKinds,
           NEW keys \in SUBSET Stories, ListPage(c, kind, keys)
    PROVE  /\ KeysOK(c)' /\ PagesOK(c)'
           /\ \A d \in Clients \ {c} : SameWalk(d)
<1>. DEFINE n == NodeOf[c]
<1>1. UNCHANGED log /\ UNCHANGED flushedAt /\ EntriesOK /\ PagesOK(c) /\ KeysOK(c)
  BY DEF ListPage, dbVars, cacheVars, WalkInv
<1>2. CASE IsWalking(c, kind, keys) /\ LookUp(c, walk[c].query) /\ UNCHANGED walk
  <2>1. KeysOK(c)'
    BY <1>2 DEF IsWalking, KeysOK, Walking, PageKinds
  <2>2. PagesOK(c)'
    <3>1. pc'[c] = "listCached" => arg'[c].asOf \in flushedAt[n]..Len(log)
      BY <1>1, <1>2, LookUpSettled
    <3>2. Primary' = Primary
      BY <1>1 DEF Primary
    <3>3. Paging(c)
      BY <1>2 DEF IsWalking, Paging
    <3>. QED
      BY <1>1, <1>2, <3>1, <3>2, <3>3 DEF PagesOK, Paging, GotSoFar, InOrder
  <2>. QED
    BY <1>1, <1>2, <2>1, <2>2 DEF SameWalk
<1>. DEFINE q == [kind |-> kind, keys |-> keys, start |-> 0]
            must == SettledMatches(n, keys)
<1>3. CASE LookUp(c, q) /\ BeginWalk(c, q, must)
  <2>1. q \in ListQuery /\ q.kind = kind /\ q.keys = keys /\ q.start = 0 /\ must \in SUBSET Ids
    BY QueryTypes DEF ListKinds, SettledMatches
  <2>2. pc'[c] = "listCached" => arg'[c].asOf \in flushedAt[n]..Len(log)
    BY <1>1, <1>3, LookUpSettled
  <2>3. \A id \in must : id \in Nat /\ id > 0 /\ \A p \in flushedAt[n]..Len(log) :
          id \in Matches(log[p], keys)
    BY ConstantsAssumption DEF ConstantsAssumption, SettledMatches, Ids
  <2>. HIDE DEF q, must
  <2>4. /\ \A d \in Clients \ {c} : walk'[d] = walk[d]
        /\ walk'[c].query = q /\ walk'[c].must = must /\ walk'[c].seen = {}
        /\ walk'[c].twice = {} /\ walk'[c].done = FALSE
    <3>1. /\ \A d \in Clients \ {c} : walk'[d] = walk[d]
          /\ walk'[c] = [query |-> q, seen |-> {}, twice |-> {}, must |-> must, done |-> FALSE]
      BY <1>3, <2>1, BeginWalks
    <3>. QED
      BY <3>1
  <2>5. KeysOK(c)'
    BY <2>1, <2>4 DEF KeysOK, Walking, PageKinds
  <2>6. PagesOK(c)'
    <3>1. GotSoFar(walk[c])'
      BY <2>1, <2>4 DEF GotSoFar, Beyond
    <3>. QED
      BY <1>1, <2>1, <2>2, <2>3, <2>4, <3>1 DEF PagesOK
  <2>. QED
    BY <1>1, <2>4, <2>5, <2>6 DEF SameWalk
<1>. QED
  BY <1>2, <1>3 DEF ListPage

LEMMA WalkListByKeys ==
    ASSUME TypeOK, TypeOK', NEW c \in Clients, NEW keys \in KeyLists, ListByKeys(c, keys)
    PROVE  /\ KeysOK(c)' /\ PagesOK(c)'
           /\ \A d \in Clients \ {c} : SameWalk(d)
<1>. DEFINE q == [kind |-> "ListByKeys", keys |-> RangeOf(keys), start |-> 0]
            must == Matches(Primary, RangeOf(keys))
<1>1. /\ q \in ListQuery /\ q.kind = "ListByKeys" /\ q.keys = RangeOf(keys)
      /\ must \in SUBSET Ids /\ Distinct(keys)
  BY KeyListsType, MatchesType DEF ListQuery, Distinct
<1>2. /\ UNCHANGED log /\ BeginWalk(c, q, must)
      /\ Goto(c, "listByKeys", [keys |-> keys])
  BY DEF ListByKeys, dbVars
<1>3. arg'[c].keys = keys
  BY <1>2, GotoFrame DEF TypeOK
<1>4. \A id \in must : id \in LiveIds(Primary) /\ Primary[id].story \in RangeOf(keys)
  BY DEF Matches
<1>5. Primary' = Primary
  BY <1>2 DEF Primary
<1>. HIDE DEF q, must
<1>6. /\ \A d \in Clients \ {c} : walk'[d] = walk[d]
      /\ walk'[c].query = q /\ walk'[c].must = must /\ walk'[c].seen = {}
      /\ walk'[c].twice = {} /\ walk'[c].done = FALSE
  <2>1. /\ \A d \in Clients \ {c} : walk'[d] = walk[d]
        /\ walk'[c] = [query |-> q, seen |-> {}, twice |-> {}, must |-> must, done |-> FALSE]
    BY <1>1, <1>2, BeginWalks
  <2>. QED
    BY <2>1
<1>7. KeysOK(c)'
  <2>1. ReturnsEachOnce(walk[c])'
    BY <1>6 DEF ReturnsEachOnce
  <2>2. \A id \in walk'[c].must :
          /\ id \in LiveIds(Primary')
          /\ Primary'[id].story \in RangeOf(arg'[c].keys) <=> id \notin walk'[c].seen
    BY <1>3, <1>4, <1>5, <1>6
  <2>3. Distinct(arg'[c].keys)
    BY <1>1, <1>3
  <2>. QED
    BY <2>1, <2>2, <2>3 DEF KeysOK
<1>8. PagesOK(c)'
  BY <1>1, <1>6 DEF PagesOK, Paging, PageKinds
<1>. QED
  BY <1>2, <1>6, <1>7, <1>8 DEF SameWalk

\* A page, cached or read: the walk is one of the page's kind.
LEMMA WalkPage ==
    ASSUME TypeOK, TypeOK', WalksOK, WalkInv, NEW c \in Clients, OnPage(c),
           NEW page \in SUBSET Ids, NEW p \in 1..Len(log), TakePage(c, Primary, page), Return(c),
           UNCHANGED <<log, flushedAt>>,
           IsPage(log[p], arg[c].query, page),
           \A id \in walk[c].must : id \in Matches(log[p], arg[c].query.keys)
    PROVE  /\ KeysOK(c)' /\ PagesOK(c)'
           /\ \A d \in Clients \ {c} : SameWalk(d)
<1>1. walk[c] # None /\ walk[c] \in Walk /\ walk[c].query = arg[c].query
  BY LocalType DEF WalksOK
<1>2. pc'[c] = "idle"
  BY GotoFrame DEF Return, TypeOK
<1>3. /\ \A d \in Clients \ {c} : walk'[d] = walk[d]
      /\ walk'[c].query.kind = arg[c].query.kind
  <2>1. PICK last : /\ \A d \in Clients \ {c} : walk'[d] = walk[d]
                    /\ walk'[c] = Advanced(walk[c], last, page, Cardinality(page) < PageSize)
    BY <1>1, PageWalks
  <2>. DEFINE next == [walk[c].query EXCEPT !.start = last]
  <2>2. walk'[c].query = next
    BY <2>1 DEF Advanced
  <2>3. next.kind = walk[c].query.kind
    BY <1>1 DEF Walk, ListQuery
  <2>. HIDE DEF next
  <2>. QED
    BY <1>1, <2>1, <2>2, <2>3
<1>4. KeysOK(c)'
  BY <1>3 DEF KeysOK, Walking, OnPage, PageKinds
<1>5. Paging(c) /\ PagesOK(c)
  BY <1>1 DEF Paging, WalkInv, OnPage
<1>6. PagesOK(c)'
  BY <1>1, <1>2, <1>5, PageKeepsWalk
<1>. QED
  BY <1>3, <1>4, <1>6 DEF SameWalk

LEMMA WalkListFromCache ==
    ASSUME TypeOK, TypeOK', WalksOK, FreshInv, WalkInv, NEW c \in Clients, ListFromCache(c)
    PROVE  /\ KeysOK(c)' /\ PagesOK(c)'
           /\ \A d \in Clients \ {c} : SameWalk(d)
<1>1. /\ pc[c] = "listCached" /\ arg[c] \in ListEntry /\ OnPage(c)
      /\ walk[c] # None /\ walk[c].query = arg[c].query
  BY LocalType DEF ListFromCache, At, ArgFits, OnPage, WalksOK
<1>2. UNCHANGED <<log, flushedAt>> /\ EntriesOK /\ KeysOK(c) /\ PagesOK(c)
  BY DEF ListFromCache, dbVars, cacheVars, WalkInv
<1>3. CASE TakePage(c, Primary, arg[c].ids) /\ Return(c)
  <2>. DEFINE p == arg[c].asOf
              page == arg[c].ids
  <2>1. page \in SUBSET Ids /\ arg[c].query.kind \in PageKinds
    BY <1>1 DEF ListEntry, OnPage
  <2>2. /\ p \in 1..Len(log) /\ IsPage(log[p], arg[c].query, page)
        /\ \A id \in walk[c].must : id \in Matches(log[p], arg[c].query.keys)
    BY <1>1, <1>2, <2>1 DEF EntriesOK, EntryOK, PagesOK, Paging
  <2>3. TakePage(c, Primary, page)
    BY <1>3
  <2>. HIDE DEF p, page
  <2>. QED
    BY <1>1, <1>2, <1>3, <2>1, <2>2, <2>3, WalkPage
<1>4. CASE Goto(c, "list", [query |-> arg[c].query, epoch |-> arg[c].epoch]) /\ UNCHANGED walk
  <2>1. pc'[c] = "list" /\ \A d \in Clients : SameWalk(d)
    BY <1>2, <1>4, GotoFrame DEF SameWalk, TypeOK
  <2>2. KeysOK(c)'
    BY <1>2, <2>1, KeysStay
  <2>3. PagesOK(c)'
    BY <1>2, <1>4, <2>1 DEF PagesOK, Paging, GotSoFar, InOrder, Primary
  <2>. QED
    BY <2>1, <2>2, <2>3
<1>. QED
  BY <1>3, <1>4 DEF ListFromCache

LEMMA WalkQueryList ==
    ASSUME TypeOK, TypeOK', WalksOK, FreshInv, WalkInv, NEW c \in Clients, QueryList(c)
    PROVE  /\ KeysOK(c)' /\ PagesOK(c)'
           /\ \A d \in Clients \ {c} : SameWalk(d)
<1>1. pc[c] = "list" /\ UNCHANGED <<log, flushedAt>> /\ Return(c) /\ KeysOK(c) /\ PagesOK(c)
  BY DEF QueryList, At, dbVars, cacheVars, WalkInv
<1>2. PICK ids \in SUBSET Ids :
        /\ IsAnswer(Primary, arg[c].query, ids)
        /\ \/ arg[c].query.kind \in PageKinds /\ TakePage(c, Primary, ids)
           \/ arg[c].query.kind \notin PageKinds /\ UNCHANGED walk
  BY DEF QueryList
<1>3. CASE arg[c].query.kind \in PageKinds /\ TakePage(c, Primary, ids)
  <2>1. OnPage(c) /\ walk[c] # None /\ walk[c].query = arg[c].query
    BY <1>1, <1>3 DEF OnPage, WalksOK
  <2>2. Len(log) \in flushedAt[NodeOf[c]]..Len(log)
    <3>1. flushedAt[NodeOf[c]] \in Nat /\ flushedAt[NodeOf[c]] <= Len(log) /\ Len(log) \in Nat
      BY LocalType, PrimaryType DEF FreshInv, TypeOK, CachesOK
    <3>. QED
      BY <3>1
  <2>. DEFINE p == Len(log)
  <2>3. /\ p \in 1..Len(log) /\ IsPage(log[p], arg[c].query, ids)
        /\ \A id \in walk[c].must : id \in Matches(log[p], arg[c].query.keys)
    <3>1. Len(log) \in 1..Len(log)
      BY PrimaryType DEF TypeOK
    <3>2. IsPage(log[p], arg[c].query, ids)
      BY <1>2, <1>3 DEF IsAnswer, Primary
    <3>3. \A id \in walk[c].must : id \in Matches(log[p], arg[c].query.keys)
      BY <1>1, <1>3, <2>1, <2>2 DEF PagesOK, Paging
    <3>. QED
      BY <3>1, <3>2, <3>3
  <2>. HIDE DEF p
  <2>. QED
    BY <1>1, <1>3, <2>1, <2>3, WalkPage
<1>4. CASE UNCHANGED walk
  <2>1. pc'[c] = "idle" /\ \A d \in Clients : SameWalk(d)
    BY <1>1, <1>4, GotoFrame DEF SameWalk, Return, TypeOK
  <2>2. KeysOK(c)'
    BY <1>1, <2>1, KeysStay
  <2>3. PagesOK(c)'
    BY <1>1, <1>4, <2>1 DEF PagesOK, Paging, GotSoFar, InOrder, Primary
  <2>. QED
    BY <2>1, <2>2, <2>3
<1>. QED
  BY <1>2, <1>3, <1>4

LEMMA WalkQueryKeys ==
    ASSUME TypeOK, TypeOK', WalksOK, WalkInv, NEW c \in Clients, QueryKeys(c)
    PROVE  /\ KeysOK(c)' /\ PagesOK(c)'
           /\ \A d \in Clients \ {c} : SameWalk(d)
<1>. DEFINE w     == walk[c]
            keys  == arg[c].keys
            chunk == ChunkOf(keys)
            rest  == RestOf(keys)
            found == Matches(Primary, RangeOf(chunk))
            last  == rest = << >>
            next  == [w.query EXCEPT !.start = 0]
<1>1. /\ pc[c] = "listByKeys" /\ keys \in Seq(Stories) /\ UNCHANGED log
      /\ w \in Walk /\ w.query.kind = "ListByKeys" /\ Walking(c, "ListByKeys")
  BY LocalType DEF QueryKeys, At, ArgFits, WalksOK, Walking, dbVars
<1>2. /\ walk' = [walk EXCEPT ![c] = Advanced(@, 0, found, last)]
      /\ \/ last /\ Return(c)
         \/ ~last /\ Goto(c, "listByKeys", [keys |-> rest])
  BY DEF QueryKeys
<1>3. next.kind = "ListByKeys"
  BY <1>1 DEF Walk, ListQuery
<1>4. /\ \A d \in Clients \ {c} : walk'[d] = walk[d]
      /\ walk'[c] = [query |-> next, seen |-> w.seen \cup found,
                     twice |-> w.twice \cup (w.seen \cap found), must |-> w.must, done |-> last]
  BY <1>2 DEF Advanced, TypeOK
<1>5. /\ walk'[c].query.kind = "ListByKeys" /\ walk'[c].seen = w.seen \cup found
      /\ walk'[c].twice = w.twice \cup (w.seen \cap found)
      /\ walk'[c].must = w.must /\ (walk'[c].done <=> last)
  <2>. HIDE DEF next, found, last
  <2>. QED
    BY <1>3, <1>4
<1>6. /\ w.must \cap w.twice = {} /\ Distinct(keys)
      /\ \A id \in w.must : /\ id \in LiveIds(Primary)
                            /\ Primary[id].story \in RangeOf(keys) <=> id \notin w.seen
  BY <1>1 DEF WalkInv, KeysOK, ReturnsEachOnce
<1>7. /\ RangeOf(keys) = RangeOf(chunk) \cup RangeOf(rest)
      /\ RangeOf(chunk) \cap RangeOf(rest) = {} /\ Distinct(rest)
  BY <1>1, <1>6, ChunkParts
<1>8. \A id \in w.must : id \in found <=> Primary[id].story \in RangeOf(chunk)
  BY <1>6 DEF Matches
<1>9. last => RangeOf(rest) = {}
  BY DEF RangeOf
<1>. HIDE DEF found, last, next, chunk, rest
<1>10. \A id \in w.must : Primary[id].story \in RangeOf(rest) <=> id \notin w.seen \cup found
  BY <1>6, <1>7, <1>8
<1>11. ReturnsEachOnce(walk[c])'
  BY <1>5, <1>6, <1>7, <1>8, <1>9, <1>10 DEF ReturnsEachOnce
<1>12. Primary' = Primary
  BY <1>1 DEF Primary
<1>13. pc'[c] = "listByKeys" => arg'[c].keys = rest
  BY <1>2, GotoFrame DEF Return, TypeOK
<1>14. KeysOK(c)'
  <2>1. ASSUME pc'[c] = "listByKeys"
        PROVE  /\ Distinct(arg'[c].keys)
               /\ \A id \in walk'[c].must :
                    /\ id \in LiveIds(Primary')
                    /\ Primary'[id].story \in RangeOf(arg'[c].keys) <=> id \notin walk'[c].seen
    BY <1>5, <1>6, <1>7, <1>10, <1>12, <1>13, <2>1
  <2>. QED
    BY <1>11, <2>1 DEF KeysOK
<1>15. PagesOK(c)'
  BY <1>5 DEF PagesOK, Paging, PageKinds
<1>. QED
  BY <1>1, <1>4, <1>14, <1>15 DEF SameWalk
-----------------------------------------------------------------------------
(* The invariant holds, and the properties with it.                           *)

LEMMA WalkInit ==
    ASSUME Init
    PROVE  WalkInv
<1>1. /\ \A n \in Nodes : lists[n] = {} /\ flushedAt[n] = 1
      /\ \A c \in Clients : todo[c] = << >> /\ pc[c] = "idle" /\ walk[c] = None
  BY DEF Init
<1>2. \A p \in 1..Len(log) : RowsKept(log[p], Primary)
  <2>1. Len(log) = 1
    BY DEF Init
  <2>2. \A p \in 1..Len(log) : log[p] = Primary
    BY <2>1 DEF Primary
  <2>. QED
    BY <2>2 DEF RowsKept
<1>. QED
  BY <1>1, <1>2, PendingLaws DEF WalkInv, EntriesOK, KeysOK, PagesOK, Walking, Paging

LEMMA WalkNext ==
    ASSUME TypeOK, TypeOK', WalksOK, FreshInv, WalkInv, [Next]_vars
    PROVE  WalkInv'
<1>1. EntriesOK' /\ TimeStep /\ RowsStep
  BY EntriesOfStep, TimeOfStep, RowsOfStep DEF WalkInv
<1>2. ASSUME NEW c \in Clients, Read(c) \/ Write(c) \/ Continue(c)
      PROVE  WalkInv'
  <2>1. \A d \in Clients \ {c} : pc'[d] = pc[d] /\ arg'[d] = arg[d]
    BY <1>2, ClientControl
  <2>2. CASE WalkAction(c)
    <3>1. /\ KeysOK(c)' /\ PagesOK(c)'
          /\ \A d \in Clients \ {c} : SameWalk(d)
      BY <2>2, WalkListPage, WalkListByKeys, WalkListFromCache, WalkQueryList, WalkQueryKeys
         DEF WalkAction
    <3>. QED
      BY <1>1, <2>1, <3>1, WalkStep
  <2>3. CASE ~WalkAction(c)
    BY <1>1, <1>2, <2>1, <2>3, PlainAction, PlainStep
  <2>. QED
    BY <2>2, <2>3
<1>3. ASSUME \/ \E m \in msgs : Deliver(m) \/ LoseMessage(m)
             \/ \E n \in Nodes : Expire(n)
             \/ Tick \/ UNCHANGED vars
      PROVE  WalkInv'
  <2>1. UNCHANGED log /\ UNCHANGED walk /\ UNCHANGED <<pc, arg>>
    BY <1>3 DEF Deliver, OnCacheInvalidated, OnBumpEpoch, OnCacheFlushItem, LoseMessage, Expire,
                ExpireLists, ExpireItem, Tick, vars, dbVars, clientVars
  <2>2. ASSUME NEW c \in Clients
        PROVE  KeysOK(c)' /\ PagesOK(c)'
    <3>1. KeysOK(c) /\ PagesOK(c) /\ EntriesOK /\ SameWalk(c)
      BY <2>1 DEF WalkInv, SameWalk
    <3>2. KeysOK(c)'
      BY <2>1, <3>1, KeysStay
    <3>3. PagesOK(c)'
      BY <1>1, <2>1, <3>1, FlushedGrows, PagesStay, LocalType DEF RowsStep
    <3>. QED
      BY <3>2, <3>3
  <2>. QED
    BY <1>1, <2>2, FlushedGrows DEF WalkInv, RowsStep
<1>. QED
  BY <1>2, <1>3 DEF Next

LEMMA Walks == Spec => []WalkInv
<1>1. Init => WalkInv
  BY WalkInit
<1>2. TypeOK /\ TypeOK' /\ WalksOK /\ FreshInv /\ WalkInv /\ [Next]_vars => WalkInv'
  BY WalkNext
<1>. QED
  BY <1>1, <1>2, Typed, Fresh, PTL DEF Spec

\* A caller that walks through ListById up to a page that is not full gets every
\* row that was there all the time exactly once, whatever others write and
\* whichever of its pages come from a cache.
THEOREM ListByIdComplete == Spec => []ListByIdReturnsAll
<1>1. WalkInv => ListByIdReturnsAll
  BY DEF WalkInv, PagesOK, Paging, GotSoFar, PageKinds, ListByIdReturnsAll, Walking,
         ReturnsEachOnce
<1>. QED
  BY <1>1, Walks, PTL

\* A list by keys gets every row that had the same one of them all the time
\* exactly once, for every size of the chunks.
THEOREM ListByKeysComplete == Spec => []ListByKeysReturnsAll
<1>1. WalkInv => ListByKeysReturnsAll
  BY DEF WalkInv, KeysOK, ListByKeysReturnsAll
<1>. QED
  BY <1>1, Walks, PTL

\* The same for RecentPosts, as long as the rows were stamped in the order of their
\* ids: its pages are cut by id and ordered by created (recentPosts).
THEOREM RecentPostsComplete == Spec => []RecentPostsReturnsAll
<1>1. WalkInv => RecentPostsReturnsAll
  <2>. SUFFICES ASSUME WalkInv, NEW c \in Clients, Walking(c, "RecentPosts"), CreatedFollowsId
                PROVE  ReturnsEachOnce(walk[c])
    BY DEF RecentPostsReturnsAll
  <2>1. InOrder(Primary)
    BY DEF CreatedFollowsId, InOrder
  <2>. QED
    BY <2>1 DEF WalkInv, PagesOK, Paging, GotSoFar, PageKinds, Walking, ReturnsEachOnce
<1>. QED
  BY <1>1, Walks, PTL
=============================================================================

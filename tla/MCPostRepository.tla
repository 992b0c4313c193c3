-------------------------- MODULE MCPostRepository --------------------------
(* Small instances of PostRepository for TLC.                                *)
EXTENDS PostRepository, TLC

CONSTANTS n1, n2, reader, writer

SameNode == [c \in Clients |-> n1]

\* What each of the two goroutines calls.
ReaderOps == ListKinds \cup {"ListByKeys"}
WriterOps == {"Create", "CreateBulk", "Update", "Delete", "DeleteExpired", "GetByID"}
OpsOf == [c \in Clients |-> IF c = reader THEN ReaderOps ELSE WriterOps]

SeedOne == << 1 >>

KeysInUse == {[l.query EXCEPT !.start = 0] : l \in UNION {lists[n] : n \in Nodes}}
               \cup {[walk[c].query EXCEPT !.start = 0] : c \in {d \in Clients : walk[d] # None}}
               \cup {arg[c].query : c \in {d \in Clients : pc[d] = "list" /\ arg[d].query.start = 0}}
               \cup {Head(todo[c]).entry.query : c \in {d \in Clients : Doing(d, "setList")
                                                    /\ Head(todo[d]).entry.query.start = 0}}

\* Entries under different keys never meet: the reader calls another list only
\* when nothing of the one before is cached, and asks for one story.
ReaderBound == /\ Cardinality(KeysInUse') <= 1
               /\ \A k \in KeysInUse' : k.keys \in {{1}, Stories}

\* The writer reads a row only to have one to update, inserts one or two, begins
\* when the messages of its last write are gone, and writes last an insertion.
WriterBound == /\ At(writer, "idle") /\ ~At(writer, "idle")' => msgs = {}
               /\ pc'[writer] = "getByID" => held[writer] = None
               /\ pc'[writer] = "createBulk" => arg'[writer].stories \in {<<1>>, <<2>>, <<1, 2>>}
               /\ log' # log /\ Len(log) > 1 => pc[writer] \in {"create", "createBulk"}

\* Statements fail, and answers get lost, up to the first write.
FaultBound == /\ \A c \in Clients : DatabaseError(c) => Len(log) = 1
              /\ log' # log /\ todo' = todo => Len(log) = 1

Bounded == ReaderBound /\ WriterBound /\ FaultBound

\* The clock is never set back, so that nobody finds an entry under a past epoch
\* any more; and all that a finished walk is asked is whether it got everything.
Visible ==
    <<log, clock, items, [n \in Nodes |-> {l \in lists[n] : l.epoch >= epoch[n]}], epoch,
      flushedAt, msgs, pc, arg, todo, held,
      [c \in Clients |-> IF walk[c] # None /\ walk[c].done
                         THEN <<walk[c].query.kind, ReturnsEachOnce(walk[c])>> ELSE walk[c]]>>
=============================================================================

------------------------- MODULE RedisCacheProvider -------------------------
(* The cache provider over Redis publish/subscribe, one per process: its      *)
(* connection with retries, the four publications and the four registrations, *)
(* the goroutines that publish and that listen, and Close.  Redis and the     *)
(* client library are external: a publication reaches any part of the          *)
(* subscriptions that are open, an attempt whose answer is lost has been        *)
(* published all the same, and a subscription lives until it, or the client     *)
(* it was made on, is closed.                                                   *)
EXTENDS Naturals, FiniteSets

CONSTANTS
    Nodes,        \* the processes
    Entities,     \* the names of the entities
    Handlers,     \* what the repositories register
    Calls,        \* bound: the publications that are ever accepted
    ConnectTries, \* maxRetries of Connect
    PublishTries, \* maxRetries of a publication
    MaxClients,   \* bound: the clients that a process makes
    None

ASSUME TriesAssumption == ConnectTries \in Nat \ {0} /\ PublishTries \in Nat \ {0}
ASSUME BoundAssumption == MaxClients \in Nat

Kinds == {"invalidation", "flush_list", "flush_item", "bump_epoch"}

Topics == [kind : Kinds, entity : Entities]

Topic(kind, e) == [kind |-> kind, entity |-> e]

\* A goroutine that publishes, and the attempts it has left.
Publication == [state : {"trying", "published", "abandoned"}, from : Nodes,
                topic : Topics, left : 0..PublishTries]

ASSUME NoneAssumption == None \notin Handlers /\ None \notin Publication

VARIABLES
    client,     \* client[n]: p.client, as the number of clients made so far; 0 is nil
    tries,      \* tries[n]: the attempts that the Connect in progress has left
    connected,  \* connected[n]: what the last Connect returned
    closing,    \* closing[n]: how far Close has come; isClosed is "closed"
    shut,       \* shut[n]: the clients that are closed
    handler,    \* handler[n][t]: the four maps of handlers
    at,         \* at[n][t]: where the listening goroutine of t is
    on,         \* on[n][t]: the client that its subscription was made on
    ended,      \* ended[n]: the topics whose subscription Close has closed
    missed,     \* history: the subscriptions on a replaced client that Close did not know
    inbox,      \* inbox[n][t]: the publications on their way to that goroutine
    heard,      \* history: heard[n][t], those that its handler was run for
    call        \* call[c]: the publishing goroutine c

connection == <<client, tries, connected>>
close == <<closing, shut, ended, missed>>
listeners == <<handler, at, on>>
vars == <<connection, close, listeners, inbox, heard, call>>
-----------------------------------------------------------------------------
\* p.mu is held from the first to the last step of Close; all others hold it
\* within one step.
LockIsFree(n) == closing[n] \in {"open", "closed"}

\* p.ctx, which Close cancels first.
Cancelled(n) == closing[n] # "open"

IsClosed(n) == closing[n] = "closed"

\* The process has had an answer from Connect, even if it is an error: only then
\* does it make repositories.
HasConnected(n) == connected[n] # "never" /\ tries[n] = 0

\* Mutant of Channel: named by the entity alone.
ChannelOfEntity(t) == <<"cache", t.entity>>

\* The name of the topic's channel; no two topics share one.
Channel(t) == <<"cache", t.kind, t.entity>>

\* The subscription receives what is published.
Receives(n, t) == /\ at[n][t] \in {"subscribed", "listening"}
                  /\ t \notin ended[n]
                  /\ on[n][t] \notin shut[n]

Subscribers(t) == {s \in Nodes \X Topics : Receives(s[1], s[2]) /\ Channel(s[2]) = Channel(t)}

\* What is published for t arrives where the connection holds.
Arrives(c, S) ==
    inbox' = [n \in Nodes |-> [t \in Topics |->
                 IF <<n, t>> \in S THEN inbox[n][t] \cup {c} ELSE inbox[n][t]]]
-----------------------------------------------------------------------------
Init ==
    /\ client = [n \in Nodes |-> 0]
    /\ tries = [n \in Nodes |-> 0]
    /\ connected = [n \in Nodes |-> "never"]
    /\ closing = [n \in Nodes |-> "open"]
    /\ shut = [n \in Nodes |-> {}]
    /\ handler = [n \in Nodes |-> [t \in Topics |-> None]]
    /\ at = [n \in Nodes |-> [t \in Topics |-> "none"]]
    /\ on = [n \in Nodes |-> [t \in Topics |-> 0]]
    /\ ended = [n \in Nodes |-> {}]
    /\ missed = [n \in Nodes |-> {}]
    /\ inbox = [n \in Nodes |-> [t \in Topics |-> {}]]
    /\ heard = [n \in Nodes |-> [t \in Topics |-> {}]]
    /\ call = [c \in Calls |-> None]
-----------------------------------------------------------------------------
(* Connect.  The process calls it first of all, and again if it got an error. *)

Connect(n) ==
    /\ tries[n] = 0 /\ connected[n] # "ok" /\ closing[n] = "open"
    /\ client[n] + ConnectTries <= MaxClients
    /\ tries' = [tries EXCEPT ![n] = ConnectTries]
    /\ UNCHANGED <<client, connected, close, listeners, inbox, heard, call>>

\* Every attempt makes a client, which takes the place of the one before.
TryConnect(n) ==
    /\ tries[n] > 0
    /\ client' = [client EXCEPT ![n] = @ + 1]
    /\ \/ /\ tries' = [tries EXCEPT ![n] = 0]
          /\ connected' = [connected EXCEPT ![n] = "ok"]
       \/ /\ tries' = [tries EXCEPT ![n] = @ - 1]
          /\ connected' = [connected EXCEPT ![n] = IF tries[n] = 1 THEN "failed" ELSE @]
    /\ UNCHANGED <<close, listeners, inbox, heard, call>>
-----------------------------------------------------------------------------
(* The publications: the caller learns only whether the provider is closed,   *)
(* a goroutine of its own does the rest.                                       *)

Publish(n, t, c) ==
    /\ HasConnected(n) /\ ~IsClosed(n) /\ call[c] = None
    /\ call' = [call EXCEPT ![c] = [state |-> "trying", from |-> n, topic |-> t,
                                    left |-> PublishTries]]
    /\ UNCHANGED <<connection, close, listeners, inbox, heard>>

InvalidateCache(n, e, c) == Publish(n, Topic("invalidation", e), c)

FlushListCache(n, e, c) == Publish(n, Topic("flush_list", e), c)

FlushItemCache(n, e, c) == Publish(n, Topic("flush_item", e), c)

BumpEpoch(n, e, c) == Publish(n, Topic("bump_epoch", e), c)

IsTrying(c) == call[c] # None /\ call[c].state = "trying"

\* A command reaches Redis while the context and the client live.
CanSend(n) == ~Cancelled(n) /\ client[n] \notin shut[n]

PublishSucceeds(c) ==
    /\ IsTrying(c) /\ CanSend(call[c].from)
    /\ \E S \in SUBSET Subscribers(call[c].topic) : Arrives(c, S)
    /\ call' = [call EXCEPT ![c].state = "published"]
    /\ UNCHANGED <<connection, close, listeners, heard>>

\* Mutant of AfterFailure: the failed attempt is not counted.
TriesForever(p) == p

\* Mutant of AfterFailure: one attempt more than the loop has.
TriesOnceMore(p) ==
    [state |-> IF p.left = 0 THEN "abandoned" ELSE "trying",
     from |-> p.from, topic |-> p.topic, left |-> p.left - 1]

\* The loop over the attempts, after one that failed.
AfterFailure(p) ==
    [state |-> IF p.left = 1 THEN "abandoned" ELSE "trying",
     from |-> p.from, topic |-> p.topic, left |-> p.left - 1]

\* An error: nothing was sent, or only the answer is lost.
PublishFails(c) ==
    /\ IsTrying(c)
    /\ \/ UNCHANGED inbox
       \/ /\ CanSend(call[c].from)
          /\ \E S \in SUBSET Subscribers(call[c].topic) : Arrives(c, S)
    /\ call' = [call EXCEPT ![c] = AfterFailure(@)]
    /\ UNCHANGED <<connection, close, listeners, heard>>
-----------------------------------------------------------------------------
(* The registrations, and the goroutine that each starts.                     *)

Register(n, t, h) ==
    /\ HasConnected(n) /\ LockIsFree(n)
    /\ handler[n][t] = None
    /\ handler' = [handler EXCEPT ![n][t] = h]
    /\ at' = [at EXCEPT ![n][t] = "sleeping"]
    /\ UNCHANGED <<connection, close, on, inbox, heard, call>>

OnCacheInvalidated(n, e, h) == Register(n, Topic("invalidation", e), h)

OnCacheFlushList(n, e, h) == Register(n, Topic("flush_list", e), h)

OnCacheFlushItem(n, e, h) == Register(n, Topic("flush_item", e), h)

OnBumpEpoch(n, e, h) == Register(n, Topic("bump_epoch", e), h)

\* After two seconds: Subscribe, on the client of that moment.
Subscribe(n, t) ==
    /\ at[n][t] = "sleeping"
    /\ at' = [at EXCEPT ![n][t] = "subscribed"]
    /\ on' = [on EXCEPT ![n][t] = client[n]]
    /\ UNCHANGED <<connection, close, handler, inbox, heard, call>>

\* The subscription is appended to p.pubsubs.
Track(n, t) ==
    /\ at[n][t] = "subscribed" /\ LockIsFree(n)
    /\ at' = [at EXCEPT ![n][t] = "listening"]
    /\ UNCHANGED <<connection, close, handler, on, inbox, heard, call>>

\* Mutant of Continues: the goroutine returns after its first message.
ListensOnce(n, t) == at' = [at EXCEPT ![n][t] = "ended"]

Continues(n, t) == UNCHANGED at

\* One turn of the loop over pubsub.Channel(), which may still hold a message
\* when the subscription is closed.
Handle(n, t, c) ==
    /\ at[n][t] = "listening" /\ c \in inbox[n][t] /\ LockIsFree(n)
    /\ inbox' = [inbox EXCEPT ![n][t] = @ \ {c}]
    /\ heard' = [heard EXCEPT ![n][t] = @ \cup {c}]
    /\ Continues(n, t)
    /\ UNCHANGED <<connection, close, handler, on, call>>

\* The channel is closed: the loop, and the goroutine, end.
EndListening(n, t) ==
    /\ at[n][t] = "listening" /\ ~Receives(n, t)
    /\ at' = [at EXCEPT ![n][t] = "ended"]
    /\ inbox' = [inbox EXCEPT ![n][t] = {}]
    /\ UNCHANGED <<connection, close, handler, on, heard, call>>
-----------------------------------------------------------------------------
(* Close.  A second call finds isClosed and changes nothing.                  *)

\* The subscriptions that Close does not know, as their goroutine has not
\* appended them yet, on another client than the one it is about to close.
Unknown(n) == {t \in Topics : at[n][t] = "subscribed" /\ on[n][t] # client[n]}

Cancel(n) ==
    /\ closing[n] = "open" /\ tries[n] = 0
    /\ closing' = [closing EXCEPT ![n] = "cancelled"]
    /\ missed' = [missed EXCEPT ![n] = Unknown(n)]
    /\ UNCHANGED <<connection, shut, ended, listeners, inbox, heard, call>>

\* Mutant of Tracked: Close leaves the subscriptions to their client.
NoneTracked(n) == {}

\* p.pubsubs
Tracked(n) == {t \in Topics : at[n][t] = "listening"}

ClosePubSubs(n) ==
    /\ closing[n] = "cancelled"
    /\ closing' = [closing EXCEPT ![n] = "unsubscribed"]
    /\ ended' = [ended EXCEPT ![n] = Tracked(n)]
    /\ UNCHANGED <<connection, shut, missed, listeners, inbox, heard, call>>

\* Mutant of Current: Close closes only the subscriptions it knows.
NoClient(n) == {}

Current(n) == {client[n]} \ {0}

CloseClient(n) ==
    /\ closing[n] = "unsubscribed"
    /\ closing' = [closing EXCEPT ![n] = "closed"]
    /\ shut' = [shut EXCEPT ![n] = @ \cup Current(n)]
    /\ UNCHANGED <<connection, ended, missed, listeners, inbox, heard, call>>
-----------------------------------------------------------------------------
Operation(n) ==
    \/ Connect(n)
    \/ Cancel(n)
    \/ \E e \in Entities, h \in Handlers : \/ OnCacheInvalidated(n, e, h)
                                           \/ OnCacheFlushList(n, e, h)
                                           \/ OnCacheFlushItem(n, e, h)
                                           \/ OnBumpEpoch(n, e, h)
    \/ \E e \in Entities, c \in Calls : \/ InvalidateCache(n, e, c)
                                        \/ FlushListCache(n, e, c)
                                        \/ FlushItemCache(n, e, c)
                                        \/ BumpEpoch(n, e, c)

\* What the goroutine of topic t does on its own.
Listen(n, t) == \/ Subscribe(n, t)
                \/ Track(n, t)
                \/ \E c \in Calls : Handle(n, t, c)
                \/ EndListening(n, t)

FinishClose(n) == ClosePubSubs(n) \/ CloseClient(n)

PublishAttempt(c) == PublishSucceeds(c) \/ PublishFails(c)

Next == \/ \E n \in Nodes : Operation(n) \/ TryConnect(n) \/ FinishClose(n)
        \/ \E n \in Nodes, t \in Topics : Listen(n, t)
        \/ \E c \in Calls : PublishAttempt(c)

\* A goroutine that can go on does, and so does a call that has begun; nobody
\* has to call anything.
Fairness == /\ \A n \in Nodes : WF_vars(TryConnect(n)) /\ WF_vars(FinishClose(n))
            /\ \A n \in Nodes, t \in Topics : WF_vars(Listen(n, t))
            /\ \A c \in Calls : WF_vars(PublishAttempt(c))

Spec == Init /\ [][Next]_vars /\ Fairness
-----------------------------------------------------------------------------
\* The variables hold what the code's may: a publication has as many attempts
\* left as its loop allows, and none exactly when it is given up.
TypeOK ==
    /\ client \in [Nodes -> Nat]
    /\ tries \in [Nodes -> 0..ConnectTries]
    /\ connected \in [Nodes -> {"never", "failed", "ok"}]
    /\ closing \in [Nodes -> {"open", "cancelled", "unsubscribed", "closed"}]
    /\ shut \in [Nodes -> SUBSET Nat]
    /\ handler \in [Nodes -> [Topics -> Handlers \cup {None}]]
    /\ at \in [Nodes -> [Topics -> {"none", "sleeping", "subscribed", "listening", "ended"}]]
    /\ on \in [Nodes -> [Topics -> Nat]]
    /\ ended \in [Nodes -> SUBSET Topics]
    /\ missed \in [Nodes -> SUBSET Topics]
    /\ inbox \in [Nodes -> [Topics -> SUBSET Calls]]
    /\ heard \in [Nodes -> [Topics -> SUBSET Calls]]
    /\ call \in [Calls -> Publication \cup {None}]
    /\ \A c \in Calls : call[c] # None =>
         (call[c].state = "abandoned" <=> call[c].left = 0)

\* A provider that Close has returned from receives nothing more: every
\* subscription, of a goroutine that sleeps or has not told Close of it too, is
\* closed or on a closed client (rediscacheprovider: Close, listenFor...; HISTORY:
\* "closing redis will nicely close pubsub connections, too").  The one exception
\* are those of Unknown, on a client that a second Connect has replaced.
ClosedProviderIsDeaf ==
    \A n \in Nodes, t \in Topics : IsClosed(n) /\ Receives(n, t) => t \in missed[n]

\* After Close every listening goroutine ends, wherever it was: none waits
\* forever for a channel that nobody closes.
CloseEndsListeners ==
    <>[](\A n \in Nodes, t \in Topics :
           IsClosed(n) /\ at[n][t] # "none" /\ t \notin missed[n] => at[n][t] = "ended")

\* Every accepted publication comes to an end, published or given up, though the
\* provider is closed in the middle of its attempts.
PublicationsEnd == <>[](\A c \in Calls : ~IsTrying(c))

\* Every registered handler comes to be listened for, and stays so until Close:
\* the goroutine leaves its loop for nothing else, and leaves nothing unhandled.
RegisteredListens ==
    <>[](\A n \in Nodes, t \in Topics :
           handler[n][t] # None /\ ~Cancelled(n) => at[n][t] = "listening" /\ inbox[n][t] = {})

\* The provider is a broadcast as the repositories expect it.
Abstract == INSTANCE Broadcast WITH
    open <- {n \in Nodes : ~IsClosed(n)},
    accepted <- [c \in Calls |-> IF call[c] = None THEN None ELSE call[c].topic]

\* It hands to the handler of a topic only what was accepted for that topic, and
\* keeps the first handler registered for it.
ImplementsBroadcast == Abstract!Spec
=============================================================================

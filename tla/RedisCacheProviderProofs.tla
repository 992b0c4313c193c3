---------------------- MODULE RedisCacheProviderProofs ----------------------
(* The provider's safety for every number of processes, entities, handlers,   *)
(* publications and attempts: types, ClosedProviderIsDeaf, and that it         *)
(* implements Broadcast.                                                        *)
EXTENDS RedisCacheProvider, TLAPS

\* Where a goroutine listens a handler is registered and a client exists, and
\* what is on its way to it was accepted for its topic.
ListenersKnown ==
    /\ \A n \in Nodes : connected[n] # "never" => client[n] > 0
    /\ \A n \in Nodes, t \in Topics : at[n][t] # "none" =>
         /\ handler[n][t] # None
         /\ client[n] > 0
    /\ \A n \in Nodes, t \in Topics, c \in Calls : c \in inbox[n][t] =>
         /\ call[c] # None
         /\ call[c].topic = t

\* Close knows, or closes the client of, every subscription but those of missed:
\* the clients stay what they are once it has begun.
CloseKnows ==
    /\ \A n \in Nodes : Cancelled(n) => tries[n] = 0
    /\ \A n \in Nodes : IsClosed(n) => client[n] = 0 \/ client[n] \in shut[n]
    /\ \A n \in Nodes, t \in Topics :
         closing[n] = "cancelled" /\ at[n][t] = "subscribed"
           => on[n][t] = client[n] \/ t \in missed[n]
    /\ \A n \in Nodes, t \in Topics :
         closing[n] \in {"unsubscribed", "closed"} /\ at[n][t] \in {"subscribed", "listening"}
           => t \in ended[n] \/ on[n][t] = client[n] \/ t \in missed[n]

IInv == TypeOK /\ ListenersKnown /\ CloseKnows
-----------------------------------------------------------------------------
\* Two topics have two channels.
LEMMA ChannelsDiffer ==
    ASSUME NEW t \in Topics, NEW u \in Topics, Channel(t) = Channel(u)
    PROVE  t = u
BY DEF Topics, Channel

LEMMA TopicIsTopic ==
    ASSUME NEW kind \in Kinds, NEW e \in Entities
    PROVE  Topic(kind, e) \in Topics
BY DEF Topic, Topics

\* An operation is a Connect, the beginning of a Close, a registration or a publication.
LEMMA Operations ==
    ASSUME NEW n \in Nodes, Operation(n)
    PROVE  \/ Connect(n)
           \/ Cancel(n)
           \/ \E t \in Topics, h \in Handlers : Register(n, t, h)
           \/ \E t \in Topics, c \in Calls : Publish(n, t, c)
<1>1. \A e \in Entities : \A kind \in Kinds : Topic(kind, e) \in Topics
  BY TopicIsTopic
<1>2. {"invalidation", "flush_list", "flush_item", "bump_epoch"} \subseteq Kinds
  BY DEF Kinds
<1>3. ASSUME NEW e \in Entities, NEW h \in Handlers,
             \/ OnCacheInvalidated(n, e, h) \/ OnCacheFlushList(n, e, h)
             \/ OnCacheFlushItem(n, e, h) \/ OnBumpEpoch(n, e, h)
      PROVE  \E t \in Topics : Register(n, t, h)
  BY <1>1, <1>2, <1>3 DEF OnCacheInvalidated, OnCacheFlushList, OnCacheFlushItem, OnBumpEpoch
<1>4. ASSUME NEW e \in Entities, NEW c \in Calls,
             \/ InvalidateCache(n, e, c) \/ FlushListCache(n, e, c)
             \/ FlushItemCache(n, e, c) \/ BumpEpoch(n, e, c)
      PROVE  \E t \in Topics : Publish(n, t, c)
  BY <1>1, <1>2, <1>4 DEF InvalidateCache, FlushListCache, FlushItemCache, BumpEpoch
<1>. QED
  BY <1>3, <1>4 DEF Operation

\* A step is one of the twelve below.
LEMMA Steps ==
    ASSUME Next
    PROVE  \/ \E n \in Nodes : \/ Connect(n) \/ TryConnect(n)
                               \/ Cancel(n) \/ ClosePubSubs(n) \/ CloseClient(n)
           \/ \E n \in Nodes, t \in Topics :
                \/ \E h \in Handlers : Register(n, t, h)
                \/ \E c \in Calls : Publish(n, t, c) \/ Handle(n, t, c)
                \/ Subscribe(n, t) \/ Track(n, t) \/ EndListening(n, t)
           \/ \E c \in Calls : PublishSucceeds(c) \/ PublishFails(c)
BY Operations DEF Next, FinishClose, Listen, PublishAttempt

\* A publication is one still after an attempt.
LEMMA AttemptedIsPublication ==
    ASSUME TypeOK, NEW c \in Calls, IsTrying(c)
    PROVE  /\ [call[c] EXCEPT !.state = "published"] \in Publication
           /\ AfterFailure(call[c]) \in Publication
           /\ AfterFailure(call[c]).state = "abandoned" <=> AfterFailure(call[c]).left = 0
           /\ call[c].left > 0
<1>1. /\ call[c] \in Publication
      /\ call[c].left \in Nat /\ call[c].left > 0 /\ call[c].left <= PublishTries
  <2>1. call[c] \in Publication /\ call[c].state = "trying" /\ call[c].left # 0
    BY DEF TypeOK, IsTrying
  <2>2. call[c].left \in 0..PublishTries
    BY <2>1 DEF Publication
  <2>. QED
    BY <2>1, <2>2, TriesAssumption
<1>2. call[c].left - 1 \in 0..PublishTries /\ (call[c].left = 1 <=> call[c].left - 1 = 0)
  BY <1>1, TriesAssumption
<1>3. AfterFailure(call[c]) \in Publication
  BY <1>1, <1>2 DEF Publication, AfterFailure
<1>. QED
  BY <1>1, <1>2, <1>3 DEF Publication, AfterFailure
-----------------------------------------------------------------------------
(* Types.                                                                     *)

LEMMA InitTypes == Init => TypeOK
BY TriesAssumption, NoneAssumption DEF Init, TypeOK, Publication

LEMMA ArrivesTypes ==
    ASSUME TypeOK, NEW c \in Calls, NEW S, Arrives(c, S)
    PROVE  inbox' \in [Nodes -> [Topics -> SUBSET Calls]]
BY DEF TypeOK, Arrives

LEMMA NextTypes ==
    ASSUME TypeOK, [Next]_vars
    PROVE  TypeOK'
<1>. USE DEF connection, close, listeners
<1>1. CASE UNCHANGED vars
  BY <1>1 DEF vars, TypeOK
<1>2. ASSUME NEW n \in Nodes, Connect(n)
      PROVE  TypeOK'
  BY <1>2, TriesAssumption DEF Connect, TypeOK
<1>3. ASSUME NEW n \in Nodes, TryConnect(n)
      PROVE  TypeOK'
  <2>1. client[n] + 1 \in Nat /\ tries[n] - 1 \in 0..ConnectTries /\ 0 \in 0..ConnectTries
    BY <1>3, TriesAssumption DEF TryConnect, TypeOK
  <2>2. client' \in [Nodes -> Nat]
    BY <1>3, <2>1 DEF TryConnect, TypeOK
  <2>3. tries' \in [Nodes -> 0..ConnectTries]
    BY <1>3, <2>1 DEF TryConnect, TypeOK
  <2>4. connected' \in [Nodes -> {"never", "failed", "ok"}]
    BY <1>3 DEF TryConnect, TypeOK
  <2>. QED
    BY <1>3, <2>2, <2>3, <2>4 DEF TryConnect, TypeOK
<1>4. ASSUME NEW n \in Nodes, Cancel(n)
      PROVE  TypeOK'
  BY <1>4 DEF Cancel, Unknown, TypeOK
<1>5. ASSUME NEW n \in Nodes, ClosePubSubs(n)
      PROVE  TypeOK'
  BY <1>5 DEF ClosePubSubs, Tracked, TypeOK
<1>6. ASSUME NEW n \in Nodes, CloseClient(n)
      PROVE  TypeOK'
  <2>1. shut[n] \cup Current(n) \in SUBSET Nat
    BY DEF Current, TypeOK
  <2>. QED
    BY <1>6, <2>1 DEF CloseClient, TypeOK
<1>7. ASSUME NEW n \in Nodes, NEW t \in Topics, NEW h \in Handlers, Register(n, t, h)
      PROVE  TypeOK'
  BY <1>7 DEF Register, TypeOK
<1>8. ASSUME NEW n \in Nodes, NEW t \in Topics, NEW c \in Calls, Publish(n, t, c)
      PROVE  TypeOK'
  <2>. DEFINE p == [state |-> "trying", from |-> n, topic |-> t, left |-> PublishTries]
  <2>1. p \in Publication /\ p.state # "abandoned" /\ p.left # 0
    BY TriesAssumption DEF Publication
  <2>2. call' = [call EXCEPT ![c] = p]
    BY <1>8 DEF Publish
  <2>3. call' \in [Calls -> Publication \cup {None}]
    BY <2>1, <2>2 DEF TypeOK
  <2>4. \A d \in Calls : call'[d] # None => (call'[d].state = "abandoned" <=> call'[d].left = 0)
    BY <2>1, <2>2 DEF TypeOK
  <2>. QED
    BY <1>8, <2>3, <2>4 DEF Publish, TypeOK
<1>9. ASSUME NEW n \in Nodes, NEW t \in Topics, NEW c \in Calls, Handle(n, t, c)
      PROVE  TypeOK'
  BY <1>9 DEF Handle, Continues, TypeOK
<1>10. ASSUME NEW n \in Nodes, NEW t \in Topics, Subscribe(n, t)
       PROVE  TypeOK'
  BY <1>10 DEF Subscribe, TypeOK
<1>11. ASSUME NEW n \in Nodes, NEW t \in Topics, Track(n, t)
       PROVE  TypeOK'
  BY <1>11 DEF Track, TypeOK
<1>12. ASSUME NEW n \in Nodes, NEW t \in Topics, EndListening(n, t)
       PROVE  TypeOK'
  BY <1>12 DEF EndListening, TypeOK
<1>13. ASSUME NEW c \in Calls, PublishSucceeds(c)
       PROVE  TypeOK'
  <2>. DEFINE p == [call[c] EXCEPT !.state = "published"]
  <2>1. p \in Publication /\ p.state = "published" /\ p.left = call[c].left /\ call[c].left # 0
    BY <1>13, AttemptedIsPublication DEF PublishSucceeds, IsTrying, TypeOK, Publication
  <2>2. call' = [call EXCEPT ![c] = p]
    BY <1>13 DEF PublishSucceeds
  <2>3. call' \in [Calls -> Publication \cup {None}]
    BY <2>1, <2>2 DEF TypeOK
  <2>4. \A d \in Calls : call'[d] # None => (call'[d].state = "abandoned" <=> call'[d].left = 0)
    BY <2>1, <2>2 DEF TypeOK
  <2>5. inbox' \in [Nodes -> [Topics -> SUBSET Calls]]
    BY <1>13, ArrivesTypes DEF PublishSucceeds
  <2>. QED
    BY <1>13, <2>3, <2>4, <2>5 DEF PublishSucceeds, TypeOK
<1>14. ASSUME NEW c \in Calls, PublishFails(c)
       PROVE  TypeOK'
  <2>. DEFINE p == AfterFailure(call[c])
  <2>1. p \in Publication /\ (p.state = "abandoned" <=> p.left = 0)
    BY <1>14, AttemptedIsPublication DEF PublishFails
  <2>2. call' = [call EXCEPT ![c] = p]
    BY <1>14 DEF PublishFails
  <2>. HIDE DEF p
  <2>3. call' \in [Calls -> Publication \cup {None}]
    BY <2>1, <2>2 DEF TypeOK
  <2>4. \A d \in Calls : call'[d] # None => (call'[d].state = "abandoned" <=> call'[d].left = 0)
    BY <2>1, <2>2 DEF TypeOK
  <2>5. inbox' \in [Nodes -> [Topics -> SUBSET Calls]]
    BY <1>14, ArrivesTypes DEF PublishFails, TypeOK
  <2>. QED
    BY <1>14, <2>3, <2>4, <2>5 DEF PublishFails, TypeOK
<1>. QED
  BY <1>1, <1>2, <1>3, <1>4, <1>5, <1>6, <1>7, <1>8, <1>9, <1>10, <1>11, <1>12, <1>13, <1>14,
     Steps
-----------------------------------------------------------------------------
(* What the goroutines and Close know.                                        *)

LEMMA InitKnown == Init => ListenersKnown /\ CloseKnows
BY DEF Init, ListenersKnown, CloseKnows, Cancelled, IsClosed

\* What an attempt leaves on its way was accepted for the topic of its receiver.
LEMMA ArrivalsAreOfTheirTopic ==
    ASSUME TypeOK, ListenersKnown, NEW c \in Calls, IsTrying(c),
           NEW S \in SUBSET Subscribers(call[c].topic), Arrives(c, S)
    PROVE  \A n \in Nodes, t \in Topics, d \in Calls : d \in inbox'[n][t] =>
             /\ call[d] # None
             /\ call[d].topic = t
<1>. SUFFICES ASSUME NEW n \in Nodes, NEW t \in Topics, NEW d \in Calls, d \in inbox'[n][t]
              PROVE  call[d] # None /\ call[d].topic = t
  OBVIOUS
<1>1. inbox'[n][t] = IF <<n, t>> \in S THEN inbox[n][t] \cup {c} ELSE inbox[n][t]
  BY DEF Arrives
<1>2. CASE d \in inbox[n][t]
  BY <1>2 DEF ListenersKnown
<1>3. CASE d \notin inbox[n][t]
  <2>1. d = c /\ <<n, t>> \in Subscribers(call[c].topic)
    BY <1>1, <1>3
  <2>2. call[c].topic \in Topics
    BY DEF TypeOK, IsTrying, Publication
  <2>3. Channel(t) = Channel(call[c].topic)
    BY <2>1 DEF Subscribers
  <2>. QED
    BY <2>1, <2>2, <2>3, ChannelsDiffer DEF IsTrying
<1>. QED
  BY <1>2, <1>3

LEMMA NextListenersKnown ==
    ASSUME TypeOK, ListenersKnown, [Next]_vars
    PROVE  ListenersKnown'
<1>. USE DEF connection, close, listeners
<1>1. CASE UNCHANGED vars
  BY <1>1 DEF vars, ListenersKnown
<1>2. ASSUME NEW n \in Nodes, Connect(n)
      PROVE  ListenersKnown'
  BY <1>2 DEF Connect, ListenersKnown
<1>3. ASSUME NEW n \in Nodes, TryConnect(n)
      PROVE  ListenersKnown'
  <2>1. \A m \in Nodes : client'[m] >= client[m] /\ client'[n] > 0 /\ client[m] \in Nat
    BY <1>3 DEF TryConnect, TypeOK
  <2>2. \A m \in Nodes : connected'[m] # "never" => m = n \/ connected[m] # "never"
    BY <1>3 DEF TryConnect, TypeOK
  <2>3. \A m \in Nodes : client'[m] \in Nat
    BY <1>3 DEF TryConnect, TypeOK
  <2>. QED
    BY <1>3, <2>1, <2>2, <2>3 DEF TryConnect, ListenersKnown
<1>4. ASSUME NEW n \in Nodes, Cancel(n)
      PROVE  ListenersKnown'
  BY <1>4 DEF Cancel, ListenersKnown
<1>5. ASSUME NEW n \in Nodes, ClosePubSubs(n) \/ CloseClient(n)
      PROVE  ListenersKnown'
  BY <1>5 DEF ClosePubSubs, CloseClient, ListenersKnown
<1>6. ASSUME NEW n \in Nodes, NEW t \in Topics, NEW h \in Handlers, Register(n, t, h)
      PROVE  ListenersKnown'
  BY <1>6, NoneAssumption DEF Register, HasConnected, ListenersKnown, TypeOK
<1>7. ASSUME NEW n \in Nodes, NEW t \in Topics, NEW c \in Calls, Publish(n, t, c)
      PROVE  ListenersKnown'
  BY <1>7 DEF Publish, ListenersKnown, TypeOK
<1>8. ASSUME NEW n \in Nodes, NEW t \in Topics, NEW c \in Calls, Handle(n, t, c)
      PROVE  ListenersKnown'
  BY <1>8 DEF Handle, Continues, ListenersKnown, TypeOK
<1>9. ASSUME NEW n \in Nodes, NEW t \in Topics, Subscribe(n, t) \/ Track(n, t)
      PROVE  ListenersKnown'
  <2>1. \A m \in Nodes, u \in Topics : at'[m][u] # "none" => at[m][u] # "none"
    <3>1. \E a \in {"subscribed", "listening"} : at' = [at EXCEPT ![n][t] = a]
      BY <1>9 DEF Subscribe, Track
    <3>2. at[n][t] # "none"
      BY <1>9 DEF Subscribe, Track
    <3>. QED
      BY <3>1, <3>2 DEF TypeOK
  <2>. QED
    BY <1>9, <2>1 DEF Subscribe, Track, ListenersKnown
<1>10. ASSUME NEW n \in Nodes, NEW t \in Topics, EndListening(n, t)
       PROVE  ListenersKnown'
  BY <1>10 DEF EndListening, ListenersKnown, TypeOK
<1>11. ASSUME NEW c \in Calls, IsTrying(c),
              call'[c] # None /\ call'[c].topic = call[c].topic,
              \A d \in Calls \ {c} : call'[d] = call[d],
              \/ UNCHANGED inbox
              \/ \E S \in SUBSET Subscribers(call[c].topic) : Arrives(c, S),
              UNCHANGED <<connection, close, listeners, heard>>
       PROVE  ListenersKnown'
  <2>1. \A n \in Nodes, t \in Topics, d \in Calls : d \in inbox'[n][t] =>
             call[d] # None /\ call[d].topic = t
    BY <1>11, ArrivalsAreOfTheirTopic DEF ListenersKnown
  <2>. QED
    BY <1>11, <2>1 DEF ListenersKnown
<1>12. ASSUME NEW c \in Calls, PublishSucceeds(c)
       PROVE  ListenersKnown'
  <2>1. call[c] \in Publication /\ [call[c] EXCEPT !.state = "published"] # None
    BY <1>12, AttemptedIsPublication, NoneAssumption DEF PublishSucceeds, IsTrying, TypeOK
  <2>. QED
    BY <1>11, <1>12, <2>1 DEF PublishSucceeds, TypeOK, Publication
<1>13. ASSUME NEW c \in Calls, PublishFails(c)
       PROVE  ListenersKnown'
  <2>1. AfterFailure(call[c]) # None
    BY <1>13, AttemptedIsPublication, NoneAssumption DEF PublishFails
  <2>2. call'[c] = AfterFailure(call[c]) /\ call'[c].topic = call[c].topic
    BY <1>13 DEF PublishFails, TypeOK, AfterFailure
  <2>. QED
    BY <1>11, <1>13, <2>1, <2>2 DEF PublishFails, TypeOK
<1>. QED
  BY <1>1, <1>2, <1>3, <1>4, <1>5, <1>6, <1>7, <1>8, <1>9, <1>10, <1>12, <1>13, Steps

LEMMA NextCloseKnows ==
    ASSUME TypeOK, ListenersKnown, CloseKnows, [Next]_vars
    PROVE  CloseKnows'
<1>. USE DEF connection, close, listeners, Cancelled, IsClosed
<1>1. CASE UNCHANGED vars
  BY <1>1 DEF vars, CloseKnows
<1>2. ASSUME NEW n \in Nodes, Connect(n)
      PROVE  CloseKnows'
  BY <1>2 DEF Connect, CloseKnows, TypeOK
<1>3. ASSUME NEW n \in Nodes, TryConnect(n)
      PROVE  CloseKnows'
  <2>1. closing[n] = "open" /\ UNCHANGED <<closing, shut, ended, missed, at, on>>
    BY <1>3 DEF TryConnect, CloseKnows, TypeOK
  <2>2. \A m \in Nodes \ {n} : client'[m] = client[m] /\ tries'[m] = tries[m]
    BY <1>3 DEF TryConnect, TypeOK
  <2>. QED
    BY <2>1, <2>2 DEF CloseKnows
<1>4. ASSUME NEW n \in Nodes, Cancel(n)
      PROVE  CloseKnows'
  BY <1>4 DEF Cancel, Unknown, CloseKnows, TypeOK
<1>5. ASSUME NEW n \in Nodes, ClosePubSubs(n)
      PROVE  CloseKnows'
  BY <1>5 DEF ClosePubSubs, Tracked, CloseKnows, TypeOK
<1>6. ASSUME NEW n \in Nodes, CloseClient(n)
      PROVE  CloseKnows'
  BY <1>6 DEF CloseClient, Current, CloseKnows, TypeOK
<1>7. ASSUME NEW n \in Nodes, NEW t \in Topics, NEW h \in Handlers, Register(n, t, h)
      PROVE  CloseKnows'
  BY <1>7 DEF Register, CloseKnows, TypeOK
<1>8. ASSUME NEW n \in Nodes, NEW t \in Topics, NEW c \in Calls, Publish(n, t, c) \/ Handle(n, t, c)
      PROVE  CloseKnows'
  BY <1>8 DEF Publish, Handle, Continues, CloseKnows
<1>9. ASSUME NEW n \in Nodes, NEW t \in Topics, Subscribe(n, t)
      PROVE  CloseKnows'
  BY <1>9 DEF Subscribe, CloseKnows, TypeOK
<1>10. ASSUME NEW n \in Nodes, NEW t \in Topics, Track(n, t)
       PROVE  CloseKnows'
  BY <1>10 DEF Track, LockIsFree, CloseKnows, TypeOK
<1>11. ASSUME NEW n \in Nodes, NEW t \in Topics, EndListening(n, t)
       PROVE  CloseKnows'
  BY <1>11 DEF EndListening, CloseKnows, TypeOK
<1>12. ASSUME NEW c \in Calls, PublishSucceeds(c) \/ PublishFails(c)
       PROVE  CloseKnows'
  BY <1>12 DEF PublishSucceeds, PublishFails, CloseKnows
<1>. QED
  BY <1>1, <1>2, <1>3, <1>4, <1>5, <1>6, <1>7, <1>8, <1>9, <1>10, <1>11, <1>12, Steps

LEMMA IInvHolds == Spec => []IInv
<1>1. Init => IInv
  BY InitTypes, InitKnown DEF IInv
<1>2. IInv /\ [Next]_vars => IInv'
  BY NextTypes, NextListenersKnown, NextCloseKnows DEF IInv
<1>. QED
  BY <1>1, <1>2, PTL DEF Spec
-----------------------------------------------------------------------------
\* The variables hold what the code's may, at any number of processes, topics,
\* attempts and publications.
THEOREM TypeCorrect == Spec => []TypeOK
<1>1. IInv => TypeOK
  BY DEF IInv
<1>. QED
  BY <1>1, IInvHolds, PTL

LEMMA KnownIsDeaf == IInv => ClosedProviderIsDeaf
<1>. SUFFICES ASSUME IInv, NEW n \in Nodes, NEW t \in Topics, IsClosed(n), Receives(n, t)
              PROVE  t \in missed[n]
  BY DEF ClosedProviderIsDeaf
<1>1. client[n] \in shut[n]
  <2>1. client[n] > 0
    BY DEF IInv, ListenersKnown, Receives
  <2>. QED
    BY <2>1 DEF IInv, TypeOK, CloseKnows
<1>. QED
  BY <1>1 DEF IInv, CloseKnows, Receives, IsClosed

\* Close leaves no subscription open but those of Unknown, in whatever state it
\* finds the goroutines and whatever they do after it.
THEOREM ClosedIsDeaf == Spec => []ClosedProviderIsDeaf
BY KnownIsDeaf, IInvHolds, PTL
-----------------------------------------------------------------------------
(* The refinement.                                                            *)

LEMMA InitImplements == Init => Abstract!Init
BY DEF Init, Abstract!Init, IsClosed

LEMMA StepImplements ==
    ASSUME IInv, [Next]_vars
    PROVE  [Abstract!Next]_(Abstract!vars)
<1>. USE DEF connection, close, listeners, IsClosed, Abstract!vars
<1>t. TypeOK /\ ListenersKnown
  BY DEF IInv
<1>1. ASSUME UNCHANGED <<closing, handler, heard>>,
             \A c \in Calls : (call'[c] = None <=> call[c] = None)
                           /\ (call[c] # None => call'[c].topic = call[c].topic)
      PROVE  UNCHANGED Abstract!vars
  BY <1>1
<1>2. CASE UNCHANGED vars
  BY <1>1, <1>2 DEF vars
<1>3. ASSUME NEW n \in Nodes, Connect(n) \/ TryConnect(n)
      PROVE  UNCHANGED Abstract!vars
  BY <1>1, <1>3 DEF Connect, TryConnect
<1>4. ASSUME NEW n \in Nodes, Cancel(n) \/ ClosePubSubs(n)
      PROVE  UNCHANGED Abstract!vars
  <2>1. \A m \in Nodes : closing'[m] = "closed" <=> closing[m] = "closed"
    BY <1>4, <1>t DEF Cancel, ClosePubSubs, TypeOK
  <2>. QED
    BY <1>4, <2>1 DEF Cancel, ClosePubSubs
<1>5. ASSUME NEW n \in Nodes, CloseClient(n)
      PROVE  Abstract!Close(n)
  <2>1. \A m \in Nodes : closing'[m] # "closed" <=> closing[m] # "closed" /\ m # n
    BY <1>5, <1>t DEF CloseClient, TypeOK
  <2>. QED
    BY <1>5, <2>1 DEF CloseClient, Abstract!Close
<1>6. ASSUME NEW n \in Nodes, NEW t \in Topics, NEW h \in Handlers, Register(n, t, h)
      PROVE  Abstract!Register(n, t, h)
  BY <1>6 DEF Register, Abstract!Register
<1>7. ASSUME NEW n \in Nodes, NEW t \in Topics, NEW c \in Calls, Publish(n, t, c)
      PROVE  Abstract!Accept(n, t, c)
  <2>. DEFINE p == [state |-> "trying", from |-> n, topic |-> t, left |-> PublishTries]
  <2>1. /\ call[c] = None /\ closing[n] # "closed"
        /\ \A d \in Calls : call'[d] = IF d = c THEN p ELSE call[d]
        /\ UNCHANGED <<closing, handler, heard>>
    BY <1>7, <1>t DEF Publish, TypeOK
  <2>2. p \in Publication
    BY TriesAssumption DEF Publication
  <2>3. p # None /\ p.topic = t
    BY <2>2, NoneAssumption
  <2>. HIDE DEF p
  <2>. QED
    BY <2>1, <2>3 DEF Abstract!Accept
<1>8. ASSUME NEW n \in Nodes, NEW t \in Topics, NEW c \in Calls, Handle(n, t, c)
      PROVE  Abstract!Hear(n, t, c)
  <2>1. handler[n][t] # None /\ call[c] # None /\ call[c].topic = t
    BY <1>8, <1>t DEF Handle, ListenersKnown
  <2>. QED
    BY <1>8, <2>1 DEF Handle, Continues, Abstract!Hear
<1>9. ASSUME NEW n \in Nodes, NEW t \in Topics,
             Subscribe(n, t) \/ Track(n, t) \/ EndListening(n, t)
      PROVE  UNCHANGED Abstract!vars
  BY <1>1, <1>9 DEF Subscribe, Track, EndListening
<1>10. ASSUME NEW c \in Calls, PublishSucceeds(c)
       PROVE  UNCHANGED Abstract!vars
  <2>1. call[c] # None /\ [call[c] EXCEPT !.state = "published"] # None
    BY <1>10, <1>t, AttemptedIsPublication, NoneAssumption DEF PublishSucceeds, IsTrying
  <2>. QED
    BY <1>1, <1>10, <1>t, <2>1 DEF PublishSucceeds, TypeOK, Publication
<1>11. ASSUME NEW c \in Calls, PublishFails(c)
       PROVE  UNCHANGED Abstract!vars
  <2>1. call[c] # None /\ AfterFailure(call[c]) # None
    BY <1>11, <1>t, AttemptedIsPublication, NoneAssumption DEF PublishFails, IsTrying
  <2>. QED
    BY <1>1, <1>11, <1>t, <2>1 DEF PublishFails, TypeOK, AfterFailure
<1>. QED
  BY <1>2, <1>3, <1>4, <1>5, <1>6, <1>7, <1>8, <1>9, <1>10, <1>11, Steps DEF Abstract!Next

\* The provider hands to a handler only what was accepted, by an open provider,
\* for the handler's topic, and the first handler of a topic stays.
THEOREM Implements == Spec => ImplementsBroadcast
<1>1. IInv /\ [Next]_vars => [Abstract!Next]_(Abstract!vars)
  BY StepImplements
<1>. QED
  BY <1>1, InitImplements, IInvHolds, PTL DEF Spec, ImplementsBroadcast, Abstract!Spec
=============================================================================

----------------------------- MODULE Broadcast ------------------------------
(* What the repositories may expect of the messages of a CacheProvider: a    *)
(* broadcast that loses, repeats and reorders what is published, but hands   *)
(* nothing to a handler that was not published, while the publisher's        *)
(* provider was open, for the handler's own topic; and the first handler that *)
(* a process registers for a topic is the one that stays.                     *)
(* RedisCacheProvider implements it.                                          *)
EXTENDS Naturals

CONSTANTS Nodes, Topics, Handlers, Calls, None

VARIABLES
    open,       \* the processes whose provider accepts publications
    handler,    \* handler[n][t]: the handler that runs, or None
    accepted,   \* accepted[c]: the topic of publication c, or None
    heard       \* heard[n][t]: the publications that the handler of t has seen

vars == <<open, handler, accepted, heard>>

Init == /\ open = Nodes
        /\ handler = [n \in Nodes |-> [t \in Topics |-> None]]
        /\ accepted = [c \in Calls |-> None]
        /\ heard = [n \in Nodes |-> [t \in Topics |-> {}]]

Register(n, t, h) == /\ handler[n][t] = None
                     /\ handler' = [handler EXCEPT ![n][t] = h]
                     /\ UNCHANGED <<open, accepted, heard>>

Accept(n, t, c) == /\ n \in open
                   /\ accepted[c] = None
                   /\ accepted' = [accepted EXCEPT ![c] = t]
                   /\ UNCHANGED <<open, handler, heard>>

Hear(n, t, c) == /\ handler[n][t] # None
                 /\ accepted[c] = t
                 /\ heard' = [heard EXCEPT ![n][t] = @ \cup {c}]
                 /\ UNCHANGED <<open, handler, accepted>>

Close(n) == /\ open' = open \ {n}
            /\ UNCHANGED <<handler, accepted, heard>>

Next == \E n \in Nodes :
          \/ Close(n)
          \/ \E t \in Topics : \/ \E h \in Handlers : Register(n, t, h)
                               \/ \E c \in Calls : Accept(n, t, c) \/ Hear(n, t, c)

Spec == Init /\ [][Next]_vars
=============================================================================

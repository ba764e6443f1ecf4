--------------------------- MODULE KalshiWebSocket ---------------------------
(***************************************************************************)
(* The streaming client (api/websocket/client.py): run_forever and the      *)
(* reconnect loop inside it, subscribe() called by other tasks, and close().*)
(* Every await is a point where the others may run.  A connection is a      *)
(* number; what the server was told on it is known[c].                      *)
(***************************************************************************)
EXTENDS Integers, FiniteSets

CONSTANTS
    Users,          \* tasks that call one of the subscribe_* methods once
    Subscription,   \* Subscription[u]: the (channel, tickers) pair u asks for
    MaxReconnect,   \* self._max_reconnect
    MaxDrops,       \* bound: connections the network drops
    MaxConnections  \* bound: connections made in a run

ASSUME WebSocketAssumption ==
    /\ IsFiniteSet(Users)
    /\ MaxReconnect \in Nat \ {0}
    /\ MaxDrops \in Nat
    /\ MaxConnections \in Nat \ {0}

Subscriptions == {Subscription[u] : u \in Users}
Connections == 1..MaxConnections

VARIABLES
    autoReconnect,  \* self._auto_reconnect, never changed
    running,    \* self._running
    ws,         \* self._ws, 0 before connect()
    made,       \* how many connections were made; the last one is number made
    open,       \* connections that are open
    known,      \* known[c]: the subscriptions sent on c
    subs,       \* self._subscriptions
    handlers,   \* users whose callback is in self._handlers
    user,       \* user[u]: "idle", "sending", "subscribed", "failed"
    sentOn,     \* sentOn[u]: the connection u's send is pending on
    loop,       \* where run_forever is
    origin,     \* who called _reconnect: "check", "exhausted" or "exception"
    attempts,   \* attempt of _reconnect: how many have failed
    todo,       \* what _resubscribe has still to send
    iterated,   \* the set _resubscribe iterates over, as it was at the start
    sending,    \* what _resubscribe is sending
    closer,     \* the task that calls close(): "idle", "closing", "closed"
    drops,      \* connections dropped so far
    raced,      \* history: subscriptions tracked while _resubscribe iterates
    late        \* history: subscriptions tracked since ws was made, by a send that
                \* was pending on a connection ws replaced

streamVars == <<autoReconnect, running, ws, made, open, known, subs, handlers, user, sentOn, loop, origin,
               attempts, todo, iterated, sending, closer, drops, raced, late>>

Connection == <<autoReconnect, ws, made, open, known>>
Tracking   == <<subs, handlers, user, sentOn, raced, late>>
Retrying   == <<origin, attempts, todo, iterated, sending>>

Reconnecting == {"sleep", "connect", "resubscribe", "resubscribing"}
Over == {"returned", "raised"}

StreamInit ==
    /\ autoReconnect \in BOOLEAN
    /\ running = FALSE
    /\ ws = 0
    /\ made = 0
    /\ open = {}
    /\ known = [c \in Connections |-> {}]
    /\ subs = {}
    /\ handlers = {}
    /\ user = [u \in Users |-> "idle"]
    /\ sentOn = [u \in Users |-> 0]
    /\ loop = "out"
    /\ origin = "check"
    /\ attempts = 0
    /\ todo = {}
    /\ iterated = {}
    /\ sending = {}
    /\ closer = "idle"
    /\ drops = 0
    /\ raced = 0
    /\ late = {}

-----------------------------------------------------------------------------
(* connect(): a new connection replaces self._ws; the old one is not       *)
(* closed.                                                                 *)
NewConnection ==
    /\ made < MaxConnections
    /\ made' = made + 1
    /\ ws' = made + 1
    /\ open' = open \cup {made + 1}
    /\ running' = TRUE
    /\ UNCHANGED <<autoReconnect, known>>

(* __aenter__                                                              *)
Connect ==
    /\ loop = "out"
    /\ ws = 0
    /\ closer = "idle"
    /\ NewConnection
    /\ UNCHANGED <<Tracking, Retrying, loop, closer, drops>>

(* subscribe_ticker and the like: the handler is added first, then the     *)
(* command is sent; without an open connection the send raises.            *)
Subscribe(u) ==
    /\ user[u] = "idle"
    /\ handlers' = handlers \cup {u}
    /\ IF ws \in open
       THEN /\ user' = [user EXCEPT ![u] = "sending"]
            /\ sentOn' = [sentOn EXCEPT ![u] = ws]
       ELSE /\ user' = [user EXCEPT ![u] = "failed"]
            /\ UNCHANGED sentOn
    /\ UNCHANGED <<running, Connection, subs, raced, late, loop, Retrying, closer, drops>>

(* The send returns: the subscription is tracked.                          *)
Subscribed(u) ==
    /\ user[u] = "sending"
    /\ sentOn[u] \in open
    /\ user' = [user EXCEPT ![u] = "subscribed"]
    /\ known' = [known EXCEPT ![sentOn[u]] = @ \cup {Subscription[u]}]
    /\ subs' = subs \cup {Subscription[u]}
    /\ raced' = IF loop \in {"resubscribe", "resubscribing"} /\ Subscription[u] \notin subs
                THEN raced + 1 ELSE raced
    /\ late' = IF sentOn[u] # ws THEN late \cup {Subscription[u]} ELSE late
    /\ UNCHANGED <<autoReconnect, running, ws, made, open, handlers, sentOn, loop, Retrying, closer, drops>>

(* The send raises ConnectionClosed; the handler stays.                    *)
SubscribeFails(u) ==
    /\ user[u] = "sending"
    /\ sentOn[u] \notin open
    /\ user' = [user EXCEPT ![u] = "failed"]
    /\ UNCHANGED <<running, Connection, subs, handlers, sentOn, raced, late, loop,
                   Retrying, closer, drops>>

-----------------------------------------------------------------------------
GoTo(where) ==
    /\ loop' = where
    /\ UNCHANGED <<running, Connection, Tracking, closer, drops>>

StartReconnect(from) ==
    /\ GoTo("sleep")
    /\ origin' = from
    /\ attempts' = 0
    /\ UNCHANGED <<todo, iterated, sending>>

(* run_forever is called on a connected client.                            *)
Run ==
    /\ loop = "out"
    /\ ws # 0
    /\ GoTo("top")
    /\ UNCHANGED Retrying

(* The while condition and _check_connection.                              *)
Top ==
    /\ loop = "top"
    /\ \/ ~running /\ GoTo("returned") /\ UNCHANGED Retrying
       \/ running /\ ws \in open /\ GoTo("read") /\ UNCHANGED Retrying
       \/ running /\ ws \notin open /\ autoReconnect /\ StartReconnect("check")
       \/ running /\ ws \notin open /\ ~autoReconnect /\ GoTo("returned") /\ UNCHANGED Retrying

(* A message is routed: each handler of its channel is awaited in turn.    *)
Message ==
    /\ loop = "read"
    /\ ws \in open
    /\ known[ws] # {}
    /\ GoTo("handle")
    /\ UNCHANGED Retrying

Handled ==
    /\ loop = "handle"
    /\ GoTo("read")
    /\ UNCHANGED Retrying

(* The connection is closed normally: the iterator is exhausted ...        *)
Exhausted ==
    /\ loop = "read"
    /\ ws \notin open
    /\ IF running /\ autoReconnect THEN StartReconnect("exhausted")
       ELSE GoTo("returned") /\ UNCHANGED Retrying

(* ... or not: ConnectionClosed is raised, and handled whether or not the  *)
(* client is still running.                                                *)
ConnectionClosed ==
    /\ loop = "read"
    /\ ws \notin open
    /\ IF autoReconnect THEN StartReconnect("exception")
       ELSE GoTo("returned") /\ UNCHANGED Retrying

-----------------------------------------------------------------------------
(* _reconnect: sleep, connect, resubscribe; what raises costs an attempt.  *)
SleepOver ==
    /\ loop = "sleep"
    /\ GoTo("connect")
    /\ UNCHANGED Retrying

(* Mutant of Reconnected: nothing is subscribed again.                      *)
ReconnectedOnly ==
    /\ loop = "connect"
    /\ NewConnection
    /\ loop' = "resubscribe"
    /\ todo' = {}
    /\ iterated' = subs
    /\ late' = {}
    /\ UNCHANGED <<origin, attempts, sending, subs, handlers, user, sentOn, raced, closer, drops>>

Reconnected ==
    /\ loop = "connect"
    /\ NewConnection
    /\ loop' = "resubscribe"
    /\ todo' = subs
    /\ iterated' = subs
    /\ late' = {}
    /\ UNCHANGED <<origin, attempts, sending, subs, handlers, user, sentOn, raced, closer, drops>>

(* Mutant of AttemptFails: a failure that costs no attempt.                 *)
AttemptFailsForFree ==
    /\ loop' = "sleep"
    /\ UNCHANGED <<running, attempts, origin, todo, iterated, sending, Connection, Tracking,
                   closer, drops>>

(* Out of attempts the client stops; the ConnectionError leaves run_forever *)
(* only when _reconnect was called by the ConnectionClosed handler, the     *)
(* handler of Exception swallows it otherwise.                             *)
AttemptFails ==
    /\ IF attempts + 1 < MaxReconnect
       THEN attempts' = attempts + 1 /\ loop' = "sleep" /\ UNCHANGED running
       ELSE /\ running' = FALSE
            /\ loop' = IF origin = "exception" THEN "raised" ELSE "returned"
            /\ UNCHANGED attempts
    /\ UNCHANGED <<origin, todo, iterated, sending, Connection, Tracking, closer, drops>>

ConnectFails ==
    /\ loop = "connect"
    /\ AttemptFails

(* The for loop over self._subscriptions raises RuntimeError when the set   *)
(* has grown since it started.                                             *)
ResubscribeNext ==
    /\ loop = "resubscribe"
    /\ \/ subs # iterated /\ AttemptFails
       \/ /\ subs = iterated
          /\ todo = {}
          /\ GoTo(IF origin = "check" THEN "read" ELSE "top")
          /\ UNCHANGED Retrying
       \/ /\ subs = iterated
          /\ \E s \in todo :
                IF ws \in open
                THEN /\ sending' = {s}
                     /\ GoTo("resubscribing")
                     /\ UNCHANGED <<origin, attempts, todo, iterated>>
                ELSE AttemptFails

Resubscribed ==
    /\ loop = "resubscribing"
    /\ IF ws \in open
       THEN /\ known' = [known EXCEPT ![ws] = @ \cup sending]
            /\ todo' = todo \ sending
            /\ loop' = "resubscribe"
            /\ UNCHANGED <<autoReconnect, running, ws, made, open, Tracking, origin, attempts, iterated,
                           sending, closer, drops>>
       ELSE AttemptFails

-----------------------------------------------------------------------------
(* close(): stop, then close the connection self._ws is now.               *)
Close ==
    /\ closer = "idle"
    /\ closer' = "closing"
    /\ running' = FALSE
    /\ UNCHANGED <<Connection, Tracking, loop, Retrying, drops>>

CloseReturns ==
    /\ closer = "closing"
    /\ closer' = "closed"
    /\ open' = open \ {ws}
    /\ UNCHANGED <<autoReconnect, running, ws, made, known, Tracking, loop, Retrying, drops>>

(* The network or the server ends a connection.                            *)
Drop(c) ==
    /\ c \in open
    /\ drops < MaxDrops
    /\ drops' = drops + 1
    /\ open' = open \ {c}
    /\ UNCHANGED <<autoReconnect, running, ws, made, known, Tracking, loop, Retrying, closer>>

LoopStep ==
    \/ Top
    \/ Handled
    \/ Exhausted
    \/ ConnectionClosed
    \/ SleepOver
    \/ Reconnected
    \/ ConnectFails
    \/ ResubscribeNext
    \/ Resubscribed

StreamNext ==
    \/ Connect
    \/ Run
    \/ Message
    \/ LoopStep
    \/ \E u \in Users : Subscribe(u) \/ Subscribed(u) \/ SubscribeFails(u)
    \/ Close
    \/ CloseReturns
    \/ \E c \in Connections : Drop(c)

StreamSpec == StreamInit /\ [][StreamNext]_streamVars

(* The event loop runs what is ready; sleeps end, connection attempts end   *)
(* one way or the other, callbacks return.                                 *)
FairStreamSpec == StreamSpec /\ WF_streamVars(LoopStep)

-----------------------------------------------------------------------------
StreamTypeOK ==
    /\ autoReconnect \in BOOLEAN
    /\ running \in BOOLEAN
    /\ made \in 0..MaxConnections
    /\ ws \in 0..made
    /\ open \subseteq 1..made
    /\ known \in [Connections -> SUBSET Subscriptions]
    /\ subs \subseteq Subscriptions
    /\ handlers \subseteq Users
    /\ user \in [Users -> {"idle", "sending", "subscribed", "failed"}]
    /\ sentOn \in [Users -> 0..made]
    /\ loop \in {"out", "top", "read", "handle"} \cup Reconnecting \cup Over
    /\ origin \in {"check", "exhausted", "exception"}
    /\ attempts \in 0..(MaxReconnect - 1)
    /\ todo \subseteq subs /\ iterated \subseteq subs /\ sending \subseteq subs
    /\ closer \in {"idle", "closing", "closed"}
    /\ drops \in 0..MaxDrops
    /\ raced \in 0..Cardinality(Users)
    /\ late \subseteq subs

(* "Resubscribe to all active channels" (_resubscribe): whenever the client *)
(* reads from an open connection, every tracked subscription was sent on it, *)
(* but for those a send that outlived its own connection has tracked since:  *)
(* they wait for the next reconnect.                                         *)
ReadsAllSubscriptions ==
    (loop \in {"read", "handle"} /\ ws \in open) => subs \ late \subseteq known[ws]

(* connect() does not close the connection it replaces: besides self._ws    *)
(* only connections on which _resubscribe was disturbed by a concurrent     *)
(* subscribe() stay open.                                                   *)
LeaksBounded == Cardinality(open \ {ws}) <= raced

(* The connections are sound: the one that is read carries every tracked    *)
(* subscription, and only a disturbed reconnect leaves another one open.    *)
ConnectionsSound ==
    /\ StreamTypeOK
    /\ ReadsAllSubscriptions
    /\ LeaksBounded

(* Once the connection is lost the loop reads again or is over, although    *)
(* connections may fail and other tasks may keep subscribing.               *)
LossIsHandled ==
    (loop \in {"top", "read", "handle"} /\ ws \notin open) ~>
        (loop \in Over \/ (loop = "read" /\ ws \in open))

-----------------------------------------------------------------------------
=============================================================================

---------------------------- MODULE MarketStreams ----------------------------
(***************************************************************************)
(* Live market data: the hub that keeps the subscriptions of the browser   *)
(* sockets (ws/market-hub.ts) over the pool that shares one upstream       *)
(* exchange socket between all subscribers of a stream                     *)
(* (exchanges/binance/ws.ts).                                              *)
(*                                                                         *)
(* Both run on one thread, so a handler of an event is one step.  A pool   *)
(* entry outlives its place in the pool only through what can still call   *)
(* back into it: its reconnect timer and the listeners of its socket.      *)
(***************************************************************************)
EXTENDS Integers, FiniteSets

CONSTANTS
    Clients,     \* browser sockets
    Streams,     \* raw stream keys, such as btcusdt@kline_1h
    Unparsable,  \* streams whose URL the WebSocket constructor refuses
    SubIds,      \* bound: subscriptions open at one time
    Entries,     \* bound: pool entries alive at one time
    MaxAttempts, \* the reconnect delay no longer grows after so many attempts
    CanError     \* upstream sockets may emit "error", not only "close"

ASSUME ConstantsAssumption ==
    /\ Unparsable \subseteq Streams
    /\ MaxAttempts \in Nat
    /\ CanError \in BOOLEAN
    /\ Entries \subseteq Nat \ {0}

VARIABLES
    client,     \* "open", "silent" (its network is gone) or "away"
    isAlive,    \* the hub's heartbeat flag of a client
    subs,       \* the hub's subscriptions
    pool,       \* entry of each stream, or NoEntry
    entry       \* the pool entries

vars == <<client, isAlive, subs, pool, entry>>

NoEntry == 0

Subscription == [id : SubIds, client : Clients, stream : Streams]

\* A socket is "down" once its listeners are removed, or before there is one.
Entry == [socket : {"down", "connecting", "open", "closed"},
          handlers : SUBSET SubIds, attempts : 0..MaxAttempts,
          timer : BOOLEAN, closed : BOOLEAN]

TypeOK ==
    /\ client \in [Clients -> {"away", "open", "silent"}]
    /\ isAlive \in [Clients -> BOOLEAN]
    /\ subs \subseteq Subscription
    /\ pool \in [Streams -> Entries \cup {NoEntry}]
    /\ entry \in [Entries -> Entry]

Unused == [socket |-> "down", handlers |-> {}, attempts |-> 0,
           timer |-> FALSE, closed |-> TRUE]

Init ==
    /\ client = [c \in Clients |-> "away"]
    /\ isAlive = [c \in Clients |-> FALSE]
    /\ subs = {}
    /\ pool = [k \in Streams |-> NoEntry]
    /\ entry = [e \in Entries |-> Unused]

-----------------------------------------------------------------------------
(* The pool: attachUpstream, and the close() of the handle it returns *)

Pooled(e) == \E k \in Streams : pool[k] = e

\* Nothing can call back into the entry any more.
Listens(e) == entry[e].socket \in {"connecting", "open"}

Free(e) == ~Pooled(e) /\ ~Listens(e) /\ ~entry[e].timer

\* A new entry and its upstream socket, with the handler added afterwards.
Opened(handlers) ==
    [socket |-> "connecting", handlers |-> handlers, attempts |-> 0,
     timer |-> FALSE, closed |-> FALSE]

\* Mutants of Torn: the socket is closed without removing its listeners; the
\* reconnect timer is not cleared.
TornClosing(x) ==
    [x EXCEPT !.closed = TRUE, !.timer = FALSE, !.socket = "closing", !.handlers = {}]

TornKeepsTimer(x) ==
    [x EXCEPT !.closed = TRUE, !.socket = "down", !.handlers = {}]

\* teardownPoolEntry: the timer is cleared, the socket loses its listeners.
Torn(x) ==
    [x EXCEPT !.closed = TRUE, !.timer = FALSE, !.socket = "down", !.handlers = {}]

\* The entry x when the handles in S are closed.
Detached(x, S) ==
    IF x.handlers \cap S = {} THEN x
    ELSE IF x.handlers \subseteq S THEN Torn(x)
    ELSE [x EXCEPT !.handlers = @ \ S]

\* Every handle looks its stream up in the pool when it is closed.
CloseHandles(S) ==
    /\ entry' = [e \in Entries |-> IF Pooled(e) THEN Detached(entry[e], S) ELSE entry[e]]
    /\ pool' = [k \in Streams |->
                  IF pool[k] # NoEntry /\ entry[pool[k]].handlers # {}
                                       /\ Detached(entry[pool[k]], S).handlers = {}
                  THEN NoEntry ELSE pool[k]]

-----------------------------------------------------------------------------
(* The hub *)

Connect(c) ==
    /\ client[c] = "away"
    /\ client' = [client EXCEPT ![c] = "open"]
    /\ isAlive' = [isAlive EXCEPT ![c] = TRUE]
    /\ UNCHANGED <<subs, pool, entry>>

\* The first subscriber of a stream opens the upstream, later ones join it.
Subscribe(c, k, id) ==
    /\ client[c] = "open"
    /\ \A s \in subs : s.id # id
    /\ subs' = subs \cup {[id |-> id, client |-> c, stream |-> k]}
    /\ \/ /\ pool[k] # NoEntry
          /\ entry' = [entry EXCEPT ![pool[k]].handlers = @ \cup {id}]
          /\ UNCHANGED pool
       \/ /\ pool[k] = NoEntry /\ k \notin Unparsable
          /\ \E e \in Entries :
                /\ Free(e)
                /\ pool' = [pool EXCEPT ![k] = e]
                /\ entry' = [entry EXCEPT ![e] = Opened({id})]
    /\ UNCHANGED <<client, isAlive>>

\* The entry is in the pool before the socket is constructed: when that throws,
\* the client gets an error and the entry stays, with no socket and no handler.
SubscribeThrows(c, k) ==
    /\ client[c] = "open"
    /\ pool[k] = NoEntry /\ k \in Unparsable
    /\ \E e \in Entries :
        /\ Free(e)
        /\ pool' = [pool EXCEPT ![k] = e]
        /\ entry' = [entry EXCEPT ![e] = [Opened({}) EXCEPT !.socket = "down"]]
    /\ UNCHANGED <<client, isAlive, subs>>

Unsubscribe(s) ==
    /\ client[s.client] = "open"
    /\ subs' = subs \ {s}
    /\ CloseHandles({s.id})
    /\ UNCHANGED <<client, isAlive>>

\* Mutant of Ends: the subscriptions are forgotten before they are closed.
EndsUnclosed(c) ==
    /\ client' = [client EXCEPT ![c] = "away"]
    /\ subs' = {s \in subs : s.client # c}
    /\ UNCHANGED <<pool, entry>>

\* The client's socket closes or errs: cleanup closes all its subscriptions.
Ends(c) ==
    /\ client' = [client EXCEPT ![c] = "away"]
    /\ subs' = {s \in subs : s.client # c}
    /\ CloseHandles({s.id : s \in {t \in subs : t.client = c}})

Leave(c) == client[c] = "open" /\ Ends(c) /\ UNCHANGED isAlive

GoSilent(c) ==
    /\ client[c] = "open"
    /\ client' = [client EXCEPT ![c] = "silent"]
    /\ UNCHANGED <<isAlive, subs, pool, entry>>

\* Mutant of Pinged: the flag is not lowered with the ping.
PingedStillAlive(c) == isAlive

Pinged(c) == [isAlive EXCEPT ![c] = FALSE]

\* A client that has not answered the last ping is terminated, which closes it.
Heartbeat(c) ==
    /\ client[c] # "away"
    /\ \/ ~isAlive[c] /\ Ends(c) /\ UNCHANGED isAlive
       \/ isAlive[c] /\ isAlive' = Pinged(c) /\ UNCHANGED <<client, subs, pool, entry>>

Pong(c) ==
    /\ client[c] = "open"
    /\ isAlive' = [isAlive EXCEPT ![c] = TRUE]
    /\ UNCHANGED <<client, subs, pool, entry>>

-----------------------------------------------------------------------------
(* Upstream socket events: openUpstream *)

SetEntry(e, x) == entry' = [entry EXCEPT ![e] = x]

Abandoned(e) == entry[e].closed \/ entry[e].handlers = {}

\* An upstream that nobody waits for any more is shut down as it opens.
SocketOpens(e) ==
    /\ entry[e].socket = "connecting"
    /\ SetEntry(e, IF Abandoned(e) THEN [entry[e] EXCEPT !.socket = "down"]
                   ELSE [entry[e] EXCEPT !.socket = "open", !.attempts = 0])
    /\ UNCHANGED <<client, isAlive, subs, pool>>

\* Mutant of Rescheduled: no timer is set.
RescheduledNever(x) == [x EXCEPT !.socket = "closed"]

Rescheduled(x) ==
    [x EXCEPT !.socket = "closed", !.timer = TRUE,
              !.attempts = IF @ < MaxAttempts THEN @ + 1 ELSE @]

\* The exchange closes the connection: a reconnect is scheduled.
SocketCloses(e) ==
    /\ entry[e].socket = "open"
    /\ SetEntry(e, IF Abandoned(e) THEN [entry[e] EXCEPT !.socket = "closed"]
                   ELSE Rescheduled(entry[e]))
    /\ UNCHANGED <<client, isAlive, subs, pool>>

\* A connection that cannot be made, or that breaks, emits "error" and then
\* "close"; the error handler removes the listeners, the one for "close" too.
SocketErrs(e) ==
    /\ CanError
    /\ Listens(e)
    /\ ~entry[e].closed
    /\ SetEntry(e, [entry[e] EXCEPT !.socket = "down"])
    /\ UNCHANGED <<client, isAlive, subs, pool>>

ReconnectTimer(e) ==
    /\ entry[e].timer
    /\ SetEntry(e, [entry[e] EXCEPT !.timer = FALSE, !.socket = "connecting"])
    /\ UNCHANGED <<client, isAlive, subs, pool>>

-----------------------------------------------------------------------------
Next ==
    \/ \E c \in Clients :
        \/ Connect(c) \/ Leave(c) \/ GoSilent(c) \/ Heartbeat(c) \/ Pong(c)
        \/ \E k \in Streams : SubscribeThrows(c, k)
        \/ \E k \in Streams, id \in SubIds : Subscribe(c, k, id)
    \/ \E s \in subs : Unsubscribe(s)
    \/ \E e \in Entries :
        SocketOpens(e) \/ SocketCloses(e) \/ SocketErrs(e) \/ ReconnectTimer(e)

Spec == Init /\ [][Next]_vars

\* Timers fire and a connection that is tried again and again is made.
FairSpec ==
    /\ Spec
    /\ \A c \in Clients : WF_vars(Heartbeat(c))
    /\ \A e \in Entries : WF_vars(ReconnectTimer(e)) /\ SF_vars(SocketOpens(e))

-----------------------------------------------------------------------------
(* Properties *)

\* The reference count: the handlers of a stream's entry are the subscriptions
\* to that stream of clients still connected, through every order of leaving,
\* and a stream has an entry just when somebody subscribes to it (an entry
\* whose socket could not be constructed is the one that stays behind).
HandlersAreSubscriptions ==
    /\ \A s \in subs : client[s.client] # "away"
    /\ \A k \in Streams :
        LET ids == {s.id : s \in {t \in subs : t.stream = k}} IN
        IF pool[k] = NoEntry THEN ids = {}
        ELSE /\ entry[pool[k]].handlers = ids
             /\ ids # {} \/ k \in Unparsable

\* One upstream per stream: what is not in the pool has neither a listening
\* socket nor a timer that would open one, and no entry serves two streams.
NoOrphanUpstream ==
    /\ \A e \in Entries : Listens(e) \/ entry[e].timer => Pooled(e)
    /\ \A k, j \in Streams : k # j /\ pool[k] # NoEntry => pool[k] # pool[j]

\* A client whose network is gone does not hold its streams for ever.
SilentIsCleaned ==
    \A c \in Clients : (client[c] = "silent") ~> (client[c] = "away")

\* An upstream that the exchange closes is opened again, through any number of
\* subscribers that come and go meanwhile, unless the last of them leaves or the
\* new connection errs.
CloseReconnects ==
    \A k \in Streams :
        (pool[k] # NoEntry /\ entry[pool[k]].socket = "closed")
        ~> (pool[k] = NoEntry \/ entry[pool[k]].socket \in {"open", "down"})

\* Connections reconnect while they have subscribers: a stream with an entry
\* comes to have an open upstream, or loses its subscribers.
Reconnects ==
    \A k \in Streams :
        (pool[k] # NoEntry) ~> (pool[k] = NoEntry \/ entry[pool[k]].socket = "open")
=============================================================================

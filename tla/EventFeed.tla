------------------------------ MODULE EventFeed ------------------------------
(***************************************************************************)
(* Market events: stored by the liquidation worker of the API process      *)
(* (ingest/binance-liquidation.worker.ts) and by runs of the RSS ingest    *)
(* (ingest/rss-ingest.ts, one process in a loop and whoever calls it by    *)
(* hand), announced to the clients of the feed (ws/events-hub.ts) through  *)
(* the API's own event bus and, for what other processes store, by polling *)
(* the table.                                                              *)
(*                                                                         *)
(* One step is one statement on the database.  An event is known by its    *)
(* key, the pair of source and external id; items without a symbol, which  *)
(* are dropped before anything else happens, are left out.                 *)
(***************************************************************************)
EXTENDS Integers, FiniteSets, Sequences

CONSTANTS
    Liquidations,   \* keys of forced orders, from Binance's stream
    Feeds,          \* the RSS sources in their order: the keys of each
    Ingesters,      \* processes that run the RSS ingest
    Copies,         \* most copies of an item in one answer of a source
    PageSize,       \* most events read by a poll (30 in the source)
    PollEvery,      \* time between two polls (45 s)
    Lookback,       \* how far the first poll of a process reaches (60 s)
    MaxArrivals,    \* bound: messages and answers of sources
    MaxTime         \* bound: the clock stops here

ASSUME FeedsAssumption == Feeds \in Seq(SUBSET UNION {Feeds[i] : i \in DOMAIN Feeds})

ASSUME BoundsAssumption ==
    /\ Copies \in Nat \ {0} /\ PageSize \in Nat \ {0} /\ PollEvery \in Nat
    /\ Lookback \in Nat /\ MaxArrivals \in Nat /\ MaxTime \in Nat

VARIABLES
    now,        \* Date.now, one clock for the processes of a host
    arrivals,   \* how many messages and answers came
    events,     \* t_market_event; stored is the time of the insert
    worker,     \* the liquidation worker's socket and reconnect timer
    upserts,    \* calls of upsert in progress in the API
    ingest,     \* the run in progress, by ingester
    lastPoll,   \* lastPollMs
    polls,      \* polls whose query is not answered
    told,       \* history: the events that the feed's clients were sent
    missed,     \* history: what this process's polls leave out for a reason
    started     \* history: when this API process started

storeVars == <<arrivals, events>>
hubVars == <<lastPoll, polls, told, missed, started>>
vars == <<now, arrivals, events, worker, upserts, ingest, hubVars>>

RssKeys == UNION {Feeds[i] : i \in DOMAIN Feeds}

Keys == Liquidations \cup RssKeys

\* An eventId (a UUID): which arrival brought it, its key, which copy it is.
EventId == (1..MaxArrivals) \X Keys \X (1..Copies)

Event == [id : EventId, key : Keys, ingested : Nat, stored : Nat]

Upsert ==
    [pc : {"find"}, id : EventId]
    \cup [pc : {"create", "emit"}, id : EventId, ingested : Nat]

Run ==
    [pc : {"idle"}]
    \cup [pc : {"fetch"}, source : DOMAIN Feeds]
    \cup [pc : {"find"}, source : DOMAIN Feeds, items : SUBSET EventId]
    \cup [pc : {"create"}, source : DOMAIN Feeds, items : SUBSET EventId, ingested : Nat]

Poll == [since : Int, at : Nat]

TypeOK ==
    /\ now \in Nat /\ arrivals \in 0..MaxArrivals
    /\ events \subseteq Event
    /\ worker \in [socket : {"down", "connecting", "open", "erred", "closed"},
                   timer : BOOLEAN]
    /\ upserts \subseteq Upsert
    /\ ingest \in [Ingesters -> Run]
    /\ lastPoll \in Int /\ polls \subseteq Poll /\ started \in Nat
    /\ told \subseteq {e.id : e \in events} /\ missed \subseteq EventId

Idle == [pc |-> "idle"]

Connecting == [socket |-> "connecting", timer |-> FALSE]

Init ==
    /\ now = 0 /\ arrivals = 0
    /\ events = {}
    /\ worker = Connecting
    /\ upserts = {}
    /\ ingest = [p \in Ingesters |-> Idle]
    /\ lastPoll = -Lookback /\ polls = {}
    /\ told = {} /\ missed = {} /\ started = 0

-----------------------------------------------------------------------------
(* The table *)

KeyOf(id) == id[2]

\* Mutant of Existing: what is stored is not looked up.
ExistingNone(ids) == {}

\* The ids whose key is in the table.
Existing(ids) == {i \in ids : \E e \in events : e.key = KeyOf(i)}

\* The table's unique key on source and external id refuses an insert (all its rows)
\* that brings a key a second time.
Refused(ids) ==
    \/ \E i \in ids, e \in events : e.key = KeyOf(i)
    \/ \E i, j \in ids : i # j /\ KeyOf(i) = KeyOf(j)

Rows(ids, ingested) ==
    {[id |-> i, key |-> KeyOf(i), ingested |-> ingested, stored |-> now] : i \in ids}

IsUp == worker.socket # "down"

\* Inserts the rows.  Those that say they were ingested before the last poll
\* began are behind its position when the next poll asks.
Insert(ids, ingested) ==
    /\ events' = events \cup Rows(ids, ingested)
    /\ missed' = missed \cup {i \in ids : IsUp /\ ingested < lastPoll}

-----------------------------------------------------------------------------
(* The liquidation worker *)

\* Mutant of Scheduled: only an error schedules a reconnect.
ScheduledOnError(state) == [socket |-> state, timer |-> worker.timer \/ state = "erred"]

\* An error and a close each schedule a reconnect, unless one is scheduled.
Scheduled(state) == [socket |-> state, timer |-> TRUE]

SocketOpens ==
    /\ worker.socket = "connecting"
    /\ worker' = [worker EXCEPT !.socket = "open"]
    /\ UNCHANGED <<now, storeVars, upserts, ingest, hubVars>>

SocketEnds(state) ==
    /\ worker.socket \in {"connecting", "open", "erred"} \ {state}
    /\ worker' = Scheduled(state)
    /\ UNCHANGED <<now, storeVars, upserts, ingest, hubVars>>

ReconnectTimer ==
    /\ worker.timer
    /\ worker' = Connecting
    /\ UNCHANGED <<now, storeVars, upserts, ingest, hubVars>>

\* A message begins an upsert, whether or not others are in progress.
Message ==
    /\ worker.socket = "open"
    /\ arrivals < MaxArrivals
    /\ arrivals' = arrivals + 1
    /\ \E k \in Liquidations :
        upserts' = upserts \cup {[pc |-> "find", id |-> <<arrivals + 1, k, 1>>]}
    /\ UNCHANGED <<now, events, worker, ingest, hubVars>>

Becomes(u, rest) == upserts' = (upserts \ {u}) \cup rest

UpsertFind(u) ==
    /\ u.pc = "find"
    /\ Becomes(u, {[pc |-> "create", id |-> i, ingested |-> now] :
                     i \in {u.id} \ Existing({u.id})})
    /\ UNCHANGED <<now, storeVars, worker, ingest, hubVars>>

UpsertCreate(u) ==
    /\ u.pc = "create" /\ ~Refused({u.id})
    /\ Insert({u.id}, u.ingested)
    /\ Becomes(u, {[u EXCEPT !.pc = "emit"]})
    /\ UNCHANGED <<now, arrivals, worker, ingest, lastPoll, polls, told, started>>

\* The API's bus has the hub as its listener.
UpsertEmit(u) ==
    /\ u.pc = "emit"
    /\ told' = told \cup {u.id}
    /\ Becomes(u, {})
    /\ UNCHANGED <<now, storeVars, worker, ingest, lastPoll, polls, missed, started>>

-----------------------------------------------------------------------------
(* The RSS ingest *)

SetRun(p, state) == ingest' = [ingest EXCEPT ![p] = state]

\* Mutant of NextSource: the run goes one past the last source.
NextSourcePast(i) == IF i <= Len(Feeds) THEN [pc |-> "fetch", source |-> i + 1] ELSE Idle

NextSource(i) == IF i < Len(Feeds) THEN [pc |-> "fetch", source |-> i + 1] ELSE Idle

IngestBegins(p) ==
    /\ ingest[p].pc = "idle"
    /\ SetRun(p, NextSource(0))
    /\ UNCHANGED <<now, storeVars, worker, upserts, hubVars>>

\* A source answers with some of its items, perhaps with copies of one.
SourceAnswers(p) ==
    /\ ingest[p].pc = "fetch"
    /\ arrivals < MaxArrivals
    /\ arrivals' = arrivals + 1
    /\ LET i == ingest[p].source IN
        \E keys \in SUBSET Feeds[i] \ {{}}, n \in 1..Copies :
            SetRun(p, [pc |-> "find", source |-> i,
                       items |-> {arrivals + 1} \X keys \X (1..n)])
    /\ UNCHANGED <<now, events, worker, upserts, hubVars>>

\* The source has nothing to store, or a call for it fails (as the insert does when
\* it is refused, with all that is new in the batch): the next one.
SourceSkipped(p) ==
    /\ ingest[p].pc # "idle"
    /\ SetRun(p, NextSource(ingest[p].source))
    /\ UNCHANGED <<now, storeVars, worker, upserts, hubVars>>

BatchFind(p) ==
    /\ ingest[p].pc = "find"
    /\ LET x == ingest[p]
           toCreate == x.items \ Existing(x.items)
       IN  SetRun(p, IF toCreate = {} THEN NextSource(x.source)
                     ELSE [pc |-> "create", source |-> x.source,
                           items |-> toCreate, ingested |-> now])
    /\ UNCHANGED <<now, storeVars, worker, upserts, hubVars>>

\* One INSERT of all.  The rows are read again and put on the bus of this
\* process, where nobody listens.
BatchCreate(p) ==
    /\ ingest[p].pc = "create" /\ ~Refused(ingest[p].items)
    /\ Insert(ingest[p].items, ingest[p].ingested)
    /\ SetRun(p, NextSource(ingest[p].source))
    /\ UNCHANGED <<now, arrivals, worker, upserts, lastPoll, polls, told, started>>

IngestDies(p) ==
    /\ ingest[p].pc # "idle"
    /\ SetRun(p, Idle)
    /\ UNCHANGED <<now, storeVars, worker, upserts, hubVars>>

-----------------------------------------------------------------------------
(* The hub *)

\* Mutant of ListedSince: an event of the very time of the last poll is not read.
ListedAfter(since) == {e \in events : e.ingested > since}

ListedSince(since) == {e \in events : e.ingested >= since}

\* The possible pages of a query: its oldest events by ingestedAt.
Pages(listed) ==
    {page \in SUBSET listed :
        /\ Cardinality(page) <= PageSize
        /\ Cardinality(page) = PageSize \/ page = listed
        /\ \A e \in page, f \in listed \ page : e.ingested <= f.ingested}

\* The position moves before the query.  (The first poll of a process comes one
\* interval after its start; here it may come earlier.)
PollBegins ==
    /\ IsUp
    /\ now >= lastPoll + PollEvery
    /\ lastPoll' = now
    /\ polls' = polls \cup {[since |-> lastPoll, at |-> now]}
    /\ UNCHANGED <<now, storeVars, worker, upserts, ingest, told, missed, started>>

Ids(rows) == {e.id : e \in rows}

\* Of some events, those that no later poll lists.
Behind(rows) == Ids({e \in rows : e.ingested < lastPoll})

\* The page is sent, and what was listed beyond it is left behind.
PollAnswered(q) ==
    /\ \E page \in Pages(ListedSince(q.since)) :
        /\ told' = told \cup Ids(page)
        /\ missed' = missed \cup Behind(ListedSince(q.since) \ page)
    /\ polls' = polls \ {q}
    /\ UNCHANGED <<now, storeVars, worker, upserts, ingest, lastPoll, started>>

PollFails(q) ==
    /\ missed' = missed \cup Behind(ListedSince(q.since))
    /\ polls' = polls \ {q}
    /\ UNCHANGED <<now, storeVars, worker, upserts, ingest, lastPoll, told, started>>

-----------------------------------------------------------------------------
(* The API process: killed, or ended by a rejection that nobody handles, such *)
(* as a failed statement of an upsert or of a client's snapshot               *)

Dies ==
    /\ worker' = [socket |-> "down", timer |-> FALSE]
    /\ upserts' = {} /\ polls' = {}
    /\ UNCHANGED <<now, storeVars, ingest, lastPoll, told, missed, started>>

ApiDies == IsUp /\ Dies

\* The promise of an upsert is dropped by the worker, so its rejection is unhandled.
UpsertRefused(u) == u.pc = "create" /\ Refused({u.id}) /\ Dies

ApiEnds == ApiDies \/ \E u \in upserts : UpsertRefused(u)

ApiStarts ==
    /\ ~IsUp
    /\ worker' = Connecting
    /\ lastPoll' = now - Lookback
    /\ missed' = {} /\ started' = now
    /\ UNCHANGED <<now, storeVars, upserts, ingest, polls, told>>

Tick ==
    /\ now < MaxTime
    /\ now' = now + 1
    /\ UNCHANGED <<storeVars, worker, upserts, ingest, hubVars>>

SocketStep == SocketOpens \/ SocketEnds("erred") \/ SocketEnds("closed") \/ ReconnectTimer

UpsertStep ==
    \/ Message
    \/ \E u \in upserts : UpsertFind(u) \/ UpsertCreate(u) \/ UpsertEmit(u)

IngestStep(p) ==
    \/ IngestBegins(p) \/ SourceAnswers(p) \/ SourceSkipped(p)
    \/ BatchFind(p) \/ BatchCreate(p) \/ IngestDies(p)

PollStep == PollBegins \/ \E q \in polls : PollAnswered(q) \/ PollFails(q)

Next ==
    \/ SocketStep \/ UpsertStep \/ PollStep
    \/ \E p \in Ingesters : IngestStep(p)
    \/ ApiEnds \/ ApiStarts \/ Tick

Spec == Init /\ [][Next]_vars

\* Timers fire, the process manager restarts the API, which dies finitely often,
\* and a connection that is attempted for ever is at some time established.
FairSpec ==
    /\ Spec
    /\ WF_vars(ReconnectTimer) /\ WF_vars(ApiStarts) /\ SF_vars(SocketOpens)
    /\ <>[][~ApiEnds]_vars

-----------------------------------------------------------------------------
(* Properties *)

\* Who looked for id at time t did not overlook a row of its key.
Looked(id, t) == \A e \in events : e.key = KeyOf(id) => t <= e.stored

\* The unique key refuses a writer (which ends the API or drops a batch) only because
\* writers overlapped or a source repeated an item: a row that stands in the way of an
\* insert was stored after the writer looked for it.
RefusalsOverlapped ==
    /\ \A u \in upserts : u.pc = "create" => Looked(u.id, u.ingested)
    /\ \A p \in Ingesters : ingest[p].pc = "create" =>
            \A i \in ingest[p].items : Looked(i, ingest[p].ingested)

\* An event in the table is announced, or the next poll lists it, or a poll
\* that is not answered does, or one of the known reasons holds: its row came
\* after the poll that should have listed it, that poll failed or was full, or
\* it is older than what a restarted API looks at.
LossIsExplained ==
    IsUp => \A e \in events :
        \/ e.id \in told \/ e.id \in missed
        \/ e.ingested >= lastPoll
        \/ \E q \in polls : e.ingested >= q.since
        \/ e.ingested < started - Lookback

\* The worker returns to the stream however it lost it: an error, a close, both,
\* an attempt that fails, or the death of its process.
WorkerReturns == worker.socket # "open" ~> worker.socket = "open"
=============================================================================

------------------------------ MODULE KlineCache ------------------------------
(***************************************************************************)
(* Klines: a request for the bars of one symbol and interval               *)
(* (services/market/market.service.ts, getKlines), answered out of the     *)
(* process's cache of closed bars (utils/kline-cache.ts) and by fetching   *)
(* from the exchange what the cache misses (exchanges/binance/rest.ts).    *)
(*                                                                         *)
(* A bar is known by the time it opens; of its contents only this matters: *)
(* the time up to which they count the trades.  The exchange's bar of time *)
(* b, as it stands at time t, has seen what happened up to t, or up to its *)
(* close once it is closed.                                                *)
(***************************************************************************)
EXTENDS Integers, FiniteSets

CONSTANTS
    Requests,       \* concurrent requests
    Queries,        \* what clients ask: records of start, end and limit
    Step,           \* length of the interval, in clock ticks
    Offset,         \* the exchange's bars open Offset after a multiple of Step
    UpstreamLimit,  \* most bars the exchange returns (1000 in the source)
    Capacity,       \* most bars the cache holds (200000 in the source)
    HistoricalAge,  \* a range that ended so long ago is cacheable (60 s)
    Delay,          \* a request is over so long after its first answer
    MaxTime         \* bound: the clock stops here

None == -1      \* a bound of the range that the client left out

ASSUME StepAssumption == Step \in Nat \ {0} /\ Offset \in 0..(Step - 1)

ASSUME LimitsAssumption ==
    /\ UpstreamLimit \in Nat \ {0} /\ Capacity \in Nat \ {0}
    /\ HistoricalAge \in Nat /\ Delay \in Nat /\ MaxTime \in Nat

ASSUME QueriesAssumption ==
    Queries \subseteq [start : Nat \cup {None}, end : Nat \cup {None}, limit : Nat \ {0}]

VARIABLES
    now,        \* the clock, shared with the exchange
    cache,      \* the cached bars; age counts those used more recently
    request     \* the requests, by name

vars == <<now, cache, request>>

Bar == [time : Nat, seen : Nat]

Cached == [time : Nat, seen : Nat, age : 0..(Capacity - 1)]

\* A call of the exchange: its newest bars, or the first ones of a range.
Fetch == [newest : {TRUE}, limit : Nat]
         \cup [newest : {FALSE}, from : Int, to : Int, limit : Nat]

Request ==
    [pc : {"idle"}]
    \cup [pc : {"fetch"}, query : Queries, asked : Nat, hits : SUBSET Bar,
          waits : SUBSET Fetch, got : SUBSET Bar, since : Nat]
    \cup [pc : {"done"}, query : Queries, asked : Nat, at : Nat,
          bars : SUBSET Bar, immutable : BOOLEAN]

\* The cache holds each bar once and no more than fit, with the order of use
\* unambiguous, so that what is dropped is what was used least recently.
TypeOK ==
    /\ now \in Nat
    /\ cache \subseteq Cached
    /\ \A c, d \in cache : c # d => c.time # d.time /\ c.age # d.age
    /\ {c.age : c \in cache} = 0..(Cardinality(cache) - 1)
    /\ request \in [Requests -> Request]

Idle == [pc |-> "idle"]

Init ==
    /\ now = 0
    /\ cache = {}
    /\ request = [r \in Requests |-> Idle]

-----------------------------------------------------------------------------
(* Bars and times *)

AtMost(x, y) == IF x <= y THEN x ELSE y

AtLeast(x, y) == IF x >= y THEN x ELSE y

First(S, n) == {x \in S : Cardinality({y \in S : y < x}) < n}

Last(S, n) == {x \in S : Cardinality({y \in S : y > x}) < n}

CloseTime(bar) == bar.time + Step

\* The times at which the exchange's bars open, from one time to another.
Opens(from, to) == {t \in 0..to : t >= from /\ t % Step = Offset}

\* The exchange's answer at time t.  It knows no bar of the future.
Answer(f, t) ==
    LET times == IF f.newest THEN Last(Opens(0, t), f.limit)
                 ELSE First(Opens(f.from, AtMost(f.to, t)), f.limit)
    IN  {[time |-> b, seen |-> AtMost(t, b + Step)] : b \in times}

-----------------------------------------------------------------------------
(* The cache: a Map in the order of use, with the oldest entry first *)

Entry(bar, age) == [time |-> bar.time, seen |-> bar.seen, age |-> age]

\* MUTANT: a bar that is in the cache already is stored beside its older copy.
UsedTwice(bars) ==
    LET LaterIn(b) == {a \in bars : a.time > b.time} IN
    {e \in {Entry(b, Cardinality(LaterIn(b))) : b \in bars}
           \cup {Entry(c, c.age + Cardinality(bars)) : c \in cache} : e.age < Capacity}

\* The cache once the bars have been touched, in the order of their times: each
\* is the last in use, and what no longer fits is dropped from the other end.
Used(bars) ==
    LET kept == {c \in cache : \A b \in bars : b.time # c.time}
        LaterIn(b) == {a \in bars : a.time > b.time}
        LaterKept(c) == {d \in kept : d.age < c.age}
    IN  {e \in {Entry(b, Cardinality(LaterIn(b))) : b \in bars}
               \cup {Entry(c, Cardinality(bars) + Cardinality(LaterKept(c))) : c \in kept} :
         e.age < Capacity}

\* The slots that a lookup goes through; none, when the range is reversed.
Slots(start, end) ==
    {t \in (start - (start % Step))..end : start <= end /\ t % Step = 0}

Hits(start, end) ==
    {[time |-> c.time, seen |-> c.seen] :
        c \in {d \in cache : d.time \in Slots(start, end)}}

Missing(start, end) == Slots(start, end) \ {c.time : c \in cache}

\* Mutant of FetchLimit: the bar that contains the end of the gap is forgotten.
FetchLimitShort(from, to) == AtMost((to - from + Step - 1) \div Step, UpstreamLimit)

FetchLimit(from, to) == AtMost((to - from + Step - 1) \div Step + 1, UpstreamLimit)

\* The gaps between the hits, each from its first slot up to the next hit.
Gaps(start, end) ==
    LET missing == Missing(start, end)
        hit == Slots(start, end) \ missing
        firsts == {t \in missing : t - Step \notin missing}
        Until(t) == IF \E h \in hit : h > t
                    THEN (CHOOSE h \in hit : h > t /\ \A g \in hit : g > t => h <= g) - 1
                    ELSE end
    IN  {[newest |-> FALSE, from |-> t, to |-> Until(t),
          limit |-> FetchLimit(t, Until(t))] : t \in firsts}

-----------------------------------------------------------------------------
(* getKlines *)

Limit(q) == AtMost(q.limit, UpstreamLimit)

\* A response whose range ended long enough ago may be kept by anyone.
IsFullyHistorical(q) == q.end # None /\ q.end < now - HistoricalAge

SetRequest(r, state) == request' = [request EXCEPT ![r] = state]

Done(q, asked, bars) ==
    LET times == First({b.time : b \in bars}, Limit(q)) IN
    [pc |-> "done", query |-> q, asked |-> asked, at |-> now,
     bars |-> {b \in bars : b.time \in times}, immutable |-> IsFullyHistorical(q)]

Waiting(q, asked, hits, fetches, got, since) ==
    [pc |-> "fetch", query |-> q, asked |-> asked, hits |-> hits,
     waits |-> fetches, got |-> got, since |-> since]

Fetching(q, hits, fetches) == Waiting(q, now, hits, fetches, {}, now)

\* No bounds: the newest bars.
AskNewest(r, q) ==
    /\ request[r].pc \in {"idle", "done"}
    /\ q.start = None /\ q.end = None
    /\ SetRequest(r, Fetching(q, {}, {[newest |-> TRUE, limit |-> Limit(q)]}))
    /\ UNCHANGED <<now, cache>>

\* Of a range with one bound, the other follows from the limit.
RangeOf(q) ==
    LET end == IF q.end = None THEN now ELSE q.end IN
    [newest |-> FALSE, limit |-> Limit(q), to |-> end,
     from |-> IF q.start = None THEN AtLeast(0, end - Step * Limit(q)) ELSE q.start]

AskOneSided(r, q) ==
    /\ request[r].pc \in {"idle", "done"}
    /\ (q.start = None) # (q.end = None)
    /\ SetRequest(r, Fetching(q, {}, {RangeOf(q)}))
    /\ UNCHANGED <<now, cache>>

\* A range with both bounds: the cache first, and only its gaps are fetched.
AskRange(r, q) ==
    /\ request[r].pc \in {"idle", "done"}
    /\ q.start # None /\ q.end # None
    /\ LET hits == Hits(q.start, q.end)
           gaps == Gaps(q.start, q.end)
       IN  /\ SetRequest(r, IF gaps = {} THEN Done(q, now, hits)
                            ELSE Fetching(q, hits, gaps))
           /\ cache' = Used(hits)
    /\ UNCHANGED now

\* One of the parallel calls is answered.  (An attempt that fails and is
\* repeated by fetchJsonWithRetry is an answer that comes later.)
FetchAnswered(r) ==
    /\ request[r].pc = "fetch"
    /\ LET x == request[r] IN
        \E f \in x.waits :
            SetRequest(r, Waiting(x.query, x.asked, x.hits, x.waits \ {f},
                                  x.got \cup Answer(f, now),
                                  IF x.got = {} THEN now ELSE x.since))
    /\ UNCHANGED <<now, cache>>

\* One call has failed for good: the request fails, its answers are dropped.
FetchFails(r) ==
    /\ request[r].pc = "fetch"
    /\ request[r].waits # {}
    /\ SetRequest(r, Idle)
    /\ UNCHANGED <<now, cache>>

\* Mutant of Closed: the bar that is still forming is cached with the others.
ClosedOrNot(bars) == bars

Closed(bars) == {b \in bars : CloseTime(b) <= now}

\* All are answered: the closed bars are cached, the result is merged and cut.
FetchDone(r) ==
    /\ request[r].pc = "fetch"
    /\ request[r].waits = {}
    /\ cache' = Used(Closed(request[r].got))
    /\ SetRequest(r, Done(request[r].query, request[r].asked,
                          request[r].hits \cup request[r].got))
    /\ UNCHANGED now

\* The clock: timeouts bound the time between two answers of one request.
Tick ==
    /\ now < MaxTime
    /\ \A r \in Requests :
        request[r].pc = "fetch" /\ request[r].got # {} => now < request[r].since + Delay
    /\ now' = now + 1
    /\ UNCHANGED <<cache, request>>

Next ==
    \/ \E r \in Requests, q \in Queries :
        AskNewest(r, q) \/ AskOneSided(r, q) \/ AskRange(r, q)
    \/ \E r \in Requests : FetchAnswered(r) \/ FetchFails(r) \/ FetchDone(r)
    \/ Tick

Spec == Init /\ [][Next]_vars

-----------------------------------------------------------------------------
(* Properties *)

\* Nothing is served that is older than the request, unless the bar was closed.
\* A bar is taken for closed by the clock after all answers have come, so one
\* that closed meanwhile may lack what happened since it was answered.
ServedIsFresh ==
    \A r \in Requests : request[r].pc = "done" =>
        \A b \in request[r].bars :
            b.seen >= request[r].asked \/ b.seen >= CloseTime(b) - Delay

\* The times between which the bars of a query open.
FirstTime(q) ==
    CASE q.start = None -> AtLeast(0, q.end - Step * Limit(q))
      [] q.end = None -> q.start
      [] OTHER -> q.start - (q.start % Step)

LastTime(q, asked) == IF q.end = None THEN asked ELSE q.end

\* The bars of a query that exist at time t, cut to the limit; a reversed range
\* has none.
Expected(q, asked, t) ==
    IF q.start = None /\ q.end = None THEN Last(Opens(0, t), Limit(q))
    ELSE IF q.end # None /\ q.end < q.start THEN {}
    ELSE First(Opens(FirstTime(q), AtMost(t, LastTime(q, asked))), Limit(q))

\* A response has no holes: whatever was cached, evicted, fetched in parallel or
\* cut by the exchange's own limit, it holds, once each, the bars that the range
\* had at some time between the question and the answer.
ServedIsComplete ==
    \A r \in Requests : request[r].pc = "done" =>
        LET q == request[r].query
            bars == request[r].bars
        IN  /\ \A b, c \in bars : b # c => b.time # c.time
            /\ \E t \in request[r].asked..request[r].at :
                {b.time : b \in bars} = Expected(q, request[r].asked, t)

-----------------------------------------------------------------------------
(* What the repository says of the program, and the code does not keep *)

\* A response that caches may keep for a day, as immutable, is fully
\* historical: all its bars are closed.
ImmutableIsClosed ==
    \A r \in Requests : request[r].pc = "done" /\ request[r].immutable =>
        \A b \in request[r].bars : b.seen = CloseTime(b)
=============================================================================

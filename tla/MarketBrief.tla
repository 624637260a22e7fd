---------------------------- MODULE MarketBrief ----------------------------
(***************************************************************************)
(* The market brief (services/market/market-brief.service.ts): six factors *)
(* are read from independent sources and voted into a light, the brief is  *)
(* kept until it expires, and it tells how the light changed since the     *)
(* brief before it.  Several requests may rebuild one brief at once.       *)
(*                                                                         *)
(* An action is the code from one await to the next.  A reading stands for *)
(* what the sources answered; prices are integers, the day's change is in  *)
(* percent and the funding rate in millionths.  The wording of the brief,  *)
(* its hints and its rounded copies of the reading are left out.           *)
(***************************************************************************)
EXTENDS Integers, FiniteSets, FiniteSetsExt

CONSTANTS
    Keys,       \* exchange, symbol and interval of a brief
    Requests,   \* requests that may be building a brief at once
    Readings,   \* what the sources would answer if all of them did
    None        \* null: an average of too few bars, a source that failed, no brief

VARIABLES
    cache,      \* the brief of each key, None before the first
    lights,     \* previousLightCache
    requests    \* builds in progress

vars == <<cache, lights, requests>>

(***************************************************************************)
(* brief-rules.ts                                                          *)
(***************************************************************************)

NearLevelPerMille == 15
FundingHigh == 300
FundingLow == -50
FearGreedFear == 35
FearGreedGreed == 65
BigChange == 3
MinScore == 3
MaxOppositeScore == 1

(***************************************************************************)
(* The votes of the six factors.                                           *)
(***************************************************************************)

Light == {"green", "yellow", "red"}

Vote == {"bullish", "bearish", "neutral"}

\* computeTrend, from the last close and the means of the last 20 and 60.
TrendVote(m) ==
    IF None \in {m.last, m.fast, m.slow} THEN "neutral"
    ELSE IF m.last > m.fast /\ m.fast > m.slow THEN "bullish"
    ELSE IF m.last < m.fast /\ m.fast < m.slow THEN "bearish"
    ELSE "neutral"

\* evaluatePosition: near the closest support or resistance, or nearer to the support.
PositionVote(m) ==
    LET below == {m.price - s : s \in {s \in m.supports : s < m.price}}
        above == {s - m.price : s \in {s \in m.resistances : s > m.price}}
        Near(distances) ==
            distances # {} /\ Min(distances) * 1000 <= NearLevelPerMille * m.price
    IN IF Near(below) /\ (Near(above) => Min(below) <= Min(above)) THEN "bullish"
       ELSE IF Near(above) THEN "bearish"
       ELSE "neutral"

ChangeVote(m) ==
    IF m.change <= -BigChange THEN "bearish"
    ELSE IF m.change >= BigChange THEN "bullish"
    ELSE "neutral"

\* fundingTone
FundingVote(m) ==
    IF m.funding = None THEN "neutral"
    ELSE IF m.funding >= FundingHigh THEN "bearish"
    ELSE IF m.funding <= FundingLow THEN "bullish"
    ELSE "neutral"

\* MUTANT: null is compared as JavaScript does, as zero.
NullIsFear(m) ==
    IF m.fearGreed = None THEN "bullish"
    ELSE IF m.fearGreed <= FearGreedFear THEN "bullish"
    ELSE IF m.fearGreed >= FearGreedGreed THEN "bearish"
    ELSE "neutral"

\* fearGreedTone
SentimentVote(m) ==
    IF m.fearGreed = None THEN "neutral"
    ELSE IF m.fearGreed <= FearGreedFear THEN "bullish"
    ELSE IF m.fearGreed >= FearGreedGreed THEN "bearish"
    ELSE "neutral"

EventsVote(m) ==
    IF m.bearishEvents > m.bullishEvents THEN "bearish"
    ELSE IF m.bullishEvents > m.bearishEvents THEN "bullish"
    ELSE "neutral"

Votes(m) ==
    [position |-> PositionVote(m), trend |-> TrendVote(m), change24h |-> ChangeVote(m),
     funding |-> FundingVote(m), sentiment |-> SentimentVote(m), events |-> EventsVote(m)]

Score(m, vote) ==
    LET votes == Votes(m) IN Cardinality({f \in DOMAIN votes : votes[f] = vote})

\* The verdict of buildBrief.
LightOf(m) ==
    IF Score(m, "bullish") >= MinScore /\ Score(m, "bearish") <= MaxOppositeScore THEN "green"
    ELSE IF Score(m, "bearish") >= MinScore /\ Score(m, "bullish") <= MaxOppositeScore THEN "red"
    ELSE "yellow"

Rank(light) == CASE light = "green" -> 2 [] light = "yellow" -> 1 [] light = "red" -> 0

\* resolveSignalChange
ChangeOf(previous, light) ==
    IF previous = None \/ previous = light THEN "unchanged"
    ELSE IF Rank(light) > Rank(previous) THEN "stronger"
    ELSE "weaker"

(***************************************************************************)
(* getBrief.                                                               *)
(***************************************************************************)

\* bullish and bearish: the factors for and against in the reading without failures.
Brief ==
    [light : Light, previous : Light \cup {None}, change : {"stronger", "weaker", "unchanged"},
     bullish : 0..6, bearish : 0..6, fresh : BOOLEAN]

\* previous: the light read at the start.  latest: no other build has stored a brief of
\* this key since.
Request ==
    [pc : {"idle"}]
    \cup [pc : {"fetch"}, key : Keys, previous : Light \cup {None}, latest : BOOLEAN]
    \cup [pc : {"events"}, key : Keys, previous : Light \cup {None}, latest : BOOLEAN,
          reading : Readings, lost : SUBSET {"fearGreed", "funding"}]

Idle == [pc |-> "idle"]

Init ==
    /\ cache = [k \in Keys |-> None]
    /\ lights = [k \in Keys |-> None]
    /\ requests = [r \in Requests |-> Idle]

Fresh(k) == IF cache[k] = None THEN FALSE ELSE cache[k].fresh

\* MUTANT: the light before is taken from the brief still being served.
LightServed(k) == IF Fresh(k) THEN lights[k] ELSE None

LightBefore(k) == lights[k]

Begin(r) ==
    /\ requests[r].pc = "idle"
    /\ \E k \in Keys :
        /\ ~Fresh(k)
        /\ requests' = [requests EXCEPT ![r] =
                [pc |-> "fetch", key |-> k, previous |-> LightBefore(k), latest |-> TRUE]]
    /\ UNCHANGED <<cache, lights>>

\* The five requests of Promise.all have ended; fear and greed and the funding rate may
\* have failed.
Fetched(r) ==
    LET q == requests[r] IN
    /\ q.pc = "fetch"
    /\ \E m \in Readings, lost \in SUBSET {"fearGreed", "funding"} :
        requests' = [requests EXCEPT ![r] =
            [pc |-> "events", key |-> q.key, previous |-> q.previous, latest |-> q.latest,
             reading |-> m, lost |-> lost]]
    /\ UNCHANGED <<cache, lights>>

\* Without the ticker, the levels or the bars there is no brief.
FetchFails(r) ==
    /\ requests[r].pc = "fetch"
    /\ requests' = [requests EXCEPT ![r] = Idle]
    /\ UNCHANGED <<cache, lights>>

\* What is left of a reading when some of its optional sources failed.
Answered(m, lost) ==
    [m EXCEPT !.fearGreed = IF "fearGreed" \in lost THEN None ELSE @,
              !.funding = IF "funding" \in lost THEN None ELSE @,
              !.bullishEvents = IF "events" \in lost THEN 0 ELSE @,
              !.bearishEvents = IF "events" \in lost THEN 0 ELSE @]

\* The events have been read (or there is no database, or the query failed); the brief
\* is built and stored without another await.
Store(r) ==
    LET q == requests[r] IN
    /\ q.pc = "events"
    /\ \E lost \in {q.lost, q.lost \cup {"events"}} :
        LET light == LightOf(Answered(q.reading, lost)) IN
        /\ lights' = [lights EXCEPT ![q.key] = light]
        /\ cache' = [cache EXCEPT ![q.key] =
                [light |-> light, previous |-> q.previous, change |-> ChangeOf(q.previous, light),
                 bullish |-> Score(q.reading, "bullish"), bearish |-> Score(q.reading, "bearish"),
                 fresh |-> TRUE]]
    /\ requests' = [p \in Requests |->
            IF p = r THEN Idle
            ELSE IF requests[p].pc # "idle" /\ requests[p].key = q.key
            THEN [requests[p] EXCEPT !.latest = FALSE]
            ELSE requests[p]]

\* expiresAt has passed.
Expire(k) ==
    /\ Fresh(k)
    /\ cache' = [cache EXCEPT ![k].fresh = FALSE]
    /\ UNCHANGED <<lights, requests>>

\* Both maps are in memory.
Restart ==
    /\ cache' = [k \in Keys |-> None]
    /\ lights' = [k \in Keys |-> None]
    /\ requests' = [r \in Requests |-> Idle]

Next ==
    \/ \E r \in Requests : Begin(r) \/ Fetched(r) \/ FetchFails(r) \/ Store(r)
    \/ \E k \in Keys : Expire(k)
    \/ Restart

Spec == Init /\ [][Next]_vars

(***************************************************************************)
(* Properties.                                                             *)
(***************************************************************************)

TypeOK ==
    /\ cache \in [Keys -> Brief \cup {None}]
    /\ lights \in [Keys -> Light \cup {None}]
    /\ requests \in [Requests -> Request]

Shown(b) == IF b = None THEN None ELSE b.light

\* r stores a brief of k.
Stores(r, k) ==
    /\ requests[r].pc = "events" /\ requests[r].key = k
    /\ requests'[r] = Idle
    /\ cache'[k] # None

\* A step as LightsChain has it.
LightsChainStep ==
    \A r \in Requests, k \in Keys : Stores(r, k) /\ requests[r].latest =>
        /\ cache'[k].previous = Shown(cache[k])
        /\ cache'[k].change = ChangeOf(Shown(cache[k]), cache'[k].light)

\* signalChange compares with the light readers were shown last, even if that brief has
\* expired since, unless another build of the same brief was stored in between.
LightsChain == [][LightsChainStep]_vars

\* No source casts a vote by failing: a green or red light always has three factors
\* for it that their true readings bear out.
ColourIsEarned ==
    \A k \in Keys : cache[k] # None =>
        /\ cache[k].light = "green" => cache[k].bullish >= MinScore
        /\ cache[k].light = "red" => cache[k].bearish >= MinScore
=============================================================================

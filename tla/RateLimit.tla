----------------------------- MODULE RateLimit -----------------------------
(***************************************************************************)
(* The limit on the requests of one client to /api/v1/market               *)
(* (middlewares/rate-limit.middleware.ts): a counter that is reset when a  *)
(* request comes after its window, and removed by a sweep.                 *)
(*                                                                         *)
(* The middleware runs to its decision without an await, so a request is   *)
(* one action.  The sweep comes every five minutes; here, at any time.     *)
(* Counters live in the process and are lost with it; the history of what  *)
(* was asked and passed goes on.                                           *)
(***************************************************************************)
EXTENDS Integers, Sequences

CONSTANTS
    Limit,      \* marketRateLimitPerMin
    Window,     \* windowMs
    MaxAsked,   \* bound on the requests
    MaxRestarts, \* bound on the restarts of the process
    MaxTime     \* bound on the clock

VARIABLES
    now,
    bucket,     \* the client's entry in the Map
    life,       \* how often the process was started again
    asked,      \* history of the model: when, and in which life, the requests came
    passed,     \* history of the model: the same of those that reached the next middleware
    refused     \* history of the model: which of those in asked did not

vars == <<now, bucket, life, asked, passed, refused>>

Time == 0..MaxTime

\* No entry is one whose window has ended.
NoBucket == [count |-> 0, resetAt |-> 0]

Bucket == [count : 0..MaxAsked, resetAt : 0..(MaxTime + Window)]

Life == 0..MaxRestarts

Event == [at : Time, life : Life]

Init ==
    /\ now = 0
    /\ bucket = NoBucket
    /\ life = 0
    /\ asked = <<>>
    /\ passed = <<>>
    /\ refused = {}

Ended == bucket.resetAt <= now

Counted ==
    IF Ended THEN [count |-> 1, resetAt |-> now + Window]
    ELSE [bucket EXCEPT !.count = @ + 1]

ThisEvent == [at |-> now, life |-> life]

Request ==
    /\ Len(asked) < MaxAsked
    /\ asked' = Append(asked, ThisEvent)
    /\ bucket' = Counted
    /\ IF Counted.count > Limit
       THEN refused' = refused \cup {Len(asked')} /\ UNCHANGED passed
       ELSE passed' = Append(passed, ThisEvent) /\ UNCHANGED refused
    /\ UNCHANGED <<now, life>>

\* MUTANT: the sweep removes a counter whose window still runs.
SweptAll == NoBucket

Swept == IF Ended THEN NoBucket ELSE bucket

Sweep ==
    /\ bucket' = Swept
    /\ UNCHANGED <<now, life, asked, passed, refused>>

\* The process dies and is started again: its counters are gone.
Restart ==
    /\ life < MaxRestarts
    /\ life' = life + 1
    /\ bucket' = NoBucket
    /\ UNCHANGED <<now, asked, passed, refused>>

Tick ==
    /\ now < MaxTime
    /\ now' = now + 1
    /\ UNCHANGED <<bucket, life, asked, passed, refused>>

Next ==
    \/ Request
    \/ Sweep
    \/ Restart
    \/ Tick

Spec == Init /\ [][Next]_vars

(***************************************************************************)
(* Properties.                                                             *)
(***************************************************************************)

TypeOK ==
    /\ now \in Time
    /\ bucket \in Bucket
    /\ life \in Life
    /\ asked \in Seq(Event)
    /\ passed \in Seq(Event)
    /\ refused \subseteq DOMAIN asked

\* What may pass in a window between two that passed: the limit on either side of the
\* counter's reset, and once more for each restart between them.
Allowed(i, j) == (2 + passed[j].life - passed[i].life) * Limit

\* Of any that pass in a row, one more than allowed, the first and the last are a window
\* apart.
PassesApart ==
    \A i, j \in DOMAIN passed :
        i < j /\ j = i + Allowed(i, j) => passed[j].at >= passed[i].at + Window

\* The Limit requests before a refused one came to the same process, and less than a window
\* before it.
RefusalsEarned ==
    \A i \in refused :
        /\ i > Limit
        /\ asked[i - Limit].life = asked[i].life
        /\ asked[i].at < asked[i - Limit].at + Window

\* However requests, sweeps, restarts and the ends of windows fall, no stretch of time as
\* long as a window with d restarts in it sees more than 2 + d times the limit pass, and who
\* is refused has asked one process more often than the limit in such a stretch.
PassedIsLimited == PassesApart /\ RefusalsEarned
=============================================================================

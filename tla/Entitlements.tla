---------------------------- MODULE Entitlements ----------------------------
(***************************************************************************)
(* What a subscriber may rely on, whatever activations, sweeps and crashes *)
(* of the watcher do to the rows of subscriptions: an order grants its     *)
(* user one span of the length that was bought; the span begins where his  *)
(* last one ends, or at once if that has passed, so that time paid for is  *)
(* neither granted twice over nor put off; it is never moved, cut or taken *)
(* away, and it is declared over no sooner than it is.                     *)
(***************************************************************************)
EXTENDS Integers

CONSTANTS
    OrderIds,   \* orders that may be granted
    Users,      \* the users who own them
    Owner,      \* Owner[o]: the user of order o
    Duration    \* Duration[o]: the time that order o buys

VARIABLES
    time,       \* the clock
    spans       \* the spans granted so far, by the order that bought them

Span == [user : Users, startsAt : Nat, endsAt : Nat, over : BOOLEAN]

Init ==
    /\ time = 0
    /\ spans = [o \in {} |-> 0]

Pass ==
    /\ time' = time + 1
    /\ UNCHANGED spans

Held(u) == {o \in DOMAIN spans : spans[o].user = u}

\* Where a span of u may begin: behind all of his, and no later than that or now.
Starts(u) ==
    {t \in (0..time) \cup {spans[i].endsAt : i \in Held(u)} :
        \A i \in Held(u) : spans[i].endsAt <= t}

Bought(o, start) ==
    [user |-> Owner[o], startsAt |-> start, endsAt |-> start + Duration[o], over |-> FALSE]

Grant(o) ==
    /\ o \notin DOMAIN spans
    /\ \E start \in Starts(Owner[o]) :
        spans' = [i \in DOMAIN spans \cup {o} |-> IF i = o THEN Bought(o, start) ELSE spans[i]]
    /\ UNCHANGED time

\* Declared over, perhaps not for the first time.
End(o) ==
    /\ spans[o].endsAt <= time
    /\ spans' = [spans EXCEPT ![o].over = TRUE]
    /\ UNCHANGED time

Next ==
    \/ Pass
    \/ \E o \in OrderIds : Grant(o)
    \/ \E o \in DOMAIN spans : End(o)

Spec == Init /\ [][Next]_<<time, spans>>

\* The spans of one user, over or not, have no time in common.
SpansApart ==
    \A i, j \in DOMAIN spans :
        i # j /\ spans[i].user = spans[j].user =>
            spans[i].endsAt <= spans[j].startsAt \/ spans[j].endsAt <= spans[i].startsAt
=============================================================================

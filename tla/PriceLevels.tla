---------------------------- MODULE PriceLevels ----------------------------
(***************************************************************************)
(* Support and resistance levels from bars                                 *)
(* (services/market/price-levels.service.ts): the extremes that stand out  *)
(* of their neighbourhood, merged while they are within 0.3 % of a running *)
(* average, and the nearest of them on either side of the price.           *)
(*                                                                         *)
(* The loop of mergeCloseLevels is a step per pivot.  Pivots are the       *)
(* indexes of their bars, since two of the same level are averaged in one  *)
(* after the other, and the sorted array is the order in which those of    *)
(* the least level are taken.  Prices are integers in a unit fine enough   *)
(* that rounding a mean down tells nothing apart.                          *)
(***************************************************************************)
EXTENDS Integers, Sequences, FiniteSets

CONSTANTS
    Radius,     \* PIVOT_RADIUS: the bars on each side an extreme is compared with
    MaxLevels,  \* how many levels are wanted on each side
    Inputs,     \* the sequences of bars considered
    NoLevel     \* no bucket yet

VARIABLES
    bars,       \* the input
    side,       \* what the loop is merging: supports, then resistances, then done
    todo,       \* pivots the loop has not seen
    bucket,     \* the running average of the levels being merged
    merged,     \* finished levels of this side
    levels      \* the result so far: supports and resistances

vars == <<bars, side, todo, bucket, merged, levels>>

Price == IF bars = <<>> THEN 0 ELSE bars[Len(bars)].close

\* A pivot: a bar that every other bar within the radius falls short of.
IsHigh(b, i) == \A j \in (i - Radius)..(i + Radius) : j # i => b[j].high < b[i].high

IsLow(b, i) == \A j \in (i - Radius)..(i + Radius) : j # i => b[j].low > b[i].low

Inner(b) == (Radius + 1)..(Len(b) - Radius)

PivotHighs(b) == {i \in Inner(b) : IsHigh(b, i)}

PivotLows(b) == {i \in Inner(b) : IsLow(b, i)}

Init ==
    /\ bars \in Inputs
    /\ side = "supports"
    /\ todo = PivotLows(bars)
    /\ bucket = NoLevel
    /\ merged = {}
    /\ levels = [supports |-> {}, resistances |-> {}]

Distance(a, b) == IF a < b THEN b - a ELSE a - b

\* MERGE_RATIO: a difference of at most 0.3 % of the mean.
IsClose(a, b) == a + b > 0 /\ 2000 * Distance(a, b) <= 3 * (a + b)

\* The level of a pivot on the side being merged.
Level(i) == IF side = "supports" THEN bars[i].low ELSE bars[i].high

\* MUTANT: the levels are not sorted first.
InBarOrder(i) == i \in todo /\ \A j \in todo : i <= j

\* The next of the sorted levels: of equal ones, either.
IsNext(i) == i \in todo /\ \A j \in todo : Level(i) <= Level(j)

Take(i) ==
    /\ todo' = todo \ {i}
    /\ UNCHANGED <<bars, side, levels>>

Absorb(i) ==
    /\ IsNext(i)
    /\ bucket # NoLevel /\ IsClose(bucket, Level(i))
    /\ bucket' = (bucket + Level(i)) \div 2
    /\ UNCHANGED merged
    /\ Take(i)

\* The first level, or one too far from the bucket: the bucket is a level.
Push(i) ==
    /\ IsNext(i)
    /\ bucket # NoLevel => ~IsClose(bucket, Level(i))
    /\ merged' = merged \cup ({bucket} \ {NoLevel})
    /\ bucket' = Level(i)
    /\ Take(i)

\* Of the levels that a filter kept, those with fewer than MaxLevels nearer the price.
Nearest(kept) ==
    {l \in kept :
        Cardinality({m \in kept : Distance(m, Price) < Distance(l, Price)}) < MaxLevels}

\* The last bucket is pushed and the side's levels are picked.
Finish ==
    LET all == merged \cup ({bucket} \ {NoLevel}) IN
    /\ todo = {} /\ side # "done"
    /\ IF side = "supports"
       THEN /\ levels' = [levels EXCEPT !.supports = Nearest({l \in all : l < Price})]
            /\ side' = "resistances"
            /\ todo' = PivotHighs(bars)
       ELSE /\ levels' = [levels EXCEPT !.resistances = Nearest({l \in all : l > Price})]
            /\ side' = "done"
            /\ todo' = {}
    /\ bucket' = NoLevel
    /\ merged' = {}
    /\ UNCHANGED bars

Next == (\E i \in todo : Absorb(i) \/ Push(i)) \/ Finish

Spec == Init /\ [][Next]_vars

(***************************************************************************)
(* Properties.                                                             *)
(***************************************************************************)

TypeOK ==
    /\ bars \in Inputs
    /\ side \in {"supports", "resistances", "done"}
    /\ todo \subseteq DOMAIN bars
    /\ bucket \in Int \cup {NoLevel}
    /\ merged \subseteq Int
    /\ levels \in [supports : SUBSET Int, resistances : SUBSET Int]

Apart(L) == \A l, m \in L : IsClose(l, m) => l = m

\* Near the low, or the high, of a pivot.
NearLow(l) == \E i \in PivotLows(bars) : IsClose(l, bars[i].low)

NearHigh(l) == \E i \in PivotHighs(bars) : IsClose(l, bars[i].high)

\* However pivots chain into one another, and however often a level is met again, the
\* running average never yields two levels that should have been one, nor drifts to a level
\* no pivot is near.
LevelsAreReal ==
    /\ Apart(levels.supports) /\ \A l \in levels.supports : NearLow(l)
    /\ Apart(levels.resistances) /\ \A l \in levels.resistances : NearHigh(l)
=============================================================================

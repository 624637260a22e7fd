---------------------------- MODULE MCKlineCache ----------------------------
(* Small instances of KlineCache for TLC. *)
EXTENDS KlineCache, TLC

CONSTANTS r1, r2

\* The newest bars, half-open ranges, ranges that cross the present and one
\* that is reversed.
MCQueries ==
    {[start |-> s, end |-> e, limit |-> n] :
        <<s, e>> \in {<<None, None>>, <<1, None>>, <<0, 4>>}, n \in {1, 3}}
    \cup {[start |-> None, end |-> 4, limit |-> 3], [start |-> 3, end |-> 4, limit |-> 3],
          [start |-> 3, end |-> 2, limit |-> 1]}

MCOneQuery == {[start |-> 0, end |-> 1, limit |-> 3]}

RequestSymmetry == Permutations(Requests)
=============================================================================

------------------------------ MODULE MCCharts ------------------------------
(* The klines of a chart and, each by itself on a small instance, the        *)
(* templates of its user: the initial state picks the part of a behaviour,   *)
(* and the other rests.  A behaviour is one of ChartServices.                *)
EXTENDS MCKlineCache, ChartServices

CONSTANTS symbolA, symbolB      \* symbols of a template

VARIABLE part

MCTemplates == 1..2

\* The pair is renamed; templates are published; the pair is retired; templates for it and
\* for all pairs.
MCTemplateCalls ==
    {[asked |-> {1}, visible |-> {FALSE}, renames |-> TRUE, retires |-> FALSE],
     [asked |-> {1}, visible |-> {FALSE, TRUE}, renames |-> FALSE, retires |-> FALSE],
     [asked |-> {1}, visible |-> {FALSE}, renames |-> FALSE, retires |-> TRUE],
     [asked |-> {1, AnyPair}, visible |-> {FALSE}, renames |-> FALSE, retires |-> FALSE]}

\* The two symbols are interchangeable.  A part that rests keeps one initial state.
PartInit ==
    /\ part \in {"klines", "templates"}
    /\ ChartsInit
    /\ pairName[1] = symbolA
    /\ part # "templates" => scenario.renames

PartNext ==
    /\ UNCHANGED part
    /\ \/ part = "klines" /\ KlineStep
       \/ part = "templates" /\ TemplateStep

PartSpec == PartInit /\ [][PartNext]_<<part, chartVars>>
=============================================================================

--------------------------- MODULE ChartServices ----------------------------
(***************************************************************************)
(* What a chart is drawn from: its klines and the templates of its user.   *)
(* They share no state.                                                    *)
(***************************************************************************)
EXTENDS KlineCache

CONSTANTS Templates, Pairs, Names, AnyPair, Scenarios, TemplateMaxTime

VARIABLES
    scenario, templateTime, pairName, pairActive,   \* ChartTemplates
    templates, templateRequests

Charts == INSTANCE ChartTemplates WITH
    MaxTime <- TemplateMaxTime, now <- templateTime, rows <- templates,
    requests <- templateRequests

\* symbolGroupKey writes id: before an id and sym: before a name.
ASSUME TemplatesAssumption ==
    /\ Scenarios \subseteq Charts!Scenario
    /\ TemplateMaxTime \in Nat
    /\ Pairs \cap (Names \cup {AnyPair}) = {}

templateVars == <<scenario, templateTime, pairName, pairActive, templates, templateRequests>>

chartVars == <<vars, templateVars>>

ChartsInit == Init /\ Charts!Init

KlineStep == Next /\ UNCHANGED templateVars

TemplateStep == Charts!Next /\ UNCHANGED vars

ChartsNext == KlineStep \/ TemplateStep

ChartsSpec == ChartsInit /\ [][ChartsNext]_chartVars

\* The variables of both keep their types.
ChartsTypeOK == TypeOK /\ Charts!TypeOK

\* A call that normalises with no other of the user beside it leaves one private default
\* per pair (normalizeUserDefaults).
LoneCallSettles == Charts!LoneCallSettles

\* A setDefault with no other call of the user beside it leaves its template the default,
\* but for a pair renamed in between (setDefault, normalizeUserDefaults).
ChosenIsDefault == Charts!ChosenIsDefault
=============================================================================

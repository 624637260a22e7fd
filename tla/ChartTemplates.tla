--------------------------- MODULE ChartTemplates ---------------------------
(***************************************************************************)
(* The chart templates of one user and which of them is the default for a  *)
(* trading pair (services/chart-template/chart-template.service.ts), while *)
(* the user's requests overlap and an administrator renames or retires     *)
(* pairs (trading-symbol.service.ts).  An action is the code from one      *)
(* await to the next.                                                      *)
(*                                                                         *)
(* A template stores the pair's id and, redundantly, the name the pair had *)
(* then.  The default is cleared by name (clearDefaultForUserSymbol) but   *)
(* normalised by id (symbolGroupKey).  Timestamps have the resolution of   *)
(* the table, one second, and move on every change of a row (ON UPDATE     *)
(* CURRENT_TIMESTAMP in scripts/sql/chart-template.sql).  Sequelize's save *)
(* and update write the columns that differ from what the instance read.   *)
(* Official templates, which nobody can change, are left out.              *)
(***************************************************************************)
EXTENDS Integers, FiniteSets

CONSTANTS
    Templates,  \* 1..n, the rows as they are inserted; bound: no more are ever created
    Pairs,      \* ids of t_trading_symbol
    Names,      \* their symbols
    AnyPair,    \* no pair: a template for all of them (symbolId null, symbol "")
    Requests,   \* the user's requests that may be in progress at once
    Scenarios,  \* what requests ask for and what the administrator does meanwhile
    MaxTime     \* bound: the clock stops here

VARIABLES
    scenario,   \* asked: the pairs that request bodies name (or AnyPair); visible: whether
                \* they ask for a public template; renames, retires: what the administrator
                \* does with pairs.  It never changes
    now,        \* the clock, in seconds
    pairName,   \* t_trading_symbol.f_symbol
    pairActive, \* t_trading_symbol.f_status = 1
    rows,       \* the user's rows of t_chart_template, by template
    requests    \* the user's calls in progress

dictionary == <<pairName, pairActive>>

world == <<scenario, now, dictionary>>

vars == <<world, rows, requests>>

\* symbolId and symbol are two columns; a race may store them from different updates.
Refs == [pair : Pairs \cup {AnyPair}, name : Names \cup {AnyPair}]

Row == [ref : Refs, public : BOOLEAN, default : BOOLEAN, active : BOOLEAN, changed : 0..MaxTime]

Absent == [ref |-> [pair |-> AnyPair, name |-> AnyPair], public |-> FALSE,
           default |-> FALSE, active |-> FALSE, changed |-> 0]

\* chosen: the template the request is about; read: its row as read; new: the row to
\* write; losers: the defaults that normalising still clears; alone: no other request
\* of the user has been in progress since this one began.
Request ==
    [pc : {"idle", "done"}]
    \cup [pc : {"clear", "insert"}, op : {"create"}, new : Row, alone : BOOLEAN]
    \cup [pc : {"resolve", "clear", "save"}, op : {"update", "setDefault", "remove"},
          chosen : Templates, read : Row, new : Row, alone : BOOLEAN]
    \cup [pc : {"norm", "lose"}, op : {"setDefault"}, chosen : Templates,
          losers : SUBSET Templates, alone : BOOLEAN]
    \cup [pc : {"lose"}, op : {"list"}, losers : SUBSET Templates, alone : BOOLEAN]

Idle == [pc |-> "idle"]

\* A call that has normalised is over, too.
Done == [pc |-> "done"]

Over(r) == requests[r].pc \in {"idle", "done"}

NameOf(p) == IF p = AnyPair THEN AnyPair ELSE pairName[p]

Usable(p) == p \in Pairs => pairActive[p]

Scenario == [asked : SUBSET (Pairs \cup {AnyPair}), visible : SUBSET BOOLEAN,
             renames : BOOLEAN, retires : BOOLEAN]

Init ==
    /\ scenario \in Scenarios
    /\ now = 0
    /\ pairName \in [Pairs -> Names]
    /\ \A p, q \in Pairs : pairName[p] = pairName[q] => p = q
    /\ pairActive = [p \in Pairs |-> TRUE]
    /\ rows = [t \in Templates |-> Absent]
    /\ requests = [r \in Requests |-> Idle]

\* Requests after r has begun as q: whoever is in progress is no longer alone.
Begun(r, q) ==
    [p \in Requests |->
        IF p = r THEN q
        ELSE IF Over(p) THEN requests[p]
        ELSE [requests[p] EXCEPT !.alone = FALSE]]

Lone(r) == \A p \in Requests \ {r} : Over(p)

End(r) == requests' = [requests EXCEPT ![r] = Idle]

Finish(r) == requests' = [requests EXCEPT ![r] = Done]

Goto(r, pc) == requests' = [requests EXCEPT ![r].pc = pc]

\* A row after some of its columns are set: its timestamp moves if anything changed.
Touched(old, new) ==
    IF [new EXCEPT !.changed = old.changed] = old THEN old ELSE [new EXCEPT !.changed = now]

Merged(stored, read, new) == IF new = read THEN stored ELSE new

\* save or update of an instance that read one row and now holds another.
Saved(stored, read, new) ==
    Touched(stored,
        [ref |-> [pair |-> Merged(stored.ref.pair, read.ref.pair, new.ref.pair),
                  name |-> Merged(stored.ref.name, read.ref.name, new.ref.name)],
         public |-> Merged(stored.public, read.public, new.public),
         default |-> Merged(stored.default, read.default, new.default),
         active |-> Merged(stored.active, read.active, new.active),
         changed |-> stored.changed])

IsPrivateDefault(row) == row.active /\ row.default /\ ~row.public

\* MUTANT: the chosen template is not spared.
ClearedAll(name, spared) ==
    [t \in Templates |->
        IF IsPrivateDefault(rows[t]) /\ rows[t].ref.name = name
        THEN Touched(rows[t], [rows[t] EXCEPT !.default = FALSE])
        ELSE rows[t]]

\* clearDefaultForUserSymbol: by the name, sparing the templates of a set.
Cleared(name, spared) ==
    [t \in Templates |->
        IF IsPrivateDefault(rows[t]) /\ rows[t].ref.name = name /\ t \notin spared
        THEN Touched(rows[t], [rows[t] EXCEPT !.default = FALSE])
        ELSE rows[t]]

(***************************************************************************)
(* create.                                                                 *)
(***************************************************************************)

CreateResolve(r) ==
    /\ Over(r)
    /\ \E p \in scenario.asked, public \in scenario.visible, default \in BOOLEAN :
        /\ Usable(p)
        /\ requests' = Begun(r,
            [pc |-> IF default /\ ~public THEN "clear" ELSE "insert", op |-> "create",
             new |-> [ref |-> [pair |-> p, name |-> NameOf(p)], public |-> public,
                      default |-> default /\ ~public, active |-> TRUE, changed |-> now],
             alone |-> Lone(r)])
    /\ UNCHANGED <<world, rows>>

\* Also the second statement of setDefault.
ClearOthers(r) ==
    LET q == requests[r] IN
    /\ q.pc = "clear"
    /\ IF q.op = "create"
       THEN rows' = Cleared(q.new.ref.name, {}) /\ Goto(r, "insert")
       ELSE rows' = Cleared(q.read.ref.name, {q.chosen}) /\ Goto(r, "save")
    /\ UNCHANGED world

CreateInsert(r) ==
    /\ requests[r].pc = "insert"
    /\ \E t \in Templates :
        /\ rows[t] = Absent /\ (\A u \in Templates : rows[u] = Absent => t <= u)
        /\ rows' = [rows EXCEPT ![t] = requests[r].new]
    /\ End(r)
    /\ UNCHANGED world

(***************************************************************************)
(* update, setDefault and remove: the row is read, changed and saved.      *)
(***************************************************************************)

\* The row that update saves: a default that becomes public gives up the flag.
Published(row, public) ==
    [row EXCEPT !.public = public, !.default = @ /\ ~public]

UpdateRead(r) ==
    /\ Over(r)
    /\ \E t \in Templates :
        /\ rows[t].active
        /\ \E pc \in {"resolve", "save"}, p \in scenario.asked \cup {rows[t].ref.pair},
              public \in scenario.visible :
            /\ pc = "resolve" => p \in scenario.asked
            /\ pc = "save" => p = rows[t].ref.pair
            /\ LET moved == [rows[t] EXCEPT !.ref.pair = p] IN
               requests' = Begun(r, [pc |-> pc, op |-> "update", chosen |-> t, read |-> rows[t],
                                     new |-> Published(moved, public), alone |-> Lone(r)])
    /\ UNCHANGED <<world, rows>>

UpdateResolve(r) ==
    LET p == requests[r].new.ref.pair IN
    /\ requests[r].pc = "resolve"
    /\ IF Usable(p)
       THEN requests' = [requests EXCEPT ![r].pc = "save", ![r].new.ref.name = NameOf(p)]
       ELSE End(r)
    /\ UNCHANGED <<world, rows>>

SetDefaultRead(r) ==
    /\ Over(r)
    /\ \E t \in Templates :
        /\ rows[t].active /\ ~rows[t].public
        /\ requests' = Begun(r, [pc |-> "clear", op |-> "setDefault", chosen |-> t,
                                 read |-> rows[t], new |-> [rows[t] EXCEPT !.default = TRUE],
                                 alone |-> Lone(r)])
    /\ UNCHANGED <<world, rows>>

RemoveRead(r) ==
    /\ Over(r)
    /\ \E t \in Templates :
        /\ rows[t].active
        /\ requests' = Begun(r, [pc |-> "save", op |-> "remove", chosen |-> t, read |-> rows[t],
                                 new |-> [rows[t] EXCEPT !.active = FALSE, !.default = FALSE],
                                 alone |-> Lone(r)])
    /\ UNCHANGED <<world, rows>>

SaveRow(r) ==
    LET q == requests[r] IN
    /\ q.pc = "save"
    /\ rows' = [rows EXCEPT ![q.chosen] = Saved(@, q.read, q.new)]
    /\ IF q.op # "setDefault" THEN End(r)
       ELSE requests' = [requests EXCEPT ![r] = [pc |-> "norm", op |-> q.op, chosen |-> q.chosen,
                                                 losers |-> {}, alone |-> q.alone]]
    /\ UNCHANGED world

(***************************************************************************)
(* normalizeUserDefaults, the last part of setDefault and the first of     *)
(* listMine and getDefaultForUser.                                         *)
(***************************************************************************)

PrivateDefaults == {t \in Templates : IsPrivateDefault(rows[t])}

\* MUTANT: templates are grouped by the stored name alone.
GroupByName(row) == row.ref.name

\* symbolGroupKey
GroupOf(row) == IF row.ref.pair # AnyPair THEN row.ref.pair ELSE row.ref.name

SameGroup(t, u) == GroupOf(rows[t]) = GroupOf(rows[u])

\* Kept is, of each group, one default that no other was changed after.
MayKeep(kept) ==
    /\ \A t \in PrivateDefaults :
            \E k \in kept : SameGroup(k, t) /\ rows[k].changed >= rows[t].changed
    /\ \A k, l \in kept : SameGroup(k, l) => k = l

LoserSets == {PrivateDefaults \ kept : kept \in {k \in SUBSET PrivateDefaults : MayKeep(k)}}

NormRead(r) ==
    /\ requests[r].pc = "norm"
    /\ \E losers \in LoserSets :
        IF losers = {} THEN Finish(r)
        ELSE requests' = [requests EXCEPT ![r].pc = "lose", ![r].losers = losers]
    /\ UNCHANGED <<world, rows>>

\* listMine and getDefaultForUser; what they read afterwards changes nothing.
ListRead(r) ==
    /\ Over(r)
    /\ \E losers \in LoserSets \ {{}} :
        requests' = Begun(r, [pc |-> "lose", op |-> "list", losers |-> losers, alone |-> Lone(r)])
    /\ UNCHANGED <<world, rows>>

LoseOne(r) ==
    /\ requests[r].pc = "lose"
    /\ \E t \in requests[r].losers :
        /\ rows' = [rows EXCEPT ![t] = Touched(@, [@ EXCEPT !.default = FALSE])]
        /\ IF requests[r].losers = {t} THEN Finish(r)
           ELSE requests' = [requests EXCEPT ![r].losers = @ \ {t}]
    /\ UNCHANGED world

(***************************************************************************)
(* Failures, the administrator and the clock.                              *)
(***************************************************************************)

RequestFails(r) ==
    /\ ~Over(r)
    /\ End(r)
    /\ UNCHANGED <<world, rows>>

\* TradingSymbolService.update and remove, as far as templates depend on them.
RenamePair(p) ==
    /\ scenario.renames
    /\ \E name \in Names :
        /\ \A q \in Pairs : pairName[q] # name
        /\ pairName' = [pairName EXCEPT ![p] = name]
    /\ UNCHANGED <<scenario, now, pairActive, rows, requests>>

RetirePair(p) ==
    /\ scenario.retires
    /\ pairActive' = [pairActive EXCEPT ![p] = ~@]
    /\ UNCHANGED <<scenario, now, pairName, rows, requests>>

Tick ==
    /\ now < MaxTime
    /\ now' = now + 1
    /\ UNCHANGED <<scenario, dictionary, rows, requests>>

RequestStep(r) ==
    \/ CreateResolve(r)
    \/ ClearOthers(r)
    \/ CreateInsert(r)
    \/ UpdateRead(r)
    \/ UpdateResolve(r)
    \/ SetDefaultRead(r)
    \/ RemoveRead(r)
    \/ SaveRow(r)
    \/ NormRead(r)
    \/ ListRead(r)
    \/ LoseOne(r)
    \/ RequestFails(r)

Next ==
    \/ \E r \in Requests : RequestStep(r)
    \/ \E p \in Pairs : RenamePair(p) \/ RetirePair(p)
    \/ Tick

Spec == Init /\ [][Next]_vars

(***************************************************************************)
(* Properties.                                                             *)
(***************************************************************************)

TypeOK ==
    /\ scenario \in Scenario
    /\ now \in 0..MaxTime
    /\ pairName \in [Pairs -> Names]
    /\ pairActive \in [Pairs -> BOOLEAN]
    /\ rows \in [Templates -> Row]
    /\ requests \in [Requests -> Request]

\* Two templates of one pair, or for all pairs.
SamePair(x, y) ==
    /\ x.ref.pair = y.ref.pair
    /\ x.ref.pair = AnyPair => x.ref.name = y.ref.name

\* r has normalised, without failing, and with no other request of the user beside it.
Settles(r) == ~Over(r) /\ requests[r].alone /\ requests'[r] = Done

\* A step as LoneCallSettles has it.
LoneCallSettlesStep ==
    \A r \in Requests : Settles(r) =>
        \A t, u \in Templates :
            IsPrivateDefault(rows'[t]) /\ IsPrivateDefault(rows'[u])
                /\ SamePair(rows'[t], rows'[u]) => t = u

\* "Each pair keeps at most one private default" (normalizeUserDefaults): true once a
\* listing or a setDefault has normalised with no other request of the user beside it,
\* whatever names, moves and failed requests were left behind by then.
LoneCallSettles == [][LoneCallSettlesStep]_vars

\* Defaults of the pair of t that a clearing by its name leaves alone, after a step.
Rivals(t) ==
    {u \in Templates \ {t} :
        /\ IsPrivateDefault(rows'[u]) /\ SamePair(rows'[t], rows'[u])
        /\ rows'[u].ref.name # rows'[t].ref.name}

\* A step as ChosenIsDefault has it: normalising decides, and it ends or fails.
ChosenIsDefaultStep ==
    \A r \in Requests :
        /\ requests[r].pc \in {"norm", "lose"}
        /\ requests[r].op = "setDefault" /\ requests[r].alone
        => LET t == requests[r].chosen IN
           /\ requests[r].pc = "norm" /\ requests'[r].pc = "lose" /\ t \in requests'[r].losers
                => \E u \in Rivals(t) \ requests'[r].losers : rows[u].changed >= rows[t].changed
           /\ requests'[r].pc \in {"idle", "done"}
                => IsPrivateDefault(rows'[t]) \/ Rivals(t) # {}

\* A setDefault that saved its template with no other request beside it leaves it the
\* default.  It may lose only to a template of the same pair stored under another name
\* (the pair was renamed in between: the clearing goes by name, the normalising by id)
\* whose timestamp was not older, because the chosen one was a default already and
\* saving it moved nothing, or because both changed in one second.
ChosenIsDefault == [][ChosenIsDefaultStep]_vars
=============================================================================

--------------------------- MODULE TradingSymbols ---------------------------
(***************************************************************************)
(* The dictionary of trading pairs and its default                         *)
(* (services/market/trading-symbol.service.ts): administrators create,     *)
(* change and retire pairs concurrently, each in several statements.  An   *)
(* action is the code from one await to the next.                          *)
(*                                                                         *)
(* A pair's name stands for its exchange and symbol together; the columns  *)
(* that only travel (base asset, display name, tier, order) are left out.  *)
(* Sequelize's row.update writes the columns whose new value differs from  *)
(* the one the instance read, and no others.                               *)
(***************************************************************************)
EXTENDS Integers, FiniteSets

CONSTANTS
    Ids,        \* 1..n, primary keys in their order; bound: no more pairs are ever inserted
    Names,      \* (exchange, symbol) pairs
    NoName,     \* a key that is not inserted yet
    Requests,   \* requests of administrators that may be in progress at once
    Bodies      \* the request bodies considered; a create body names a pair

VARIABLES
    rows,       \* t_trading_symbol
    requests    \* create, update and remove calls in progress

vars == <<rows, requests>>

Row == [name : Names \cup {NoName}, default : BOOLEAN, active : BOOLEAN]

Absent == [name |-> NoName, default |-> FALSE, active |-> FALSE]

\* An optional field of the request body.
Choice == {"keep", "on", "off"}

Body == [name : Names \cup {NoName}, default : Choice, active : Choice]

\* id and read: the row an update or remove works on, as it was read.  alone: no
\* other request has been in progress since this one began.
Request ==
    [pc : {"idle"}]
    \cup [pc : {"clear", "insert"}, body : Body, alone : BOOLEAN]
    \cup [pc : {"check", "unset", "write"}, body : Body, id : Ids, read : Row, alone : BOOLEAN]

Idle == [pc |-> "idle"]

\* Pairs in use, none of them the default.
Init ==
    /\ rows \in [Ids -> {Absent} \cup [name : Names, default : {FALSE}, active : {TRUE}]]
    /\ \A i, j \in Ids :
            i < j /\ rows[j].name # NoName => rows[i].name \notin {NoName, rows[j].name}
    /\ requests = [r \in Requests |-> Idle]

Stored == {i \in Ids : rows[i].name # NoName}

Named(name) == {i \in Stored : rows[i].name = name}

Defaults == {i \in Ids : rows[i].default}

\* Requests after r has begun as q: whoever is in progress is no longer alone.
Begun(r, q) ==
    [p \in Requests |->
        IF p = r THEN q
        ELSE IF requests[p].pc = "idle" THEN Idle
        ELSE [requests[p] EXCEPT !.alone = FALSE]]

Lone(r) == \A p \in Requests \ {r} : requests[p].pc = "idle"

Goto(r, pc) == requests' = [requests EXCEPT ![r].pc = pc]

End(r) == requests' = [requests EXCEPT ![r] = Idle]

(***************************************************************************)
(* create.                                                                 *)
(***************************************************************************)

CreateFind(r) ==
    /\ requests[r].pc = "idle"
    /\ \E b \in Bodies :
        /\ b.name # NoName /\ Named(b.name) = {}
        /\ requests' = Begun(r, [pc |-> IF b.default = "on" THEN "clear" ELSE "insert",
                                 body |-> b, alone |-> Lone(r)])
    /\ UNCHANGED rows

\* MUTANT: only the pairs in use are cleared.
ClearedActive(spared) ==
    [i \in Ids |-> IF i \in spared \/ ~rows[i].active THEN rows[i]
                   ELSE [rows[i] EXCEPT !.default = FALSE]]

\* update({isDefault: 0}) on every row but those spared.
Cleared(spared) ==
    [i \in Ids |-> IF i \in spared THEN rows[i] ELSE [rows[i] EXCEPT !.default = FALSE]]

CreateClear(r) ==
    /\ requests[r].pc = "clear"
    /\ rows' = Cleared({})
    /\ Goto(r, "insert")

\* The unique key refuses a name that was taken since the lookup.
CreateInsert(r) ==
    LET b == requests[r].body IN
    /\ requests[r].pc = "insert"
    /\ \/ /\ Named(b.name) = {}
          /\ \E i \in Ids \ Stored :
                /\ \A j \in Ids \ Stored : i <= j
                /\ rows' = [rows EXCEPT ![i] = [name |-> b.name, default |-> b.default = "on",
                                                active |-> b.active # "off"]]
       \/ /\ Named(b.name) # {}
          /\ UNCHANGED rows
    /\ End(r)

(***************************************************************************)
(* update and remove.                                                      *)
(***************************************************************************)

AfterCheck(default) == IF default = "on" THEN "unset" ELSE "write"

UpdateRead(r) ==
    /\ requests[r].pc = "idle"
    /\ \E i \in Stored, b \in Bodies :
        requests' = Begun(r, [pc |-> IF b.name # NoName THEN "check" ELSE AfterCheck(b.default),
                              body |-> b, id |-> i, read |-> rows[i], alone |-> Lone(r)])
    /\ UNCHANGED rows

UpdateCheck(r) ==
    LET q == requests[r] IN
    /\ q.pc = "check"
    /\ IF Named(q.body.name) \subseteq {q.id} THEN Goto(r, AfterCheck(q.body.default)) ELSE End(r)
    /\ UNCHANGED rows

\* MUTANT: the clearing does not except the row itself.
SparedNone(q) == {}

\* The rows that an update leaves their flag: its own.
Spared(q) == {q.id}

UpdateUnset(r) ==
    /\ requests[r].pc = "unset"
    /\ rows' = Cleared(Spared(requests[r]))
    /\ Goto(r, "write")

\* The value a column has after row.update: written only if it differs from what was read.
Saved(stored, read, new) == IF new = read THEN stored ELSE new

Chosen(choice, read) == IF choice = "keep" THEN read ELSE choice = "on"

UpdateWrite(r) ==
    LET q == requests[r]
        old == q.read
        row == rows[q.id]
        name == IF q.body.name = NoName THEN old.name ELSE q.body.name
        new == [name |-> Saved(row.name, old.name, name),
                default |-> Saved(row.default, old.default, Chosen(q.body.default, old.default)),
                active |-> Saved(row.active, old.active, Chosen(q.body.active, old.active))]
    IN /\ q.pc = "write"
       /\ rows' = IF Named(new.name) \subseteq {q.id} THEN [rows EXCEPT ![q.id] = new] ELSE rows
       /\ End(r)

Retired == [name |-> NoName, default |-> "off", active |-> "off"]

\* remove: the pair is retired, not deleted.
RemoveRead(r) ==
    /\ requests[r].pc = "idle"
    /\ \E i \in Stored :
        requests' = Begun(r, [pc |-> "write", body |-> Retired, id |-> i, read |-> rows[i],
                              alone |-> Lone(r)])
    /\ UNCHANGED rows

(***************************************************************************)
(* Any statement may fail, which ends its request where it stands.         *)
(***************************************************************************)

RequestFails(r) ==
    /\ requests[r].pc # "idle"
    /\ End(r)
    /\ UNCHANGED rows

Next ==
    \E r \in Requests :
        \/ CreateFind(r)
        \/ CreateClear(r)
        \/ CreateInsert(r)
        \/ UpdateRead(r)
        \/ UpdateCheck(r)
        \/ UpdateUnset(r)
        \/ UpdateWrite(r)
        \/ RemoveRead(r)
        \/ RequestFails(r)

Spec == Init /\ [][Next]_vars

(***************************************************************************)
(* Properties.                                                             *)
(***************************************************************************)

TypeOK ==
    /\ rows \in [Ids -> Row]
    /\ requests \in [Requests -> Request]

\* The flag is cleared and set in separate statements (create, update), so there can
\* be several default pairs, but never more than requests that ran at once: the
\* surplus of an overlap does not pile up over any sequence of later calls.
DefaultsPerRequest == Cardinality(Defaults) <= Cardinality(Requests)

\* r, which asked for a default, ends having stored its pair.
Sets(r) ==
    /\ requests[r].pc \in {"insert", "write"}
    /\ requests[r].body.default = "on"
    /\ requests'[r].pc = "idle"
    /\ rows' # rows

\* A step as LoneSetterWins has it.
LoneSetterWinsStep ==
    \A r \in Requests : Sets(r) /\ requests[r].alone =>
        \E i \in Ids : /\ Defaults' = {i}
                       /\ requests[r].pc = "write" => i = requests[r].id

\* A request that makes its pair the default, changes something by its last statement
\* and had no other beside it leaves exactly one default, whatever earlier overlaps,
\* failures or removals left behind.
LoneSetterWins == [][LoneSetterWinsStep]_vars
=============================================================================

---------------------------- MODULE ChartProofs -----------------------------
(***************************************************************************)
(* Proofs about the templates of a user's charts, beside the klines, for any *)
(* constants and any number of calls in progress at once.                  *)
(***************************************************************************)
EXTENDS ChartServices, KlineCacheProofs

-----------------------------------------------------------------------------
-----------------------------------------------------------------------------
(* The templates of a user's charts *)

\* The other defaults of the pair of t, under another name.
RivalsOf(t) ==
    {u \in Templates \ {t} :
        /\ Charts!IsPrivateDefault(templates[u]) /\ Charts!SamePair(templates[t], templates[u])
        /\ templates[u].ref.name # templates[t].ref.name}

\* What a setDefault with no other request beside it knows of its template: until it is
\* saved, that it is as it was read; once the others of its name are cleared, that none is
\* left; and in the end that it is the default, or that a rival stays.
ChosenKnown(q) ==
    LET t == q.chosen IN
    /\ q.pc \in {"clear", "save"} =>
        /\ templates[t] = q.read /\ q.new = [q.read EXCEPT !.default = TRUE]
        /\ q.read.active /\ ~q.read.public
    /\ q.pc \in {"save", "norm"} =>
        \A u \in Templates \ {t} : Charts!IsPrivateDefault(templates[u])
                                        => templates[u].ref.name # templates[t].ref.name
    /\ q.pc = "norm" => Charts!IsPrivateDefault(templates[t])
    /\ q.pc = "lose" =>
        \/ Charts!IsPrivateDefault(templates[t]) /\ t \notin q.losers
        \/ \E u \in RivalsOf(t) : u \notin q.losers

\* What is not to be cleared is one default of each group.
KeptApart(q) ==
    \A t, u \in Charts!PrivateDefaults \ q.losers : Charts!SameGroup(t, u) => t = u

LoneKnows(q) ==
    /\ q.pc = "resolve" => q.op = "update"
    /\ q.op = "setDefault" => ChosenKnown(q)
    /\ q.pc = "lose" => KeptApart(q)

ChartInv ==
    /\ Charts!TypeOK
    /\ \A r \in Requests : ~Charts!Over(r) /\ templateRequests[r].alone =>
            Charts!Lone(r) /\ LoneKnows(templateRequests[r])

ChartCreate == [pc : {"clear", "insert"}, op : {"create"}, new : Charts!Row, alone : BOOLEAN]

ChartChange ==
    [pc : {"resolve", "clear", "save"}, op : {"update", "setDefault", "remove"},
     chosen : Templates, read : Charts!Row, new : Charts!Row, alone : BOOLEAN]

ChartNormalise ==
    [pc : {"norm", "lose"}, op : {"setDefault"}, chosen : Templates,
     losers : SUBSET Templates, alone : BOOLEAN]

ChartList == [pc : {"lose"}, op : {"list"}, losers : SUBSET Templates, alone : BOOLEAN]

LEMMA ChartVariants ==
    ASSUME NEW x \in Charts!Request, x.pc \notin {"idle", "done"}
    PROVE  /\ x \in ChartCreate \/ x \in ChartChange \/ x \in ChartNormalise \/ x \in ChartList
           /\ x.pc = "insert" => x \in ChartCreate
           /\ x.pc = "clear" => \/ x.op = "create" /\ x \in ChartCreate
                                \/ x.op # "create" /\ x \in ChartChange
           /\ x.pc \in {"resolve", "save"} => x \in ChartChange
           /\ x.pc = "norm" => x \in ChartNormalise
           /\ x.pc = "lose" => \/ x.op = "setDefault" /\ x \in ChartNormalise
                               \/ x.op # "setDefault" /\ x \in ChartList
  BY DEF Charts!Request, ChartCreate, ChartChange, ChartNormalise, ChartList

LEMMA ChartCalls ==
    /\ ChartCreate \subseteq Charts!Request /\ ChartChange \subseteq Charts!Request
    /\ ChartNormalise \subseteq Charts!Request /\ ChartList \subseteq Charts!Request
    /\ Charts!Idle \in Charts!Request /\ Charts!Done \in Charts!Request
    /\ Charts!Idle.pc = "idle" /\ Charts!Done.pc = "done"
  BY DEF Charts!Request, ChartCreate, ChartChange, ChartNormalise, ChartList, Charts!Idle,
         Charts!Done

LEMMA NoLongerAlone ==
    ASSUME NEW x \in Charts!Request, x.pc \notin {"idle", "done"}
    PROVE  LET y == [x EXCEPT !.alone = FALSE] IN
           y \in Charts!Request /\ y.pc = x.pc /\ y.alone = FALSE
<1> DEFINE y == [x EXCEPT !.alone = FALSE]
<1>1. CASE x \in ChartCreate
  <2>1. y \in ChartCreate /\ y.pc = x.pc /\ y.alone = FALSE
    BY <1>1 DEF ChartCreate
  <2>2. QED
    BY <2>1, ChartCalls
<1>2. CASE x \in ChartChange
  <2>1. y \in ChartChange /\ y.pc = x.pc /\ y.alone = FALSE
    BY <1>2 DEF ChartChange
  <2>2. QED
    BY <2>1, ChartCalls
<1>3. CASE x \in ChartNormalise
  <2>1. y \in ChartNormalise /\ y.pc = x.pc /\ y.alone = FALSE
    BY <1>3 DEF ChartNormalise
  <2>2. QED
    BY <2>1, ChartCalls
<1>4. CASE x \in ChartList
  <2>1. y \in ChartList /\ y.pc = x.pc /\ y.alone = FALSE
    BY <1>4 DEF ChartList
  <2>2. QED
    BY <2>1, ChartCalls
<1>5. QED
  BY <1>1, <1>2, <1>3, <1>4, ChartVariants

\* A call begins: whoever is in progress is no longer alone.
LEMMA CallBegins ==
    ASSUME ChartInv, NEW r \in Requests, NEW q \in Charts!Request, Charts!Over(r),
           templateRequests' = Charts!Begun(r, q), UNCHANGED <<Charts!world, templates>>,
           q.pc \notin {"idle", "done"}, q.alone => Charts!Lone(r), q.alone => LoneKnows(q)
    PROVE  ChartInv'
<1>1. UNCHANGED <<scenario, templateTime, pairName, pairActive, templates>>
  BY DEF Charts!world, Charts!dictionary
<1>2. templateRequests \in [Requests -> Charts!Request]
  BY DEF ChartInv, Charts!TypeOK
<1>3. /\ templateRequests'[r] = q
      /\ \A p \in Requests \ {r} : templateRequests'[p] =
            IF Charts!Over(p) THEN templateRequests[p]
            ELSE [templateRequests[p] EXCEPT !.alone = FALSE]
      /\ templateRequests' = [p \in Requests |-> templateRequests'[p]]
  BY DEF Charts!Begun
<1>4. ASSUME NEW p \in Requests \ {r}
      PROVE  /\ templateRequests'[p] \in Charts!Request
             /\ Charts!Over(p)' <=> Charts!Over(p)
             /\ ~Charts!Over(p) => templateRequests'[p].alone = FALSE
  BY <1>2, <1>3, NoLongerAlone DEF Charts!Over
<1>5. Charts!TypeOK'
  <2>1. \A p \in Requests : templateRequests'[p] \in Charts!Request
    BY <1>3, <1>4
  <2>2. templateRequests' \in [Requests -> Charts!Request]
    BY <1>3, <2>1
  <2>3. QED
    BY <1>1, <2>2 DEF ChartInv, Charts!TypeOK
<1>6. ASSUME NEW p \in Requests, ~Charts!Over(p)', templateRequests'[p].alone
      PROVE  Charts!Lone(p)' /\ LoneKnows(templateRequests[p])'
  <2>1. p = r
    BY <1>4, <1>6
  <2>2. q.alone
    BY <1>3, <1>6, <2>1
  <2>3. Charts!Lone(r)'
    BY <1>4, <2>2 DEF Charts!Lone
  <2>4. LoneKnows(q)'
    BY <1>1, <2>2 DEF LoneKnows, ChosenKnown, KeptApart, RivalsOf, Charts!PrivateDefaults,
                      Charts!SameGroup
  <2>5. QED
    BY <1>3, <2>1, <2>3, <2>4
<1>7. QED
  BY <1>5, <1>6 DEF ChartInv

\* A call in progress moves on: nobody else is alone.
LEMMA CallGoesOn ==
    ASSUME ChartInv, NEW r \in Requests, NEW q \in Charts!Request, ~Charts!Over(r),
           templateRequests' = [templateRequests EXCEPT ![r] = q], UNCHANGED Charts!world,
           templates' \in [Templates -> Charts!Row],
           q.pc \notin {"idle", "done"} /\ q.alone =>
                templateRequests[r].alone /\ LoneKnows(q)'
    PROVE  ChartInv'
<1>1. UNCHANGED <<scenario, templateTime, pairName, pairActive>>
  BY DEF Charts!world, Charts!dictionary
<1>2. templateRequests \in [Requests -> Charts!Request]
  BY DEF ChartInv, Charts!TypeOK
<1>3. templateRequests'[r] = q /\ \A p \in Requests \ {r} :
      templateRequests'[p] = templateRequests[p]
  BY <1>2
<1>4. Charts!TypeOK'
  BY <1>1, <1>2 DEF ChartInv, Charts!TypeOK
<1>5. ASSUME NEW p \in Requests, ~Charts!Over(p)', templateRequests'[p].alone
      PROVE  Charts!Lone(p)' /\ LoneKnows(templateRequests[p])'
  <2>1. CASE p # r
    <3>1. ~Charts!Over(p) /\ templateRequests[p].alone
      BY <1>3, <1>5, <2>1 DEF Charts!Over
    <3>2. Charts!Lone(p)
      BY <3>1 DEF ChartInv
    <3>3. QED
      BY <2>1, <3>2 DEF Charts!Lone
  <2>2. CASE p = r
    <3>1. q.pc \notin {"idle", "done"} /\ q.alone
      BY <1>3, <1>5, <2>2 DEF Charts!Over
    <3>2. templateRequests[r].alone /\ LoneKnows(q)'
      BY <3>1
    <3>3. Charts!Lone(r)
      BY <3>2 DEF ChartInv
    <3>4. Charts!Lone(r)'
      BY <1>3, <3>3 DEF Charts!Lone, Charts!Over
    <3>5. QED
      BY <1>3, <2>2, <3>2, <3>4
  <2>3. QED
    BY <2>1, <2>2
<1>6. QED
  BY <1>4, <1>5 DEF ChartInv

LEMMA CallIsOver ==
    ASSUME ChartInv, NEW r \in Requests, ~Charts!Over(r), Charts!End(r) \/ Charts!Finish(r),
           UNCHANGED Charts!world, templates' \in [Templates -> Charts!Row]
    PROVE  ChartInv'
<1>1. PICK q \in {Charts!Idle, Charts!Done} : templateRequests' = [templateRequests EXCEPT ![r] = q]
  BY DEF Charts!End, Charts!Finish
<1>2. q \in Charts!Request /\ q.pc \in {"idle", "done"}
  BY ChartCalls
<1>3. QED
  BY <1>1, <1>2, CallGoesOn

\* Only the timestamp of a row differs from what was written.
LEMMA TouchedRow ==
    ASSUME ChartInv, NEW old \in Charts!Row, NEW new \in Charts!Row
    PROVE  LET x == Charts!Touched(old, new) IN
           x \in Charts!Row /\ x.ref = new.ref /\ x.public = new.public
           /\ x.default = new.default /\ x.active = new.active
<1>1. templateTime \in 0..TemplateMaxTime
  BY DEF ChartInv, Charts!TypeOK
<1>2. CASE [new EXCEPT !.changed = old.changed] = old
  <2>1. Charts!Touched(old, new) = old
    BY <1>2 DEF Charts!Touched
  <2>2. /\ [new EXCEPT !.changed = old.changed].ref = new.ref
        /\ [new EXCEPT !.changed = old.changed].public = new.public
        /\ [new EXCEPT !.changed = old.changed].default = new.default
        /\ [new EXCEPT !.changed = old.changed].active = new.active
    BY DEF Charts!Row
  <2>3. QED
    BY <1>2, <2>1, <2>2
<1>3. CASE [new EXCEPT !.changed = old.changed] # old
  BY <1>1, <1>3 DEF Charts!Touched, Charts!Row
<1>4. QED
  BY <1>2, <1>3

\* A default flag is cleared.
LEMMA ClearedRow ==
    ASSUME ChartInv, NEW t \in Templates
    PROVE  LET x == Charts!Touched(templates[t], [templates[t] EXCEPT !.default = FALSE]) IN
           x \in Charts!Row /\ x.ref = templates[t].ref /\ ~Charts!IsPrivateDefault(x)
<1>1. templates[t] \in Charts!Row
  BY DEF ChartInv, Charts!TypeOK
<1>2. LET new == [templates[t] EXCEPT !.default = FALSE] IN
      new \in Charts!Row /\ new.default = FALSE /\ new.ref = templates[t].ref
  BY <1>1 DEF Charts!Row
<1>3. QED
  BY <1>1, <1>2, TouchedRow DEF Charts!IsPrivateDefault

\* Clearing by a name spares the other names and the chosen template.
LEMMA ClearingByName ==
    ASSUME ChartInv, NEW name, NEW spared, templates' = Charts!Cleared(name, spared)
    PROVE  /\ templates' \in [Templates -> Charts!Row]
           /\ \A t \in Templates :
                /\ templates'[t].ref = templates[t].ref
                /\ t \in spared => templates'[t] = templates[t]
                /\ Charts!IsPrivateDefault(templates'[t]) =>
                        t \in spared \/ templates'[t].ref.name # name
<1>1. \A t \in Templates : templates[t] \in Charts!Row
  BY DEF ChartInv, Charts!TypeOK
<1>2. ASSUME NEW t \in Templates
      PROVE  templates'[t] =
                IF Charts!IsPrivateDefault(templates[t]) /\ templates[t].ref.name = name
                   /\ t \notin spared
                THEN Charts!Touched(templates[t], [templates[t] EXCEPT !.default = FALSE])
                ELSE templates[t]
  BY DEF Charts!Cleared
<1>3. ASSUME NEW t \in Templates
      PROVE  /\ templates'[t] \in Charts!Row /\ templates'[t].ref = templates[t].ref
             /\ t \in spared => templates'[t] = templates[t]
             /\ Charts!IsPrivateDefault(templates'[t]) =>
                        t \in spared \/ templates'[t].ref.name # name
  BY <1>1, <1>2, ClearedRow
<1>4. templates' = [t \in Templates |-> templates'[t]]
  BY DEF Charts!Cleared
<1>5. QED
  BY <1>3, <1>4

LEMMA ChartInitial == ASSUME Charts!Init PROVE ChartInv
<1>1. /\ scenario \in Scenarios /\ templateTime = 0 /\ pairName \in [Pairs -> Names]
      /\ pairActive = [p \in Pairs |-> TRUE] /\ templates = [t \in Templates |-> Charts!Absent]
      /\ templateRequests = [r \in Requests |-> Charts!Idle]
  BY DEF Charts!Init
<1>2. Charts!Absent \in Charts!Row
  BY TemplatesAssumption DEF Charts!Absent, Charts!Row, Charts!Refs
<1>3. 0 \in 0..TemplateMaxTime
  BY TemplatesAssumption
<1>4. Charts!TypeOK
  BY <1>1, <1>2, <1>3, ChartCalls, TemplatesAssumption DEF Charts!TypeOK
<1>5. \A r \in Requests : Charts!Over(r)
  BY <1>1, ChartCalls DEF Charts!Over
<1>6. QED
  BY <1>4, <1>5 DEF ChartInv

(***************************************************************************)
(* create.                                                                 *)
(***************************************************************************)

LEMMA NameTyped ==
    ASSUME ChartInv, NEW p \in Pairs \cup {AnyPair}
    PROVE  Charts!NameOf(p) \in Names \cup {AnyPair}
  BY DEF ChartInv, Charts!TypeOK, Charts!NameOf

LEMMA AskedTyped ==
    ASSUME ChartInv
    PROVE  /\ scenario.asked \subseteq Pairs \cup {AnyPair} /\ scenario.visible \subseteq BOOLEAN
           /\ templateTime \in 0..TemplateMaxTime
           /\ templates \in [Templates -> Charts!Row]
           /\ templateRequests \in [Requests -> Charts!Request]
  BY DEF ChartInv, Charts!TypeOK, Charts!Scenario

LEMMA CreateResolveKeeps ==
    ASSUME ChartInv, NEW r \in Requests, Charts!CreateResolve(r) PROVE ChartInv'
<1>1. Charts!Over(r) /\ UNCHANGED <<Charts!world, templates>>
  BY DEF Charts!CreateResolve
<1>2. PICK p \in scenario.asked, public \in scenario.visible, default \in BOOLEAN :
        templateRequests' = Charts!Begun(r,
            [pc |-> IF default /\ ~public THEN "clear" ELSE "insert", op |-> "create",
             new |-> [ref |-> [pair |-> p, name |-> Charts!NameOf(p)], public |-> public,
                      default |-> default /\ ~public, active |-> TRUE, changed |-> templateTime],
             alone |-> Charts!Lone(r)])
  BY DEF Charts!CreateResolve
<1>3. PICK new : new = [ref |-> [pair |-> p, name |-> Charts!NameOf(p)], public |-> public,
                        default |-> default /\ ~public, active |-> TRUE, changed |-> templateTime]
  OBVIOUS
<1>4. new \in Charts!Row
  BY <1>3, AskedTyped, NameTyped DEF Charts!Row, Charts!Refs
<1>5. PICK q : q = [pc |-> IF default /\ ~public THEN "clear" ELSE "insert", op |-> "create",
                    new |-> new, alone |-> Charts!Lone(r)]
  OBVIOUS
<1>6. q \in ChartCreate /\ q.op = "create" /\ q.pc \in {"clear", "insert"}
      /\ (q.alone => Charts!Lone(r))
  BY <1>4, <1>5 DEF ChartCreate, Charts!Lone
<1>7. q \in Charts!Request /\ LoneKnows(q)
  BY <1>6, ChartCalls DEF LoneKnows
<1>8. QED
  BY <1>1, <1>2, <1>3, <1>5, <1>6, <1>7, CallBegins

LEMMA ClearOthersKeeps ==
    ASSUME ChartInv, NEW r \in Requests, Charts!ClearOthers(r) PROVE ChartInv'
<1> DEFINE x == templateRequests[r]
<1>1. x.pc = "clear" /\ UNCHANGED Charts!world /\ ~Charts!Over(r) /\ x \in Charts!Request
  BY AskedTyped DEF Charts!ClearOthers, Charts!Over
<1>2. CASE x.op = "create"
  <2>1. templates' = Charts!Cleared(x.new.ref.name, {}) /\ Charts!Goto(r, "insert")
    BY <1>2 DEF Charts!ClearOthers
  <2>2. PICK q : q = [x EXCEPT !.pc = "insert"]
    OBVIOUS
  <2>3. x \in ChartCreate
    BY <1>1, <1>2, ChartVariants
  <2>4. q \in ChartCreate /\ q.pc = "insert" /\ q.op = "create" /\ q.alone = x.alone
    BY <2>2, <2>3 DEF ChartCreate
  <2>5. LoneKnows(q)'
    BY <2>4 DEF LoneKnows
  <2>6. templates' \in [Templates -> Charts!Row]
    BY <2>1, ClearingByName
  <2>7. QED
    BY <1>1, <2>1, <2>2, <2>4, <2>5, <2>6, ChartCalls, CallGoesOn DEF Charts!Goto
<1>3. CASE x.op # "create"
  <2>1. templates' = Charts!Cleared(x.read.ref.name, {x.chosen}) /\ Charts!Goto(r, "save")
    BY <1>3 DEF Charts!ClearOthers
  <2>2. PICK q : q = [x EXCEPT !.pc = "save"]
    OBVIOUS
  <2>3. x \in ChartChange
    BY <1>1, <1>3, ChartVariants
  <2>4. /\ q \in ChartChange /\ q.pc = "save" /\ q.op = x.op /\ q.alone = x.alone
        /\ q.chosen = x.chosen /\ q.read = x.read /\ q.new = x.new /\ q.chosen \in Templates
    BY <2>2, <2>3 DEF ChartChange
  <2>5. templates' \in [Templates -> Charts!Row]
    BY <2>1, ClearingByName
  <2>6. ASSUME x.alone PROVE LoneKnows(q)'
    <3>1. SUFFICES ASSUME q.op = "setDefault" PROVE ChosenKnown(q)'
      BY <2>4 DEF LoneKnows
    <3>2. /\ templates[q.chosen] = q.read /\ q.new = [q.read EXCEPT !.default = TRUE]
          /\ q.read.active /\ ~q.read.public
      BY <1>1, <2>4, <2>6, <3>1 DEF ChartInv, LoneKnows, ChosenKnown
    <3>0. \A u \in Templates :
            /\ u = x.chosen => templates'[u] = templates[u]
            /\ Charts!IsPrivateDefault(templates'[u]) =>
                    u = x.chosen \/ templates'[u].ref.name # x.read.ref.name
      <4>0. PICK name, spared : name = x.read.ref.name /\ spared = {x.chosen}
        OBVIOUS
      <4>00. templates' = Charts!Cleared(name, spared)
        BY <2>1, <4>0
      <4>1. \A u \in Templates :
            /\ u \in spared => templates'[u] = templates[u]
            /\ Charts!IsPrivateDefault(templates'[u]) =>
                    u \in spared \/ templates'[u].ref.name # name
        BY <4>00, ClearingByName
      <4>2. QED
        BY <4>0, <4>1
    <3>3. templates'[q.chosen] = templates[q.chosen]
      BY <2>4, <3>0
    <3>4. \A u \in Templates \ {q.chosen} : Charts!IsPrivateDefault(templates'[u])
                => templates'[u].ref.name # templates'[q.chosen].ref.name
      BY <2>4, <3>0, <3>2, <3>3
    <3>5. QED
      BY <2>4, <3>2, <3>3, <3>4 DEF ChosenKnown, Charts!IsPrivateDefault
  <2>7. QED
    BY <1>1, <2>1, <2>2, <2>4, <2>5, <2>6, ChartCalls, CallGoesOn DEF Charts!Goto
<1>4. QED
  BY <1>2, <1>3

LEMMA CreateInsertKeeps ==
    ASSUME ChartInv, NEW r \in Requests, Charts!CreateInsert(r) PROVE ChartInv'
<1>1. /\ templateRequests[r].pc = "insert" /\ UNCHANGED Charts!world /\ ~Charts!Over(r)
      /\ Charts!End(r)
  BY DEF Charts!CreateInsert, Charts!Over
<1>2. PICK t \in Templates : templates' = [templates EXCEPT ![t] = templateRequests[r].new]
  BY DEF Charts!CreateInsert
<1>3. templateRequests[r] \in ChartCreate
  BY <1>1, AskedTyped, ChartVariants
<1>4. templates' \in [Templates -> Charts!Row]
  BY <1>2, <1>3, AskedTyped DEF ChartCreate
<1>5. QED
  BY <1>1, <1>4, CallIsOver

(***************************************************************************)
(* update, setDefault and remove.                                          *)
(***************************************************************************)

\* A call reads a template and begins to change it.
LEMMA ChangeBegins ==
    ASSUME ChartInv, NEW r \in Requests, NEW q \in ChartChange, Charts!Over(r),
           templateRequests' = Charts!Begun(r, q), UNCHANGED <<Charts!world, templates>>,
           q.alone => Charts!Lone(r), q.pc = "resolve" => q.op = "update",
           q.op = "setDefault" => ChosenKnown(q)
    PROVE  ChartInv'
<1>1. q \in Charts!Request /\ q.pc \in {"resolve", "clear", "save"}
  BY ChartCalls DEF ChartChange
<1>2. LoneKnows(q)
  BY <1>1 DEF LoneKnows
<1>3. QED
  BY <1>1, <1>2, CallBegins

LEMMA UpdateReadKeeps ==
    ASSUME ChartInv, NEW r \in Requests, Charts!UpdateRead(r) PROVE ChartInv'
<1>1. Charts!Over(r) /\ UNCHANGED <<Charts!world, templates>>
  BY DEF Charts!UpdateRead
<1>2. PICK t \in Templates :
        \E pc \in {"resolve", "save"}, p \in scenario.asked \cup {templates[t].ref.pair},
           public \in scenario.visible :
            templateRequests' = Charts!Begun(r,
                [pc |-> pc, op |-> "update", chosen |-> t, read |-> templates[t],
                 new |-> Charts!Published([templates[t] EXCEPT !.ref.pair = p], public),
                 alone |-> Charts!Lone(r)])
  BY DEF Charts!UpdateRead
<1>20. PICK pc \in {"resolve", "save"}, p \in scenario.asked \cup {templates[t].ref.pair},
            public \in scenario.visible :
        templateRequests' = Charts!Begun(r,
            [pc |-> pc, op |-> "update", chosen |-> t, read |-> templates[t],
             new |-> Charts!Published([templates[t] EXCEPT !.ref.pair = p], public),
             alone |-> Charts!Lone(r)])
  BY <1>2
<1>3. templates[t] \in Charts!Row
  BY AskedTyped
<1>4. PICK moved : moved = [templates[t] EXCEPT !.ref.pair = p]
  OBVIOUS
<1>5. moved \in Charts!Row
  <2>1. p \in Pairs \cup {AnyPair}
    BY <1>3, AskedTyped DEF Charts!Row, Charts!Refs
  <2>2. [templates[t].ref EXCEPT !.pair = p] \in Charts!Refs
    BY <1>3, <2>1 DEF Charts!Row, Charts!Refs
  <2>3. QED
    BY <1>3, <1>4, <2>2 DEF Charts!Row
<1>6. Charts!Published(moved, public) \in Charts!Row
  BY <1>5, AskedTyped DEF Charts!Published, Charts!Row
<1>7. PICK q : q = [pc |-> pc, op |-> "update", chosen |-> t, read |-> templates[t],
                    new |-> Charts!Published(moved, public), alone |-> Charts!Lone(r)]
  OBVIOUS
<1>8. q \in ChartChange /\ q.op = "update" /\ (q.alone => Charts!Lone(r))
  BY <1>3, <1>6, <1>7 DEF ChartChange, Charts!Lone
<1>9. QED
  BY <1>1, <1>20, <1>4, <1>7, <1>8, ChangeBegins

LEMMA UpdateResolveKeeps ==
    ASSUME ChartInv, NEW r \in Requests, Charts!UpdateResolve(r) PROVE ChartInv'
<1> DEFINE x == templateRequests[r]
           p == x.new.ref.pair
<1>1. /\ x.pc = "resolve" /\ UNCHANGED <<Charts!world, templates>> /\ ~Charts!Over(r)
      /\ x \in ChartChange /\ templates' \in [Templates -> Charts!Row]
  BY AskedTyped, ChartVariants DEF Charts!UpdateResolve, Charts!Over
<1>2. CASE Charts!End(r)
  BY <1>1, <1>2, CallIsOver
<1>3. PICK q : q = [x EXCEPT !.pc = "save", !.new.ref.name = Charts!NameOf(p)]
  OBVIOUS
<1>4. CASE templateRequests' = [templateRequests EXCEPT ![r] = q]
  <2>1. [x.new EXCEPT !.ref.name = Charts!NameOf(p)] \in Charts!Row
    <3>1. x.new \in Charts!Row /\ p \in Pairs \cup {AnyPair}
      BY <1>1 DEF ChartChange, Charts!Row, Charts!Refs
    <3>2. Charts!NameOf(p) \in Names \cup {AnyPair}
      BY <3>1, NameTyped
    <3>3. [x.new.ref EXCEPT !.name = Charts!NameOf(p)] \in Charts!Refs
      BY <3>1, <3>2 DEF Charts!Row, Charts!Refs
    <3>4. QED
      BY <3>1, <3>3 DEF Charts!Row
  <2>2. q \in ChartChange /\ q.pc = "save" /\ q.op = x.op /\ q.alone = x.alone
    BY <1>1, <1>3, <2>1 DEF ChartChange
  <2>3. x.alone => LoneKnows(q)'
    <3>1. x.alone => x.op = "update"
      BY <1>1 DEF ChartInv, LoneKnows
    <3>2. QED
      BY <2>2, <3>1 DEF LoneKnows
  <2>4. QED
    BY <1>1, <1>4, <2>2, <2>3, ChartCalls, CallGoesOn
<1>5. QED
  BY <1>2, <1>3, <1>4 DEF Charts!UpdateResolve

LEMMA SetDefaultReadKeeps ==
    ASSUME ChartInv, NEW r \in Requests, Charts!SetDefaultRead(r) PROVE ChartInv'
<1>1. Charts!Over(r) /\ UNCHANGED <<Charts!world, templates>>
  BY DEF Charts!SetDefaultRead
<1>2. PICK t \in Templates :
        /\ templates[t].active /\ ~templates[t].public
        /\ templateRequests' = Charts!Begun(r,
                [pc |-> "clear", op |-> "setDefault", chosen |-> t, read |-> templates[t],
                 new |-> [templates[t] EXCEPT !.default = TRUE], alone |-> Charts!Lone(r)])
  BY DEF Charts!SetDefaultRead
<1>3. templates[t] \in Charts!Row /\ [templates[t] EXCEPT !.default = TRUE] \in Charts!Row
  BY AskedTyped DEF Charts!Row
<1>4. PICK q : q = [pc |-> "clear", op |-> "setDefault", chosen |-> t, read |-> templates[t],
                    new |-> [templates[t] EXCEPT !.default = TRUE], alone |-> Charts!Lone(r)]
  OBVIOUS
<1>5. q \in ChartChange /\ (q.alone => Charts!Lone(r)) /\ q.pc # "resolve"
  BY <1>3, <1>4 DEF ChartChange, Charts!Lone
<1>6. ChosenKnown(q)
  BY <1>2, <1>4 DEF ChosenKnown
<1>7. QED
  BY <1>1, <1>2, <1>4, <1>5, <1>6, ChangeBegins

LEMMA RemoveReadKeeps ==
    ASSUME ChartInv, NEW r \in Requests, Charts!RemoveRead(r) PROVE ChartInv'
<1>1. Charts!Over(r) /\ UNCHANGED <<Charts!world, templates>>
  BY DEF Charts!RemoveRead
<1>2. PICK t \in Templates :
        templateRequests' = Charts!Begun(r,
                [pc |-> "save", op |-> "remove", chosen |-> t, read |-> templates[t],
                 new |-> [templates[t] EXCEPT !.active = FALSE, !.default = FALSE],
                 alone |-> Charts!Lone(r)])
  BY DEF Charts!RemoveRead
<1>3. /\ templates[t] \in Charts!Row
      /\ [templates[t] EXCEPT !.active = FALSE, !.default = FALSE] \in Charts!Row
  BY AskedTyped DEF Charts!Row
<1>4. PICK q : q = [pc |-> "save", op |-> "remove", chosen |-> t, read |-> templates[t],
                    new |-> [templates[t] EXCEPT !.active = FALSE, !.default = FALSE],
                    alone |-> Charts!Lone(r)]
  OBVIOUS
<1>5. q \in ChartChange /\ q.op = "remove" /\ (q.alone => Charts!Lone(r)) /\ q.pc # "resolve"
  BY <1>3, <1>4 DEF ChartChange, Charts!Lone
<1>6. QED
  BY <1>1, <1>2, <1>4, <1>5, ChangeBegins

\* An instance that is saved over the row it read gives the row its columns.
LEMMA SavedRow ==
    ASSUME ChartInv, NEW stored \in Charts!Row, NEW read \in Charts!Row, NEW new \in Charts!Row,
           NEW z, z = Charts!Saved(stored, read, new)
    PROVE  /\ z \in Charts!Row
           /\ stored = read => z.ref = new.ref /\ z.public = new.public
                                /\ z.default = new.default /\ z.active = new.active
<1>1. PICK y : y =
        [ref |-> [pair |-> Charts!Merged(stored.ref.pair, read.ref.pair, new.ref.pair),
                  name |-> Charts!Merged(stored.ref.name, read.ref.name, new.ref.name)],
         public |-> Charts!Merged(stored.public, read.public, new.public),
         default |-> Charts!Merged(stored.default, read.default, new.default),
         active |-> Charts!Merged(stored.active, read.active, new.active),
         changed |-> stored.changed]
  OBVIOUS
<1>2. y \in Charts!Row
  <2>1. /\ Charts!Merged(stored.ref.pair, read.ref.pair, new.ref.pair) \in Pairs \cup {AnyPair}
        /\ Charts!Merged(stored.ref.name, read.ref.name, new.ref.name) \in Names \cup {AnyPair}
    BY DEF Charts!Merged, Charts!Row, Charts!Refs
  <2>2. /\ Charts!Merged(stored.public, read.public, new.public) \in BOOLEAN
        /\ Charts!Merged(stored.default, read.default, new.default) \in BOOLEAN
        /\ Charts!Merged(stored.active, read.active, new.active) \in BOOLEAN
    BY DEF Charts!Merged, Charts!Row
  <2>3. stored.changed \in 0..TemplateMaxTime
    BY DEF Charts!Row
  <2>4. QED
    BY <1>1, <2>1, <2>2, <2>3 DEF Charts!Row, Charts!Refs
<1>3. stored = read => y.ref = new.ref /\ y.public = new.public
                       /\ y.default = new.default /\ y.active = new.active
  <2>1. new.ref = [pair |-> new.ref.pair, name |-> new.ref.name]
    BY DEF Charts!Row, Charts!Refs
  <2>2. QED
    BY <1>1, <2>1 DEF Charts!Merged
<1>4. z = Charts!Touched(stored, y)
  BY <1>1 DEF Charts!Saved
<1>5. QED
  BY <1>2, <1>3, <1>4, TouchedRow

LEMMA SaveRowKeeps ==
    ASSUME ChartInv, NEW r \in Requests, Charts!SaveRow(r) PROVE ChartInv'
<1> DEFINE x == templateRequests[r]
           t == x.chosen
<1>1. /\ x.pc = "save" /\ UNCHANGED Charts!world /\ ~Charts!Over(r)
      /\ templates' = [templates EXCEPT ![t] = Charts!Saved(templates[t], x.read, x.new)]
  BY DEF Charts!SaveRow, Charts!Over
<1>2. x \in ChartChange /\ t \in Templates /\ x.read \in Charts!Row /\ x.new \in Charts!Row
  <2>1. x \in ChartChange
    BY <1>1, AskedTyped, ChartVariants
  <2>2. QED
    BY <2>1 DEF ChartChange
<1>3. templates \in [Templates -> Charts!Row]
  BY AskedTyped
<1>4. /\ templates'[t] = Charts!Saved(templates[t], x.read, x.new)
      /\ \A u \in Templates \ {t} : templates'[u] = templates[u]
  BY <1>1, <1>2, <1>3
<1>5. templates' \in [Templates -> Charts!Row]
  BY <1>1, <1>2, <1>3, SavedRow
<1>6. CASE x.op # "setDefault"
  BY <1>1, <1>5, <1>6, CallIsOver DEF Charts!SaveRow
<1>7. CASE x.op = "setDefault"
  <2>1. PICK q : q = [pc |-> "norm", op |-> x.op, chosen |-> t, losers |-> {}, alone |-> x.alone]
    OBVIOUS
  <2>2. /\ q \in ChartNormalise /\ q.pc = "norm" /\ q.op = "setDefault" /\ q.chosen = t
        /\ q.alone = x.alone
    BY <1>2, <1>7, <2>1 DEF ChartNormalise, ChartChange
  <2>3. templateRequests' = [templateRequests EXCEPT ![r] = q]
    BY <1>7, <2>1 DEF Charts!SaveRow
  <2>4. ASSUME x.alone PROVE LoneKnows(q)'
    <3>1. /\ templates[t] = x.read /\ x.new = [x.read EXCEPT !.default = TRUE]
          /\ x.read.active /\ ~x.read.public
          /\ \A u \in Templates \ {t} : Charts!IsPrivateDefault(templates[u])
                                    => templates[u].ref.name # templates[t].ref.name
      BY <1>1, <1>7, <2>4 DEF ChartInv, LoneKnows, ChosenKnown
    <3>2. x.new.default /\ x.new.active /\ ~x.new.public /\ x.new.ref = templates[t].ref
      BY <1>2, <3>1 DEF Charts!Row
    <3>3. /\ templates'[t].ref = templates[t].ref /\ Charts!IsPrivateDefault(templates'[t])
      <4>1. templates[t] \in Charts!Row
        BY <1>2, <1>3
      <4>2. /\ templates'[t].ref = x.new.ref /\ templates'[t].public = x.new.public
            /\ templates'[t].default = x.new.default /\ templates'[t].active = x.new.active
        <5>1. PICK stored, read, new, z : /\ stored = templates[t] /\ read = x.read /\ new = x.new
                                          /\ z = templates'[t]
          OBVIOUS
        <5>2. /\ stored \in Charts!Row /\ read \in Charts!Row /\ new \in Charts!Row
              /\ stored = read /\ z = Charts!Saved(stored, read, new)
          BY <1>2, <1>4, <3>1, <4>1, <5>1
        <5>3. /\ z.ref = new.ref /\ z.public = new.public
              /\ z.default = new.default /\ z.active = new.active
          BY <5>2, SavedRow
        <5>4. QED
          BY <5>1, <5>3
      <4>3. QED
        BY <3>2, <4>2 DEF Charts!IsPrivateDefault
    <3>4. \A u \in Templates \ {t} : Charts!IsPrivateDefault(templates'[u])
                                    => templates'[u].ref.name # templates'[t].ref.name
      BY <1>4, <3>1, <3>3
    <3>5. QED
      BY <2>2, <3>3, <3>4 DEF LoneKnows, ChosenKnown, Charts!IsPrivateDefault
  <2>5. QED
    BY <1>1, <1>5, <2>2, <2>3, <2>4, ChartCalls, CallGoesOn
<1>8. QED
  BY <1>6, <1>7

(***************************************************************************)
(* normalizeUserDefaults.                                                  *)
(***************************************************************************)

\* Of one group, one default is kept, and none was changed after it.
LEMMA LosersChosen ==
    ASSUME ChartInv, NEW losers \in Charts!LoserSets
    PROVE  /\ losers \subseteq Templates
           /\ \A t, u \in Charts!PrivateDefaults \ losers : Charts!SameGroup(t, u) => t = u
           /\ \A t \in Charts!PrivateDefaults : \E k \in Charts!PrivateDefaults \ losers :
                    Charts!SameGroup(k, t) /\ templates[k].changed >= templates[t].changed
<1>1. PICK kept \in SUBSET Charts!PrivateDefaults :
        Charts!MayKeep(kept) /\ losers = Charts!PrivateDefaults \ kept
  BY DEF Charts!LoserSets
<1>2. losers \subseteq Templates /\ Charts!PrivateDefaults \ losers = kept
  BY <1>1 DEF Charts!PrivateDefaults
<1>3. QED
  BY <1>1, <1>2 DEF Charts!MayKeep

\* Two of one group are of one pair, or both for all pairs and of one name.
LEMMA GroupIsPair ==
    ASSUME ChartInv, NEW t \in Templates, NEW u \in Templates
    PROVE  /\ Charts!SamePair(templates[t], templates[u]) => Charts!SameGroup(t, u)
           /\ Charts!SameGroup(t, u) => Charts!SamePair(templates[t], templates[u])
<1>1. /\ templates[t].ref.pair \in Pairs \cup {AnyPair}
      /\ templates[t].ref.name \in Names \cup {AnyPair}
      /\ templates[u].ref.pair \in Pairs \cup {AnyPair}
      /\ templates[u].ref.name \in Names \cup {AnyPair}
  BY AskedTyped DEF Charts!Row, Charts!Refs
<1>2. QED
  BY <1>1, TemplatesAssumption DEF Charts!SameGroup, Charts!GroupOf, Charts!SamePair

\* A default that normalising gives up has a rival: the clearing by name left no other.
LEMMA LoserHasRival ==
    ASSUME ChartInv, NEW losers \in Charts!LoserSets, NEW t \in losers,
           Charts!IsPrivateDefault(templates[t]),
           \A u \in Templates \ {t} : Charts!IsPrivateDefault(templates[u])
                                        => templates[u].ref.name # templates[t].ref.name
    PROVE  \E u \in RivalsOf(t) : u \notin losers /\ templates[u].changed >= templates[t].changed
<1>1. t \in Charts!PrivateDefaults
  BY LosersChosen DEF Charts!PrivateDefaults
<1>2. PICK k \in Charts!PrivateDefaults \ losers :
        Charts!SameGroup(k, t) /\ templates[k].changed >= templates[t].changed
  BY <1>1, LosersChosen
<1>3. k \in Templates /\ k # t /\ Charts!IsPrivateDefault(templates[k]) /\ t \in Templates
  BY <1>1, <1>2 DEF Charts!PrivateDefaults
<1>4. Charts!SamePair(templates[k], templates[t])
  BY <1>2, <1>3, GroupIsPair
<1>5. Charts!SamePair(templates[t], templates[k])
  BY <1>4 DEF Charts!SamePair
<1>6. QED
  BY <1>2, <1>3, <1>5 DEF RivalsOf

LEMMA NormReadKeeps ==
    ASSUME ChartInv, NEW r \in Requests, Charts!NormRead(r) PROVE ChartInv'
<1> DEFINE x == templateRequests[r]
<1>1. /\ x.pc = "norm" /\ UNCHANGED <<Charts!world, templates>> /\ ~Charts!Over(r)
      /\ x \in ChartNormalise /\ templates' \in [Templates -> Charts!Row]
  BY AskedTyped, ChartVariants DEF Charts!NormRead, Charts!Over
<1>2. PICK losers \in Charts!LoserSets :
        IF losers = {} THEN Charts!Finish(r)
        ELSE templateRequests' = [templateRequests EXCEPT ![r].pc = "lose", ![r].losers = losers]
  BY DEF Charts!NormRead
<1>3. CASE losers = {}
  BY <1>1, <1>2, <1>3, CallIsOver
<1>4. CASE losers # {}
  <2>1. PICK q : q = [x EXCEPT !.pc = "lose", !.losers = losers]
    OBVIOUS
  <2>2. templateRequests' = [templateRequests EXCEPT ![r] = q]
    BY <1>2, <1>4, <2>1
  <2>3. losers \subseteq Templates
    BY LosersChosen
  <2>4. /\ q \in ChartNormalise /\ q.pc = "lose" /\ q.losers = losers /\ q.op = "setDefault"
        /\ x.op = "setDefault" /\ q.alone = x.alone /\ q.chosen = x.chosen
        /\ q.chosen \in Templates
    BY <1>1, <2>1, <2>3 DEF ChartNormalise
  <2>5. KeptApart(q)
    BY <2>4, LosersChosen DEF KeptApart
  <2>6. ASSUME x.alone PROVE ChosenKnown(q)
    <3>0. ChosenKnown(x)
      BY <1>1, <2>4, <2>6 DEF ChartInv, LoneKnows
    <3>1. /\ Charts!IsPrivateDefault(templates[q.chosen])
          /\ \A u \in Templates \ {q.chosen} : Charts!IsPrivateDefault(templates[u])
                                    => templates[u].ref.name # templates[q.chosen].ref.name
      BY <1>1, <2>4, <3>0 DEF ChosenKnown
    <3>2. q.chosen \in losers => \E u \in RivalsOf(q.chosen) : u \notin losers
      BY <3>1, LoserHasRival
    <3>3. QED
      BY <2>4, <3>1, <3>2 DEF ChosenKnown
  <2>7. x.alone => LoneKnows(q)'
    BY <1>1, <2>4, <2>5, <2>6 DEF LoneKnows, KeptApart, ChosenKnown, RivalsOf,
                                  Charts!PrivateDefaults, Charts!SameGroup
  <2>8. QED
    BY <1>1, <2>2, <2>4, <2>7, ChartCalls, CallGoesOn
<1>5. QED
  BY <1>3, <1>4

LEMMA ListReadKeeps ==
    ASSUME ChartInv, NEW r \in Requests, Charts!ListRead(r) PROVE ChartInv'
<1>1. Charts!Over(r) /\ UNCHANGED <<Charts!world, templates>>
  BY DEF Charts!ListRead
<1>2. PICK losers \in Charts!LoserSets \ {{}} :
        templateRequests' = Charts!Begun(r, [pc |-> "lose", op |-> "list", losers |-> losers,
                                          alone |-> Charts!Lone(r)])
  BY DEF Charts!ListRead
<1>3. PICK q : q = [pc |-> "lose", op |-> "list", losers |-> losers, alone |-> Charts!Lone(r)]
  OBVIOUS
<1>4. losers \subseteq Templates
  BY LosersChosen
<1>5. /\ q \in ChartList /\ q.pc = "lose" /\ q.op = "list" /\ q.losers = losers
      /\ (q.alone => Charts!Lone(r))
  BY <1>3, <1>4 DEF ChartList, Charts!Lone
<1>6. LoneKnows(q)
  BY <1>5, LosersChosen DEF LoneKnows, KeptApart
<1>7. QED
  BY <1>1, <1>2, <1>3, <1>5, <1>6, ChartCalls, CallBegins

\* Clearing one more keeps the others apart, and the rival that stays.
LEMMA LoseOneKeeps ==
    ASSUME ChartInv, NEW r \in Requests, Charts!LoseOne(r) PROVE ChartInv'
<1> DEFINE x == templateRequests[r]
<1>1. /\ x.pc = "lose" /\ UNCHANGED Charts!world /\ ~Charts!Over(r)
      /\ \/ x.op = "setDefault" /\ x \in ChartNormalise
         \/ x.op # "setDefault" /\ x \in ChartList
  BY AskedTyped, ChartVariants DEF Charts!LoseOne, Charts!Over
<1>2. x.losers \subseteq Templates
  BY <1>1 DEF ChartNormalise, ChartList
<1>3. PICK t \in x.losers :
        /\ templates' = [templates EXCEPT
                ![t] = Charts!Touched(templates[t], [templates[t] EXCEPT !.default = FALSE])]
        /\ IF x.losers = {t} THEN Charts!Finish(r)
           ELSE templateRequests' = [templateRequests EXCEPT ![r].losers = @ \ {t}]
  BY DEF Charts!LoseOne
<1>4. /\ templates' \in [Templates -> Charts!Row] /\ ~Charts!IsPrivateDefault(templates'[t])
      /\ templates'[t].ref = templates[t].ref
      /\ \A u \in Templates \ {t} : templates'[u] = templates[u]
  BY <1>2, <1>3, AskedTyped, ClearedRow
<1>5. CASE x.losers = {t}
  BY <1>1, <1>3, <1>4, <1>5, CallIsOver
<1>6. CASE x.losers # {t}
  <2>1. PICK q : q = [x EXCEPT !.losers = x.losers \ {t}]
    OBVIOUS
  <2>2. templateRequests' = [templateRequests EXCEPT ![r] = q]
    BY <1>3, <1>6, <2>1
  <2>3. /\ q \in Charts!Request /\ q.pc = "lose" /\ q.op = x.op /\ q.alone = x.alone
        /\ q.losers = x.losers \ {t}
        /\ q.op = "setDefault" => q.chosen = x.chosen /\ q.chosen \in Templates
    <3>1. CASE x \in ChartNormalise /\ x.op = "setDefault"
      <4>1. /\ q \in ChartNormalise /\ q.pc = "lose" /\ q.op = x.op /\ q.alone = x.alone
            /\ q.losers = x.losers \ {t} /\ q.chosen = x.chosen /\ q.chosen \in Templates
        BY <1>1, <2>1, <3>1 DEF ChartNormalise
      <4>2. QED
        BY <4>1, ChartCalls
    <3>2. CASE x \in ChartList /\ x.op # "setDefault"
      <4>1. /\ q \in ChartList /\ q.pc = "lose" /\ q.op = x.op /\ q.alone = x.alone
            /\ q.losers = x.losers \ {t}
        BY <1>1, <2>1, <3>2 DEF ChartList
      <4>2. QED
        BY <3>2, <4>1, ChartCalls
    <3>3. QED
      BY <1>1, <3>1, <3>2
  <2>4. ASSUME x.alone PROVE LoneKnows(q)'
    <3>1. KeptApart(x) /\ (x.op = "setDefault" => ChosenKnown(x))
      BY <1>1, <2>4 DEF ChartInv, LoneKnows
    <3>2. (Charts!PrivateDefaults \ q.losers)' \subseteq Charts!PrivateDefaults \ x.losers
      BY <1>4, <2>3 DEF Charts!PrivateDefaults
    <3>3. KeptApart(q)'
      BY <1>2, <1>4, <3>1, <3>2 DEF KeptApart, Charts!SameGroup, Charts!GroupOf,
                                    Charts!PrivateDefaults
    <3>4. ASSUME q.op = "setDefault" PROVE ChosenKnown(q)'
      <4>1. \/ Charts!IsPrivateDefault(templates[q.chosen]) /\ q.chosen \notin x.losers
            \/ \E u \in RivalsOf(q.chosen) : u \notin x.losers
        BY <1>1, <2>3, <3>1, <3>4 DEF ChosenKnown
      <4>2. CASE Charts!IsPrivateDefault(templates[q.chosen]) /\ q.chosen \notin x.losers
        <5>1. templates'[q.chosen] = templates[q.chosen] /\ q.chosen \notin q.losers
          BY <1>4, <2>3, <3>4, <4>2
        <5>2. QED
          BY <2>3, <4>2, <5>1 DEF ChosenKnown, Charts!IsPrivateDefault
      <4>3. ASSUME NEW u \in RivalsOf(q.chosen), u \notin x.losers PROVE ChosenKnown(q)'
        <5>1. u \in Templates \ {q.chosen} /\ templates'[u] = templates[u] /\ u \notin q.losers
          BY <1>4, <2>3, <4>3 DEF RivalsOf
        <5>2. templates'[q.chosen].ref = templates[q.chosen].ref
          BY <1>4, <2>3, <3>4
        <5>3. u \in RivalsOf(q.chosen)'
          BY <4>3, <5>1, <5>2 DEF RivalsOf, Charts!IsPrivateDefault, Charts!SamePair
        <5>4. QED
          BY <2>3, <5>1, <5>3 DEF ChosenKnown
      <4>4. QED
        BY <4>1, <4>2, <4>3
    <3>5. QED
      BY <2>3, <3>3, <3>4 DEF LoneKnows
  <2>5. QED
    BY <1>1, <1>4, <2>2, <2>3, <2>4, CallGoesOn
<1>7. QED
  BY <1>5, <1>6

(***************************************************************************)
(* Failures, the administrator and the clock.                              *)
(***************************************************************************)

LEMMA WorldMoves ==
    ASSUME ChartInv, UNCHANGED <<templates, templateRequests>>,
           /\ scenario' = scenario /\ templateTime' \in 0..TemplateMaxTime
           /\ pairName' \in [Pairs -> Names] /\ pairActive' \in [Pairs -> BOOLEAN]
    PROVE  ChartInv'
<1>1. Charts!TypeOK'
  BY DEF ChartInv, Charts!TypeOK
<1>2. \A r \in Requests : /\ Charts!Over(r)' <=> Charts!Over(r)
                          /\ Charts!Lone(r)' <=> Charts!Lone(r)
                          /\ LoneKnows(templateRequests[r])' <=> LoneKnows(templateRequests[r])
  BY DEF Charts!Over, Charts!Lone, LoneKnows, ChosenKnown, KeptApart, RivalsOf,
         Charts!PrivateDefaults, Charts!SameGroup
<1>3. QED
  BY <1>1, <1>2 DEF ChartInv

LEMMA ChartNextKeeps ==
    ASSUME ChartInv, [Charts!Next]_(Charts!vars) PROVE ChartInv'
<1>1. /\ scenario \in Charts!Scenario /\ templateTime \in 0..TemplateMaxTime
      /\ pairName \in [Pairs -> Names] /\ pairActive \in [Pairs -> BOOLEAN]
      /\ templates \in [Templates -> Charts!Row]
  BY DEF ChartInv, Charts!TypeOK
<1>2. CASE UNCHANGED Charts!vars
  BY <1>1, <1>2, WorldMoves DEF Charts!vars, Charts!world, Charts!dictionary
<1>3. ASSUME NEW r \in Requests, Charts!RequestFails(r) PROVE ChartInv'
  BY <1>1, <1>3, CallIsOver DEF Charts!RequestFails
<1>4. ASSUME NEW r \in Requests, Charts!RequestStep(r) PROVE ChartInv'
  BY <1>3, <1>4, CreateResolveKeeps, ClearOthersKeeps, CreateInsertKeeps, UpdateReadKeeps,
     UpdateResolveKeeps, SetDefaultReadKeeps, RemoveReadKeeps, SaveRowKeeps, NormReadKeeps,
     ListReadKeeps, LoseOneKeeps DEF Charts!RequestStep
<1>5. ASSUME NEW p \in Pairs, Charts!RenamePair(p) PROVE ChartInv'
  <2>1. pairName' \in [Pairs -> Names]
    BY <1>1, <1>5 DEF Charts!RenamePair
  <2>2. QED
    BY <1>1, <1>5, <2>1, WorldMoves DEF Charts!RenamePair
<1>6. ASSUME NEW p \in Pairs, Charts!RetirePair(p) PROVE ChartInv'
  <2>1. pairActive' \in [Pairs -> BOOLEAN]
    BY <1>1, <1>6 DEF Charts!RetirePair
  <2>2. QED
    BY <1>1, <1>6, <2>1, WorldMoves DEF Charts!RetirePair
<1>7. CASE Charts!Tick
  <2>1. templateTime' \in 0..TemplateMaxTime
    BY <1>1, <1>7, TemplatesAssumption DEF Charts!Tick
  <2>2. QED
    BY <1>1, <1>7, <2>1, WorldMoves DEF Charts!Tick, Charts!dictionary
<1>8. QED
  BY <1>2, <1>4, <1>5, <1>6, <1>7 DEF Charts!Next

\* What calls know of the templates while they are alone stays true, through every action.
LEMMA ChartInvariant == Charts!Spec => []ChartInv
<1>1. Charts!Init => ChartInv
  BY ChartInitial
<1>2. ChartInv /\ [Charts!Next]_(Charts!vars) => ChartInv'
  BY ChartNextKeeps
<1>3. QED
  BY <1>1, <1>2, PTL DEF Charts!Spec

\* Templates, pairs and the calls in progress keep their types
\* (services/chart-template/chart-template.service.ts).
THEOREM ChartsTyped == Charts!Spec => []Charts!TypeOK
<1>1. ChartInv => Charts!TypeOK
  BY DEF ChartInv
<1>2. QED
  BY <1>1, ChartInvariant, PTL

\* While a call is alone, no other moves it.
LEMMA LoneStep ==
    ASSUME ChartInv, NEW r \in Requests, ~Charts!Over(r), templateRequests[r].alone, Charts!Next,
           templateRequests'[r].pc # templateRequests[r].pc
    PROVE  Charts!RequestStep(r)
<1>1. templateRequests \in [Requests -> Charts!Request]
  BY AskedTyped
<1>2. Charts!Lone(r)
  BY DEF ChartInv
<1>3. PICK s \in Requests : Charts!RequestStep(s)
  BY DEF Charts!Next, Charts!RenamePair, Charts!RetirePair, Charts!Tick, Charts!Over
<1>4. ASSUME s # r PROVE FALSE
  <2>1. Charts!Over(s)
    BY <1>2, <1>4 DEF Charts!Lone
  <2>2. PICK q : templateRequests' = Charts!Begun(s, q)
    BY <1>3, <2>1 DEF Charts!RequestStep, Charts!CreateResolve, Charts!ClearOthers,
       Charts!CreateInsert, Charts!UpdateRead, Charts!UpdateResolve, Charts!SetDefaultRead,
       Charts!RemoveRead, Charts!SaveRow, Charts!NormRead, Charts!ListRead, Charts!LoseOne,
       Charts!RequestFails, Charts!Over
  <2>3. templateRequests'[r] = [templateRequests[r] EXCEPT !.alone = FALSE]
    BY <1>4, <2>2 DEF Charts!Begun
  <2>4. templateRequests'[r].pc = templateRequests[r].pc
    BY <1>1, <2>3, NoLongerAlone DEF Charts!Over
  <2>5. QED
    BY <2>4
<1>5. QED
  BY <1>3, <1>4

\* Only normalising is done with: whatever else ends is idle again.
LEMMA DoneWhenNormal ==
    ASSUME ChartInv, NEW r \in Requests, ~Charts!Over(r), Charts!RequestStep(r),
           templateRequests'[r].pc = "done"
    PROVE  Charts!NormRead(r) \/ Charts!LoseOne(r)
<1> DEFINE x == templateRequests[r]
<1>1. /\ templateRequests \in [Requests -> Charts!Request] /\ x \in Charts!Request
      /\ x.pc \notin {"idle", "done"}
  BY AskedTyped DEF Charts!Over
<1>2. ~Charts!End(r)
  BY <1>1, ChartCalls DEF Charts!End
<1>3. ASSUME NEW pc \in {"insert", "save"}, Charts!Goto(r, pc) PROVE FALSE
  <2>1. templateRequests'[r] = [x EXCEPT !.pc = pc]
    BY <1>1, <1>3 DEF Charts!Goto
  <2>2. [x EXCEPT !.pc = pc].pc = pc
    BY <1>1, ChartVariants DEF ChartCreate, ChartChange, ChartNormalise, ChartList
  <2>3. QED
    BY <2>1, <2>2
<1>4. ~Charts!ClearOthers(r)
  BY <1>3 DEF Charts!ClearOthers
<1>5. ~Charts!UpdateResolve(r)
  <2> SUFFICES ASSUME Charts!UpdateResolve(r) PROVE FALSE
    OBVIOUS
  <2>1. x \in ChartChange
    BY <1>1, ChartVariants DEF Charts!UpdateResolve
  <2>2. templateRequests'[r] =
            [x EXCEPT !.pc = "save", !.new.ref.name = Charts!NameOf(x.new.ref.pair)]
    BY <1>1, <1>2 DEF Charts!UpdateResolve
  <2>3. templateRequests'[r].pc = "save"
    BY <2>1, <2>2 DEF ChartChange
  <2>4. QED
    BY <2>3
<1>6. ~Charts!SaveRow(r)
  BY <1>1, <1>2 DEF Charts!SaveRow
<1>7. QED
  BY <1>1, <1>2, <1>4, <1>5, <1>6 DEF Charts!RequestStep, Charts!CreateResolve,
     Charts!CreateInsert, Charts!UpdateRead, Charts!SetDefaultRead, Charts!RemoveRead,
     Charts!ListRead, Charts!RequestFails, Charts!Over

\* A listing or a setDefault that has normalised with no other request of the user beside it
\* leaves one private default per pair, whatever was left behind, for any number of
\* templates, pairs and requests (normalizeUserDefaults).
THEOREM LoneCallSettlesAlways == Charts!Spec => Charts!LoneCallSettles
<1>1. ASSUME ChartInv, Charts!Next, NEW r \in Requests, Charts!Settles(r),
             NEW t \in Templates, NEW u \in Templates,
             Charts!IsPrivateDefault(templates'[t]), Charts!IsPrivateDefault(templates'[u]),
             Charts!SamePair(templates'[t], templates'[u])
      PROVE  t = u
  <2> DEFINE x == templateRequests[r]
  <2>1. /\ ~Charts!Over(r) /\ x.alone /\ templateRequests'[r].pc = "done" /\ x.pc # "done"
        /\ x \in Charts!Request /\ LoneKnows(x) /\ templates \in [Templates -> Charts!Row]
    BY <1>1, ChartCalls, AskedTyped DEF ChartInv, Charts!Settles, Charts!Over
  <2>2. Charts!NormRead(r) \/ Charts!LoseOne(r)
    BY <1>1, <2>1, LoneStep, DoneWhenNormal
  <2>3. CASE Charts!NormRead(r)
    <3>1. x.pc = "norm" /\ templates' = templates /\ x \in ChartNormalise
      BY <2>1, <2>3, ChartVariants DEF Charts!NormRead
    <3>2. PICK losers \in Charts!LoserSets :
            IF losers = {} THEN Charts!Finish(r)
            ELSE templateRequests' = [templateRequests EXCEPT ![r].pc = "lose",
                     ![r].losers = losers]
      BY <2>3 DEF Charts!NormRead
    <3>3. losers = {}
      <4> SUFFICES ASSUME losers # {} PROVE FALSE
        OBVIOUS
      <4>1. templateRequests'[r] = [x EXCEPT !.pc = "lose", !.losers = losers]
        BY <1>1, <3>2, AskedTyped
      <4>2. templateRequests'[r].pc = "lose"
        BY <3>1, <4>1 DEF ChartNormalise
      <4>3. QED
        BY <2>1, <4>2
    <3>4. t \in Charts!PrivateDefaults \ losers /\ u \in Charts!PrivateDefaults \ losers
      BY <1>1, <3>1, <3>3 DEF Charts!PrivateDefaults
    <3>5. Charts!SameGroup(t, u)
      BY <1>1, <3>1, GroupIsPair
    <3>6. QED
      BY <1>1, <3>4, <3>5, LosersChosen
  <2>4. CASE Charts!LoseOne(r)
    <3>1. x.pc = "lose" /\ KeptApart(x)
      BY <2>1, <2>4 DEF Charts!LoseOne, LoneKnows
    <3>2. x.losers \subseteq Templates
      BY <2>1, <3>1, ChartVariants DEF ChartNormalise, ChartList
    <3>3. PICK v \in x.losers :
            /\ templates' = [templates EXCEPT
                    ![v] = Charts!Touched(templates[v], [templates[v] EXCEPT !.default = FALSE])]
            /\ IF x.losers = {v} THEN Charts!Finish(r)
               ELSE templateRequests' = [templateRequests EXCEPT ![r].losers = @ \ {v}]
      BY <2>4 DEF Charts!LoseOne
    <3>4. x.losers = {v}
      <4> SUFFICES ASSUME x.losers # {v} PROVE FALSE
        OBVIOUS
      <4>1. templateRequests'[r] = [x EXCEPT !.losers = x.losers \ {v}]
        BY <1>1, <3>3, AskedTyped
      <4>2. templateRequests'[r].pc = "lose"
        BY <2>1, <3>1, <4>1, ChartVariants DEF ChartNormalise, ChartList
      <4>3. QED
        BY <2>1, <4>2
    <3>5. /\ ~Charts!IsPrivateDefault(templates'[v])
          /\ \A w \in Templates \ {v} : templates'[w] = templates[w]
      BY <1>1, <2>1, <3>2, <3>3, ClearedRow
    <3>6. t # v /\ u # v /\ templates'[t] = templates[t] /\ templates'[u] = templates[u]
      BY <1>1, <3>5
    <3>7. t \in Charts!PrivateDefaults \ x.losers /\ u \in Charts!PrivateDefaults \ x.losers
      BY <1>1, <3>4, <3>6 DEF Charts!PrivateDefaults
    <3>8. Charts!SameGroup(t, u)
      BY <1>1, <3>6, GroupIsPair
    <3>9. QED
      BY <3>1, <3>7, <3>8 DEF KeptApart
  <2>5. QED
    BY <2>2, <2>3, <2>4
<1>2. ChartInv /\ [Charts!Next]_(Charts!vars) => [Charts!LoneCallSettlesStep]_(Charts!vars)
  BY <1>1 DEF Charts!LoneCallSettlesStep
<1>3. QED
  BY <1>2, ChartInvariant, PTL DEF Charts!Spec, Charts!LoneCallSettles

\* The step properties of ChosenIsDefault, for one call.
LEMMA ChosenStep ==
    ASSUME ChartInv, Charts!Next, NEW r \in Requests,
           templateRequests[r].pc \in {"norm", "lose"}, templateRequests[r].op = "setDefault",
           templateRequests[r].alone, NEW t, t = templateRequests[r].chosen
    PROVE  /\ (templateRequests[r].pc = "norm" /\ templateRequests'[r].pc = "lose"
                    /\ t \in templateRequests'[r].losers)
                => \E u \in Charts!Rivals(t) \ templateRequests'[r].losers :
                        templates[u].changed >= templates[t].changed
           /\ templateRequests'[r].pc \in {"idle", "done"}
                => Charts!IsPrivateDefault(templates'[t]) \/ Charts!Rivals(t) # {}
<1> DEFINE x == templateRequests[r]
<1>1. /\ ~Charts!Over(r) /\ x \in Charts!Request /\ ChosenKnown(x)
      /\ templates \in [Templates -> Charts!Row]
      /\ templateRequests \in [Requests -> Charts!Request]
  BY AskedTyped DEF ChartInv, LoneKnows, Charts!Over
<1>2. x \in ChartNormalise /\ t \in Templates /\ x.losers \subseteq Templates
  <2>1. x \in ChartNormalise
    BY <1>1, ChartVariants
  <2>2. QED
    BY <2>1 DEF ChartNormalise
<1>3. ASSUME templates' = templates PROVE Charts!Rivals(t) = RivalsOf(t)
  BY <1>3 DEF Charts!Rivals, RivalsOf
<1>4. ASSUME templateRequests'[r].pc # x.pc, x.pc = "norm"
      PROVE  /\ Charts!RequestStep(r) /\ templates' = templates
             /\ Charts!IsPrivateDefault(templates[t])
             /\ \A u \in Templates \ {t} : Charts!IsPrivateDefault(templates[u])
                                        => templates[u].ref.name # templates[t].ref.name
  <2>1. Charts!RequestStep(r)
    BY <1>1, <1>4, LoneStep
  <2>2. templates' = templates
    BY <1>4, <2>1 DEF Charts!RequestStep, Charts!CreateResolve, Charts!ClearOthers,
       Charts!CreateInsert, Charts!UpdateRead, Charts!UpdateResolve, Charts!SetDefaultRead,
       Charts!RemoveRead, Charts!SaveRow, Charts!NormRead, Charts!ListRead, Charts!LoseOne,
       Charts!RequestFails
  <2>3. QED
    BY <1>1, <1>4, <2>1, <2>2 DEF ChosenKnown
<1>5. ASSUME x.pc = "norm", templateRequests'[r].pc = "lose", t \in templateRequests'[r].losers
      PROVE  \E u \in Charts!Rivals(t) \ templateRequests'[r].losers :
                    templates[u].changed >= templates[t].changed
  <2>1. templateRequests'[r].pc # x.pc
    BY <1>5
  <2>2. ~Charts!End(r) /\ ~Charts!Finish(r)
    BY <1>1, <1>5, ChartCalls DEF Charts!End, Charts!Finish
  <2>3. Charts!NormRead(r)
    BY <1>4, <1>5, <2>1, <2>2 DEF Charts!RequestStep, Charts!CreateResolve, Charts!ClearOthers,
       Charts!CreateInsert, Charts!UpdateRead, Charts!UpdateResolve, Charts!SetDefaultRead,
       Charts!RemoveRead, Charts!SaveRow, Charts!ListRead, Charts!LoseOne,
       Charts!RequestFails, Charts!Over
  <2>4. PICK losers \in Charts!LoserSets :
            templateRequests' = [templateRequests EXCEPT ![r].pc = "lose", ![r].losers = losers]
    BY <2>2, <2>3 DEF Charts!NormRead
  <2>5. templateRequests'[r] = [x EXCEPT !.pc = "lose", !.losers = losers]
    BY <1>1, <2>4
  <2>6. templateRequests'[r].losers = losers
    BY <1>2, <2>5 DEF ChartNormalise
  <2>7. \E u \in RivalsOf(t) : u \notin losers /\ templates[u].changed >= templates[t].changed
    <3>1. t \in losers
      BY <1>5, <2>6
    <3>2. QED
      BY <1>4, <1>5, <2>1, <3>1, LoserHasRival
  <2>8. QED
    BY <1>3, <1>4, <1>5, <2>1, <2>6, <2>7
<1>6. ASSUME templateRequests'[r].pc \in {"idle", "done"}
      PROVE  Charts!IsPrivateDefault(templates'[t]) \/ Charts!Rivals(t) # {}
  <2>1. templateRequests'[r].pc # x.pc
    BY <1>6
  <2>2. CASE x.pc = "norm"
    <3>1. templates' = templates /\ Charts!IsPrivateDefault(templates[t])
      BY <1>4, <2>1, <2>2
    <3>2. QED
      BY <3>1 DEF Charts!IsPrivateDefault
  <2>3. CASE x.pc = "lose"
    <3>1. Charts!RequestStep(r)
      BY <1>1, <2>1, LoneStep
    <3>2. Charts!LoseOne(r) \/ Charts!RequestFails(r)
      BY <2>3, <3>1 DEF Charts!RequestStep, Charts!CreateResolve, Charts!ClearOthers,
         Charts!CreateInsert, Charts!UpdateRead, Charts!UpdateResolve, Charts!SetDefaultRead,
         Charts!RemoveRead, Charts!SaveRow, Charts!NormRead, Charts!ListRead, Charts!Over
    <3>3. \/ Charts!IsPrivateDefault(templates[t]) /\ t \notin x.losers
          \/ \E u \in RivalsOf(t) : u \notin x.losers
      BY <1>1, <2>3 DEF ChosenKnown
    <3>4. /\ templates'[t].ref = templates[t].ref
          /\ \A u \in Templates : u \notin x.losers => templates'[u] = templates[u]
      <4>1. CASE templates' = templates
        BY <4>1
      <4>2. ASSUME NEW v \in x.losers, templates' = [templates EXCEPT
                ![v] = Charts!Touched(templates[v], [templates[v] EXCEPT !.default = FALSE])]
            PROVE  /\ templates'[t].ref = templates[t].ref
                   /\ \A u \in Templates : u \notin x.losers => templates'[u] = templates[u]
        BY <1>1, <1>2, <4>2, ClearedRow
      <4>3. QED
        BY <3>2, <4>1, <4>2 DEF Charts!LoseOne, Charts!RequestFails
    <3>5. CASE Charts!IsPrivateDefault(templates[t]) /\ t \notin x.losers
      <4>1. templates'[t] = templates[t]
        BY <1>2, <3>4, <3>5
      <4>2. QED
        BY <3>5, <4>1 DEF Charts!IsPrivateDefault
    <3>6. ASSUME NEW u \in RivalsOf(t), u \notin x.losers PROVE Charts!Rivals(t) # {}
      <4>1. u \in Templates \ {t} /\ templates'[u] = templates[u]
        BY <3>4, <3>6 DEF RivalsOf
      <4>2. u \in Charts!Rivals(t)
        BY <3>4, <3>6, <4>1 DEF RivalsOf, Charts!Rivals, Charts!IsPrivateDefault, Charts!SamePair
      <4>3. QED
        BY <4>2
    <3>7. QED
      BY <3>3, <3>5, <3>6
  <2>4. QED
    BY <2>2, <2>3
<1>7. QED
  BY <1>5, <1>6

\* A setDefault with no other call of the user beside it leaves its template the default,
\* or gives way to one of the same pair under another name that was changed no earlier, for
\* any number of templates, pairs and requests (setDefault, normalizeUserDefaults).
THEOREM ChosenStaysDefault == Charts!Spec => Charts!ChosenIsDefault
<1>1. ASSUME ChartInv, Charts!Next PROVE Charts!ChosenIsDefaultStep
  BY <1>1, ChosenStep DEF Charts!ChosenIsDefaultStep
<1>2. ChartInv /\ [Charts!Next]_(Charts!vars) => [Charts!ChosenIsDefaultStep]_(Charts!vars)
  BY <1>1
<1>3. QED
  BY <1>2, ChartInvariant, PTL DEF Charts!Spec, Charts!ChosenIsDefault

-----------------------------------------------------------------------------
(* The templates beside the klines: a step of one leaves the other as it is. *)

LEMMA KlinesAreDrawn == ChartsSpec => Spec
<1>1. ChartsInit => Init
  BY DEF ChartsInit
<1>2. [ChartsNext]_chartVars => [Next]_vars
  BY DEF ChartsNext, KlineStep, TemplateStep, chartVars
<1>3. QED
  BY <1>1, <1>2, PTL DEF ChartsSpec, Spec

LEMMA TemplatesAreDrawn == ChartsSpec => Charts!Spec
<1>1. ChartsInit => Charts!Init
  BY DEF ChartsInit
<1>2. [ChartsNext]_chartVars => [Charts!Next]_(Charts!vars)
  BY DEF ChartsNext, KlineStep, TemplateStep, chartVars, templateVars, Charts!vars, Charts!world,
         Charts!dictionary
<1>3. QED
  BY <1>1, <1>2, PTL DEF ChartsSpec, Charts!Spec

\* The variables of klines and templates keep their types (KlinesService,
\* ChartTemplateService).
THEOREM BothTyped == ChartsSpec => []ChartsTypeOK
<1>1. TypeOK /\ Charts!TypeOK => ChartsTypeOK
  BY DEF ChartsTypeOK
<1>2. QED
  BY <1>1, KlinesAreDrawn, TemplatesAreDrawn, TypeCorrect, ChartsTyped, PTL

\* A call that normalises with no other of the user beside it leaves one private default
\* per pair (normalizeUserDefaults).
THEOREM LoneCallDrawn == ChartsSpec => LoneCallSettles
  BY TemplatesAreDrawn, LoneCallSettlesAlways DEF LoneCallSettles

\* A setDefault with no other call of the user beside it leaves its template the default,
\* but for a pair renamed in between (setDefault, normalizeUserDefaults).
THEOREM ChosenDrawn == ChartsSpec => ChosenIsDefault
  BY TemplatesAreDrawn, ChosenStaysDefault DEF ChosenIsDefault
=============================================================================

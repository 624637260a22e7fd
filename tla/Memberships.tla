----------------------------- MODULE Memberships -----------------------------
(***************************************************************************)
(* Subscriptions and membership roles: what a confirmed order grants       *)
(* (services/billing/subscription.service.ts, activateFromOrder), how due  *)
(* subscriptions end (expireDueSubscriptions, the last part of a           *)
(* payment-watch tick), and the role changes both make                     *)
(* (membership-role.service.ts), beside those an administrator makes       *)
(* (services/admin/admin-user.service.ts).                                 *)
(*                                                                         *)
(* An order reaches activateFromOrder at most once.  The watcher activates *)
(* orders and ends subscriptions one after another; the administrator's    *)
(* requests run in the API process, beside it.  (The dev auto-confirm      *)
(* timer, which activates from the API process, is not modelled here.)     *)
(***************************************************************************)
EXTENDS Integers, FiniteSets

CONSTANTS
    OrderIds,       \* confirmed orders that are handed to activateFromOrder
    Users,          \* the users who own them
    Owner,          \* Owner[o]: the user of order o
    Duration,       \* Duration[o]: the plan's durationDays, in clock ticks
    Configs,        \* the environments checked: what disturbs the watcher
    MaxTime         \* bound: the clock stops here

ASSUME OrderIdsAssumption == OrderIds \subseteq Nat \ {0}

ASSUME OrdersAssumption ==
    Owner \in [OrderIds -> Users] /\ Duration \in [OrderIds -> Nat \ {0}]

Roles == {"normal_user", "vip_user", "admin"}

\* orders: those that are confirmed; managed: the users an administrator deals
\* with; assigns: the roles he may assign them by hand; disable: he may disable
\* and enable them; crash: the watcher may be killed and restarted.
ASSUME ConfigAssumption ==
    /\ Configs \subseteq [orders : SUBSET OrderIds, managed : SUBSET Users,
                         assigns : SUBSET Roles, disable : BOOLEAN, crash : BOOLEAN]
    /\ MaxTime \in Nat

VARIABLES
    config,     \* the environment; it never changes
    now,        \* the clock
    begun,      \* orders handed to activateFromOrder so far
    subs,       \* t_user_subscription: rows by the order that made them
    role,       \* t_user.f_role_id
    enabled,    \* t_user.f_status = 1
    roleRows,   \* t_user_role: the roles a user has a row for
    primary,    \* those of them whose row has f_is_primary = 1
    activate,   \* activateFromOrder in progress, by order
    sweep,      \* expireDueSubscriptions in progress
    job         \* role changes in progress, by the process that makes them

accounts == <<role, enabled>>

roleTable == <<roleRows, primary>>

done == <<begun, subs>>

world == <<config, now>>

vars == <<world, done, accounts, roleTable, activate, sweep, job>>

Sweeper == 0

Admin == -1

Procs == OrderIds \cup {Sweeper, Admin}

Subscription == [user : Users, status : {"active", "expired"},
                 startsAt : Nat, endsAt : Nat]

Activation == [pc : {"idle", "read", "role"}] \cup [pc : {"create"}, startsAt : Nat]

Sweep ==
    [pc : {"idle"}]
    \cup [pc : {"rows"}, asOf : Nat, due : SUBSET OrderIds, users : SUBSET Users]
    \cup [pc : {"users"}, asOf : Nat, users : SUBSET Users]

Job == [pc : {"idle"}]
       \cup [pc : {"lookup", "save", "clear", "mark"}, user : Users, role : Roles]

TypeOK ==
    /\ config \in Configs
    /\ now \in Nat
    /\ begun \subseteq OrderIds
    /\ subs \in [DOMAIN subs -> Subscription]
    /\ DOMAIN subs \subseteq OrderIds
    /\ role \in [Users -> Roles]
    /\ enabled \in [Users -> BOOLEAN]
    /\ roleRows \in [Users -> SUBSET Roles]
    /\ primary \in [Users -> SUBSET Roles]
    /\ activate \in [OrderIds -> Activation]
    /\ sweep \in Sweep
    /\ job \in [Procs -> Job]

Idle == [pc |-> "idle"]

Init ==
    /\ config \in Configs
    /\ now = 0
    /\ begun = {}
    /\ subs = [o \in {} |-> 0]
    /\ role = [u \in Users |-> "normal_user"]
    /\ enabled = [u \in Users |-> TRUE]
    /\ roleRows = [u \in Users |-> {"normal_user"}]
    /\ primary = [u \in Users |-> {"normal_user"}]
    /\ activate = [o \in OrderIds |-> Idle]
    /\ sweep = Idle
    /\ job = [p \in Procs |-> Idle]

-----------------------------------------------------------------------------
(* Queries on the subscription table *)

Active(u) == {o \in DOMAIN subs : subs[o].user = u /\ subs[o].status = "active"}

\* Active rows that end after t.
LiveAt(u, t) == {o \in Active(u) : subs[o].endsAt > t}

\* Mutant of Due: WHERE endsAt < now.
DueLate(t) == {o \in DOMAIN subs : subs[o].status = "active" /\ subs[o].endsAt < t}

Due(t) == {o \in DOMAIN subs : subs[o].status = "active" /\ subs[o].endsAt <= t}

\* Mutant of StartFor: ORDER BY endsAt ASC picks the subscription that ends first.
StartForEarliest(u) ==
    IF LiveAt(u, now) = {} THEN now
    ELSE CHOOSE t \in {subs[o].endsAt : o \in LiveAt(u, now)} :
            \A o \in LiveAt(u, now) : t <= subs[o].endsAt

\* A renewal starts where the user's last live subscription ends.
StartFor(u) ==
    IF LiveAt(u, now) = {} THEN now
    ELSE CHOOSE t \in {subs[o].endsAt : o \in LiveAt(u, now)} :
            \A o \in LiveAt(u, now) : t >= subs[o].endsAt

-----------------------------------------------------------------------------
(* upgradeUserRole and syncPrimaryUserRole, for the process p *)

SetJob(p, state) == job' = [job EXCEPT ![p] = state]

AskRole(u, r) == [pc |-> "lookup", user |-> u, role |-> r]

\* What becomes of the caller when upgradeUserRole raises: an activation has
\* nothing left to do, the sweep is abandoned with its remaining users.
Raise(p) ==
    /\ SetJob(p, Idle)
    /\ sweep' = IF p = Sweeper THEN Idle ELSE sweep

\* The role and the user are read: a disabled user raises, a user who has the
\* role already returns, any other is to be saved.
RoleLookup(p) ==
    /\ job[p].pc = "lookup"
    /\ LET u == job[p].user IN
        \/ ~enabled[u] /\ Raise(p)
        \/ /\ enabled[u] /\ role[u] = job[p].role
           /\ SetJob(p, Idle) /\ UNCHANGED sweep
        \/ /\ enabled[u] /\ role[u] # job[p].role
           /\ SetJob(p, [job[p] EXCEPT !.pc = "save"]) /\ UNCHANGED sweep
    /\ UNCHANGED <<world, done, accounts, roleTable, activate>>

RoleSave(p) ==
    /\ job[p].pc = "save"
    /\ role' = [role EXCEPT ![job[p].user] = job[p].role]
    /\ SetJob(p, [job[p] EXCEPT !.pc = "clear"])
    /\ UNCHANGED <<world, done, enabled, roleTable, activate, sweep>>

RoleClear(p) ==
    /\ job[p].pc = "clear"
    /\ primary' = [primary EXCEPT ![job[p].user] = {}]
    /\ SetJob(p, [job[p] EXCEPT !.pc = "mark"])
    /\ UNCHANGED <<world, done, accounts, roleRows, activate, sweep>>

\* Mutant of Marked: the row is created, an existing one is not marked.
MarkedIfNew(p) == IF job[p].role \in roleRows[job[p].user] THEN {} ELSE {job[p].role}

Marked(p) == {job[p].role}

\* The row of the role is found and marked, or created.
RoleMark(p) ==
    /\ job[p].pc = "mark"
    /\ primary' = [primary EXCEPT ![job[p].user] = @ \cup Marked(p)]
    /\ roleRows' = [roleRows EXCEPT ![job[p].user] = @ \cup {job[p].role}]
    /\ SetJob(p, Idle)
    /\ UNCHANGED <<world, done, accounts, activate, sweep>>

RoleStep(p) == RoleLookup(p) \/ RoleSave(p) \/ RoleClear(p) \/ RoleMark(p)

-----------------------------------------------------------------------------
(* activateFromOrder *)

\* The watcher does one thing at a time.
WatcherFree ==
    sweep.pc = "idle" /\ \A o \in OrderIds : activate[o].pc = "idle"

\* The order was confirmed, and the reloaded row did not read "paid": on one
\* that does, activateFromOrder returns at once and nothing below happens.
ActivateBegin(o) ==
    /\ o \in config.orders \ begun
    /\ WatcherFree
    /\ begun' = begun \cup {o}
    /\ activate' = [activate EXCEPT ![o] = [pc |-> "read"]]
    /\ UNCHANGED <<world, subs, accounts, roleTable, sweep, job>>

ActivateRead(o) ==
    /\ activate[o].pc = "read"
    /\ activate' = [activate EXCEPT ![o] =
                      [pc |-> "create", startsAt |-> StartFor(Owner[o])]]
    /\ UNCHANGED <<world, done, accounts, roleTable, sweep, job>>

\* The row is created, then the owner's role is to be upgraded.
ActivateCreate(o) ==
    /\ activate[o].pc = "create"
    /\ LET start == activate[o].startsAt
           row == [user |-> Owner[o], status |-> "active", startsAt |-> start,
                   endsAt |-> start + Duration[o]]
       IN  subs' = [i \in DOMAIN subs \cup {o} |-> IF i = o THEN row ELSE subs[i]]
    /\ activate' = [activate EXCEPT ![o] = [pc |-> "role"]]
    /\ SetJob(o, AskRole(Owner[o], "vip_user"))
    /\ UNCHANGED <<world, begun, accounts, roleTable, sweep>>

ActivateDone(o) ==
    /\ activate[o].pc = "role"
    /\ job[o].pc = "idle"
    /\ activate' = [activate EXCEPT ![o] = Idle]
    /\ UNCHANGED <<world, done, accounts, roleTable, sweep, job>>

ActivateStep(o) ==
    ActivateRead(o) \/ ActivateCreate(o) \/ RoleStep(o) \/ ActivateDone(o)

-----------------------------------------------------------------------------
(* expireDueSubscriptions *)

SweepBegin ==
    /\ sweep.pc = "idle"
    /\ WatcherFree
    /\ Due(now) # {}
    /\ sweep' = [pc |-> "rows", asOf |-> now, due |-> Due(now),
                 users |-> {subs[o].user : o \in Due(now)}]
    /\ UNCHANGED <<world, done, accounts, roleTable, activate, job>>

\* Mutant of Ended: a status that is an order's, not a subscription's.
EndedAsCancelled(row) == [row EXCEPT !.status = "cancelled"]

Ended(row) == [row EXCEPT !.status = "expired"]

\* The rows that were read are updated one by one, in id order or any other.
SweepRow(o) ==
    /\ sweep.pc = "rows"
    /\ o \in sweep.due
    /\ subs' = [subs EXCEPT ![o] = Ended(@)]
    /\ sweep' = IF sweep.due = {o}
                THEN [pc |-> "users", asOf |-> sweep.asOf, users |-> sweep.users]
                ELSE [sweep EXCEPT !.due = @ \ {o}]
    /\ UNCHANGED <<world, begun, accounts, roleTable, activate, job>>

\* Mutant of StillActive: the look for another subscription is dropped.
NeverActive(u, t) == FALSE

StillActive(u, t) == LiveAt(u, t) # {}

\* A user left with no subscription that outlives the sweep's start is
\* downgraded, whatever role the user has; the others are left alone.
SweepUser(u) ==
    /\ sweep.pc = "users"
    /\ job[Sweeper].pc = "idle"
    /\ u \in sweep.users
    /\ sweep' = [sweep EXCEPT !.users = @ \ {u}]
    /\ IF StillActive(u, sweep.asOf) THEN UNCHANGED job
       ELSE SetJob(Sweeper, AskRole(u, "normal_user"))
    /\ UNCHANGED <<world, done, accounts, roleTable, activate>>

SweepDone ==
    /\ sweep.pc = "users"
    /\ sweep.users = {}
    /\ job[Sweeper].pc = "idle"
    /\ sweep' = Idle
    /\ UNCHANGED <<world, done, accounts, roleTable, activate, job>>

SweepStep ==
    \/ SweepBegin \/ RoleStep(Sweeper) \/ SweepDone
    \/ \E o \in OrderIds : SweepRow(o)
    \/ \E u \in Users : SweepUser(u)

-----------------------------------------------------------------------------
(* The administrator, the clock and crashes *)

\* updateRole reads the user; save writes the role only where it differs from
\* the one read.  It asks neither for the user's status nor for subscriptions.
AdminUpdateRole(u, r) ==
    /\ job[Admin].pc = "idle"
    /\ r \in config.assigns
    /\ SetJob(Admin, [pc |-> IF role[u] = r THEN "clear" ELSE "save",
                      user |-> u, role |-> r])
    /\ UNCHANGED <<world, done, accounts, roleTable, activate, sweep>>

AdminUpdateStatus(u) ==
    /\ config.disable
    /\ enabled' = [enabled EXCEPT ![u] = ~@]
    /\ UNCHANGED <<world, done, role, roleTable, activate, sweep, job>>

\* The watcher dies wherever it is; only the database is left of its work.
WatcherCrash ==
    /\ config.crash
    /\ ~WatcherFree
    /\ sweep' = Idle
    /\ activate' = [o \in OrderIds |-> Idle]
    /\ job' = [p \in Procs |-> IF p = Admin THEN job[p] ELSE Idle]
    /\ UNCHANGED <<world, done, accounts, roleTable>>

Tick ==
    /\ now < MaxTime
    /\ now' = now + 1
    /\ UNCHANGED <<config, done, accounts, roleTable, activate, sweep, job>>

-----------------------------------------------------------------------------
Next ==
    \/ \E o \in OrderIds : ActivateBegin(o) \/ ActivateStep(o)
    \/ SweepStep
    \/ RoleStep(Admin)
    \/ \E u \in config.managed, r \in Roles : AdminUpdateRole(u, r)
    \/ \E u \in config.managed : AdminUpdateStatus(u)
    \/ WatcherCrash
    \/ Tick

Spec == Init /\ [][Next]_vars

\* Handlers go on, the watcher ticks for ever and the clock runs; orders,
\* administrators and crashes come when they will.
FairSpec ==
    /\ Spec
    /\ WF_vars(Tick) /\ WF_vars(SweepStep) /\ WF_vars(RoleStep(Admin))
    /\ \A o \in OrderIds : WF_vars(ActivateStep(o))

-----------------------------------------------------------------------------
(* Properties *)

\* What the rows say of the time granted.
Granted == [o \in DOMAIN subs |->
               [user |-> subs[o].user, startsAt |-> subs[o].startsAt,
                endsAt |-> subs[o].endsAt, over |-> subs[o].status = "expired"]]

Entitled == INSTANCE Entitlements WITH time <- now, spans <- Granted

\* Whatever activations, sweeps and crashes interleave, the rows are a history of
\* entitlements: a renewal starts where the user's last subscription ends, or at once,
\* its span is never changed, and it is expired only when it is due.
KeepsEntitlements == Entitled!Spec

\* Nobody but the watcher changes roles, and it is not killed.
Undisturbed == config.assigns = {} /\ ~config.disable /\ ~config.crash

\* While nothing is being done about a user whose subscription is running, the
\* user has the paid role: the sweep, which decides on the clock it read when
\* it began and on rows it updates one by one, does not downgrade a renewal.
RunningKeepsRole ==
    Undisturbed /\ WatcherFree /\ (\A p \in Procs : job[p].pc = "idle") =>
        \A u \in Users : LiveAt(u, now) # {} => role[u] = "vip_user"

\* When no role change is in progress, a user's primary role row is the role
\* the user has, and the only one, if only the watcher makes role changes; an
\* administrator's beside it may leave two rows marked.
PrimaryIsRole ==
    config.assigns = {} /\ ~config.crash /\ (\A p \in Procs : job[p].pc = "idle") =>
        \A u \in Users : primary[u] = {role[u]}

\* An enabled user who has the paid role with nothing but ended subscriptions.
Lapsed(u) ==
    /\ \E o \in DOMAIN subs : subs[o].user = u
    /\ LiveAt(u, now) = {} /\ role[u] = "vip_user" /\ enabled[u]

\* The role ends with the subscription: a user whose subscriptions have all
\* ended loses the paid role, or renews, or is disabled.
EndedIsDowngraded == \A u \in Users : Lapsed(u) ~> ~Lapsed(u)

\* The same where nothing disturbs the watcher.
DowngradedUndisturbed == \A u \in Users : (Undisturbed /\ Lapsed(u)) ~> ~Lapsed(u)
=============================================================================

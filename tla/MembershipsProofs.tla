-------------------------- MODULE MembershipsProofs --------------------------
(***************************************************************************)
(* Proofs about Memberships, for every set of orders and users, every      *)
(* owner and duration of an order, and every environment.                  *)
(***************************************************************************)
EXTENDS Memberships, TLAPS

USE DEF world, done, accounts, roleTable

-----------------------------------------------------------------------------
(* What the variables refer to, and who is at work *)

\* An order makes its row once, and the rows a sweep has read are still there.
RefsExist ==
    /\ DOMAIN subs \subseteq begun
    /\ \A o \in OrderIds :
        /\ activate[o].pc # "idle" => o \in begun
        /\ activate[o].pc \in {"read", "create"} => o \notin DOMAIN subs
    /\ sweep.pc = "rows" => sweep.due \subseteq DOMAIN subs

\* The watcher activates one order, or sweeps, at a time, and a role change of its own
\* belongs to what it does.
OneAtATime ==
    /\ \A o, i \in OrderIds : activate[o].pc # "idle" /\ activate[i].pc # "idle" => o = i
    /\ \A o \in OrderIds :
        /\ activate[o].pc # "idle" => sweep.pc = "idle"
        /\ job[o].pc # "idle" => activate[o].pc = "role"
    /\ job[Sweeper].pc # "idle" => sweep.pc = "users"

TypeInv == TypeOK /\ RefsExist /\ OneAtATime

-----------------------------------------------------------------------------
(* Spans: a subscription ends no sooner than it is due, and the last of a     *)
(* user's rows is known however many there are.                              *)

Rows(u) == {o \in DOMAIN subs : subs[o].user = u}

LastOf(u, o) == o \in Rows(u) /\ \A i \in Rows(u) : subs[i].endsAt <= subs[o].endsAt

LastExists == \A u \in Users : Rows(u) # {} => \E o \in Rows(u) : LastOf(u, o)

EndedWereDue ==
    \A o \in DOMAIN subs : subs[o].status = "expired" => subs[o].endsAt <= now

SweepsDue ==
    /\ sweep.pc \in {"rows", "users"} => sweep.asOf <= now
    /\ sweep.pc = "rows" => \A o \in sweep.due : subs[o].endsAt <= sweep.asOf

\* The span an activation is about to create follows every one of its user, and begins
\* where one of them ends or has begun already.
Follows(o) ==
    activate[o].pc = "create" =>
        /\ \A i \in Rows(Owner[o]) : subs[i].endsAt <= activate[o].startsAt
        /\ \/ activate[o].startsAt <= now
           \/ \E i \in Rows(Owner[o]) : activate[o].startsAt = subs[i].endsAt

SpanInv ==
    /\ LastExists /\ EndedWereDue /\ SweepsDue
    /\ \A o \in OrderIds : Follows(o)

-----------------------------------------------------------------------------
(* Roles *)

Changing(p) == job[p].pc \in {"clear", "mark"}

Asked(p) == job[p].pc \in {"lookup", "save"}

\* A primary row that is not the role is one that a role change is at.
PrimaryInv ==
    config.assigns = {} /\ ~config.crash =>
        /\ job[Admin].pc = "idle"
        /\ \A u \in Users :
            primary[u] = {role[u]} \/ \E p \in Procs : Changing(p) /\ job[p].user = u
        /\ \A p \in Procs :
            /\ Changing(p) => role[job[p].user] = job[p].role
            /\ job[p].pc = "mark" => primary[job[p].user] = {}

\* What the watcher asks for: an activation the paid role, a sweep the other.
WatcherAsks ==
    /\ \A o \in OrderIds :
        job[o].pc # "idle" => job[o].user = Owner[o] /\ job[o].role = "vip_user"
    /\ job[Sweeper].pc # "idle" => job[Sweeper].role = "normal_user"

\* A running subscription whose user has not the role has its activation at it, and no
\* user the sweep is about to downgrade has one.
RoleInv ==
    Undisturbed =>
        /\ \A u \in Users : enabled[u]
        /\ \A u \in Users : LiveAt(u, now) # {} =>
            role[u] = "vip_user" \/ \E o \in OrderIds : Asked(o) /\ job[o].user = u
        /\ \A u \in Users :
            Asked(Sweeper) /\ job[Sweeper].user = u => LiveAt(u, now) = {}

-----------------------------------------------------------------------------
(* The variants of the handlers' states *)

LEMMA ProcsDiffer ==
    /\ Sweeper \in Procs /\ Admin \in Procs /\ Sweeper # Admin
    /\ \A o \in OrderIds : o \in Procs /\ o # Sweeper /\ o # Admin
  BY OrderIdsAssumption DEF Procs, Sweeper, Admin

LEMMA JobVariants ==
    ASSUME NEW x \in Job
    PROVE  /\ x.pc \in {"idle", "lookup", "save", "clear", "mark"}
           /\ x.pc # "idle" =>
                /\ x.user \in Users /\ x.role \in Roles
                /\ \A pc \in {"save", "clear", "mark"} :
                    LET y == [x EXCEPT !.pc = pc]
                    IN  y \in Job /\ y.pc = pc /\ y.user = x.user /\ y.role = x.role
  BY DEF Job

LEMMA SweepVariants ==
    ASSUME NEW x \in Sweep
    PROVE  /\ x.pc \in {"idle", "rows", "users"}
           /\ x.pc \in {"rows", "users"} => x.asOf \in Nat /\ x.users \subseteq Users
           /\ x.pc = "rows" => x.due \subseteq OrderIds
           /\ x.pc = "rows" => x = [pc |-> "rows", asOf |-> x.asOf, due |-> x.due,
                                    users |-> x.users]
           /\ x.pc = "users" => x = [pc |-> "users", asOf |-> x.asOf, users |-> x.users]
  BY DEF Sweep

LEMMA ActivationVariants ==
    ASSUME NEW x \in Activation
    PROVE  /\ x.pc \in {"idle", "read", "create", "role"}
           /\ x.pc = "create" => x.startsAt \in Nat
  BY DEF Activation

\* One process's job is set.
LEMMA JobSet ==
    ASSUME TypeOK, NEW p \in Procs, NEW state \in Job, SetJob(p, state)
    PROVE  /\ job' \in [Procs -> Job] /\ job'[p] = state
           /\ \A q \in Procs : q # p => job'[q] = job[q]
  BY DEF TypeOK, SetJob

-----------------------------------------------------------------------------
(* Role changes, by whichever process *)

\* What one await of a role change does: it belongs to a user and a role, and
\* ends when its caller's does.
LEMMA RoleMoves ==
    ASSUME TypeOK, NEW p \in Procs, RoleStep(p)
    PROVE  /\ job[p] \in Job /\ job[p].pc # "idle"
           /\ job' \in [Procs -> Job]
           /\ \A q \in Procs : q # p => job'[q] = job[q]
           /\ \/ job'[p].pc = "idle"
              \/ job'[p].user = job[p].user /\ job'[p].role = job[p].role
           /\ \/ UNCHANGED sweep
              \/ p = Sweeper /\ sweep' = Idle /\ job'[p].pc = "idle"
           /\ UNCHANGED <<config, now, begun, subs, enabled, activate>>
<1>1. /\ job[p] \in Job /\ job[p].pc # "idle" /\ Idle \in Job /\ Idle.pc = "idle"
      /\ UNCHANGED <<config, now, begun, subs, enabled, activate>>
  BY DEF TypeOK, RoleStep, RoleLookup, RoleSave, RoleClear, RoleMark, Idle, Job
<1> DEFINE Moves(state) ==
             /\ SetJob(p, state) /\ state \in Job
             /\ \/ state.pc = "idle"
                \/ state.user = job[p].user /\ state.role = job[p].role
             /\ \/ UNCHANGED sweep
                \/ p = Sweeper /\ sweep' = Idle /\ state.pc = "idle"
<1>2. \E state : Moves(state)
  <2> DEFINE save == [job[p] EXCEPT !.pc = "save"]
             clear == [job[p] EXCEPT !.pc = "clear"]
             mark == [job[p] EXCEPT !.pc = "mark"]
  <2>1. /\ save \in Job /\ save.user = job[p].user /\ save.role = job[p].role
        /\ clear \in Job /\ clear.user = job[p].user /\ clear.role = job[p].role
        /\ mark \in Job /\ mark.user = job[p].user /\ mark.role = job[p].role
    BY <1>1, JobVariants
  <2>2. \/ Raise(p)
        \/ /\ UNCHANGED sweep
           /\ SetJob(p, Idle) \/ SetJob(p, save) \/ SetJob(p, clear) \/ SetJob(p, mark)
    BY DEF RoleStep, RoleLookup, RoleSave, RoleClear, RoleMark
  <2> HIDE DEF save, clear, mark
  <2>3. CASE Raise(p)
    <3>1. Moves(Idle)
      BY <1>1, <2>3 DEF Raise
    <3>2. QED
      BY <3>1
  <2>4. CASE UNCHANGED sweep /\ SetJob(p, Idle)
    <3>1. Moves(Idle)
      BY <1>1, <2>4
    <3>2. QED
      BY <3>1
  <2>5. ASSUME NEW state \in {save, clear, mark}, UNCHANGED sweep, SetJob(p, state)
        PROVE  Moves(state)
    BY <2>1, <2>5
  <2>6. QED
    BY <2>2, <2>3, <2>4, <2>5
<1>3. PICK state : Moves(state)
  BY <1>2
<1>4. QED
  BY <1>1, <1>3, JobSet

LEMMA TypeInvRole ==
    ASSUME TypeInv, NEW p \in Procs, RoleStep(p)
    PROVE  TypeInv'
<1>1. /\ job[p] \in Job /\ job[p].pc # "idle"
      /\ job' \in [Procs -> Job]
      /\ \A q \in Procs : q # p => job'[q] = job[q]
      /\ \/ UNCHANGED sweep
         \/ p = Sweeper /\ sweep' = Idle /\ job'[p].pc = "idle"
      /\ UNCHANGED <<config, now, begun, subs, enabled, activate>>
  BY RoleMoves DEF TypeInv
<1>2. job[p].user \in Users /\ job[p].role \in Roles
  BY <1>1, JobVariants
<1>3. /\ role' \in [Users -> Roles] /\ roleRows' \in [Users -> SUBSET Roles]
      /\ primary' \in [Users -> SUBSET Roles]
  BY <1>2 DEF RoleStep, RoleLookup, RoleSave, RoleClear, RoleMark, Marked, TypeInv, TypeOK
<1>4. sweep' \in Sweep /\ Idle.pc = "idle"
  BY <1>1 DEF TypeInv, TypeOK, Idle, Sweep
<1>5. TypeOK'
  BY <1>1, <1>3, <1>4 DEF TypeInv, TypeOK
<1>6. RefsExist'
  BY <1>1, <1>4 DEF TypeInv, RefsExist
<1>7. OneAtATime'
  BY <1>1, <1>4, ProcsDiffer DEF TypeInv, OneAtATime
<1>8. QED
  BY <1>5, <1>6, <1>7 DEF TypeInv

-----------------------------------------------------------------------------
(* TypeInv is inductive *)

LEMMA TypeInvInit == Init => TypeInv
<1> SUFFICES ASSUME Init PROVE TypeInv
  OBVIOUS
<1>1. subs \in [DOMAIN subs -> Subscription] /\ DOMAIN subs = {}
  BY DEF Init
<1>2. Idle \in Activation /\ Idle \in Sweep /\ Idle \in Job /\ Idle.pc = "idle"
  BY DEF Idle, Activation, Sweep, Job
<1>3. TypeOK
  BY <1>1, <1>2 DEF Init, TypeOK, Roles
<1>4. RefsExist /\ OneAtATime
  BY <1>1, <1>2, ProcsDiffer DEF Init, RefsExist, OneAtATime
<1>5. QED
  BY <1>3, <1>4 DEF TypeInv

\* A free watcher takes an order.
LEMMA TypeInvBegin ==
    ASSUME TypeInv, NEW o \in OrderIds, ActivateBegin(o)
    PROVE  TypeInv'
<1>1. /\ o \notin begun /\ begun' = begun \cup {o} /\ sweep.pc = "idle"
      /\ \A i \in OrderIds : activate[i].pc = "idle"
      /\ UNCHANGED <<config, now, subs, role, enabled, roleRows, primary, sweep, job>>
  BY DEF ActivateBegin, WatcherFree
<1>2. /\ activate' \in [OrderIds -> Activation] /\ activate'[o].pc = "read"
      /\ \A i \in OrderIds : i # o => activate'[i].pc = "idle"
  <2>1. [pc |-> "read"] \in Activation
    BY DEF Activation
  <2>2. QED
    BY <1>1, <2>1 DEF ActivateBegin, TypeInv, TypeOK
<1>3. TypeOK'
  BY <1>1, <1>2 DEF TypeInv, TypeOK
<1>4. RefsExist'
  BY <1>1, <1>2 DEF TypeInv, RefsExist
<1>5. OneAtATime'
  BY <1>1, <1>2 DEF TypeInv, OneAtATime
<1>6. QED
  BY <1>3, <1>4, <1>5 DEF TypeInv

\* The span found starts at the clock, or where the last live row ends.
LEMMA StartNat ==
    ASSUME TypeInv, SpanInv, NEW u \in Users
    PROVE  /\ StartFor(u) \in Nat /\ StartFor(u) >= now
           /\ \A i \in Rows(u) : subs[i].endsAt <= StartFor(u)
           /\ StartFor(u) = now \/ \E i \in Rows(u) : StartFor(u) = subs[i].endsAt
<1>1. \A i \in DOMAIN subs : /\ subs[i].endsAt \in Nat /\ now \in Nat
                             /\ subs[i].status \in {"active", "expired"}
  BY DEF TypeInv, TypeOK, Subscription
<1>2. CASE LiveAt(u, now) = {}
  <2>1. StartFor(u) = now
    BY <1>2 DEF StartFor
  <2>2. \A i \in Rows(u) : subs[i].endsAt <= now
    BY <1>1, <1>2 DEF SpanInv, EndedWereDue, LiveAt, Active, Rows
  <2>3. QED
    BY <2>1, <2>2 DEF TypeInv, TypeOK
<1>3. CASE LiveAt(u, now) # {}
  <2>1. PICK live \in LiveAt(u, now) : TRUE
    BY <1>3
  <2>2. Rows(u) # {}
    BY <2>1 DEF Rows, LiveAt, Active
  <2>3. PICK o \in Rows(u) : \A i \in Rows(u) : subs[i].endsAt <= subs[o].endsAt
    BY <2>2 DEF SpanInv, LastExists, LastOf
  <2>4. subs[o].endsAt > now
    BY <1>1, <2>1, <2>3 DEF Rows, LiveAt, Active
  <2>5. o \in LiveAt(u, now)
    BY <1>1, <2>3, <2>4 DEF SpanInv, EndedWereDue, Rows, LiveAt, Active
  <2> DEFINE ends == {subs[i].endsAt : i \in LiveAt(u, now)}
             Greatest(t) == \A i \in LiveAt(u, now) : t >= subs[i].endsAt
  <2>6. subs[o].endsAt \in ends /\ Greatest(subs[o].endsAt)
    BY <1>1, <2>3, <2>5 DEF Rows, LiveAt, Active
  <2>7. StartFor(u) = CHOOSE t \in ends : Greatest(t)
    BY <1>3 DEF StartFor
  <2>8. StartFor(u) \in ends /\ Greatest(StartFor(u))
    <3> HIDE DEF ends, Greatest
    <3>1. QED
      BY <2>6, <2>7
  <2>9. StartFor(u) \in Nat /\ StartFor(u) >= now
    BY <1>1, <2>8 DEF LiveAt, Active
  <2>10. \A i \in Rows(u) : subs[i].endsAt <= StartFor(u)
    BY <1>1, <2>3, <2>5, <2>8, <2>9 DEF Rows
  <2>11. \E i \in Rows(u) : StartFor(u) = subs[i].endsAt
    BY <2>8 DEF LiveAt, Active, Rows
  <2>12. QED
    BY <2>9, <2>10, <2>11
<1>4. QED
  BY <1>2, <1>3

\* An activation moves on; the sweep and the other activations rest.
LEMMA ActivationMoved ==
    ASSUME TypeInv, NEW o \in OrderIds, NEW state \in Activation,
           activate[o].pc # "idle", activate' = [activate EXCEPT ![o] = state]
    PROVE  /\ activate' \in [OrderIds -> Activation] /\ activate'[o] = state
           /\ sweep.pc = "idle" /\ o \in begun
           /\ \A i \in OrderIds : i # o => activate'[i] = activate[i] /\ activate[i].pc = "idle"
  BY DEF TypeInv, TypeOK, RefsExist, OneAtATime

LEMMA TypeInvActivate ==
    ASSUME TypeInv, SpanInv, NEW o \in OrderIds,
           ActivateRead(o) \/ ActivateCreate(o) \/ ActivateDone(o)
    PROVE  TypeInv'
<1>0. /\ activate[o] \in Activation /\ UNCHANGED <<config, now, begun, accounts, roleTable, sweep>>
      /\ DOMAIN subs \subseteq OrderIds
  BY DEF ActivateRead, ActivateCreate, ActivateDone, TypeInv, TypeOK
<1>1. CASE ActivateRead(o)
  <2> DEFINE state == [pc |-> "create", startsAt |-> StartFor(Owner[o])]
  <2>1. state \in Activation /\ state.pc = "create"
    BY StartNat, OrdersAssumption DEF Activation
  <2>2. /\ activate[o].pc = "read" /\ activate' = [activate EXCEPT ![o] = state]
        /\ UNCHANGED <<subs, job>>
    BY <1>1 DEF ActivateRead
  <2> HIDE DEF state
  <2>3. /\ activate' \in [OrderIds -> Activation] /\ activate'[o] = state
        /\ sweep.pc = "idle" /\ o \in begun
        /\ \A i \in OrderIds : i # o => activate'[i] = activate[i] /\ activate[i].pc = "idle"
    BY <2>1, <2>2, ActivationMoved
  <2>4. TypeOK'
    BY <1>0, <2>2, <2>3 DEF TypeInv, TypeOK
  <2>5. RefsExist'
    BY <1>0, <2>1, <2>2, <2>3 DEF TypeInv, RefsExist
  <2>6. OneAtATime'
    BY <1>0, <2>1, <2>2, <2>3 DEF TypeInv, OneAtATime
  <2>7. QED
    BY <2>4, <2>5, <2>6 DEF TypeInv
<1>2. CASE ActivateCreate(o)
  <2> DEFINE state == [pc |-> "role"]
             start == activate[o].startsAt
             row == [user |-> Owner[o], status |-> "active", startsAt |-> start,
                     endsAt |-> start + Duration[o]]
  <2>1. state \in Activation /\ state.pc = "role"
    BY DEF Activation
  <2>2. /\ activate[o].pc = "create" /\ activate' = [activate EXCEPT ![o] = state]
        /\ subs' = [i \in DOMAIN subs \cup {o} |-> IF i = o THEN row ELSE subs[i]]
        /\ SetJob(o, AskRole(Owner[o], "vip_user"))
    BY <1>2 DEF ActivateCreate
  <2>3. row \in Subscription
    BY <1>0, <2>2, OrdersAssumption, ActivationVariants DEF Subscription
  <2>4. AskRole(Owner[o], "vip_user") \in Job
    BY OrdersAssumption DEF AskRole, Job, Roles
  <2> HIDE DEF state, row
  <2>5. /\ activate' \in [OrderIds -> Activation] /\ activate'[o] = state
        /\ sweep.pc = "idle" /\ o \in begun
        /\ \A i \in OrderIds : i # o => activate'[i] = activate[i] /\ activate[i].pc = "idle"
    BY <2>1, <2>2, ActivationMoved
  <2>6. job' \in [Procs -> Job] /\ \A q \in Procs : q # o => job'[q] = job[q]
    BY <2>2, <2>4, JobSet, ProcsDiffer DEF TypeInv
  <2>7. TypeOK'
    BY <1>0, <2>2, <2>3, <2>5, <2>6 DEF TypeInv, TypeOK
  <2>8. RefsExist'
    BY <1>0, <2>1, <2>2, <2>5 DEF TypeInv, RefsExist
  <2>9. OneAtATime'
    BY <1>0, <2>1, <2>5, <2>6, ProcsDiffer DEF TypeInv, OneAtATime
  <2>10. QED
    BY <2>7, <2>8, <2>9 DEF TypeInv
<1>3. CASE ActivateDone(o)
  <2>1. Idle \in Activation /\ Idle.pc = "idle"
    BY DEF Idle, Activation
  <2>2. /\ activate[o].pc = "role" /\ activate' = [activate EXCEPT ![o] = Idle]
        /\ job[o].pc = "idle" /\ UNCHANGED <<subs, job>>
    BY <1>3 DEF ActivateDone
  <2>3. /\ activate' \in [OrderIds -> Activation] /\ activate'[o] = Idle
        /\ \A i \in OrderIds : i # o => activate'[i] = activate[i] /\ activate[i].pc = "idle"
    BY <2>1, <2>2, ActivationMoved
  <2>4. TypeOK'
    BY <1>0, <2>2, <2>3 DEF TypeInv, TypeOK
  <2>5. RefsExist'
    BY <1>0, <2>1, <2>2, <2>3 DEF TypeInv, RefsExist
  <2>6. OneAtATime'
    BY <1>0, <2>1, <2>2, <2>3 DEF TypeInv, OneAtATime
  <2>7. QED
    BY <2>4, <2>5, <2>6 DEF TypeInv
<1>4. QED
  BY <1>1, <1>2, <1>3

\* The sweep begins when the watcher is free, and nothing else of it runs beside.
LEMMA TypeInvSweep ==
    ASSUME TypeInv,
           \/ SweepBegin \/ SweepDone
           \/ \E o \in OrderIds : SweepRow(o)
           \/ \E u \in Users : SweepUser(u)
    PROVE  TypeInv'
<1>0. /\ UNCHANGED <<config, now, begun, accounts, roleTable, activate>>
      /\ sweep \in Sweep
  BY DEF SweepBegin, SweepDone, SweepRow, SweepUser, TypeInv, TypeOK
<1>1. CASE SweepBegin
  <2>1. /\ sweep' = [pc |-> "rows", asOf |-> now, due |-> Due(now),
                     users |-> {subs[o].user : o \in Due(now)}]
        /\ \A o \in OrderIds : activate[o].pc = "idle"
        /\ UNCHANGED <<subs, job>> /\ sweep.pc = "idle"
    BY <1>1 DEF SweepBegin, WatcherFree
  <2>2. Due(now) \subseteq DOMAIN subs
    BY DEF Due
  <2>3. Due(now) \subseteq OrderIds /\ {subs[o].user : o \in Due(now)} \subseteq Users
    BY <2>2 DEF TypeInv, TypeOK, Subscription
  <2>4. sweep' \in Sweep /\ sweep'.pc = "rows" /\ sweep'.due = Due(now)
    BY <2>1, <2>3 DEF Sweep, TypeInv, TypeOK
  <2>5. TypeOK'
    BY <1>0, <2>1, <2>4 DEF TypeInv, TypeOK
  <2>6. RefsExist'
    BY <1>0, <2>1, <2>2, <2>4 DEF TypeInv, RefsExist
  <2>7. OneAtATime'
    BY <1>0, <2>1 DEF TypeInv, OneAtATime
  <2>8. QED
    BY <2>5, <2>6, <2>7 DEF TypeInv
<1>2. ASSUME NEW o \in OrderIds, SweepRow(o) PROVE TypeInv'
  <2>1. /\ sweep.pc = "rows" /\ o \in sweep.due /\ UNCHANGED job
        /\ subs' = [subs EXCEPT ![o] = Ended(subs[o])]
        /\ o \in DOMAIN subs
    BY <1>2 DEF SweepRow, TypeInv, RefsExist
  <2>2. Ended(subs[o]) \in Subscription
    BY <2>1 DEF Ended, Subscription, TypeInv, TypeOK
  <2>3. DOMAIN subs' = DOMAIN subs /\ subs' \in [DOMAIN subs -> Subscription]
    BY <2>1, <2>2 DEF TypeInv, TypeOK
  <2>4. /\ sweep' \in Sweep /\ sweep'.pc \in {"rows", "users"}
        /\ sweep'.pc = "rows" => sweep'.due \subseteq sweep.due
    <3>1. /\ sweep = [pc |-> "rows", asOf |-> sweep.asOf, due |-> sweep.due,
                      users |-> sweep.users]
          /\ sweep.asOf \in Nat /\ sweep.users \subseteq Users /\ sweep.due \subseteq OrderIds
      BY <1>0, <2>1, SweepVariants
    <3>2. \/ sweep' = [pc |-> "users", asOf |-> sweep.asOf, users |-> sweep.users]
          \/ sweep' = [pc |-> "rows", asOf |-> sweep.asOf, due |-> sweep.due \ {o},
                       users |-> sweep.users]
      BY <1>2, <3>1 DEF SweepRow
    <3>3. QED
      BY <3>1, <3>2 DEF Sweep
  <2>5. TypeOK'
    BY <1>0, <2>1, <2>3, <2>4 DEF TypeInv, TypeOK
  <2>6. RefsExist'
    BY <1>0, <2>1, <2>3, <2>4 DEF TypeInv, RefsExist
  <2>7. OneAtATime'
    BY <1>0, <2>1, <2>4 DEF TypeInv, OneAtATime
  <2>8. QED
    BY <2>5, <2>6, <2>7 DEF TypeInv
<1>3. ASSUME NEW u \in Users, SweepUser(u) PROVE TypeInv'
  <2>1. sweep.pc = "users" /\ UNCHANGED subs
    BY <1>3 DEF SweepUser
  <2>2. sweep' \in Sweep /\ sweep'.pc = "users"
    <3>1. /\ sweep = [pc |-> "users", asOf |-> sweep.asOf, users |-> sweep.users]
          /\ sweep.asOf \in Nat /\ sweep.users \subseteq Users
      BY <1>0, <2>1, SweepVariants
    <3>2. sweep' = [pc |-> "users", asOf |-> sweep.asOf, users |-> sweep.users \ {u}]
      BY <1>3, <3>1 DEF SweepUser
    <3>3. QED
      BY <3>1, <3>2 DEF Sweep
  <2>3. job' \in [Procs -> Job] /\ \A o \in OrderIds : job'[o] = job[o]
    <3>1. AskRole(u, "normal_user") \in Job
      BY DEF AskRole, Job, Roles
    <3>2. UNCHANGED job \/ SetJob(Sweeper, AskRole(u, "normal_user"))
      BY <1>3 DEF SweepUser
    <3>3. QED
      BY <3>1, <3>2, JobSet, ProcsDiffer DEF TypeInv, TypeOK
  <2>4. TypeOK'
    BY <1>0, <2>1, <2>2, <2>3 DEF TypeInv, TypeOK
  <2>5. RefsExist'
    BY <1>0, <2>1, <2>2 DEF TypeInv, RefsExist
  <2>6. OneAtATime'
    BY <1>0, <2>1, <2>2, <2>3 DEF TypeInv, OneAtATime
  <2>7. QED
    BY <2>4, <2>5, <2>6 DEF TypeInv
<1>4. CASE SweepDone
  <2>1. sweep' = Idle /\ Idle \in Sweep /\ Idle.pc = "idle" /\ job[Sweeper].pc = "idle"
        /\ UNCHANGED <<subs, job>>
    BY <1>4 DEF SweepDone, Idle, Sweep
  <2>2. TypeOK'
    BY <1>0, <2>1 DEF TypeInv, TypeOK
  <2>3. RefsExist'
    BY <1>0, <2>1 DEF TypeInv, RefsExist
  <2>4. OneAtATime'
    BY <1>0, <2>1 DEF TypeInv, OneAtATime
  <2>5. QED
    BY <2>2, <2>3, <2>4 DEF TypeInv
<1>5. QED
  BY <1>1, <1>2, <1>3, <1>4

\* The administrator, a crash of the watcher, and the clock.
LEMMA TypeInvWorld ==
    ASSUME TypeInv,
           \/ \E u \in Users, r \in Roles : AdminUpdateRole(u, r)
           \/ \E u \in Users : AdminUpdateStatus(u)
           \/ WatcherCrash \/ Tick \/ UNCHANGED vars
    PROVE  TypeInv'
<1>0. UNCHANGED <<config, begun, subs, role, roleTable>>
  BY DEF AdminUpdateRole, AdminUpdateStatus, WatcherCrash, Tick, vars
<1>1. ASSUME NEW u \in Users, NEW r \in Roles, AdminUpdateRole(u, r) PROVE TypeInv'
  <2> DEFINE state == [pc |-> IF role[u] = r THEN "clear" ELSE "save", user |-> u, role |-> r]
  <2>1. state \in Job /\ SetJob(Admin, state)
    BY <1>1 DEF AdminUpdateRole, Job
  <2> HIDE DEF state
  <2>2. job' \in [Procs -> Job] /\ \A q \in Procs : q # Admin => job'[q] = job[q]
    BY <2>1, JobSet, ProcsDiffer DEF TypeInv
  <2>3. TypeOK'
    BY <1>0, <1>1, <2>2 DEF AdminUpdateRole, TypeInv, TypeOK
  <2>4. RefsExist'
    BY <1>0, <1>1 DEF AdminUpdateRole, TypeInv, RefsExist
  <2>5. OneAtATime'
    BY <1>1, <2>2, ProcsDiffer DEF AdminUpdateRole, TypeInv, OneAtATime
  <2>6. QED
    BY <2>3, <2>4, <2>5 DEF TypeInv
<1>2. CASE \E u \in Users : AdminUpdateStatus(u)
  BY <1>0, <1>2 DEF AdminUpdateStatus, TypeInv, TypeOK, RefsExist, OneAtATime
<1>3. CASE WatcherCrash
  <2>1. Idle \in Sweep /\ Idle \in Activation /\ Idle \in Job /\ Idle.pc = "idle"
    BY DEF Idle, Sweep, Activation, Job
  <2>2. /\ sweep' = Idle /\ activate' = [o \in OrderIds |-> Idle]
        /\ job' = [q \in Procs |-> IF q = Admin THEN job[q] ELSE Idle]
        /\ UNCHANGED <<now, enabled>>
    BY <1>3 DEF WatcherCrash
  <2>3. TypeOK'
    BY <1>0, <2>1, <2>2 DEF TypeInv, TypeOK
  <2>4. RefsExist'
    BY <1>0, <2>1, <2>2 DEF TypeInv, RefsExist
  <2>5. OneAtATime'
    BY <2>1, <2>2, ProcsDiffer DEF OneAtATime
  <2>6. QED
    BY <2>3, <2>4, <2>5 DEF TypeInv
<1>4. CASE Tick \/ UNCHANGED vars
  BY <1>4 DEF Tick, vars, TypeInv, TypeOK, RefsExist, OneAtATime
<1>5. QED
  BY <1>1, <1>2, <1>3, <1>4

-----------------------------------------------------------------------------
(* SpanInv is inductive *)

LEMMA SpanInvInit == Init => SpanInv
  BY DEF Init, Idle, SpanInv, LastExists, Rows, EndedWereDue, SweepsDue, Follows

\* Dates are numbers: what the comparisons below range over.
LEMMA Dates ==
    ASSUME TypeInv
    PROVE  /\ now \in Nat
           /\ \A o \in DOMAIN subs :
                /\ o \in OrderIds /\ subs[o].status \in {"active", "expired"}
                /\ subs[o].user \in Users
                /\ subs[o].startsAt \in Nat /\ subs[o].endsAt \in Nat
           /\ sweep.pc \in {"rows", "users"} => sweep.asOf \in Nat
           /\ sweep.pc = "rows" => sweep.due \subseteq DOMAIN subs
<1>1. sweep.pc \in {"rows", "users"} => sweep.asOf \in Nat
  BY SweepVariants DEF TypeInv, TypeOK
<1>2. QED
  BY <1>1 DEF TypeInv, TypeOK, RefsExist, Subscription

\* The rows stay and the clock may run.
LEMMA SpanInvStill ==
    ASSUME TypeInv, SpanInv, UNCHANGED subs, now' \in {now, now + 1}, SweepsDue',
           \A o \in OrderIds : activate'[o] = activate[o] \/ Follows(o)'
    PROVE  SpanInv'
<1>1. EndedWereDue'
  BY Dates DEF SpanInv, EndedWereDue
<1>2. \A o \in OrderIds : Follows(o)'
  <2>1. ASSUME NEW o \in OrderIds, activate'[o] = activate[o] PROVE Follows(o)'
    <3>1. Rows(Owner[o])' = Rows(Owner[o])
      BY DEF Rows
    <3>2. activate[o].pc = "create" => activate[o].startsAt \in Nat
      BY ActivationVariants DEF TypeInv, TypeOK
    <3>3. QED
      BY <2>1, <3>1, <3>2, Dates DEF SpanInv, Follows
  <2>2. QED
    BY <2>1
<1>3. LastExists'
  BY DEF SpanInv, LastExists, LastOf, Rows
<1>4. QED
  BY <1>1, <1>2, <1>3 DEF SpanInv

LEMMA SpanInvRole ==
    ASSUME TypeInv, SpanInv, NEW p \in Procs, RoleStep(p)
    PROVE  SpanInv'
<1>1. /\ UNCHANGED sweep \/ (sweep' = Idle)
      /\ UNCHANGED <<now, subs, activate>>
  BY RoleMoves DEF TypeInv
<1>2. SweepsDue'
  BY <1>1 DEF SpanInv, SweepsDue, Idle
<1>3. QED
  BY <1>1, <1>2, SpanInvStill

\* The row that an activation creates begins where the others have ended.
LEMMA SpanInvCreate ==
    ASSUME TypeInv, SpanInv, NEW o \in OrderIds, ActivateCreate(o)
    PROVE  SpanInv'
<1> DEFINE start == activate[o].startsAt
           end == start + Duration[o]
<1>1. /\ activate[o].pc = "create" /\ start \in Nat /\ Owner[o] \in Users
      /\ Duration[o] \in Nat
  BY ActivationVariants, OrdersAssumption DEF ActivateCreate, TypeInv, TypeOK
<1>2. /\ DOMAIN subs' = DOMAIN subs \cup {o} /\ o \notin DOMAIN subs
      /\ subs'[o] = [user |-> Owner[o], status |-> "active", startsAt |-> start, endsAt |-> end]
      /\ \A i \in DOMAIN subs : subs'[i] = subs[i]
      /\ UNCHANGED <<now, sweep>>
  BY <1>1 DEF ActivateCreate, TypeInv, RefsExist
<1>3. /\ subs'[o].user = Owner[o] /\ subs'[o].status = "active"
      /\ subs'[o].startsAt = start /\ subs'[o].endsAt = end
      /\ end \in Nat /\ start <= end
  BY <1>1, <1>2
<1>5. /\ activate'[o].pc = "role" /\ sweep.pc = "idle"
      /\ \A i \in OrderIds : i # o => activate'[i] = activate[i] /\ activate[i].pc = "idle"
  BY <1>1 DEF ActivateCreate, TypeInv, TypeOK, OneAtATime
<1> HIDE DEF start, end
<1>6. LastExists'
  <2>1. ASSUME NEW u \in Users, Rows(u)' # {}
        PROVE  \E i \in Rows(u)' : LastOf(u, i)'
    <3>1. Rows(u)' = IF u = Owner[o] THEN Rows(u) \cup {o} ELSE Rows(u)
      BY <1>2, <1>3 DEF Rows
    <3>2. \A i \in Rows(u) : /\ i \in DOMAIN subs /\ subs'[i] = subs[i]
                             /\ subs[i].endsAt \in Nat
      BY <1>2, Dates DEF Rows
    <3>3. CASE Rows(u) = {}
      BY <1>3, <2>1, <3>1, <3>3 DEF LastOf
    <3>4. CASE Rows(u) # {}
      <4>1. PICK i \in Rows(u) : \A j \in Rows(u) : subs[j].endsAt <= subs[i].endsAt
        BY <3>4 DEF SpanInv, LastExists, LastOf
      <4>2. CASE u = Owner[o] /\ subs[i].endsAt <= end
        <5>1. \A j \in Rows(u)' : subs'[j].endsAt <= subs'[o].endsAt
          BY <1>3, <3>1, <3>2, <4>1, <4>2
        <5>2. QED
          BY <3>1, <4>2, <5>1 DEF LastOf
      <4>3. CASE u # Owner[o] \/ ~(subs[i].endsAt <= end)
        <5>1. \A j \in Rows(u)' : subs'[j].endsAt <= subs'[i].endsAt
          BY <1>3, <3>1, <3>2, <4>1, <4>3
        <5>2. QED
          BY <3>1, <5>1 DEF LastOf
      <4>4. QED
        BY <4>2, <4>3
    <3>5. QED
      BY <3>3, <3>4
  <2>2. QED
    BY <2>1 DEF LastExists
<1>7. EndedWereDue'
  BY <1>2, <1>3 DEF SpanInv, EndedWereDue
<1>8. SweepsDue' /\ \A i \in OrderIds : Follows(i)'
  BY <1>2, <1>5 DEF SweepsDue, Follows
<1>9. QED
  BY <1>6, <1>7, <1>8 DEF SpanInv

LEMMA SpanInvActivate ==
    ASSUME TypeInv, SpanInv, NEW o \in OrderIds,
           ActivateBegin(o) \/ ActivateRead(o) \/ ActivateDone(o)
    PROVE  SpanInv'
<1>1. /\ UNCHANGED <<now, subs, sweep>>
      /\ \A i \in OrderIds : i # o => activate'[i] = activate[i]
  BY DEF ActivateBegin, ActivateRead, ActivateDone, TypeInv, TypeOK
<1>2. SweepsDue'
  BY <1>1 DEF SpanInv, SweepsDue
<1>3. Follows(o)'
  <2>1. CASE ActivateRead(o)
    <3>1. activate'[o].startsAt = StartFor(Owner[o])
      BY <2>1 DEF ActivateRead, TypeInv, TypeOK
    <3>2. Owner[o] \in Users
      BY OrdersAssumption
    <3>3. /\ \A i \in Rows(Owner[o]) : subs[i].endsAt <= StartFor(Owner[o])
          /\ \/ StartFor(Owner[o]) = now
             \/ \E i \in Rows(Owner[o]) : StartFor(Owner[o]) = subs[i].endsAt
      BY <3>2, StartNat
    <3>4. Rows(Owner[o])' = Rows(Owner[o])
      BY <1>1 DEF Rows
    <3>5. QED
      BY <1>1, <3>1, <3>3, <3>4, Dates DEF Follows
  <2>2. CASE ActivateBegin(o) \/ ActivateDone(o)
    <3>1. activate'[o].pc \in {"read", "idle"}
      BY <2>2 DEF ActivateBegin, ActivateDone, Idle, TypeInv, TypeOK
    <3>2. QED
      BY <3>1 DEF Follows
  <2>3. QED
    BY <2>1, <2>2
<1>4. QED
  BY <1>1, <1>2, <1>3, SpanInvStill

LEMMA SpanInvSweep ==
    ASSUME TypeInv, SpanInv,
           \/ SweepBegin \/ SweepDone
           \/ \E o \in OrderIds : SweepRow(o)
           \/ \E u \in Users : SweepUser(u)
    PROVE  SpanInv'
<1>0. UNCHANGED <<now, activate>>
  BY DEF SweepBegin, SweepDone, SweepRow, SweepUser
<1>1. CASE SweepBegin \/ SweepDone \/ \E u \in Users : SweepUser(u)
  <2>1. UNCHANGED subs
    BY <1>1 DEF SweepBegin, SweepDone, SweepUser
  <2>2. CASE SweepBegin
    <3>1. sweep'.pc = "rows" /\ sweep'.asOf = now /\ sweep'.due = Due(now)
      BY <2>2 DEF SweepBegin
    <3>2. QED
      BY <1>0, <2>1, <3>1, Dates, SpanInvStill DEF SweepsDue, Due
  <2>3. CASE SweepDone
    <3>1. SweepsDue'
      BY <2>3 DEF SweepDone, Idle, SweepsDue
    <3>2. QED
      BY <1>0, <2>1, <3>1, SpanInvStill
  <2>4. ASSUME NEW u \in Users, SweepUser(u) PROVE SpanInv'
    <3>1. /\ sweep = [pc |-> "users", asOf |-> sweep.asOf, users |-> sweep.users]
          /\ sweep' = [sweep EXCEPT !.users = sweep.users \ {u}] /\ sweep.pc = "users"
      BY <2>4, SweepVariants DEF SweepUser, TypeInv, TypeOK
    <3>2. sweep'.pc = "users" /\ sweep'.asOf = sweep.asOf
      BY <3>1
    <3>3. SweepsDue'
      BY <1>0, <3>1, <3>2 DEF SpanInv, SweepsDue
    <3>4. QED
      BY <1>0, <2>1, <3>3, SpanInvStill
  <2>5. QED
    BY <1>1, <2>2, <2>3, <2>4
<1>2. ASSUME NEW o \in OrderIds, SweepRow(o) PROVE SpanInv'
  <2>1. /\ sweep.pc = "rows" /\ o \in sweep.due /\ o \in DOMAIN subs
        /\ subs' = [subs EXCEPT ![o] = Ended(subs[o])]
        /\ sweep = [pc |-> "rows", asOf |-> sweep.asOf, due |-> sweep.due,
                    users |-> sweep.users]
    BY <1>2, SweepVariants DEF SweepRow, TypeInv, TypeOK, RefsExist
  <2>2. /\ DOMAIN subs' = DOMAIN subs
        /\ \A i \in DOMAIN subs : i # o => subs'[i] = subs[i]
        /\ subs'[o].status = "expired" /\ subs'[o].user = subs[o].user
        /\ subs'[o].startsAt = subs[o].startsAt /\ subs'[o].endsAt = subs[o].endsAt
    <3>1. subs[o] \in Subscription
      BY <2>1 DEF TypeInv, TypeOK
    <3>2. QED
      BY <2>1, <3>1 DEF Ended, Subscription
  <2>3. \A u \in Users : Rows(u)' = Rows(u) /\ Active(u)' = Active(u) \ {o}
    BY <2>1, <2>2, Dates DEF Rows, Active
  <2>4. \A i \in DOMAIN subs : /\ subs'[i].startsAt = subs[i].startsAt
                               /\ subs'[i].endsAt = subs[i].endsAt
    BY <2>2
  <2>5. LastExists'
    BY <2>3, <2>4 DEF SpanInv, LastExists, LastOf, Rows
  <2>6. EndedWereDue'
    <3>1. subs[o].endsAt <= now
      BY <2>1, Dates DEF SpanInv, SweepsDue
    <3>2. QED
      BY <1>0, <2>2, <3>1 DEF SpanInv, EndedWereDue
  <2>7. SweepsDue'
    <3>1. /\ sweep'.asOf = sweep.asOf
          /\ sweep'.pc = "rows" => sweep'.due \subseteq sweep.due
      BY <1>2, <2>1 DEF SweepRow
    <3>2. QED
      BY <1>0, <2>1, <2>4, <3>1, Dates DEF SpanInv, SweepsDue
  <2>8. \A i \in OrderIds : Follows(i)'
    <3>1. \A i \in OrderIds : Owner[i] \in Users
      BY OrdersAssumption
    <3>2. QED
      BY <1>0, <2>3, <2>4, <3>1 DEF SpanInv, Follows, Rows
  <2>9. QED
    BY <2>5, <2>6, <2>7, <2>8 DEF SpanInv
<1>3. QED
  BY <1>1, <1>2

LEMMA SpanInvWorld ==
    ASSUME TypeInv, SpanInv,
           \/ \E u \in Users, r \in Roles : AdminUpdateRole(u, r)
           \/ \E u \in Users : AdminUpdateStatus(u)
           \/ WatcherCrash \/ Tick \/ UNCHANGED vars
    PROVE  SpanInv'
<1>1. CASE WatcherCrash
  <2>1. SweepsDue' /\ \A o \in OrderIds : Follows(o)'
    BY <1>1 DEF WatcherCrash, Idle, SweepsDue, Follows
  <2>2. QED
    BY <1>1, <2>1, SpanInvStill DEF WatcherCrash
<1>2. CASE ~WatcherCrash
  <2>1. UNCHANGED <<subs, sweep, activate>> /\ now' \in {now, now + 1}
    BY <1>2 DEF AdminUpdateRole, AdminUpdateStatus, Tick, vars
  <2>2. SweepsDue'
    BY <2>1, Dates DEF SpanInv, SweepsDue
  <2>3. QED
    BY <2>1, <2>2, SpanInvStill
<1>3. QED
  BY <1>1, <1>2

-----------------------------------------------------------------------------
LEMMA ManagedUsers ==
    ASSUME TypeInv
    PROVE  config.managed \subseteq Users /\ config.assigns \subseteq Roles
  BY ConfigAssumption DEF TypeInv, TypeOK

LEMMA SpansNext == TypeInv /\ SpanInv /\ [Next]_vars => (TypeInv /\ SpanInv)'
<1> SUFFICES ASSUME TypeInv, SpanInv, [Next]_vars PROVE (TypeInv /\ SpanInv)'
  OBVIOUS
<1>1. CASE \E p \in Procs : RoleStep(p)
  BY <1>1, TypeInvRole, SpanInvRole
<1>2. CASE \E o \in OrderIds : \/ ActivateBegin(o) \/ ActivateRead(o)
                               \/ ActivateCreate(o) \/ ActivateDone(o)
  BY <1>2, TypeInvBegin, TypeInvActivate, SpanInvActivate, SpanInvCreate
<1>3. CASE \/ SweepBegin \/ SweepDone
           \/ \E o \in OrderIds : SweepRow(o)
           \/ \E u \in Users : SweepUser(u)
  BY <1>3, TypeInvSweep, SpanInvSweep
<1>4. CASE \/ \E u \in Users, r \in Roles : AdminUpdateRole(u, r)
           \/ \E u \in Users : AdminUpdateStatus(u)
           \/ WatcherCrash \/ Tick \/ UNCHANGED vars
  BY <1>4, TypeInvWorld, SpanInvWorld
<1>5. QED
  BY <1>1, <1>2, <1>3, <1>4, ManagedUsers, ProcsDiffer DEF Next, ActivateStep, SweepStep

LEMMA SpanInvariant == Spec => [](TypeInv /\ SpanInv)
  BY TypeInvInit, SpanInvInit, SpansNext, PTL DEF Spec

\* The variables keep their types: a start found among the rows is a date, and
\* every row, sweep and role change is one the code can write.
THEOREM TypeCorrect == Spec => []TypeOK
<1>1. TypeInv => TypeOK
  BY DEF TypeInv
<1>2. QED
  BY <1>1, SpanInvariant, PTL

-----------------------------------------------------------------------------
(* The rows refine Entitlements *)

EntitledStep == Entitled!Next \/ UNCHANGED <<now, Granted>>

\* A step that neither touches the rows nor the clock grants and ends nothing.
LEMMA GrantedSame ==
    ASSUME UNCHANGED <<now, subs>>
    PROVE  EntitledStep
  BY DEF EntitledStep, Granted

\* The clock runs here as there.
LEMMA EntitledTick ==
    ASSUME Tick
    PROVE  EntitledStep
<1>1. UNCHANGED Granted /\ now' = now + 1
  BY DEF Tick, Granted
<1>2. QED
  BY <1>1 DEF EntitledStep, Entitled!Next, Entitled!Pass

\* The insert of an activation grants a span at a start that Entitlements allows.
LEMMA EntitledCreate ==
    ASSUME TypeInv, SpanInv, NEW o \in OrderIds, ActivateCreate(o)
    PROVE  EntitledStep
<1> DEFINE start == activate[o].startsAt
<1>1. /\ activate[o].pc = "create" /\ start \in Nat /\ Owner[o] \in Users
      /\ o \notin DOMAIN subs
  BY ActivationVariants, OrdersAssumption DEF ActivateCreate, TypeInv, TypeOK, RefsExist
<1>2. DOMAIN Granted = DOMAIN subs /\ \A i \in DOMAIN subs :
        Granted[i].user = subs[i].user /\ Granted[i].endsAt = subs[i].endsAt
  BY DEF Granted
<1>3. Entitled!Held(Owner[o]) = Rows(Owner[o])
  BY <1>2 DEF Entitled!Held, Rows
<1>4. start \in Entitled!Starts(Owner[o])
  <2>1. \A i \in Rows(Owner[o]) : subs[i].endsAt = Granted[i].endsAt
    BY <1>2 DEF Rows
  <2>2. /\ \A i \in Rows(Owner[o]) : subs[i].endsAt <= start
        /\ start <= now \/ \E i \in Rows(Owner[o]) : start = subs[i].endsAt
    BY <1>1 DEF SpanInv, Follows
  <2>3. start \in (0..now) \cup {Granted[i].endsAt : i \in Rows(Owner[o])}
    BY <1>1, <2>1, <2>2, Dates
  <2>4. QED
    BY <1>3, <2>1, <2>2, <2>3 DEF Entitled!Starts
<1>5. Granted' = [i \in DOMAIN Granted \cup {o} |->
                    IF i = o THEN Entitled!Bought(o, start) ELSE Granted[i]]
  BY <1>1, <1>2 DEF ActivateCreate, Granted, Entitled!Bought
<1>6. now' = now /\ o \notin DOMAIN Granted
  BY <1>1, <1>2 DEF ActivateCreate
<1>7. Entitled!Grant(o)
  BY <1>4, <1>5, <1>6 DEF Entitled!Grant
<1>8. QED
  BY <1>7 DEF EntitledStep, Entitled!Next

\* A row that the sweep updates was due when the sweep read it.
LEMMA EntitledRow ==
    ASSUME TypeInv, SpanInv, NEW o \in OrderIds, SweepRow(o)
    PROVE  EntitledStep
<1>1. /\ o \in DOMAIN subs /\ subs[o] \in Subscription /\ subs[o].endsAt <= now
      /\ subs' = [subs EXCEPT ![o] = Ended(subs[o])] /\ now' = now
  BY Dates DEF SweepRow, TypeInv, TypeOK, SpanInv, SweepsDue
<1>2. DOMAIN Granted = DOMAIN subs /\ Granted[o].endsAt = subs[o].endsAt
  BY <1>1 DEF Granted
<1>3. Granted' = [Granted EXCEPT ![o].over = TRUE]
  <2>1. /\ Ended(subs[o]).user = subs[o].user /\ Ended(subs[o]).status = "expired"
        /\ Ended(subs[o]).startsAt = subs[o].startsAt /\ Ended(subs[o]).endsAt = subs[o].endsAt
    BY <1>1 DEF Ended, Subscription
  <2>2. QED
    BY <1>1, <2>1 DEF Granted
<1>4. Entitled!End(o)
  BY <1>1, <1>2, <1>3 DEF Entitled!End
<1>5. QED
  BY <1>1, <1>2, <1>4 DEF EntitledStep, Entitled!Next

LEMMA EntitledNext ==
    ASSUME TypeInv, SpanInv, [Next]_vars
    PROVE  EntitledStep
<1>1. CASE \E p \in Procs : RoleStep(p)
  BY <1>1, GrantedSame DEF RoleStep, RoleLookup, RoleSave, RoleClear, RoleMark
<1>2. CASE \E o \in OrderIds : ActivateBegin(o) \/ ActivateRead(o) \/ ActivateDone(o)
  BY <1>2, GrantedSame DEF ActivateBegin, ActivateRead, ActivateDone
<1>3. CASE SweepBegin \/ SweepDone \/ \E u \in Users : SweepUser(u)
  BY <1>3, GrantedSame DEF SweepBegin, SweepDone, SweepUser
<1>4. CASE \/ \E u \in Users, r \in Roles : AdminUpdateRole(u, r)
           \/ \E u \in Users : AdminUpdateStatus(u)
           \/ WatcherCrash \/ UNCHANGED vars
  BY <1>4, GrantedSame DEF AdminUpdateRole, AdminUpdateStatus, WatcherCrash, vars
<1>5. QED
  BY <1>1, <1>2, <1>3, <1>4, EntitledTick, EntitledCreate, EntitledRow, ManagedUsers,
     ProcsDiffer DEF Next, ActivateStep, SweepStep

LEMMA EntitledInit == Init => Entitled!Init
  BY DEF Init, Entitled!Init, Granted

\* Every behaviour of the activations, the sweeps, the administrator and the crashes
\* keeps the promises of Entitlements.
THEOREM ImplementsEntitlements == Spec => KeepsEntitlements
<1>1. TypeInv /\ SpanInv /\ [Next]_vars => [Entitled!Next]_<<now, Granted>>
  BY EntitledNext DEF EntitledStep
<1>2. QED
  BY <1>1, EntitledInit, SpanInvariant, PTL DEF Spec, KeepsEntitlements, Entitled!Spec

-----------------------------------------------------------------------------
(* What Entitlements promises: no time is granted twice *)

EntitledApart ==
    /\ now \in Nat
    /\ Granted \in [DOMAIN Granted -> Entitled!Span]
    /\ Entitled!SpansApart

LEMMA EntitledApartGrant ==
    ASSUME EntitledApart, NEW o \in OrderIds, Entitled!Grant(o)
    PROVE  EntitledApart'
<1>1. PICK start \in Entitled!Starts(Owner[o]) :
        Granted' = [i \in DOMAIN Granted \cup {o} |->
                      IF i = o THEN Entitled!Bought(o, start) ELSE Granted[i]]
  BY DEF Entitled!Grant
<1>2. /\ o \notin DOMAIN Granted /\ now' = now
      /\ \A i \in Entitled!Held(Owner[o]) : Granted[i].endsAt <= start
  BY DEF Entitled!Grant, Entitled!Starts
<1>3. start \in Nat
  BY <1>1 DEF EntitledApart, Entitled!Starts, Entitled!Held, Entitled!Span
<1>4. Entitled!Bought(o, start) \in Entitled!Span
  BY <1>3, OrdersAssumption DEF Entitled!Bought, Entitled!Span
<1>5. /\ DOMAIN Granted' = DOMAIN Granted \cup {o}
      /\ Granted'[o].user = Owner[o] /\ Granted'[o].startsAt = start
      /\ \A i \in DOMAIN Granted : Granted'[i] = Granted[i]
  BY <1>1, <1>2 DEF Entitled!Bought
<1>6. Granted' \in [DOMAIN Granted' -> Entitled!Span]
  BY <1>1, <1>4, <1>5 DEF EntitledApart
<1>7. \A i \in DOMAIN Granted :
        Granted[i].user = Owner[o] => Granted'[i].endsAt <= Granted'[o].startsAt
  BY <1>2, <1>5 DEF Entitled!Held
<1>8. Entitled!SpansApart'
  BY <1>5, <1>7 DEF EntitledApart, Entitled!SpansApart
<1>9. QED
  BY <1>2, <1>6, <1>8 DEF EntitledApart

LEMMA EntitledApartEnd ==
    ASSUME EntitledApart, NEW o \in DOMAIN Granted, Entitled!End(o)
    PROVE  EntitledApart'
<1>1. Granted' = [Granted EXCEPT ![o].over = TRUE] /\ now' = now
  BY DEF Entitled!End
<1>2. Granted[o] \in Entitled!Span
  BY DEF EntitledApart
<1>3. /\ DOMAIN Granted' = DOMAIN Granted
      /\ \A i \in DOMAIN Granted :
            /\ Granted'[i].user = Granted[i].user
            /\ Granted'[i].startsAt = Granted[i].startsAt
            /\ Granted'[i].endsAt = Granted[i].endsAt
  BY <1>1, <1>2 DEF Entitled!Span
<1>4. Granted' \in [DOMAIN Granted' -> Entitled!Span]
  BY <1>1, <1>2 DEF EntitledApart, Entitled!Span
<1>5. Entitled!SpansApart'
  BY <1>3 DEF EntitledApart, Entitled!SpansApart
<1>6. QED
  BY <1>1, <1>4, <1>5 DEF EntitledApart

LEMMA EntitledApartNext ==
    EntitledApart /\ [Entitled!Next]_<<now, Granted>> => EntitledApart'
<1> SUFFICES ASSUME EntitledApart, [Entitled!Next]_<<now, Granted>> PROVE EntitledApart'
  OBVIOUS
<1>1. CASE Entitled!Pass
  BY <1>1 DEF EntitledApart, Entitled!Pass, Entitled!SpansApart
<1>2. CASE UNCHANGED <<now, Granted>>
  BY <1>2 DEF EntitledApart, Entitled!SpansApart
<1>3. QED
  BY <1>1, <1>2, EntitledApartGrant, EntitledApartEnd DEF Entitled!Next

LEMMA EntitledApartInit == Entitled!Init => EntitledApart
  BY DEF Entitled!Init, EntitledApart, Entitled!SpansApart

\* The spans that one user was granted, over or not, have no time in common, for any
\* orders, owners and durations, and though the watcher is killed anywhere.
THEOREM SpansDisjoint == Spec => []Entitled!SpansApart
<1>1. EntitledApart => Entitled!SpansApart
  BY DEF EntitledApart
<1>2. QED
  BY <1>1, EntitledApartInit, EntitledApartNext, ImplementsEntitlements, PTL
  DEF KeepsEntitlements, Entitled!Spec

-----------------------------------------------------------------------------
(* PrimaryInv is inductive *)

\* Where no administrator assigns roles, one role change is in progress at most.
LEMMA OneJob ==
    ASSUME TypeInv, job[Admin].pc = "idle", NEW p \in Procs, NEW q \in Procs,
           job[p].pc # "idle", job[q].pc # "idle"
    PROVE  p = q
  BY ProcsDiffer DEF Procs, TypeInv, OneAtATime

LEMMA PrimaryInvInit == Init => PrimaryInv
  BY ProcsDiffer DEF Init, Idle, PrimaryInv, Changing

\* What the awaits of a role change leave in the table of roles.
LEMMA PrimaryInvRole ==
    ASSUME TypeInv, PrimaryInv, NEW p \in Procs, RoleStep(p)
    PROVE  PrimaryInv'
<1> SUFFICES ASSUME config.assigns = {}, ~config.crash
             PROVE  PrimaryInv'
  BY RoleMoves DEF PrimaryInv, TypeInv
<1>1. /\ job[Admin].pc = "idle" /\ p # Admin
      /\ job[p] \in Job /\ job[p].pc # "idle" /\ job[p].user \in Users
      /\ job' \in [Procs -> Job]
      /\ \A q \in Procs : q # p => job'[q] = job[q]
      /\ \/ job'[p].pc = "idle"
         \/ job'[p].user = job[p].user /\ job'[p].role = job[p].role
      /\ UNCHANGED config
  <2>1. /\ job[p] \in Job /\ job[p].pc # "idle"
        /\ job' \in [Procs -> Job]
        /\ \A q \in Procs : q # p => job'[q] = job[q]
        /\ \/ job'[p].pc = "idle"
           \/ job'[p].user = job[p].user /\ job'[p].role = job[p].role
        /\ UNCHANGED config
    BY RoleMoves DEF TypeInv
  <2>2. job[p].user \in Users
    BY <2>1, JobVariants
  <2>3. job[Admin].pc = "idle"
    BY DEF PrimaryInv
  <2>4. QED
    BY <2>1, <2>2, <2>3
<1>2. \A q \in Procs : q # p => job[q].pc = "idle" /\ job'[q].pc = "idle"
  BY <1>1, OneJob
<1> DEFINE u == job[p].user
<1>3. \A v \in Users : primary[v] = {role[v]} \/ (Changing(p) /\ v = u)
  BY <1>2 DEF PrimaryInv, Changing
<1>4. /\ Changing(p) => role[u] = job[p].role
      /\ job[p].pc = "mark" => primary[u] = {}
  BY DEF PrimaryInv
<1>5. /\ job'[Admin].pc = "idle"
      /\ \A q \in Procs : q # p => job'[q].pc = "idle"
  BY <1>1, <1>2, ProcsDiffer
<1>6. CASE RoleLookup(p)
  <2>1. /\ job[p].pc = "lookup" /\ UNCHANGED <<role, primary>>
        /\ job'[p].pc \in {"idle", "save"}
    <3> DEFINE save == [job[p] EXCEPT !.pc = "save"]
    <3>1. save.pc = "save" /\ Idle.pc = "idle"
      BY <1>1, JobVariants DEF Idle
    <3>2. /\ job[p].pc = "lookup" /\ UNCHANGED <<role, primary>>
          /\ SetJob(p, Idle) \/ SetJob(p, save)
      BY <1>6 DEF RoleLookup, Raise
    <3> HIDE DEF save
    <3>3. job'[p] = Idle \/ job'[p] = save
      BY <3>2 DEF SetJob, TypeInv, TypeOK
    <3>4. QED
      BY <3>1, <3>2, <3>3
  <2>2. QED
    BY <1>3, <1>5, <2>1 DEF PrimaryInv, Changing
<1>7. CASE RoleSave(p)
  <2>1. /\ job'[p].pc = "clear" /\ job'[p].user = u /\ job'[p].role = job[p].role
        /\ role' = [role EXCEPT ![u] = job[p].role] /\ UNCHANGED primary
        /\ job[p].pc = "save"
    <3>1. LET y == [job[p] EXCEPT !.pc = "clear"]
          IN  y.pc = "clear" /\ y.user = u /\ y.role = job[p].role
      BY <1>1, JobVariants
    <3>2. QED
      BY <1>7, <3>1 DEF RoleSave, SetJob, TypeInv, TypeOK
  <2>2. role'[u] = job[p].role /\ \A v \in Users : v # u => role'[v] = role[v]
    BY <1>1, <2>1 DEF TypeInv, TypeOK
  <2> HIDE DEF u
  <2>3. QED
    BY <1>3, <1>5, <2>1, <2>2 DEF PrimaryInv, Changing
<1>8. CASE RoleClear(p)
  <2>1. /\ job'[p].pc = "mark" /\ job'[p].user = u /\ job'[p].role = job[p].role
        /\ primary' = [primary EXCEPT ![u] = {}] /\ UNCHANGED role
        /\ job[p].pc = "clear"
    <3>1. LET y == [job[p] EXCEPT !.pc = "mark"]
          IN  y.pc = "mark" /\ y.user = u /\ y.role = job[p].role
      BY <1>1, JobVariants
    <3>2. QED
      BY <1>8, <3>1 DEF RoleClear, SetJob, TypeInv, TypeOK
  <2>2. primary'[u] = {} /\ \A v \in Users : v # u => primary'[v] = primary[v]
    BY <1>1, <2>1 DEF TypeInv, TypeOK
  <2> HIDE DEF u
  <2>3. QED
    BY <1>3, <1>4, <1>5, <2>1, <2>2 DEF PrimaryInv, Changing
<1>9. CASE RoleMark(p)
  <2>1. /\ job'[p].pc = "idle" /\ UNCHANGED role /\ job[p].pc = "mark"
        /\ primary' = [primary EXCEPT ![u] = primary[u] \cup {job[p].role}]
    BY <1>9 DEF RoleMark, Marked, SetJob, Idle, TypeInv, TypeOK
  <2>2. /\ primary'[u] = primary[u] \cup {job[p].role}
        /\ \A v \in Users : v # u => primary'[v] = primary[v]
    BY <1>1, <2>1 DEF TypeInv, TypeOK
  <2>3. primary'[u] = {role'[u]}
    BY <1>4, <2>1, <2>2 DEF Changing
  <2> HIDE DEF u
  <2>4. QED
    BY <1>3, <1>5, <2>1, <2>2, <2>3 DEF PrimaryInv, Changing
<1>10. QED
  BY <1>6, <1>7, <1>8, <1>9 DEF RoleStep

\* Other steps begin role changes, or end those of a watcher that dies.
LEMMA PrimaryInvElse ==
    ASSUME TypeInv, PrimaryInv, [Next]_vars, ~\E p \in Procs : RoleStep(p)
    PROVE  PrimaryInv'
<1>1. UNCHANGED config
  BY ProcsDiffer DEF Next, ActivateStep, SweepStep, ActivateBegin, ActivateRead, ActivateCreate,
     ActivateDone, SweepBegin, SweepRow, SweepUser, SweepDone, AdminUpdateRole,
     AdminUpdateStatus, WatcherCrash, Tick, vars
<1> SUFFICES ASSUME config.assigns = {}, ~config.crash
             PROVE  PrimaryInv'
  BY <1>1 DEF PrimaryInv
<1>2. UNCHANGED <<role, primary>>
  BY ProcsDiffer DEF Next, ActivateStep, SweepStep, ActivateBegin, ActivateRead, ActivateCreate,
     ActivateDone, SweepBegin, SweepRow, SweepUser, SweepDone, AdminUpdateRole,
     AdminUpdateStatus, WatcherCrash, Tick, vars
<1>3. \/ UNCHANGED job
      \/ \E o \in OrderIds : /\ SetJob(o, AskRole(Owner[o], "vip_user"))
                             /\ activate[o].pc = "create"
      \/ \E u \in Users : /\ SetJob(Sweeper, AskRole(u, "normal_user"))
                          /\ job[Sweeper].pc = "idle"
  BY ProcsDiffer DEF Next, ActivateStep, SweepStep, ActivateBegin, ActivateRead, ActivateCreate,
     ActivateDone, SweepBegin, SweepRow, SweepUser, SweepDone, AdminUpdateRole,
     AdminUpdateStatus, WatcherCrash, Tick, vars
<1>4. CASE UNCHANGED job
  BY <1>1, <1>2, <1>4 DEF PrimaryInv, Changing
<1>5. ASSUME NEW p \in Procs, NEW u, NEW r, SetJob(p, AskRole(u, r)), job[p].pc = "idle",
             p # Admin
      PROVE  PrimaryInv'
  <2>1. /\ \A q \in Procs : q # p => job'[q] = job[q]
        /\ job'[p].pc = "lookup"
    BY <1>5 DEF SetJob, AskRole, TypeInv, TypeOK
  <2>2. QED
    BY <1>1, <1>2, <1>5, <2>1, ProcsDiffer DEF PrimaryInv, Changing
<1>6. \A o \in OrderIds : activate[o].pc = "create" => job[o].pc = "idle"
  BY DEF TypeInv, OneAtATime
<1>7. QED
  BY <1>3, <1>4, <1>5, <1>6, ProcsDiffer

LEMMA PrimaryInvariant == Spec => []PrimaryInv
<1>1. TypeInv /\ PrimaryInv /\ [Next]_vars => PrimaryInv'
  BY PrimaryInvRole, PrimaryInvElse
<1>2. QED
  BY <1>1, PrimaryInvInit, SpanInvariant, PTL DEF Spec

\* A user's primary role row is the role the user has, and the only one, when
\* only the watcher changes roles and is not killed amid a change.
THEOREM PrimaryRoleIsRole == Spec => []PrimaryIsRole
<1>1. PrimaryInv => PrimaryIsRole
  BY DEF PrimaryInv, PrimaryIsRole, Changing
<1>2. QED
  BY <1>1, PrimaryInvariant, PTL

-----------------------------------------------------------------------------
(* RoleInv is inductive, with what the watcher asks for *)

LEMMA RoleInvInit == Init => WatcherAsks /\ RoleInv
  BY ProcsDiffer DEF Init, Idle, WatcherAsks, RoleInv, LiveAt, Active, Asked

\* How the job of each process of the watcher can change.
LEMMA JobsMove ==
    ASSUME TypeInv, [Next]_vars, ~\E p \in Procs : RoleStep(p)
    PROVE  \/ \A p \in Procs : p # Admin => job'[p] = job[p] \/ job'[p].pc = "idle"
           \/ \E o \in OrderIds :
                /\ ActivateCreate(o) /\ job'[o] = AskRole(Owner[o], "vip_user")
                /\ \A p \in Procs : p # o => job'[p] = job[p]
           \/ \E u \in Users :
                /\ SweepUser(u) /\ ~StillActive(u, sweep.asOf)
                /\ job'[Sweeper] = AskRole(u, "normal_user")
                /\ \A p \in Procs : p # Sweeper => job'[p] = job[p]
<1>1. CASE \E o \in OrderIds : ActivateCreate(o)
  BY <1>1, ProcsDiffer DEF ActivateCreate, SetJob, TypeInv, TypeOK
<1>2. CASE \E u \in Users : SweepUser(u)
  BY <1>2, ProcsDiffer DEF SweepUser, SetJob, TypeInv, TypeOK
<1>3. CASE WatcherCrash
  BY <1>3 DEF WatcherCrash, Idle
<1>4. CASE \E u \in Users, r \in Roles : AdminUpdateRole(u, r)
  BY <1>4 DEF AdminUpdateRole, SetJob, TypeInv, TypeOK
<1>5. CASE UNCHANGED job
  BY <1>5
<1>6. QED
  BY <1>1, <1>2, <1>3, <1>4, <1>5, ProcsDiffer, ManagedUsers
  DEF Next, ActivateStep, SweepStep, ActivateBegin, ActivateRead, ActivateDone, SweepBegin,
      SweepRow, SweepDone, AdminUpdateStatus, Tick, vars

LEMMA AsksNext == TypeInv /\ WatcherAsks /\ [Next]_vars => WatcherAsks'
<1> SUFFICES ASSUME TypeInv, WatcherAsks, [Next]_vars PROVE WatcherAsks'
  OBVIOUS
<1>1. ASSUME NEW p \in Procs, RoleStep(p) PROVE WatcherAsks'
  <2>1. /\ job[p].pc # "idle"
        /\ \A q \in Procs : q # p => job'[q] = job[q]
        /\ \/ job'[p].pc = "idle"
           \/ job'[p].user = job[p].user /\ job'[p].role = job[p].role
    BY <1>1, RoleMoves DEF TypeInv
  <2>2. QED
    BY <2>1, ProcsDiffer DEF WatcherAsks
<1>2. CASE ~\E p \in Procs : RoleStep(p)
  <2>1. ASSUME NEW p \in Procs, NEW u, NEW r, job'[p] = AskRole(u, r)
        PROVE  job'[p].user = u /\ job'[p].role = r
    BY <2>1 DEF AskRole
  <2>2. \A p \in Procs : p # Admin =>
            \/ job'[p] = job[p] \/ job'[p].pc = "idle"
            \/ p \in OrderIds /\ job'[p].user = Owner[p] /\ job'[p].role = "vip_user"
            \/ p = Sweeper /\ job'[p].role = "normal_user"
    BY <1>2, <2>1, JobsMove, ProcsDiffer
  <2>3. QED
    BY <2>2, ProcsDiffer DEF WatcherAsks
<1>3. QED
  BY <1>1, <1>2

\* Rows that live on: a step that creates none leaves no more of them.
LEMMA NoNewLife ==
    ASSUME TypeInv, UNCHANGED subs, now' \in {now, now + 1}, NEW u \in Users
    PROVE  LiveAt(u, now)' \subseteq LiveAt(u, now)
  BY Dates DEF LiveAt, Active

\* What holds of users when rows end, time passes or role changes end.
LEMMA RoleInvRows ==
    ASSUME TypeInv, RoleInv, Undisturbed, UNCHANGED <<config, role, enabled>>,
           \A u \in Users : LiveAt(u, now)' \subseteq LiveAt(u, now),
           \A p \in Procs : job'[p] = job[p]
    PROVE  RoleInv'
<1>1. Undisturbed' /\ \A u \in Users : enabled'[u]
  BY DEF Undisturbed, RoleInv
<1>2. ASSUME NEW u \in Users, LiveAt(u, now)' # {}
      PROVE  role'[u] = "vip_user" \/ \E o \in OrderIds : Asked(o)' /\ job'[o].user = u
  <2>1. LiveAt(u, now) # {}
    BY <1>2
  <2>2. role[u] = "vip_user" \/ \E o \in OrderIds : Asked(o) /\ job[o].user = u
    BY <2>1 DEF RoleInv
  <2>3. QED
    BY <2>2, ProcsDiffer DEF Asked
<1>3. ASSUME NEW u \in Users, Asked(Sweeper)', job'[Sweeper].user = u
      PROVE  LiveAt(u, now)' = {}
  <2>1. Asked(Sweeper) /\ job[Sweeper].user = u
    BY <1>3, ProcsDiffer DEF Asked
  <2>2. QED
    BY <2>1 DEF RoleInv
<1>4. QED
  BY <1>1, <1>2, <1>3 DEF RoleInv

LEMMA RoleInvCreate ==
    ASSUME TypeInv, RoleInv, Undisturbed, NEW o \in OrderIds, ActivateCreate(o)
    PROVE  RoleInv'
<1>1. /\ UNCHANGED <<config, now, role, enabled>> /\ Owner[o] \in Users
      /\ activate[o].pc = "create" /\ sweep.pc = "idle"
      /\ \A p \in Procs : p # o => job'[p] = job[p]
      /\ job'[o] = AskRole(Owner[o], "vip_user")
      /\ DOMAIN subs' = DOMAIN subs \cup {o} /\ subs'[o].user = Owner[o]
      /\ \A i \in DOMAIN subs : i # o => subs'[i] = subs[i]
  BY OrdersAssumption, ProcsDiffer
  DEF ActivateCreate, SetJob, TypeInv, TypeOK, OneAtATime
<1>2. Asked(o)' /\ job'[o].user = Owner[o] /\ job[o].pc = "idle"
  BY <1>1 DEF Asked, AskRole, TypeInv, OneAtATime
<1>3. ASSUME NEW u \in Users, LiveAt(u, now)' # {}
      PROVE  role'[u] = "vip_user" \/ \E i \in OrderIds : Asked(i)' /\ job'[i].user = u
  <2>1. CASE u = Owner[o]
    BY <1>2, <2>1
  <2>2. CASE u # Owner[o]
    <3>1. LiveAt(u, now) # {}
      BY <1>1, <1>3, <2>2 DEF LiveAt, Active
    <3>2. role[u] = "vip_user" \/ \E i \in OrderIds : Asked(i) /\ job[i].user = u
      BY <3>1 DEF RoleInv
    <3>3. QED
      BY <1>1, <1>2, <3>2, ProcsDiffer DEF Asked
  <2>3. QED
    BY <2>1, <2>2
<1>4. ~Asked(Sweeper)'
  BY <1>1, ProcsDiffer DEF Asked, TypeInv, OneAtATime
<1>5. QED
  BY <1>1, <1>3, <1>4 DEF RoleInv, Undisturbed

\* The sweep read its clock before, so that a subscription which ends after it
\* is all that may still run.
LEMMA RoleInvDowngrade ==
    ASSUME TypeInv, SpanInv, RoleInv, Undisturbed, NEW u \in Users, SweepUser(u),
           ~StillActive(u, sweep.asOf)
    PROVE  RoleInv'
<1>1. /\ UNCHANGED <<config, now, subs, role, enabled>> /\ sweep.pc = "users"
      /\ \A p \in Procs : p # Sweeper => job'[p] = job[p]
      /\ job'[Sweeper] = AskRole(u, "normal_user")
  BY ProcsDiffer DEF SweepUser, SetJob, TypeInv, TypeOK
<1>2. LiveAt(u, now) = {}
  BY <1>1, Dates DEF StillActive, LiveAt, Active, SpanInv, SweepsDue
<1>3. \A v \in Users : LiveAt(v, now)' = LiveAt(v, now)
  BY <1>1 DEF LiveAt, Active
<1>4. job'[Sweeper].user = u
  BY <1>1 DEF AskRole
<1>5. ASSUME NEW v \in Users, LiveAt(v, now)' # {}
      PROVE  role'[v] = "vip_user" \/ \E o \in OrderIds : Asked(o)' /\ job'[o].user = v
  <2>1. role[v] = "vip_user" \/ \E o \in OrderIds : Asked(o) /\ job[o].user = v
    BY <1>3, <1>5 DEF RoleInv
  <2>2. QED
    BY <1>1, <2>1, ProcsDiffer DEF Asked
<1>6. QED
  BY <1>1, <1>2, <1>3, <1>4, <1>5 DEF RoleInv, Undisturbed

LEMMA RoleInvRole ==
    ASSUME TypeInv, WatcherAsks, RoleInv, Undisturbed, job[Admin].pc = "idle",
           NEW p \in Procs, RoleStep(p)
    PROVE  RoleInv'
<1>1. /\ job[p] \in Job /\ job[p].pc # "idle"
      /\ \A q \in Procs : q # p => job'[q] = job[q]
      /\ job' \in [Procs -> Job]
      /\ \/ job'[p].pc = "idle"
         \/ job'[p].user = job[p].user /\ job'[p].role = job[p].role
      /\ UNCHANGED <<config, now, subs, enabled>>
  BY RoleMoves DEF TypeInv
<1>2. /\ job[p].user \in Users /\ enabled[job[p].user]
      /\ p \in OrderIds \/ p = Sweeper
  BY <1>1, JobVariants, ProcsDiffer DEF Procs, RoleInv
<1>3. \A q \in Procs : q # p => job[q].pc = "idle" /\ job'[q].pc = "idle"
  BY <1>1, OneJob
<1>4. \A u \in Users : LiveAt(u, now)' = LiveAt(u, now)
  BY <1>1 DEF LiveAt, Active
<1> DEFINE u == job[p].user
<1>5. \A v \in Users : v # u => role'[v] = role[v]
  BY DEF RoleStep, RoleLookup, RoleSave, RoleClear, RoleMark, TypeInv, TypeOK
<1>6. \/ Asked(p) /\ Asked(p)' /\ job'[p].user = u /\ role'[u] = role[u]
      \/ Asked(p) /\ ~Asked(p)' /\ role'[u] = job[p].role
      \/ ~Asked(p) /\ ~Asked(p)' /\ role'[u] = role[u]
  <2> DEFINE save == [job[p] EXCEPT !.pc = "save"]
             clear == [job[p] EXCEPT !.pc = "clear"]
             mark == [job[p] EXCEPT !.pc = "mark"]
  <2>1. /\ save.pc = "save" /\ save.user = u /\ clear.pc = "clear" /\ mark.pc = "mark"
        /\ Idle.pc = "idle"
    BY <1>1, JobVariants DEF Idle
  <2>2. CASE RoleLookup(p)
    <3>1. \/ SetJob(p, Idle) /\ role[u] = job[p].role
          \/ SetJob(p, save)
      BY <1>2, <2>2 DEF RoleLookup
    <3>2. UNCHANGED role /\ job[p].pc = "lookup"
      BY <2>2 DEF RoleLookup
    <3> HIDE DEF save, u
    <3>3. \/ job'[p] = Idle /\ role[u] = job[p].role
          \/ job'[p] = save
      BY <3>1 DEF SetJob, TypeInv, TypeOK
    <3>4. QED
      BY <2>1, <3>2, <3>3 DEF Asked
  <2>3. CASE RoleSave(p)
    <3>1. SetJob(p, clear) /\ role'[u] = job[p].role /\ job[p].pc = "save"
      BY <1>2, <2>3 DEF RoleSave, TypeInv, TypeOK
    <3> HIDE DEF clear
    <3>2. job'[p] = clear
      BY <3>1 DEF SetJob, TypeInv, TypeOK
    <3>3. QED
      BY <2>1, <3>1, <3>2 DEF Asked
  <2>4. CASE RoleClear(p)
    <3>1. SetJob(p, mark) /\ UNCHANGED role /\ job[p].pc = "clear"
      BY <2>4 DEF RoleClear
    <3> HIDE DEF mark
    <3>2. job'[p] = mark
      BY <3>1 DEF SetJob, TypeInv, TypeOK
    <3>3. QED
      BY <2>1, <3>1, <3>2 DEF Asked
  <2>5. CASE RoleMark(p)
    <3>1. job'[p] = Idle /\ UNCHANGED role /\ job[p].pc = "mark"
      BY <2>5 DEF RoleMark, SetJob, TypeInv, TypeOK
    <3>2. QED
      BY <2>1, <3>1 DEF Asked
  <2>6. QED
    BY <2>2, <2>3, <2>4, <2>5 DEF RoleStep
<1>7. ASSUME NEW v \in Users, LiveAt(v, now) # {}
      PROVE  role'[v] = "vip_user" \/ \E o \in OrderIds : Asked(o)' /\ job'[o].user = v
  <2>1. role[v] = "vip_user" \/ (p \in OrderIds /\ Asked(p) /\ u = v)
    BY <1>3, <1>7, ProcsDiffer DEF RoleInv, Asked
  <2>2. p = Sweeper => ~(Asked(p) /\ u = v)
    BY <1>7 DEF RoleInv
  <2>3. p \in OrderIds => job[p].role = "vip_user"
    BY <1>1 DEF WatcherAsks
  <2> HIDE DEF u
  <2>4. QED
    BY <1>2, <1>5, <1>6, <2>1, <2>2, <2>3
<1>8. ASSUME NEW v \in Users, Asked(Sweeper)', job'[Sweeper].user = v
      PROVE  LiveAt(v, now) = {}
  <2>1. p = Sweeper
    BY <1>3, <1>8, ProcsDiffer DEF Asked
  <2>2. Asked(p) /\ u = v
    BY <1>6, <1>8, <2>1
  <2>3. QED
    BY <2>1, <2>2 DEF RoleInv
<1>9. QED
  BY <1>1, <1>4, <1>7, <1>8 DEF RoleInv, Undisturbed

LEMMA RoleInvElse ==
    ASSUME TypeInv, SpanInv, RoleInv, [Next]_vars, Undisturbed,
           ~\E p \in Procs : RoleStep(p)
    PROVE  RoleInv'
<1>1. CASE \E o \in OrderIds : ActivateCreate(o)
  BY <1>1, RoleInvCreate
<1>2. CASE \E u \in Users : SweepUser(u) /\ ~StillActive(u, sweep.asOf)
  BY <1>2, RoleInvDowngrade
<1>3. CASE ~ \/ \E o \in OrderIds : ActivateCreate(o)
             \/ \E u \in Users : SweepUser(u) /\ ~StillActive(u, sweep.asOf)
  <2>1. UNCHANGED <<config, role, enabled, job>>
    BY <1>3, ProcsDiffer DEF Undisturbed, Next, ActivateStep, SweepStep, ActivateBegin,
       ActivateRead, ActivateDone, SweepBegin, SweepRow, SweepUser, SweepDone,
       AdminUpdateRole, AdminUpdateStatus, WatcherCrash, Tick, vars
  <2>2. \A u \in Users : LiveAt(u, now)' \subseteq LiveAt(u, now)
    <3>1. CASE \E o \in OrderIds : SweepRow(o)
      <4>1. PICK o \in DOMAIN subs : subs' = [subs EXCEPT ![o] = Ended(subs[o])]
        BY <3>1 DEF SweepRow, TypeInv, RefsExist
      <4>2. subs[o] \in Subscription
        BY DEF TypeInv, TypeOK
      <4>3. /\ DOMAIN subs' = DOMAIN subs /\ subs'[o].status = "expired" /\ UNCHANGED now
            /\ \A i \in DOMAIN subs : i # o => subs'[i] = subs[i]
        BY <3>1, <4>1, <4>2 DEF Ended, Subscription, SweepRow
      <4>4. QED
        BY <4>3 DEF LiveAt, Active
    <3>2. CASE UNCHANGED subs /\ now' \in {now, now + 1}
      BY <3>2, NoNewLife
    <3>3. QED
      BY <1>3, <3>1, <3>2, ProcsDiffer DEF Next, ActivateStep, SweepStep, ActivateBegin,
         ActivateRead, ActivateDone, SweepBegin, SweepUser, SweepDone,
         AdminUpdateRole, AdminUpdateStatus, WatcherCrash, Tick, vars
  <2>3. QED
    BY <2>1, <2>2, RoleInvRows
<1>4. QED
  BY <1>1, <1>2, <1>3

LEMMA RoleInvNext ==
    TypeInv /\ SpanInv /\ PrimaryInv /\ WatcherAsks /\ RoleInv /\ [Next]_vars => RoleInv'
<1> SUFFICES ASSUME TypeInv, SpanInv, PrimaryInv, WatcherAsks, RoleInv, [Next]_vars
             PROVE  RoleInv'
  OBVIOUS
<1>1. UNCHANGED config
  BY ProcsDiffer, RoleMoves DEF TypeInv, Next, ActivateStep, SweepStep, ActivateBegin,
     ActivateRead, ActivateCreate, ActivateDone, SweepBegin, SweepRow, SweepUser, SweepDone,
     AdminUpdateRole, AdminUpdateStatus, WatcherCrash, Tick, vars
<1>2. CASE ~Undisturbed
  BY <1>1, <1>2 DEF RoleInv, Undisturbed
<1>3. CASE Undisturbed
  <2>1. job[Admin].pc = "idle"
    BY <1>3 DEF PrimaryInv, Undisturbed
  <2>2. QED
    BY <1>3, <2>1, RoleInvRole, RoleInvElse
<1>4. QED
  BY <1>2, <1>3

\* Whoever has a running subscription has the paid role whenever the watcher is
\* free: no sweep, however it interleaves with renewals over any number of
\* orders, downgrades a renewal.
THEOREM RunningSubscriberKeepsRole == Spec => []RunningKeepsRole
<1>1. RoleInv => RunningKeepsRole
  <2>1. ASSUME RoleInv, Undisturbed, \A p \in Procs : job[p].pc = "idle",
               NEW u \in Users, LiveAt(u, now) # {}
        PROVE  role[u] = "vip_user"
    BY <2>1, ProcsDiffer DEF RoleInv, Asked
  <2>2. QED
    BY <2>1 DEF RunningKeepsRole
<1>2. QED
  BY <1>1, RoleInvInit, AsksNext, RoleInvNext, SpanInvariant, PrimaryInvariant, PTL DEF Spec
=============================================================================

--------------------------- MODULE Administration ---------------------------
(***************************************************************************)
(* Administrators who change each other's role and status                  *)
(* (services/admin/admin-user.service.ts), the script that seeds           *)
(* administrators, and memberships that change roles too                   *)
(* (services/billing/membership-role.service.ts).  A request is authorised *)
(* by the role in its token alone (jwt.ts, auth.middleware.ts,             *)
(* require-admin.middleware.ts), which the table may have left behind.     *)
(*                                                                         *)
(* An action is the code from one await to the next.  Sequelize's save and *)
(* update write the columns that differ from what the instance read.       *)
(* admin and super_admin are one role here, as are all the others.         *)
(* The passwords it sets are left out.                                     *)
(***************************************************************************)
EXTENDS FiniteSets

CONSTANTS
    Users,      \* accounts, existing or to be created
    Nobody,     \* the actor of a script or of the billing watcher
    Requests,   \* calls that may be in progress at once
    Scenarios   \* bound: sets of calls considered together

VARIABLES
    calls,      \* the calls of this behaviour; it never changes
    users,      \* t_user: role and status
    roleRows,   \* t_user_role: the row of a user and a role, and whether it is primary
    tokens,     \* the users who hold a token that names an administrator
    requests    \* calls in progress

vars == <<calls, users, roleRows, tokens, requests>>

Calls == {"login", "create", "role", "status", "ensure", "membership"}

Roles == {"member", "admin"}

Absent == [exists |-> FALSE, role |-> "member", active |-> FALSE]

User == {Absent} \cup [exists : {TRUE}, role : Roles, active : BOOLEAN]

RoleRow == {"absent", "plain", "primary"}

\* alone: no other request for the same user has been in progress since this one began.
Request ==
    [pc : {"idle"}]
    \cup [pc : {"sign"}, target : Users]
    \cup [pc : {"save"}, op : {"role", "status", "ensure", "membership"},
          actor : Users \cup {Nobody}, target : Users, read : User, new : User, alone : BOOLEAN]
    \cup [pc : {"insert", "link"}, target : Users, new : User, alone : BOOLEAN]
    \cup [pc : {"clear", "find"}, target : Users, role : Roles, alone : BOOLEAN]
    \cup [pc : {"mark"}, target : Users, role : Roles, found : RoleRow, alone : BOOLEAN]

Idle == [pc |-> "idle"]

Linked(role) == [r \in Roles |-> IF r = role THEN "primary" ELSE "absent"]

Unlinked == [r \in Roles |-> "absent"]

IsActiveAdmin(u) == users[u].role = "admin" /\ users[u].active

ActiveAdmins == {u \in Users : IsActiveAdmin(u)}

\* Some accounts, at least one of them an administrator.
Init ==
    /\ calls \in Scenarios
    /\ users \in [Users -> {Absent} \cup [exists : {TRUE}, role : Roles, active : {TRUE}]]
    /\ ActiveAdmins # {}
    /\ roleRows = [u \in Users |-> IF users[u].exists THEN Linked(users[u].role) ELSE Unlinked]
    /\ tokens = {}
    /\ requests = [r \in Requests |-> Idle]

IsFor(p, u) == requests[p].pc \notin {"idle", "sign"} /\ requests[p].target = u

\* Requests after r has begun as q: whoever is at the same user is no longer alone.
Begun(r, q) ==
    [p \in Requests |->
        IF p = r THEN q
        ELSE IF IsFor(p, q.target) THEN [requests[p] EXCEPT !.alone = FALSE]
        ELSE requests[p]]

Lone(r, u) == \A p \in Requests \ {r} : ~IsFor(p, u)

SetRequest(r, q) == requests' = [requests EXCEPT ![r] = q]

End(r) == SetRequest(r, Idle)

(***************************************************************************)
(* Tokens: signed with the role that login read, good until they expire.   *)
(***************************************************************************)

LoginRead(r) ==
    /\ "login" \in calls
    /\ requests[r].pc = "idle"
    /\ \E u \in ActiveAdmins : SetRequest(r, [pc |-> "sign", target |-> u])
    /\ UNCHANGED <<calls, users, roleRows, tokens>>

LoginSign(r) ==
    /\ requests[r].pc = "sign"
    /\ tokens' = tokens \cup {requests[r].target}
    /\ End(r)
    /\ UNCHANGED <<calls, users, roleRows>>

TokenExpires(u) ==
    /\ u \in tokens
    /\ tokens' = tokens \ {u}
    /\ UNCHANGED <<calls, users, roleRows, requests>>

(***************************************************************************)
(* updateRole, updateStatus, promoteToAdminByEmail, ensureAdminAccount for *)
(* an account that exists, and upgradeUserRole: the row is read, changed   *)
(* and saved.                                                              *)
(***************************************************************************)

\* MUTANT: an administrator may also demote or disable himself.
MayChangeAny(op, actor, target, new) == TRUE

\* The guards of updateRole and updateStatus.
MayChange(op, actor, target, new) ==
    actor = target => IF op = "status" THEN new.active ELSE new.role = "admin"

Change(op, u) ==
    CASE op = "role" -> {[users[u] EXCEPT !.role = role] : role \in Roles}
      [] op = "status" -> {[users[u] EXCEPT !.active = active] : active \in BOOLEAN}
      [] op = "ensure" -> {[users[u] EXCEPT !.role = "admin", !.active = TRUE]}
      [] op = "membership" -> {[users[u] EXCEPT !.role = "member"]}

\* What a call needs beside its target: an administrator's token, or to be no request.
MayCall(op, actor, u) ==
    CASE op = "role" -> actor \in tokens \cup {Nobody}
      [] op = "status" -> actor \in tokens
      [] op = "ensure" -> actor = Nobody
      [] op = "membership" -> actor = Nobody /\ users[u].active /\ users[u].role # "member"

ChangeRead(r) ==
    /\ requests[r].pc = "idle"
    /\ \E op \in calls \ {"login", "create"}, actor \in tokens \cup {Nobody}, u \in Users :
        /\ MayCall(op, actor, u)
        /\ users[u].exists
        /\ \E new \in Change(op, u) :
            /\ op = "role" /\ actor = Nobody => new.role = "admin"
            /\ MayChange(op, actor, u, new)
            /\ requests' = Begun(r, [pc |-> "save", op |-> op, actor |-> actor, target |-> u,
                                     read |-> users[u], new |-> new, alone |-> Lone(r, u)])
    /\ UNCHANGED <<calls, users, roleRows, tokens>>

Merged(stored, read, new) == IF new = read THEN stored ELSE new

ChangeSave(r) ==
    LET q == requests[r] IN
    /\ q.pc = "save"
    /\ users' = [users EXCEPT
            ![q.target].role = Merged(@, q.read.role, q.new.role),
            ![q.target].active = Merged(@, q.read.active, q.new.active)]
    /\ IF q.op = "status" THEN End(r)
       ELSE SetRequest(r, [pc |-> "clear", target |-> q.target, role |-> q.new.role,
                           alone |-> q.alone])
    /\ UNCHANGED <<calls, roleRows, tokens>>

(***************************************************************************)
(* create, also for the account that ensureAdminAccount does not find.     *)
(***************************************************************************)

CreateFind(r) ==
    /\ "create" \in calls
    /\ requests[r].pc = "idle"
    /\ \E u \in Users, role \in Roles :
        /\ ~users[u].exists
        /\ tokens = {} => role = "admin"
        /\ requests' = Begun(r, [pc |-> "insert", target |-> u, alone |-> Lone(r, u),
                                 new |-> [exists |-> TRUE, role |-> role, active |-> TRUE]])
    /\ UNCHANGED <<calls, users, roleRows, tokens>>

\* The unique email refuses an account created meanwhile.
CreateInsert(r) ==
    LET q == requests[r] IN
    /\ q.pc = "insert"
    /\ IF users[q.target].exists THEN End(r) /\ UNCHANGED users
       ELSE SetRequest(r, [q EXCEPT !.pc = "link"]) /\ users' = [users EXCEPT ![q.target] = q.new]
    /\ UNCHANGED <<calls, roleRows, tokens>>

\* The unique key refuses a row that a role change inserted meanwhile.
CreateLink(r) ==
    LET q == requests[r] IN
    /\ q.pc = "link"
    /\ roleRows' = [roleRows EXCEPT ![q.target][q.new.role] = IF @ = "absent" THEN "primary" ELSE @]
    /\ End(r)
    /\ UNCHANGED <<calls, users, tokens>>

(***************************************************************************)
(* syncPrimaryUserRole.                                                    *)
(***************************************************************************)

Plain(row) == IF row = "primary" THEN "plain" ELSE row

\* MUTANT: only the row of the new role loses its flag.
UnmarkedOne(u, role) == [roleRows EXCEPT ![u][role] = Plain(@)]

Unmarked(u, role) == [roleRows EXCEPT ![u] = [x \in Roles |-> Plain(@[x])]]

SyncClear(r) ==
    /\ requests[r].pc = "clear"
    /\ roleRows' = Unmarked(requests[r].target, requests[r].role)
    /\ requests' = [requests EXCEPT ![r].pc = "find"]
    /\ UNCHANGED <<calls, users, tokens>>

SyncFind(r) ==
    LET q == requests[r] IN
    /\ q.pc = "find"
    /\ SetRequest(r, [pc |-> "mark", target |-> q.target, role |-> q.role,
                      found |-> roleRows[q.target][q.role], alone |-> q.alone])
    /\ UNCHANGED <<calls, users, roleRows, tokens>>

\* update of a row that was read as primary writes nothing; create fails on a row that
\* another request inserted meanwhile.
SyncMark(r) ==
    LET q == requests[r] IN
    /\ q.pc = "mark"
    /\ roleRows' = [roleRows EXCEPT ![q.target][q.role] =
            IF q.found = "plain" \/ q.found = @ THEN "primary" ELSE @]
    /\ End(r)
    /\ UNCHANGED <<calls, users, tokens>>

\* Any statement may fail, which ends its call where it stands.
RequestFails(r) ==
    /\ requests[r].pc # "idle"
    /\ End(r)
    /\ UNCHANGED <<calls, users, roleRows, tokens>>

RequestStep(r) ==
    \/ LoginRead(r)
    \/ LoginSign(r)
    \/ ChangeRead(r)
    \/ ChangeSave(r)
    \/ CreateFind(r)
    \/ CreateInsert(r)
    \/ CreateLink(r)
    \/ SyncClear(r)
    \/ SyncFind(r)
    \/ SyncMark(r)
    \/ RequestFails(r)

Next ==
    \/ \E r \in Requests : RequestStep(r)
    \/ \E u \in Users : TokenExpires(u)

Spec == Init /\ [][Next]_vars

(***************************************************************************)
(* Properties.                                                             *)
(***************************************************************************)

TypeOK ==
    /\ calls \in SUBSET Calls
    /\ users \in [Users -> User]
    /\ roleRows \in [Users -> [Roles -> RoleRow]]
    /\ tokens \subseteq Users
    /\ requests \in [Requests -> Request]

\* A step as LastAdminExplained has it.
LastAdminExplainedStep ==
    ActiveAdmins # {} /\ ActiveAdmins' = {} =>
        \E r \in Requests :
            /\ requests[r].pc = "save" /\ requests'[r] # requests[r]
            /\ \/ requests[r].op = "membership"
               \/ requests[r].actor \notin ActiveAdmins

\* The guards refuse only oneself, which is enough for an administrator to be left
\* unless the one who takes the last away is no active administrator any more (he was
\* demoted or disabled while his token lives, or while his request was in progress), or
\* the last one buys or loses a membership.
LastAdminExplained == [][LastAdminExplainedStep]_vars

\* r marks a primary role, without failing.
Marks(r) == requests[r].pc = "mark" /\ requests'[r] = Idle /\ roleRows' # roleRows

\* A step as LoneChangeHeals has it.
LoneChangeHealsStep ==
    \A r \in Requests : Marks(r) /\ requests[r].alone =>
        LET u == requests[r].target IN
        \A role \in Roles : roleRows'[u][role] = "primary" <=> role = users'[u].role

\* A role change with no other beside it leaves the user one primary role, his own,
\* whatever earlier overlaps and failures left behind.
LoneChangeHeals == [][LoneChangeHealsStep]_vars
=============================================================================

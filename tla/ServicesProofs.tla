--------------------------- MODULE ServicesProofs ---------------------------
(***************************************************************************)
(* Proofs about the services beside the payment orders, for any constants and *)
(* any number of calls in progress at once: how the last active administrator *)
(* is lost and what a role change leaves, the default of the dictionary of *)
(* pairs, and the codes and passwords of an address.                       *)
(***************************************************************************)
EXTENDS Services, FiniteSetTheorems, WellFoundedInduction, TLAPS

-----------------------------------------------------------------------------
(* Administration of users *)

\* What a call that is about to save may change of its target, who exists: the column of its
\* operation, and of the actor himself nothing that the guards refuse.
Guarded(q) ==
    /\ users[q.target].exists
    /\ q.op = "role" => q.new.active = q.read.active
    /\ q.op = "status" => q.new.role = q.read.role
    /\ q.op = "ensure" => q.actor = Nobody
    /\ q.op \in {"role", "status"} => Admins!MayChange(q.op, q.actor, q.target, q.new)

AdminInv ==
    /\ Admins!TypeOK
    /\ \A r \in Requests : adminRequests[r].pc = "save" => Guarded(adminRequests[r])

LEMMA AdminInit == ASSUME Admins!Init PROVE AdminInv
<1>1. calls \in SUBSET Admins!Calls /\ tokens \subseteq AdminUsers
  BY AdminAssumption DEF Admins!Init
<1>2. users \in [AdminUsers -> Admins!User]
  BY DEF Admins!Init, Admins!User
<1>3. roleRows \in [AdminUsers -> [Admins!Roles -> Admins!RoleRow]]
  BY DEF Admins!Init, Admins!Linked, Admins!Unlinked, Admins!RoleRow
<1>4. adminRequests \in [Requests -> Admins!Request]
  BY DEF Admins!Init, Admins!Idle, Admins!Request
<1>5. QED
  BY <1>1, <1>2, <1>3, <1>4 DEF AdminInv, Admins!TypeOK, Admins!Init, Admins!Idle

\* Whoever is at the same user is marked as no longer alone, and no more.
LEMMA BegunKeeps ==
    ASSUME AdminInv, NEW r \in Requests, NEW q \in Admins!Request, q.pc # "idle", q.pc # "sign",
           q.pc = "save" => Guarded(q), adminRequests' = Admins!Begun(r, q)
    PROVE  /\ adminRequests' \in [Requests -> Admins!Request]
           /\ \A p \in Requests : adminRequests'[p].pc = "save" => Guarded(adminRequests'[p])
<1>1. ASSUME NEW p \in Requests
      PROVE  /\ adminRequests'[p] \in Admins!Request
             /\ adminRequests'[p].pc = "save" => Guarded(adminRequests'[p])
  <2>1. adminRequests[p] \in Admins!Request
        /\ (adminRequests[p].pc = "save" => Guarded(adminRequests[p]))
    BY DEF AdminInv, Admins!TypeOK
  <2>2. CASE p = r
    BY <2>2 DEF Admins!Begun
  <2>3. CASE p # r /\ Admins!IsFor(p, q.target)
    <3> DEFINE x == [adminRequests[p] EXCEPT !.alone = FALSE]
    <3>1. adminRequests'[p] = x
      BY <2>3 DEF Admins!Begun
    <3>2. x \in Admins!Request /\ x.pc = adminRequests[p].pc
      BY <2>1, <2>3 DEF Admins!IsFor, Admins!Request
    <3>3. ASSUME adminRequests[p].pc = "save" PROVE Guarded(x)
      <4>1. /\ x.op = adminRequests[p].op /\ x.actor = adminRequests[p].actor
            /\ x.target = adminRequests[p].target /\ x.read = adminRequests[p].read
            /\ x.new = adminRequests[p].new
        BY <2>1, <3>3 DEF Admins!Request
      <4>2. QED
        BY <2>1, <3>3, <4>1 DEF Guarded
    <3>4. QED
      BY <3>1, <3>2, <3>3
  <2>4. CASE p # r /\ ~Admins!IsFor(p, q.target)
    BY <2>1, <2>4 DEF Admins!Begun
  <2>5. QED
    BY <2>2, <2>3, <2>4
<1>2. QED
  BY <1>1 DEF Admins!Begun

\* No account is removed under a call.
LEMMA GuardsStay ==
    ASSUME AdminInv, adminRequests' \in [Requests -> Admins!Request],
           \A p \in Requests : adminRequests'[p].pc = "save" => Guarded(adminRequests'[p]),
           users' \in [AdminUsers -> Admins!User],
           \A u \in AdminUsers : users[u].exists => users'[u].exists
    PROVE  (\A p \in Requests : adminRequests[p].pc = "save" => Guarded(adminRequests[p]))'
<1>1. ASSUME NEW p \in Requests, adminRequests'[p].pc = "save"
      PROVE  users'[adminRequests'[p].target].exists
  <2>1. adminRequests'[p].target \in AdminUsers
    BY <1>1 DEF Admins!Request
  <2>2. QED
    BY <1>1, <2>1 DEF Guarded
<1>2. QED
  BY <1>1 DEF Guarded, Admins!MayChange

\* A call that moves to a step which is no save.
LEMMA MovesOn ==
    ASSUME AdminInv, NEW r \in Requests, NEW q \in Admins!Request, q.pc # "save",
           adminRequests' = [adminRequests EXCEPT ![r] = q]
    PROVE  /\ adminRequests' \in [Requests -> Admins!Request]
           /\ \A p \in Requests : adminRequests'[p].pc = "save" => Guarded(adminRequests'[p])
  BY DEF AdminInv, Admins!TypeOK

\* An account in the table has a role and a status, and an account that is not has them too.
Account == [exists : {TRUE}, role : Admins!Roles, active : BOOLEAN]

LEMMA UserFields ==
    ASSUME NEW x \in Admins!User
    PROVE  /\ x.role \in Admins!Roles /\ x.active \in BOOLEAN
           /\ x.exists => x \in Account
           /\ ~x.exists => x.role = "member"
<1>1. x = Admins!Absent \/ x \in Account
  BY DEF Admins!User, Account
<1>2. CASE x = Admins!Absent
  <2>1. x.exists = FALSE /\ x.role = "member" /\ x.active = FALSE
    BY <1>2 DEF Admins!Absent
  <2>2. QED
    BY <2>1 DEF Admins!Roles
<1>3. CASE x \in Account
  BY <1>3 DEF Account
<1>4. QED
  BY <1>1, <1>2, <1>3

\* What an operation makes of an account.
LEMMA Changes ==
    ASSUME NEW op \in {"role", "status", "ensure", "membership"}, NEW u \in AdminUsers,
           users[u] \in Account, NEW new \in Admins!Change(op, u)
    PROVE  /\ new \in Account
           /\ op = "role" => new.active = users[u].active
           /\ op = "status" => new.role = users[u].role
<1>1. CASE op = "role"
  <2>1. PICK role \in Admins!Roles : new = [users[u] EXCEPT !.role = role]
    BY <1>1 DEF Admins!Change
  <2>2. QED
    BY <1>1, <2>1 DEF Account
<1>2. CASE op = "status"
  <2>1. PICK active \in BOOLEAN : new = [users[u] EXCEPT !.active = active]
    BY <1>2 DEF Admins!Change
  <2>2. QED
    BY <1>2, <2>1 DEF Account
<1>3. CASE op = "ensure"
  <2>1. new = [users[u] EXCEPT !.role = "admin", !.active = TRUE]
    BY <1>3 DEF Admins!Change
  <2>2. QED
    BY <1>3, <2>1 DEF Account, Admins!Roles
<1>4. CASE op = "membership"
  <2>1. new = [users[u] EXCEPT !.role = "member"]
    BY <1>4 DEF Admins!Change
  <2>2. QED
    BY <1>4, <2>1 DEF Account, Admins!Roles
<1>5. QED
  BY <1>1, <1>2, <1>3, <1>4

LEMMA AdminNext == ASSUME AdminInv, [Admins!Next]_(Admins!vars) PROVE AdminInv'
<1> USE DEF Admins!SetRequest
<1>1. ASSUME NEW r \in Requests, Admins!LoginRead(r) PROVE AdminInv'
  <2>1. PICK u \in Admins!ActiveAdmins :
             adminRequests' = [adminRequests EXCEPT ![r] = [pc |-> "sign", target |-> u]]
    BY <1>1 DEF Admins!LoginRead
  <2>2. [pc |-> "sign", target |-> u] \in Admins!Request
    BY DEF Admins!ActiveAdmins, Admins!Request
  <2>3. QED
    BY <1>1, <2>1, <2>2, MovesOn, GuardsStay DEF Admins!LoginRead, AdminInv, Admins!TypeOK
<1>2. ASSUME NEW r \in Requests, Admins!LoginSign(r) PROVE AdminInv'
  <2>1. adminRequests[r].target \in AdminUsers
    BY <1>2 DEF Admins!LoginSign, AdminInv, Admins!TypeOK, Admins!Request
  <2>2. Admins!Idle \in Admins!Request /\ adminRequests' = [adminRequests EXCEPT ![r] = Admins!Idle]
    BY <1>2 DEF Admins!LoginSign, Admins!End, Admins!Idle, Admins!Request
  <2>3. QED
    BY <1>2, <2>1, <2>2, MovesOn, GuardsStay
       DEF Admins!LoginSign, AdminInv, Admins!TypeOK, Admins!Idle
<1>3. ASSUME NEW r \in Requests, Admins!ChangeRead(r) PROVE AdminInv'
  <2>1. PICK op \in calls \ {"login", "create"}, actor \in tokens \cup {Nobody}, u \in AdminUsers :
          /\ Admins!MayCall(op, actor, u)
          /\ users[u].exists
          /\ \E new \in Admins!Change(op, u) :
              /\ Admins!MayChange(op, actor, u, new)
              /\ adminRequests' = Admins!Begun(r,
                     [pc |-> "save", op |-> op, actor |-> actor, target |-> u,
                                       read |-> users[u], new |-> new, alone |-> Admins!Lone(r, u)])
    BY <1>3 DEF Admins!ChangeRead
  <2>2. PICK new \in Admins!Change(op, u) :
          /\ Admins!MayChange(op, actor, u, new)
          /\ adminRequests' = Admins!Begun(r,
                 [pc |-> "save", op |-> op, actor |-> actor, target |-> u,
                                   read |-> users[u], new |-> new, alone |-> Admins!Lone(r, u)])
    BY <2>1
  <2> DEFINE q == [pc |-> "save", op |-> op, actor |-> actor, target |-> u,
                   read |-> users[u], new |-> new, alone |-> Admins!Lone(r, u)]
  <2>3. op \in {"role", "status", "ensure", "membership"}
    BY <2>1 DEF AdminInv, Admins!TypeOK, Admins!Calls
  <2>4. users[u] \in Admins!User /\ users[u] \in Account
    BY <2>1, UserFields DEF AdminInv, Admins!TypeOK
  <2>5. /\ new \in Account /\ new \in Admins!User
        /\ op = "role" => new.active = users[u].active
        /\ op = "status" => new.role = users[u].role
    BY <2>3, <2>4, Changes DEF Admins!User, Account
  <2>6. actor \in AdminUsers \cup {Nobody} /\ (op = "ensure" => actor = Nobody)
    BY <2>1 DEF AdminInv, Admins!TypeOK, Admins!MayCall
  <2>7. q \in Admins!Request
    BY <2>3, <2>4, <2>5, <2>6 DEF Admins!Request, Admins!Lone
  <2>8. Guarded(q)
    BY <2>1, <2>2, <2>5, <2>6 DEF Guarded
  <2>9. UNCHANGED <<calls, users, roleRows, tokens>>
    BY <1>3 DEF Admins!ChangeRead
  <2>10. /\ adminRequests' \in [Requests -> Admins!Request]
         /\ \A p \in Requests : adminRequests'[p].pc = "save" => Guarded(adminRequests'[p])
    BY <2>2, <2>7, <2>8, BegunKeeps
  <2>11. QED
    BY <2>9, <2>10, GuardsStay DEF AdminInv, Admins!TypeOK
<1>4. ASSUME NEW r \in Requests, Admins!ChangeSave(r) PROVE AdminInv'
  <2> DEFINE q == adminRequests[r]
             next == [pc |-> "clear", target |-> q.target, role |-> q.new.role,
                      alone |-> q.alone]
             role == Admins!Merged(users[q.target].role, q.read.role, q.new.role)
             active == Admins!Merged(users[q.target].active, q.read.active, q.new.active)
  <2>1. /\ q.target \in AdminUsers /\ q.read \in Admins!User /\ q.new \in Admins!User
        /\ q.alone \in BOOLEAN
        /\ Guarded(q)
    BY <1>4 DEF Admins!ChangeSave, AdminInv, Admins!TypeOK, Admins!Request
  <2>2. users' = [users EXCEPT ![q.target] =
            [users[q.target] EXCEPT !.role = role, !.active = active]]
    BY <1>4, <2>1 DEF Admins!ChangeSave, AdminInv, Admins!TypeOK
  <2>3. users[q.target] \in Admins!User /\ users[q.target] \in Account
    BY <2>1, UserFields DEF Guarded, AdminInv, Admins!TypeOK
  <2>4. role \in Admins!Roles /\ active \in BOOLEAN
    <3>1. /\ q.read.role \in Admins!Roles /\ q.new.role \in Admins!Roles
          /\ users[q.target].role \in Admins!Roles
          /\ q.new.active \in BOOLEAN /\ users[q.target].active \in BOOLEAN
      BY <2>1, <2>3, UserFields
    <3>2. QED
      BY <3>1 DEF Admins!Merged
  <2>5. users' \in [AdminUsers -> Admins!User] /\ \A u \in AdminUsers : users[u].exists
        => users'[u].exists
    BY <2>1, <2>2, <2>3, <2>4 DEF AdminInv, Admins!TypeOK, Admins!User, Account
  <2>6. Admins!Idle \in Admins!Request /\ next \in Admins!Request
    BY <2>1, UserFields DEF Admins!Idle, Admins!Request
  <2>7. \/ adminRequests' = [adminRequests EXCEPT ![r] = Admins!Idle]
        \/ adminRequests' = [adminRequests EXCEPT ![r] = next]
    BY <1>4 DEF Admins!ChangeSave, Admins!End
  <2>8. /\ adminRequests' \in [Requests -> Admins!Request]
        /\ \A p \in Requests : adminRequests'[p].pc = "save" => Guarded(adminRequests'[p])
    BY <2>6, <2>7, MovesOn DEF Admins!Idle
  <2>9. QED
    BY <1>4, <2>5, <2>8, GuardsStay DEF Admins!ChangeSave, AdminInv, Admins!TypeOK
<1>5. ASSUME NEW r \in Requests, Admins!CreateFind(r) PROVE AdminInv'
  <2>1. PICK u \in AdminUsers, role \in Admins!Roles :
          adminRequests' = Admins!Begun(r,
              [pc |-> "insert", target |-> u, alone |-> Admins!Lone(r, u),
                                new |-> [exists |-> TRUE, role |-> role, active |-> TRUE]])
    BY <1>5 DEF Admins!CreateFind
  <2>2. [pc |-> "insert", target |-> u, alone |-> Admins!Lone(r, u),
         new |-> [exists |-> TRUE, role |-> role, active |-> TRUE]] \in Admins!Request
    BY DEF Admins!Request, Admins!User, Admins!Lone
  <2>3. QED
    BY <1>5, <2>1, <2>2, BegunKeeps, GuardsStay DEF Admins!CreateFind, AdminInv, Admins!TypeOK
<1>6. ASSUME NEW r \in Requests, Admins!CreateInsert(r) PROVE AdminInv'
  <2> DEFINE q == adminRequests[r]
  <2>1. q \in Admins!Request /\ q.target \in AdminUsers /\ q.new \in Admins!User
    BY <1>6 DEF Admins!CreateInsert, AdminInv, Admins!TypeOK, Admins!Request
  <2>2. [q EXCEPT !.pc = "link"] \in Admins!Request /\ Admins!Idle \in Admins!Request
    BY <1>6, <2>1 DEF Admins!CreateInsert, Admins!Idle, Admins!Request
  <2>3. users' \in [AdminUsers -> Admins!User] /\ \A u \in AdminUsers : users[u].exists
        => users'[u].exists
    BY <1>6, <2>1 DEF Admins!CreateInsert, AdminInv, Admins!TypeOK
  <2>4. \/ adminRequests' = [adminRequests EXCEPT ![r] = Admins!Idle]
        \/ adminRequests' = [adminRequests EXCEPT ![r] = [q EXCEPT !.pc = "link"]]
    BY <1>6 DEF Admins!CreateInsert, Admins!End
  <2>5. Admins!Idle.pc # "save" /\ [q EXCEPT !.pc = "link"].pc # "save"
    BY <1>6, <2>1 DEF Admins!CreateInsert, Admins!Idle, Admins!Request
  <2>6. QED
    BY <1>6, <2>2, <2>3, <2>4, <2>5, MovesOn, GuardsStay
       DEF Admins!CreateInsert, AdminInv, Admins!TypeOK
<1>7. ASSUME NEW r \in Requests, Admins!CreateLink(r) PROVE AdminInv'
  <2>1. roleRows' \in [AdminUsers -> [Admins!Roles -> Admins!RoleRow]]
    BY <1>7 DEF Admins!CreateLink, AdminInv, Admins!TypeOK, Admins!RoleRow
  <2>2. Admins!Idle \in Admins!Request /\ Admins!Idle.pc # "save"
        /\ adminRequests' = [adminRequests EXCEPT ![r] = Admins!Idle]
    BY <1>7 DEF Admins!CreateLink, Admins!End, Admins!Idle, Admins!Request
  <2>3. QED
    BY <1>7, <2>1, <2>2, MovesOn, GuardsStay DEF Admins!CreateLink, AdminInv, Admins!TypeOK
<1>8. ASSUME NEW r \in Requests, Admins!SyncClear(r) PROVE AdminInv'
  <2> DEFINE q == [adminRequests[r] EXCEPT !.pc = "find"]
  <2>1. roleRows' \in [AdminUsers -> [Admins!Roles -> Admins!RoleRow]]
    BY <1>8
       DEF Admins!SyncClear, Admins!Unmarked, Admins!Plain, AdminInv, Admins!TypeOK,
           Admins!RoleRow
  <2>2. q \in Admins!Request /\ q.pc # "save"
    BY <1>8 DEF Admins!SyncClear, AdminInv, Admins!TypeOK, Admins!Request
  <2>3. adminRequests' = [adminRequests EXCEPT ![r] = q]
    BY <1>8 DEF Admins!SyncClear
  <2>4. QED
    BY <1>8, <2>1, <2>2, <2>3, MovesOn, GuardsStay DEF Admins!SyncClear, AdminInv, Admins!TypeOK
<1>9. ASSUME NEW r \in Requests, Admins!SyncFind(r) PROVE AdminInv'
  <2> DEFINE q == [pc |-> "mark", target |-> adminRequests[r].target,
                 role |-> adminRequests[r].role,
                   found |-> roleRows[adminRequests[r].target][adminRequests[r].role],
                   alone |-> adminRequests[r].alone]
  <2>1. q \in Admins!Request
    BY <1>9 DEF Admins!SyncFind, AdminInv, Admins!TypeOK, Admins!Request
  <2>2. adminRequests' = [adminRequests EXCEPT ![r] = q]
    BY <1>9 DEF Admins!SyncFind
  <2>3. QED
    BY <1>9, <2>1, <2>2, MovesOn, GuardsStay DEF Admins!SyncFind, AdminInv, Admins!TypeOK
<1>10. ASSUME NEW r \in Requests, Admins!SyncMark(r) PROVE AdminInv'
  <2>1. roleRows' \in [AdminUsers -> [Admins!Roles -> Admins!RoleRow]]
    BY <1>10 DEF Admins!SyncMark, AdminInv, Admins!TypeOK, Admins!RoleRow
  <2>2. Admins!Idle \in Admins!Request /\ Admins!Idle.pc # "save"
        /\ adminRequests' = [adminRequests EXCEPT ![r] = Admins!Idle]
    BY <1>10 DEF Admins!SyncMark, Admins!End, Admins!Idle, Admins!Request
  <2>3. QED
    BY <1>10, <2>1, <2>2, MovesOn, GuardsStay DEF Admins!SyncMark, AdminInv, Admins!TypeOK
<1>11. ASSUME NEW r \in Requests, Admins!RequestFails(r) PROVE AdminInv'
  <2>1. Admins!Idle \in Admins!Request /\ Admins!Idle.pc # "save"
        /\ adminRequests' = [adminRequests EXCEPT ![r] = Admins!Idle]
    BY <1>11 DEF Admins!RequestFails, Admins!End, Admins!Idle, Admins!Request
  <2>2. QED
    BY <1>11, <2>1, MovesOn, GuardsStay DEF Admins!RequestFails, AdminInv, Admins!TypeOK
<1>12. ASSUME NEW u \in AdminUsers, Admins!TokenExpires(u) PROVE AdminInv'
  BY <1>12, GuardsStay DEF Admins!TokenExpires, AdminInv, Admins!TypeOK
<1>13. CASE UNCHANGED Admins!vars
  BY <1>13, GuardsStay DEF Admins!vars, AdminInv, Admins!TypeOK
<1>14. QED
  BY <1>1, <1>2, <1>3, <1>4, <1>5, <1>6, <1>7, <1>8, <1>9, <1>10, <1>11, <1>12, <1>13
     DEF Admins!Next, Admins!RequestStep

LEMMA AdminAlways == Admins!Spec => []AdminInv
<1>1. Admins!Init => AdminInv
  BY AdminInit
<1>2. AdminInv /\ [Admins!Next]_(Admins!vars) => AdminInv'
  BY AdminNext
<1>3. QED
  BY <1>1, <1>2, PTL DEF Admins!Spec

\* An administrator who saves a change is one afterwards, whoever the change is about.
LEMMA ActorStays ==
    ASSUME AdminInv, NEW r \in Requests, Admins!ChangeSave(r),
           adminRequests[r].op # "membership", adminRequests[r].actor \in Admins!ActiveAdmins
    PROVE  Admins!ActiveAdmins' # {}
<1> DEFINE q == adminRequests[r]
<1>1. /\ q.target \in AdminUsers /\ q.read \in Admins!User /\ q.new \in Admins!User
      /\ q.op \in {"role", "status", "ensure", "membership"} /\ Guarded(q)
  BY DEF Admins!ChangeSave, AdminInv, Admins!TypeOK, Admins!Request
<1>2. q.actor \in AdminUsers /\ users[q.actor].role = "admin" /\ users[q.actor].active
  BY DEF Admins!ActiveAdmins, Admins!IsActiveAdmin
<1>3. q.op \in {"role", "status"} /\ Admins!MayChange(q.op, q.actor, q.target, q.new)
  BY <1>1, <1>2, AdminAssumption DEF Guarded
<1>4. users' = [users EXCEPT ![q.target] =
          [users[q.target] EXCEPT !.role =
              Admins!Merged(users[q.target].role, q.read.role, q.new.role),
                                  !.active = Admins!Merged(users[q.target].active, q.read.active,
                                                    q.new.active)]]
  BY <1>1 DEF Admins!ChangeSave, AdminInv, Admins!TypeOK
<1>5. CASE q.actor # q.target
  <2>1. users'[q.actor] = users[q.actor]
    BY <1>1, <1>2, <1>4, <1>5 DEF AdminInv, Admins!TypeOK
  <2>2. QED
    BY <1>2, <2>1 DEF Admins!ActiveAdmins, Admins!IsActiveAdmin
<1>6. CASE q.actor = q.target
  <2>1. users[q.target] \in Account
    BY <1>1, UserFields DEF Guarded, AdminInv, Admins!TypeOK
  <2>2. /\ users'[q.target].role = Admins!Merged(users[q.target].role, q.read.role, q.new.role)
        /\ users'[q.target].active = Admins!Merged(users[q.target].active, q.read.active,
               q.new.active)
    BY <1>1, <1>4, <2>1 DEF AdminInv, Admins!TypeOK, Account
  <2>3. users'[q.target].role = "admin" /\ users'[q.target].active
    <3>1. CASE q.op = "role"
      <4>1. q.new.role = "admin" /\ q.new.active = q.read.active
        BY <1>1, <1>3, <1>6, <3>1 DEF Guarded, Admins!MayChange
      <4>2. QED
        BY <1>2, <1>6, <2>2, <4>1 DEF Admins!Merged
    <3>2. CASE q.op = "status"
      <4>1. q.new.active /\ q.new.role = q.read.role
        BY <1>1, <1>3, <1>6, <3>2 DEF Guarded, Admins!MayChange
      <4>2. users'[q.target].role = "admin"
        BY <1>2, <1>6, <2>2, <4>1 DEF Admins!Merged
      <4>3. users'[q.target].active
        BY <1>2, <1>6, <2>2, <4>1 DEF Admins!Merged
      <4>4. QED
        BY <4>2, <4>3
    <3>3. QED
      BY <1>3, <3>1, <3>2
  <2>4. QED
    BY <1>1, <2>3 DEF Admins!ActiveAdmins, Admins!IsActiveAdmin
<1>7. QED
  BY <1>5, <1>6

\* Only a saved change takes an administrator away: an account that is created was none.
LEMMA OnlySavesTake ==
    ASSUME AdminInv, [Admins!Next]_(Admins!vars), Admins!ActiveAdmins # {},
           Admins!ActiveAdmins' = {}
    PROVE  \E r \in Requests : Admins!ChangeSave(r)
<1>1. PICK a \in AdminUsers : users[a].role = "admin" /\ users[a].active
  BY DEF Admins!ActiveAdmins, Admins!IsActiveAdmin
<1>2. users'[a] # users[a]
  BY <1>1 DEF Admins!ActiveAdmins, Admins!IsActiveAdmin
<1>3. ASSUME NEW r \in Requests, Admins!CreateInsert(r) PROVE FALSE
  <2>1. users[a].exists
    BY <1>1, UserFields DEF AdminInv, Admins!TypeOK
  <2>2. QED
    BY <1>2, <1>3, <2>1 DEF Admins!CreateInsert, AdminInv, Admins!TypeOK
<1>4. QED
  BY <1>2, <1>3
     DEF Admins!Next, Admins!RequestStep, Admins!vars, Admins!LoginRead, Admins!LoginSign,
         Admins!ChangeRead, Admins!CreateFind, Admins!CreateLink, Admins!SyncClear,
         Admins!SyncFind, Admins!SyncMark, Admins!RequestFails, Admins!TokenExpires

\* The last active administrator is lost only to a membership, or to the change of someone
\* who is no active administrator any more while his token lives or his request is going on:
\* guards that refuse only oneself (admin-user.service.ts) cannot be beaten otherwise,
\* however many administrators change each other at once.
THEOREM LastAdminLost == Admins!Spec => Admins!LastAdminExplained
<1>1. AdminInv /\ [Admins!Next]_(Admins!vars) => Admins!LastAdminExplainedStep
  <2> SUFFICES ASSUME AdminInv, [Admins!Next]_(Admins!vars), Admins!ActiveAdmins # {},
                      Admins!ActiveAdmins' = {}
               PROVE  \E r \in Requests : /\ adminRequests[r].pc = "save"
                                          /\ adminRequests'[r] # adminRequests[r]
                                          /\ \/ adminRequests[r].op = "membership"
                                             \/ adminRequests[r].actor \notin Admins!ActiveAdmins
    BY DEF Admins!LastAdminExplainedStep
  <2>1. PICK r \in Requests : Admins!ChangeSave(r)
    BY OnlySavesTake
  <2>2. adminRequests[r].op = "membership" \/ adminRequests[r].actor \notin Admins!ActiveAdmins
    BY <2>1, ActorStays
  <2>3. adminRequests[r].pc = "save"
    BY <2>1 DEF Admins!ChangeSave
  <2>4. adminRequests'[r].pc \in {"idle", "clear"}
    BY <2>1 DEF Admins!ChangeSave, Admins!End, Admins!SetRequest, Admins!Idle, AdminInv,
       Admins!TypeOK
  <2>5. QED
    BY <2>2, <2>3, <2>4
<1>2. QED
  BY <1>1, AdminAlways, PTL DEF Admins!Spec, Admins!LastAdminExplained
-----------------------------------------------------------------------------
(* A role change that meets no other                                         *)

Busy(q) == q.pc \notin {"idle", "sign"}

\* What a call that meets no other knows of its user's account and role rows.
Knows(q, user, rows) ==
    /\ q.pc = "save" => user = q.read
    /\ q.pc \in {"clear", "find", "mark"} => user.role = q.role
    /\ q.pc \in {"find", "mark"} => \A x \in Admins!Roles : rows[x] # "primary"
    /\ q.pc = "mark" => q.found = rows[q.role]

RolesAloneInv ==
    \A r \in Requests : Busy(adminRequests[r]) /\ adminRequests[r].alone =>
        LET u == adminRequests[r].target IN
        Admins!Lone(r, u) /\ Knows(adminRequests[r], users[u], roleRows[u])

\* A call moves on, or ends, and changes nothing but what is its user's.
LEMMA AloneMoves ==
    ASSUME Admins!TypeOK, RolesAloneInv, NEW p \in Requests, NEW q,
           adminRequests' = [adminRequests EXCEPT ![p] = q],
           Busy(q) => /\ Busy(adminRequests[p])
                      /\ q.target = adminRequests[p].target /\ q.alone = adminRequests[p].alone
                      /\ q.alone => Knows(q, users'[q.target], roleRows'[q.target]),
           \A u \in AdminUsers : ~Admins!IsFor(p, u) => users'[u] = users[u]
           /\ roleRows'[u] = roleRows[u]
    PROVE  RolesAloneInv'
<1> SUFFICES ASSUME NEW r \in Requests, Busy(adminRequests'[r]), adminRequests'[r].alone
             PROVE  /\ \A s \in Requests \ {r} :
                        ~(Busy(adminRequests'[s])
                            /\ adminRequests'[s].target = adminRequests'[r].target)
                    /\ Knows(adminRequests'[r], users'[adminRequests'[r].target],
                             roleRows'[adminRequests'[r].target])
  BY DEF RolesAloneInv, Admins!Lone, Admins!IsFor, Busy
<1>1. \A s \in Requests : adminRequests'[s] = IF s = p THEN q ELSE adminRequests[s]
  BY DEF Admins!TypeOK
<1>2. \A s \in Requests : Busy(adminRequests'[s]) =>
        Busy(adminRequests[s]) /\ adminRequests'[s].target = adminRequests[s].target
  BY <1>1
<1>3. Busy(adminRequests[r]) /\ adminRequests[r].alone
      /\ adminRequests'[r].target = adminRequests[r].target
  BY <1>1
<1> DEFINE t == adminRequests[r].target
<1>4. Admins!Lone(r, t) /\ Knows(adminRequests[r], users[t], roleRows[t]) /\ t \in AdminUsers
  BY <1>3 DEF RolesAloneInv, Admins!TypeOK, Admins!Request, Busy
<1>5. \A s \in Requests \ {r} : ~(Busy(adminRequests'[s]) /\ adminRequests'[s].target = t)
  BY <1>2, <1>4 DEF Admins!Lone, Admins!IsFor, Busy
<1>6. Knows(adminRequests'[r], users'[t], roleRows'[t])
  <2>1. CASE r = p
    BY <1>1, <1>3, <2>1
  <2>2. CASE r # p
    <3>1. ~Admins!IsFor(p, t)
      BY <1>4, <2>2 DEF Admins!Lone
    <3>2. adminRequests'[r] = adminRequests[r]
      BY <1>1, <2>2
    <3>3. QED
      BY <1>4, <3>1, <3>2
  <2>3. QED
    BY <2>1, <2>2
<1>7. QED
  BY <1>3, <1>5, <1>6

\* A call begins: those at the same user meet it.
LEMMA AloneBegins ==
    ASSUME Admins!TypeOK, RolesAloneInv, NEW p \in Requests, adminRequests[p].pc = "idle",
           NEW q \in Admins!Request,
           adminRequests' = Admins!Begun(p, q), Busy(q), q.alone = Admins!Lone(p, q.target),
           Knows(q, users[q.target], roleRows[q.target]),
           users' = users, roleRows' = roleRows
    PROVE  RolesAloneInv'
<1> SUFFICES ASSUME NEW r \in Requests, Busy(adminRequests'[r]), adminRequests'[r].alone
             PROVE  /\ \A s \in Requests \ {r} :
                        ~(Busy(adminRequests'[s])
                            /\ adminRequests'[s].target = adminRequests'[r].target)
                    /\ Knows(adminRequests'[r], users[adminRequests'[r].target],
                             roleRows[adminRequests'[r].target])
  BY DEF RolesAloneInv, Admins!Lone, Admins!IsFor, Busy
<1>1. ASSUME NEW s \in Requests
      PROVE  /\ s = p => adminRequests'[s] = q
             /\ s # p /\ Admins!IsFor(s, q.target) =>
                    ~adminRequests'[s].alone /\ adminRequests'[s].pc = adminRequests[s].pc
                    /\ adminRequests'[s].target = adminRequests[s].target
             /\ s # p /\ ~Admins!IsFor(s, q.target) => adminRequests'[s] = adminRequests[s]
  <2>1. CASE s # p /\ Admins!IsFor(s, q.target)
    <3>1. adminRequests'[s] = [adminRequests[s] EXCEPT !.alone = FALSE]
      BY <2>1 DEF Admins!Begun
    <3>2. adminRequests[s] \in Admins!Request
      BY DEF Admins!TypeOK
    <3>3. QED
      BY <2>1, <3>1, <3>2 DEF Admins!IsFor, Admins!Request
  <2>2. CASE ~(s # p /\ Admins!IsFor(s, q.target))
    BY <2>2 DEF Admins!Begun
  <2>3. QED
    BY <2>1, <2>2
<1>2. CASE r = p
  <2>1. adminRequests'[r] = q /\ Admins!Lone(p, q.target)
    BY <1>1, <1>2
  <2>2. ASSUME NEW s \in Requests \ {r}
        PROVE  ~(Busy(adminRequests'[s]) /\ adminRequests'[s].target = q.target)
    BY <1>1, <1>2, <2>1 DEF Admins!Lone, Admins!IsFor, Busy
  <2>3. QED
    BY <2>1, <2>2
<1>3. CASE r # p
  <2>1. ~Admins!IsFor(r, q.target) /\ adminRequests'[r] = adminRequests[r]
    BY <1>1, <1>3
  <2> DEFINE t == adminRequests[r].target
  <2>2. Admins!Lone(r, t) /\ Knows(adminRequests[r], users[t], roleRows[t]) /\ q.target # t
    BY <2>1 DEF RolesAloneInv, Admins!IsFor, Busy
  <2>3. ASSUME NEW s \in Requests \ {r}, Busy(adminRequests'[s]), adminRequests'[s].target = t
        PROVE  FALSE
    <3>1. s # p
      BY <1>1, <2>2, <2>3
    <3>2. Busy(adminRequests[s]) /\ adminRequests[s].target = t
      BY <1>1, <2>3, <3>1 DEF Busy
    <3>3. QED
      BY <2>2, <3>2 DEF Admins!Lone, Admins!IsFor, Busy
  <2>4. QED
    BY <2>1, <2>2, <2>3
<1>4. QED
  BY <1>2, <1>3

LEMMA RolesAloneNext ==
    ASSUME AdminInv, RolesAloneInv, [Admins!Next]_(Admins!vars) PROVE RolesAloneInv'
<1>0. Admins!TypeOK
  BY DEF AdminInv
<1>1. ASSUME NEW p \in Requests, Admins!LoginRead(p) PROVE RolesAloneInv'
  <2>1. PICK u \in Admins!ActiveAdmins :
             adminRequests' = [adminRequests EXCEPT ![p] = [pc |-> "sign", target |-> u]]
    BY <1>1 DEF Admins!LoginRead, Admins!SetRequest
  <2>2. ~Busy([pc |-> "sign", target |-> u])
    BY DEF Busy
  <2>3. users' = users /\ roleRows' = roleRows
    BY <1>1 DEF Admins!LoginRead
  <2>4. QED
    BY <1>0, <2>1, <2>2, <2>3, AloneMoves
<1>2. ASSUME NEW p \in Requests, Admins!LoginSign(p) \/ Admins!RequestFails(p) PROVE RolesAloneInv'
  <2>1. adminRequests' = [adminRequests EXCEPT ![p] = Admins!Idle] /\ users' = users
        /\ roleRows' = roleRows
    BY <1>2 DEF Admins!LoginSign, Admins!RequestFails, Admins!End, Admins!SetRequest
  <2>2. ~Busy(Admins!Idle)
    BY DEF Busy, Admins!Idle
  <2>3. QED
    BY <1>0, <2>1, <2>2, AloneMoves
<1>3. ASSUME NEW p \in Requests, Admins!ChangeRead(p) PROVE RolesAloneInv'
  <2>1. PICK op \in calls \ {"login", "create"}, actor \in tokens \cup {Nobody}, u \in AdminUsers :
          /\ Admins!MayCall(op, actor, u)
          /\ users[u].exists
          /\ \E new \in Admins!Change(op, u) :
                adminRequests' = Admins!Begun(p,
                    [pc |-> "save", op |-> op, actor |-> actor, target |-> u,
                                      read |-> users[u], new |-> new, alone |-> Admins!Lone(p, u)])
    BY <1>3 DEF Admins!ChangeRead
  <2>2. PICK new \in Admins!Change(op, u) :
            adminRequests' = Admins!Begun(p,
                [pc |-> "save", op |-> op, actor |-> actor, target |-> u,
                                  read |-> users[u], new |-> new, alone |-> Admins!Lone(p, u)])
    BY <2>1
  <2> DEFINE q == [pc |-> "save", op |-> op, actor |-> actor, target |-> u,
                   read |-> users[u], new |-> new, alone |-> Admins!Lone(p, u)]
  <2>3. q \in Admins!Request
    <3>1. op \in {"role", "status", "ensure", "membership"}
      BY <2>1, <1>0 DEF Admins!TypeOK, Admins!Calls
    <3>2. users[u] \in Admins!User /\ users[u] \in Account
      BY <1>0, <2>1, UserFields DEF Admins!TypeOK
    <3>3. new \in Admins!User
      BY <3>1, <3>2, Changes DEF Admins!User, Account
    <3>4. actor \in AdminUsers \cup {Nobody}
      BY <1>0, <2>1 DEF Admins!TypeOK
    <3>5. QED
      BY <3>1, <3>2, <3>3, <3>4 DEF Admins!Request, Admins!Lone
  <2>4. /\ q.pc = "save" /\ q.target = u /\ q.read = users[u] /\ q.alone = Admins!Lone(p, u)
        /\ adminRequests' = Admins!Begun(p, q)
    BY <2>2
  <2>5. adminRequests[p].pc = "idle" /\ users' = users /\ roleRows' = roleRows
    BY <1>3 DEF Admins!ChangeRead
  <2> HIDE DEF q
  <2>6. Busy(q) /\ Knows(q, users[q.target], roleRows[q.target])
    BY <2>4 DEF Busy, Knows
  <2>7. QED
    BY <1>0, <2>3, <2>4, <2>5, <2>6, AloneBegins
<1>4. ASSUME NEW p \in Requests, Admins!CreateFind(p) PROVE RolesAloneInv'
  <2>1. PICK u \in AdminUsers, role \in Admins!Roles :
          adminRequests' = Admins!Begun(p,
              [pc |-> "insert", target |-> u, alone |-> Admins!Lone(p, u),
                                new |-> [exists |-> TRUE, role |-> role, active |-> TRUE]])
    BY <1>4 DEF Admins!CreateFind
  <2> DEFINE q == [pc |-> "insert", target |-> u, alone |-> Admins!Lone(p, u),
                   new |-> [exists |-> TRUE, role |-> role, active |-> TRUE]]
  <2>2. q \in Admins!Request
    BY DEF Admins!Request, Admins!User, Admins!Lone
  <2>3. q.pc = "insert" /\ q.target = u /\ q.alone = Admins!Lone(p, u)
        /\ adminRequests' = Admins!Begun(p, q)
    BY <2>1
  <2>4. adminRequests[p].pc = "idle" /\ users' = users /\ roleRows' = roleRows
    BY <1>4 DEF Admins!CreateFind
  <2> HIDE DEF q
  <2>5. Busy(q) /\ Knows(q, users[q.target], roleRows[q.target])
    BY <2>3 DEF Busy, Knows
  <2>6. QED
    BY <1>0, <2>2, <2>3, <2>4, <2>5, AloneBegins
<1>5. ASSUME NEW p \in Requests, Admins!ChangeSave(p) PROVE RolesAloneInv'
  <2> DEFINE x == adminRequests[p]
             q == [pc |-> "clear", target |-> x.target, role |-> x.new.role, alone |-> x.alone]
             role == Admins!Merged(users[x.target].role, x.read.role, x.new.role)
             active == Admins!Merged(users[x.target].active, x.read.active, x.new.active)
  <2>1. x.pc = "save" /\ x.target \in AdminUsers /\ x.read \in Admins!User /\ x.new \in Admins!User
    BY <1>0, <1>5 DEF Admins!ChangeSave, Admins!TypeOK, Admins!Request
  <2>2. users' = [users EXCEPT ![x.target] =
            [users[x.target] EXCEPT !.role = role, !.active = active]]
        /\ roleRows' = roleRows
    BY <1>0, <1>5, <2>1 DEF Admins!ChangeSave, Admins!TypeOK
  <2>3. \A u \in AdminUsers : ~Admins!IsFor(p, u) => users'[u] = users[u]
        /\ roleRows'[u] = roleRows[u]
    BY <1>0, <2>1, <2>2 DEF Admins!IsFor, Admins!TypeOK
  <2>4. CASE adminRequests' = [adminRequests EXCEPT ![p] = Admins!Idle]
    <3>1. ~Busy(Admins!Idle)
      BY DEF Busy, Admins!Idle
    <3>2. QED
      BY <1>0, <2>3, <2>4, <3>1, AloneMoves
  <2>5. CASE adminRequests' = [adminRequests EXCEPT ![p] = q]
    <3>1. /\ q.pc = "clear" /\ q.target = x.target /\ q.alone = x.alone
          /\ q.role = x.new.role /\ Busy(x)
      BY <2>1 DEF Busy
    <3>2. ASSUME x.alone PROVE users'[x.target].role = x.new.role
      <4>1. users[x.target] = x.read
        BY <2>1, <3>1, <3>2 DEF RolesAloneInv, Knows
      <4>2. users[x.target] \in Account
        BY <1>5, <2>1, <4>1, UserFields DEF AdminInv, Guarded
      <4>3. users'[x.target].role = role
        BY <1>0, <2>1, <2>2, <4>2 DEF Admins!TypeOK, Account
      <4>4. QED
        BY <4>1, <4>3 DEF Admins!Merged
    <3> HIDE DEF q
    <3>3. q.alone => Knows(q, users'[q.target], roleRows'[q.target])
      BY <3>1, <3>2 DEF Knows
    <3>4. QED
      BY <1>0, <2>3, <2>5, <3>1, <3>3, AloneMoves
  <2>6. QED
    BY <1>5, <2>4, <2>5 DEF Admins!ChangeSave, Admins!End, Admins!SetRequest
<1>6. ASSUME NEW p \in Requests, Admins!CreateInsert(p) PROVE RolesAloneInv'
  <2> DEFINE x == adminRequests[p]
             q == [x EXCEPT !.pc = "link"]
  <2>1. x.pc = "insert" /\ x.target \in AdminUsers /\ x \in Admins!Request
    BY <1>0, <1>6 DEF Admins!CreateInsert, Admins!TypeOK, Admins!Request
  <2>2. \A u \in AdminUsers : ~Admins!IsFor(p, u) => users'[u] = users[u]
        /\ roleRows'[u] = roleRows[u]
    BY <1>0, <1>6, <2>1 DEF Admins!CreateInsert, Admins!IsFor, Admins!TypeOK
  <2>3. q.pc = "link" /\ q.target = x.target /\ q.alone = x.alone /\ Busy(x)
    BY <2>1 DEF Admins!Request, Busy
  <2>4. ~Busy(Admins!Idle)
    BY DEF Busy, Admins!Idle
  <2>5. adminRequests' = [adminRequests EXCEPT ![p] = Admins!Idle]
        \/ adminRequests' = [adminRequests EXCEPT ![p] = q]
    BY <1>6 DEF Admins!CreateInsert, Admins!End, Admins!SetRequest
  <2> HIDE DEF q
  <2>6. Knows(q, users'[q.target], roleRows'[q.target])
    BY <2>3 DEF Knows
  <2>7. QED
    BY <1>0, <2>2, <2>3, <2>4, <2>5, <2>6, AloneMoves
<1>7. ASSUME NEW p \in Requests, Admins!CreateLink(p) \/ Admins!SyncMark(p) PROVE RolesAloneInv'
  <2>1. adminRequests' = [adminRequests EXCEPT ![p] = Admins!Idle] /\ users' = users
    BY <1>7 DEF Admins!CreateLink, Admins!SyncMark, Admins!End, Admins!SetRequest
  <2>2. \A u \in AdminUsers : ~Admins!IsFor(p, u) => roleRows'[u] = roleRows[u]
    BY <1>0, <1>7 DEF Admins!CreateLink, Admins!SyncMark, Admins!IsFor, Admins!TypeOK
  <2>3. ~Busy(Admins!Idle)
    BY DEF Busy, Admins!Idle
  <2>4. QED
    BY <1>0, <2>1, <2>2, <2>3, AloneMoves
<1>8. ASSUME NEW p \in Requests, Admins!SyncClear(p) PROVE RolesAloneInv'
  <2> DEFINE x == adminRequests[p]
             q == [x EXCEPT !.pc = "find"]
  <2>1. x.pc = "clear" /\ x.target \in AdminUsers /\ x \in Admins!Request /\ users' = users
        /\ adminRequests' = [adminRequests EXCEPT ![p] = q]
    BY <1>0, <1>8 DEF Admins!SyncClear, Admins!TypeOK, Admins!Request
  <2>2. roleRows' = [roleRows EXCEPT ![x.target] =
            [y \in Admins!Roles |-> Admins!Plain(roleRows[x.target][y])]]
    BY <1>8 DEF Admins!SyncClear, Admins!Unmarked
  <2>3. \A u \in AdminUsers : ~Admins!IsFor(p, u) => roleRows'[u] = roleRows[u]
    BY <1>0, <2>1, <2>2 DEF Admins!IsFor, Admins!TypeOK
  <2>4. /\ q.pc = "find" /\ q.target = x.target /\ q.alone = x.alone /\ q.role = x.role
        /\ Busy(x)
    BY <2>1 DEF Admins!Request, Busy
  <2>5. \A y \in Admins!Roles : roleRows'[x.target][y] # "primary"
    BY <1>0, <2>1, <2>2 DEF Admins!TypeOK, Admins!Plain
  <2>6. x.alone => users[x.target].role = x.role
    BY <2>1, <2>4 DEF RolesAloneInv, Knows
  <2> HIDE DEF q
  <2>7. q.alone => Knows(q, users'[q.target], roleRows'[q.target])
    BY <2>1, <2>4, <2>5, <2>6 DEF Knows
  <2>8. QED
    BY <1>0, <2>1, <2>3, <2>4, <2>7, AloneMoves
<1>9. ASSUME NEW p \in Requests, Admins!SyncFind(p) PROVE RolesAloneInv'
  <2> DEFINE x == adminRequests[p]
             q == [pc |-> "mark", target |-> x.target, role |-> x.role,
                   found |-> roleRows[x.target][x.role], alone |-> x.alone]
  <2>1. x.pc = "find" /\ users' = users /\ roleRows' = roleRows
        /\ adminRequests' = [adminRequests EXCEPT ![p] = q]
    BY <1>9 DEF Admins!SyncFind, Admins!SetRequest
  <2>2. /\ q.pc = "mark" /\ q.target = x.target /\ q.alone = x.alone /\ q.role = x.role
        /\ q.found = roleRows[x.target][x.role] /\ Busy(x)
    BY <2>1 DEF Busy
  <2>3. x.alone => Knows(x, users[x.target], roleRows[x.target])
    BY <2>2 DEF RolesAloneInv
  <2> HIDE DEF q
  <2>4. q.alone => Knows(q, users'[q.target], roleRows'[q.target])
    BY <2>1, <2>2, <2>3 DEF Knows
  <2>5. QED
    BY <1>0, <2>1, <2>2, <2>4, AloneMoves
<1>10. CASE UNCHANGED Admins!vars \/ \E u \in AdminUsers : Admins!TokenExpires(u)
  BY <1>10 DEF Admins!vars, Admins!TokenExpires, RolesAloneInv, Admins!Lone, Admins!IsFor, Busy
<1>11. QED
  BY <1>1, <1>2, <1>3, <1>4, <1>5, <1>6, <1>7, <1>8, <1>9, <1>10 DEF Admins!Next, Admins!RequestStep

\* A request that marks does so by its own step.
LEMMA MarksItself ==
    ASSUME AdminInv, [Admins!Next]_(Admins!vars), NEW r \in Requests, Admins!Marks(r)
    PROVE  Admins!SyncMark(r)
<1>1. adminRequests[r].pc = "mark" /\ adminRequests'[r].pc = "idle" /\ roleRows' # roleRows
  BY DEF Admins!Marks, Admins!Idle
<1>2. ASSUME NEW p \in Requests, NEW q, adminRequests' = [adminRequests EXCEPT ![p] = q], p # r
      PROVE  FALSE
  BY <1>1, <1>2 DEF AdminInv, Admins!TypeOK
<1>3. ASSUME NEW p \in Requests, Admins!CreateLink(p) \/ Admins!SyncClear(p) \/ Admins!SyncMark(p)
      PROVE  p = r
  <2>1. \E q : adminRequests' = [adminRequests EXCEPT ![p] = q]
    BY <1>3 DEF Admins!CreateLink, Admins!SyncClear, Admins!SyncMark, Admins!End, Admins!SetRequest
  <2>2. QED
    BY <1>2, <2>1
<1>4. ~Admins!CreateLink(r) /\ ~Admins!SyncClear(r)
  BY <1>1 DEF Admins!CreateLink, Admins!SyncClear
<1>5. PICK p \in Requests : Admins!CreateLink(p) \/ Admins!SyncClear(p) \/ Admins!SyncMark(p)
  BY <1>1
     DEF Admins!Next, Admins!RequestStep, Admins!vars, Admins!LoginRead, Admins!LoginSign,
         Admins!ChangeRead, Admins!ChangeSave, Admins!CreateFind, Admins!CreateInsert,
         Admins!SyncFind, Admins!RequestFails, Admins!TokenExpires
<1>6. QED
  BY <1>3, <1>4, <1>5

\* syncPrimaryUserRole of a role change that met no other of the user leaves him one
\* primary role, his own, whatever rows earlier overlaps and failures left behind, for
\* any number of accounts and calls.
THEOREM LoneChangeHealsRoles == Admins!Spec => Admins!LoneChangeHeals
<1>1. Admins!Init => RolesAloneInv
  BY DEF Admins!Init, RolesAloneInv, Admins!Idle, Busy
<1>2. AdminInv /\ RolesAloneInv /\ [Admins!Next]_(Admins!vars) => RolesAloneInv'
  BY RolesAloneNext
<1>3. AdminInv /\ RolesAloneInv /\ [Admins!Next]_(Admins!vars) => Admins!LoneChangeHealsStep
  <2> SUFFICES ASSUME AdminInv, RolesAloneInv, [Admins!Next]_(Admins!vars), NEW r \in Requests,
                      Admins!Marks(r),
                      adminRequests[r].alone, NEW role \in Admins!Roles
               PROVE  roleRows'[adminRequests[r].target][role] = "primary"
                        <=> role = users'[adminRequests[r].target].role
    BY DEF Admins!LoneChangeHealsStep
  <2> DEFINE q == adminRequests[r]
             u == q.target
  <2>1. Admins!SyncMark(r) /\ q.pc = "mark"
    BY MarksItself DEF Admins!Marks
  <2>2. u \in AdminUsers /\ q.role \in Admins!Roles
        /\ roleRows \in [AdminUsers -> [Admins!Roles -> Admins!RoleRow]]
        /\ users' = users
    BY <2>1 DEF Admins!SyncMark, AdminInv, Admins!TypeOK, Admins!Request
  <2>3. Knows(q, users[u], roleRows[u])
    BY <2>1 DEF RolesAloneInv, Busy
  <2>4. /\ users[u].role = q.role /\ q.found = roleRows[u][q.role]
        /\ \A x \in Admins!Roles : roleRows[u][x] # "primary"
    BY <2>1, <2>3 DEF Knows
  <2>5. roleRows' = [roleRows EXCEPT ![u][q.role] =
            IF q.found = "plain" \/ q.found = @ THEN "primary" ELSE @]
    BY <2>1 DEF Admins!SyncMark
  <2>6. roleRows'[u][q.role] = "primary"
        /\ \A x \in Admins!Roles : x # q.role => roleRows'[u][x] = roleRows[u][x]
    BY <2>2, <2>4, <2>5
  <2>7. QED
    BY <2>2, <2>4, <2>6
<1>4. QED
  BY <1>1, <1>2, <1>3, AdminAlways, PTL DEF Admins!Spec, Admins!LoneChangeHeals

-----------------------------------------------------------------------------
-----------------------------------------------------------------------------
(* The default pair *)

\* An update that clears the default was asked for one.
ClearsAsked ==
    \A r \in Requests : pairRequests[r].pc = "unset" => pairRequests[r].body.default = "on"

\* What a request that met no other has before it: the row as it read it and, where it
\* is to make its pair the default, no other default.
Prepared(r) ==
    LET q == pairRequests[r] IN
    /\ q.pc \in {"check", "unset", "write"} => pairs[q.id] = q.read
    /\ q.pc = "insert" /\ q.body.default = "on" => Symbols!Defaults = {}
    /\ q.pc = "write" /\ q.body.default = "on" => Symbols!Defaults \subseteq {q.id}

AloneInv ==
    \A r \in Requests :
        pairRequests[r].pc # "idle" /\ pairRequests[r].alone => Symbols!Lone(r) /\ Prepared(r)

PairInv == Symbols!TypeOK /\ ClearsAsked /\ AloneInv

LEMMA PairInit == ASSUME Symbols!Init PROVE PairInv
<1>1. pairs \in [PairIds -> Symbols!Row]
  <2>1. {Symbols!Absent} \cup [name : PairNames, default : {FALSE}, active : {TRUE}]
            \subseteq Symbols!Row
    <3>1. Symbols!Absent \in Symbols!Row
      BY DEF Symbols!Row, Symbols!Absent
    <3>2. {FALSE} \subseteq BOOLEAN /\ {TRUE} \subseteq BOOLEAN
      OBVIOUS
    <3>3. [name : PairNames, default : {FALSE}, active : {TRUE}] \subseteq Symbols!Row
      BY <3>2 DEF Symbols!Row
    <3>4. QED
      BY <3>1, <3>3
  <2>2. QED
    BY <2>1 DEF Symbols!Init
<1>2. \A r \in Requests : pairRequests[r] = Symbols!Idle
  BY DEF Symbols!Init
<1>3. pairRequests \in [Requests -> Symbols!Request]
  BY DEF Symbols!Init, Symbols!Idle, Symbols!Request
<1>4. QED
  BY <1>1, <1>2, <1>3 DEF PairInv, Symbols!TypeOK, ClearsAsked, AloneInv, Symbols!Idle

\* A request in progress moves on or ends: it was alone, or nobody is.
LEMMA PairMoves ==
    ASSUME PairInv, NEW r \in Requests, pairRequests[r].pc # "idle",
           pairs' \in [PairIds -> Symbols!Row],
           NEW q \in Symbols!Request, pairRequests' = [pairRequests EXCEPT ![r] = q],
           q.pc # "idle" => q.alone = pairRequests[r].alone,
           q.pc = "unset" => q.body.default = "on",
           q.pc # "idle" /\ q.alone => Prepared(r)'
    PROVE  PairInv'
<1>1. pairRequests'[r] = q /\ \A p \in Requests : p # r => pairRequests'[p] = pairRequests[p]
  BY DEF PairInv, Symbols!TypeOK
<1>2. Symbols!TypeOK'
  BY DEF PairInv, Symbols!TypeOK
<1>3. ClearsAsked'
  BY <1>1 DEF PairInv, ClearsAsked
<1>4. \A p \in Requests : p # r => ~(pairRequests[p].pc # "idle" /\ pairRequests[p].alone)
  BY DEF PairInv, AloneInv, Symbols!Lone
<1>5. q.pc # "idle" /\ q.alone => Symbols!Lone(r)'
  BY <1>1 DEF PairInv, AloneInv, Symbols!Lone
<1>6. AloneInv'
  BY <1>1, <1>4, <1>5 DEF AloneInv
<1>7. QED
  BY <1>2, <1>3, <1>6 DEF PairInv

\* A request begins: those in progress have met another.
LEMMA PairBegins ==
    ASSUME PairInv, NEW r \in Requests, pairRequests[r].pc = "idle",
           UNCHANGED pairs,
           NEW q \in Symbols!Request, pairRequests' = Symbols!Begun(r, q),
           q.pc \in {"clear", "insert", "check", "unset", "write"},
           q.alone = Symbols!Lone(r),
           q.pc = "unset" => q.body.default = "on",
           Prepared(r)'
    PROVE  PairInv'
<1>1. /\ pairRequests'[r] = q
      /\ \A p \in Requests : p # r =>
            pairRequests'[p] = IF pairRequests[p].pc = "idle" THEN Symbols!Idle
                               ELSE [pairRequests[p] EXCEPT !.alone = FALSE]
  BY DEF Symbols!Begun
<1>2. ASSUME NEW p \in Requests, p # r
      PROVE  /\ pairRequests'[p] \in Symbols!Request
             /\ pairRequests'[p].pc = pairRequests[p].pc
             /\ pairRequests'[p].pc # "idle" => /\ ~pairRequests'[p].alone
                                                /\ pairRequests'[p].body = pairRequests[p].body
  <2>1. CASE pairRequests[p].pc = "idle"
    <3>1. pairRequests'[p] = Symbols!Idle
      BY <1>1, <1>2, <2>1
    <3>2. Symbols!Idle \in Symbols!Request /\ Symbols!Idle.pc = "idle"
      BY DEF Symbols!Idle, Symbols!Request
    <3>3. QED
      BY <2>1, <3>1, <3>2
  <2>2. CASE pairRequests[p].pc # "idle"
    <3>1. pairRequests[p] \in Symbols!Request
      BY DEF PairInv, Symbols!TypeOK
    <3> DEFINE x == pairRequests[p]
    <3>2. CASE x \in [pc : {"clear", "insert"}, body : Symbols!Body, alone : BOOLEAN]
      <4>1. [x EXCEPT !.alone = FALSE] \in
                [pc : {"clear", "insert"}, body : Symbols!Body, alone : BOOLEAN]
        BY <3>2
      <4>2. [x EXCEPT !.alone = FALSE].pc = x.pc /\ [x EXCEPT !.alone = FALSE].body = x.body
            /\ ~[x EXCEPT !.alone = FALSE].alone
        BY <3>2
      <4>3. QED
        BY <1>1, <1>2, <2>2, <4>1, <4>2 DEF Symbols!Request
    <3>3. CASE x \in [pc : {"check", "unset", "write"}, body : Symbols!Body, id : PairIds,
                      read : Symbols!Row, alone : BOOLEAN]
      <4>1. [x EXCEPT !.alone = FALSE] \in
                [pc : {"check", "unset", "write"}, body : Symbols!Body, id : PairIds,
                 read : Symbols!Row, alone : BOOLEAN]
        BY <3>3
      <4>2. [x EXCEPT !.alone = FALSE].pc = x.pc /\ [x EXCEPT !.alone = FALSE].body = x.body
            /\ ~[x EXCEPT !.alone = FALSE].alone
        BY <3>3
      <4>3. QED
        BY <1>1, <1>2, <2>2, <4>1, <4>2 DEF Symbols!Request
    <3>4. QED
      BY <2>2, <3>1, <3>2, <3>3 DEF Symbols!Request
  <2>3. QED
    BY <2>1, <2>2
<1>3. pairRequests' = [p \in Requests |-> pairRequests'[p]]
  BY DEF Symbols!Begun
<1>4. Symbols!TypeOK'
  BY <1>1, <1>2, <1>3 DEF PairInv, Symbols!TypeOK
<1>5. ClearsAsked'
  BY <1>1, <1>2 DEF PairInv, ClearsAsked
<1>6. q.alone => Symbols!Lone(r)'
  BY <1>2 DEF Symbols!Lone
<1>7. AloneInv'
  BY <1>1, <1>2, <1>6 DEF AloneInv
<1>8. QED
  BY <1>4, <1>5, <1>7 DEF PairInv

\* What each statement leaves in the table.
LEMMA ClearedRows ==
    ASSUME PairInv, NEW spared \in SUBSET PairIds, pairs' = Symbols!Cleared(spared)
    PROVE  /\ pairs' \in [PairIds -> Symbols!Row]
           /\ \A i \in spared : pairs'[i] = pairs[i]
           /\ Symbols!Defaults' \subseteq spared
  BY DEF PairInv, Symbols!TypeOK, Symbols!Cleared, Symbols!Row, Symbols!Defaults

LEMMA InsertedRows ==
    ASSUME PairInv, NEW r \in Requests, Symbols!CreateInsert(r)
    PROVE  /\ pairs' \in [PairIds -> Symbols!Row]
           /\ pairs' # pairs => \E i \in PairIds :
                IF pairRequests[r].body.default = "on" THEN
                    Symbols!Defaults' = Symbols!Defaults \cup {i}
                ELSE Symbols!Defaults' \subseteq Symbols!Defaults
<1> DEFINE b == pairRequests[r].body
           new == [name |-> b.name, default |-> b.default = "on", active |-> b.active # "off"]
<1>1. b \in Symbols!Body
  BY DEF PairInv, Symbols!TypeOK, Symbols!CreateInsert, Symbols!Request
<1>2. new \in Symbols!Row /\ new.default = (b.default = "on")
  BY <1>1 DEF Symbols!Body, Symbols!Row
<1>3. pairs' = pairs \/ \E i \in PairIds : pairs' = [pairs EXCEPT ![i] = new]
  BY DEF Symbols!CreateInsert
<1>4. pairs \in [PairIds -> Symbols!Row]
  BY DEF PairInv, Symbols!TypeOK
<1> HIDE DEF new
<1>5. QED
  BY <1>2, <1>3, <1>4 DEF Symbols!Defaults

\* The variants of a request in progress.
LEMMA PairVariants ==
    ASSUME NEW x \in Symbols!Request
    PROVE  /\ x.pc \in {"idle", "clear", "insert", "check", "unset", "write"}
           /\ x.pc \in {"clear", "insert"} =>
                x \in [pc : {"clear", "insert"}, body : Symbols!Body, alone : BOOLEAN]
           /\ x.pc \in {"check", "unset", "write"} =>
                x \in [pc : {"check", "unset", "write"}, body : Symbols!Body, id : PairIds,
                       read : Symbols!Row, alone : BOOLEAN]
  BY DEF Symbols!Request

LEMMA PairEnds ==
    ASSUME PairInv, NEW r \in Requests, pairRequests[r].pc # "idle",
           pairs' \in [PairIds -> Symbols!Row], Symbols!End(r)
    PROVE  PairInv'
<1>1. Symbols!Idle \in Symbols!Request /\ Symbols!Idle.pc = "idle"
  BY DEF Symbols!Idle, Symbols!Request
<1>2. pairRequests' = [pairRequests EXCEPT ![r] = Symbols!Idle]
  BY DEF Symbols!End
<1>3. QED
  BY <1>1, <1>2, PairMoves

\* A request whose next statement is another, with the same body and row.
LEMMA PairGoes ==
    ASSUME PairInv, NEW r \in Requests, NEW pc, Symbols!Goto(r, pc),
           pairs' \in [PairIds -> Symbols!Row],
           \/ pairRequests[r].pc = "clear" /\ pc = "insert"
           \/ pairRequests[r].pc \in {"check", "unset"} /\ pc \in {"unset", "write"},
           pc = "unset" => pairRequests[r].body.default = "on",
           pairRequests[r].alone => Prepared(r)'
    PROVE  PairInv'
<1> DEFINE x == pairRequests[r]
           q == [x EXCEPT !.pc = pc]
<1>1. x \in Symbols!Request /\ x.pc # "idle"
  BY DEF PairInv, Symbols!TypeOK
<1>2. pairRequests' = [pairRequests EXCEPT ![r] = q]
  BY DEF Symbols!Goto
<1>3. q \in Symbols!Request /\ q.pc = pc /\ q.alone = x.alone /\ q.body = x.body
  <2>1. CASE x.pc = "clear" /\ pc = "insert"
    <3>1. x \in [pc : {"clear", "insert"}, body : Symbols!Body, alone : BOOLEAN]
      BY <1>1, <2>1, PairVariants
    <3>2. q \in [pc : {"clear", "insert"}, body : Symbols!Body, alone : BOOLEAN]
      BY <2>1, <3>1
    <3>3. QED
      BY <2>1, <3>1, <3>2 DEF Symbols!Request
  <2>2. CASE x.pc \in {"check", "unset"} /\ pc \in {"unset", "write"}
    <3>1. x \in [pc : {"check", "unset", "write"}, body : Symbols!Body, id : PairIds,
                 read : Symbols!Row, alone : BOOLEAN]
      BY <1>1, <2>2, PairVariants
    <3>2. q \in [pc : {"check", "unset", "write"}, body : Symbols!Body, id : PairIds,
                 read : Symbols!Row, alone : BOOLEAN]
      BY <2>2, <3>1
    <3>3. QED
      BY <2>2, <3>1, <3>2 DEF Symbols!Request
  <2>3. QED
    BY <2>1, <2>2
<1> HIDE DEF q
<1>4. QED
  BY <1>1, <1>2, <1>3, PairMoves

LEMMA CreateKeeps ==
    ASSUME PairInv, NEW r \in Requests,
           Symbols!CreateFind(r) \/ Symbols!CreateClear(r) \/ Symbols!CreateInsert(r)
    PROVE  PairInv'
<1>1. CASE Symbols!CreateFind(r)
  <2>1. PICK b \in PairBodies :
          pairRequests' = Symbols!Begun(r, [pc |-> IF b.default = "on" THEN "clear" ELSE "insert",
                                            body |-> b, alone |-> Symbols!Lone(r)])
    BY <1>1 DEF Symbols!CreateFind
  <2> DEFINE q == [pc |-> IF b.default = "on" THEN "clear" ELSE "insert", body |-> b,
                   alone |-> Symbols!Lone(r)]
  <2>2. b \in Symbols!Body /\ Symbols!Lone(r) \in BOOLEAN
    BY PairsAssumption DEF Symbols!Lone
  <2>3. q.pc \in {"clear", "insert"} /\ q.body = b /\ q.alone = Symbols!Lone(r)
    OBVIOUS
  <2>4. q \in Symbols!Request
    BY <2>2 DEF Symbols!Request
  <2>5. pairRequests'[r] = q
    BY <2>1 DEF Symbols!Begun
  <2>6. q.pc = "insert" => q.body.default # "on"
    OBVIOUS
  <2>7. pairRequests[r].pc = "idle" /\ UNCHANGED pairs
    BY <1>1 DEF Symbols!CreateFind
  <2> HIDE DEF q
  <2>8. Prepared(r)'
    BY <2>3, <2>5, <2>6 DEF Prepared
  <2>9. pairRequests' = Symbols!Begun(r, q)
    BY <2>1 DEF q
  <2>10. QED
    BY <2>3, <2>4, <2>7, <2>8, <2>9, PairBegins
<1>2. CASE Symbols!CreateClear(r)
  <2>1. /\ pairs' \in [PairIds -> Symbols!Row] /\ Symbols!Defaults' = {}
        /\ pairRequests[r].pc = "clear" /\ Symbols!Goto(r, "insert")
    BY <1>2, ClearedRows DEF Symbols!CreateClear
  <2>2. pairRequests'[r].pc = "insert"
    <3>1. pairRequests[r] \in [pc : {"clear", "insert"}, body : Symbols!Body, alone : BOOLEAN]
      BY <2>1, PairVariants DEF PairInv, Symbols!TypeOK
    <3>2. QED
      BY <2>1, <3>1 DEF Symbols!Goto, PairInv, Symbols!TypeOK
  <2>3. Prepared(r)'
    BY <2>1, <2>2 DEF Prepared
  <2>4. QED
    BY <2>1, <2>3, PairGoes
<1>3. CASE Symbols!CreateInsert(r)
  BY <1>3, InsertedRows, PairEnds DEF Symbols!CreateInsert
<1>4. QED
  BY <1>1, <1>2, <1>3

\* An update, or the retirement of a pair, begins with a row it read.
LEMMA RowRead ==
    ASSUME PairInv, NEW r \in Requests, pairRequests[r].pc = "idle", UNCHANGED pairs,
           NEW i \in Symbols!Stored, NEW b \in Symbols!Body,
           NEW pc \in {"check", "unset", "write"},
           pairRequests' = Symbols!Begun(r, [pc |-> pc, body |-> b, id |-> i, read |-> pairs[i],
                                             alone |-> Symbols!Lone(r)]),
           pc = "unset" => b.default = "on",
           pc = "write" => b.default # "on"
    PROVE  PairInv'
<1> DEFINE q == [pc |-> pc, body |-> b, id |-> i, read |-> pairs[i], alone |-> Symbols!Lone(r)]
<1>1. i \in PairIds /\ pairs[i] \in Symbols!Row /\ Symbols!Lone(r) \in BOOLEAN
  BY DEF PairInv, Symbols!TypeOK, Symbols!Stored, Symbols!Lone
<1>2. q \in Symbols!Request
  BY <1>1 DEF Symbols!Request
<1>3. pairRequests'[r] = q
  BY DEF Symbols!Begun
<1>4. Prepared(r)'
  BY <1>3 DEF Prepared
<1>5. pairRequests' = Symbols!Begun(r, q)
  OBVIOUS
<1>6. q.pc = pc /\ q.alone = Symbols!Lone(r) /\ q.body = b
  OBVIOUS
<1> HIDE DEF q
<1>7. QED
  BY <1>2, <1>4, <1>5, <1>6, PairBegins

\* The row that an update leaves.
LEMMA WrittenRows ==
    ASSUME PairInv, NEW r \in Requests, Symbols!UpdateWrite(r)
    PROVE  /\ pairs' \in [PairIds -> Symbols!Row]
           /\ \A i \in PairIds : i # pairRequests[r].id => pairs'[i] = pairs[i]
           /\ pairRequests[r].body.default # "on" => Symbols!Defaults' \subseteq Symbols!Defaults
           /\ pairs' # pairs /\ pairRequests[r].body.default = "on"
                /\ pairs[pairRequests[r].id] = pairRequests[r].read
                => pairRequests[r].id \in Symbols!Defaults'
<1> DEFINE q == pairRequests[r]
           old == q.read
           stored == pairs[q.id]
           name == IF q.body.name = NoName THEN old.name ELSE q.body.name
           new == [name |-> Symbols!Saved(stored.name, old.name, name),
                   default |-> Symbols!Saved(stored.default, old.default,
                                             Symbols!Chosen(q.body.default, old.default)),
                   active |-> Symbols!Saved(stored.active, old.active,
                                            Symbols!Chosen(q.body.active, old.active))]
<1>1. q \in [pc : {"check", "unset", "write"}, body : Symbols!Body, id : PairIds,
             read : Symbols!Row, alone : BOOLEAN]
  BY PairVariants DEF PairInv, Symbols!TypeOK, Symbols!UpdateWrite
<1>2. /\ q.id \in PairIds /\ old \in Symbols!Row /\ stored \in Symbols!Row
      /\ q.body \in Symbols!Body /\ pairs \in [PairIds -> Symbols!Row]
  BY <1>1 DEF PairInv, Symbols!TypeOK
<1>3. /\ stored.name \in PairNames \cup {NoName} /\ name \in PairNames \cup {NoName}
      /\ stored.default \in BOOLEAN /\ stored.active \in BOOLEAN
      /\ old.default \in BOOLEAN /\ old.active \in BOOLEAN
  BY <1>2 DEF Symbols!Row, Symbols!Body
<1>4. Symbols!Chosen(q.body.default, old.default) \in BOOLEAN
      /\ Symbols!Chosen(q.body.active, old.active) \in BOOLEAN
  BY <1>3 DEF Symbols!Chosen
<1>5. new \in Symbols!Row
  BY <1>3, <1>4 DEF Symbols!Saved, Symbols!Row
<1>6. q.body.default # "on" => (new.default => stored.default)
  BY <1>3 DEF Symbols!Saved, Symbols!Chosen
<1>7. q.body.default = "on" /\ stored = old => new.default
  BY <1>3 DEF Symbols!Saved, Symbols!Chosen
<1>8. pairs' = pairs \/ pairs' = [pairs EXCEPT ![q.id] = new]
  BY DEF Symbols!UpdateWrite
<1> HIDE DEF new
<1>9. QED
  BY <1>2, <1>5, <1>6, <1>7, <1>8 DEF Symbols!Defaults

LEMMA UpdateKeeps ==
    ASSUME PairInv, NEW r \in Requests,
           \/ Symbols!UpdateRead(r) \/ Symbols!UpdateCheck(r) \/ Symbols!UpdateUnset(r)
           \/ Symbols!UpdateWrite(r) \/ Symbols!RemoveRead(r)
    PROVE  PairInv'
<1>1. CASE Symbols!UpdateRead(r)
  <2>1. PICK i \in Symbols!Stored, b \in PairBodies :
          pairRequests' = Symbols!Begun(r,
              [pc |-> IF b.name # NoName THEN "check" ELSE Symbols!AfterCheck(b.default),
               body |-> b, id |-> i, read |-> pairs[i], alone |-> Symbols!Lone(r)])
    BY <1>1 DEF Symbols!UpdateRead
  <2> DEFINE pc == IF b.name # NoName THEN "check" ELSE Symbols!AfterCheck(b.default)
  <2>2. b \in Symbols!Body
    BY PairsAssumption
  <2>3. /\ pc \in {"check", "unset", "write"}
        /\ pc = "unset" => b.default = "on"
        /\ pc = "write" => b.default # "on"
    BY DEF Symbols!AfterCheck
  <2>4. pairRequests[r].pc = "idle" /\ UNCHANGED pairs
    BY <1>1 DEF Symbols!UpdateRead
  <2>5. QED
    BY <2>1, <2>2, <2>3, <2>4, RowRead
<1>2. CASE Symbols!UpdateCheck(r)
  <2> DEFINE q == pairRequests[r]
             pc == Symbols!AfterCheck(q.body.default)
  <2>1. q.pc = "check" /\ UNCHANGED pairs /\ pairs \in [PairIds -> Symbols!Row]
    BY <1>2 DEF Symbols!UpdateCheck, PairInv, Symbols!TypeOK
  <2>2. CASE Symbols!Goto(r, pc)
    <3>1. /\ pc \in {"unset", "write"}
          /\ pc = "unset" => q.body.default = "on"
          /\ pc = "write" => q.body.default # "on"
      BY DEF Symbols!AfterCheck
    <3>2. q \in [pc : {"check", "unset", "write"}, body : Symbols!Body, id : PairIds,
                 read : Symbols!Row, alone : BOOLEAN]
      BY <2>1, PairVariants DEF PairInv, Symbols!TypeOK
    <3>3. /\ pairRequests'[r].pc = pc /\ pairRequests'[r].body = q.body
          /\ pairRequests'[r].id = q.id /\ pairRequests'[r].read = q.read
      BY <2>2, <3>2 DEF Symbols!Goto, PairInv, Symbols!TypeOK
    <3>4. q.alone => pairs[q.id] = q.read
      BY <2>1 DEF PairInv, AloneInv, Prepared
    <3>5. q.alone => Prepared(r)'
      BY <2>1, <3>1, <3>3, <3>4 DEF Prepared
    <3>6. QED
      BY <2>1, <2>2, <3>1, <3>5, PairGoes
  <2>3. CASE Symbols!End(r)
    BY <2>1, <2>3, PairEnds
  <2>4. QED
    BY <1>2, <2>2, <2>3 DEF Symbols!UpdateCheck
<1>3. CASE Symbols!UpdateUnset(r)
  <2> DEFINE q == pairRequests[r]
  <2>1. q.pc = "unset" /\ Symbols!Goto(r, "write") /\ pairs' = Symbols!Cleared({q.id})
    BY <1>3 DEF Symbols!UpdateUnset, Symbols!Spared
  <2>2. q \in [pc : {"check", "unset", "write"}, body : Symbols!Body, id : PairIds,
               read : Symbols!Row, alone : BOOLEAN]
    BY <2>1, PairVariants DEF PairInv, Symbols!TypeOK
  <2>3. /\ pairs' \in [PairIds -> Symbols!Row] /\ pairs'[q.id] = pairs[q.id]
        /\ Symbols!Defaults' \subseteq {q.id}
    BY <2>1, <2>2, ClearedRows
  <2>4. /\ pairRequests'[r].pc = "write" /\ pairRequests'[r].body = q.body
        /\ pairRequests'[r].id = q.id /\ pairRequests'[r].read = q.read
    BY <2>1, <2>2 DEF Symbols!Goto, PairInv, Symbols!TypeOK
  <2>5. q.alone => pairs[q.id] = q.read
    BY <2>1 DEF PairInv, AloneInv, Prepared
  <2>6. q.alone => Prepared(r)'
    BY <2>3, <2>4, <2>5 DEF Prepared
  <2>7. QED
    BY <2>1, <2>3, <2>6, PairGoes
<1>4. CASE Symbols!UpdateWrite(r)
  BY <1>4, WrittenRows, PairEnds DEF Symbols!UpdateWrite
<1>5. CASE Symbols!RemoveRead(r)
  <2>1. PICK i \in Symbols!Stored :
          pairRequests' = Symbols!Begun(r, [pc |-> "write", body |-> Symbols!Retired, id |-> i,
                                            read |-> pairs[i], alone |-> Symbols!Lone(r)])
    BY <1>5 DEF Symbols!RemoveRead
  <2>2. Symbols!Retired \in Symbols!Body /\ Symbols!Retired.default # "on"
    BY DEF Symbols!Retired, Symbols!Body, Symbols!Choice
  <2>3. pairRequests[r].pc = "idle" /\ UNCHANGED pairs
    BY <1>5 DEF Symbols!RemoveRead
  <2>4. QED
    BY <2>1, <2>2, <2>3, RowRead
<1>6. QED
  BY <1>1, <1>2, <1>3, <1>4, <1>5

LEMMA PairNext == ASSUME PairInv, [Symbols!Next]_(Symbols!vars) PROVE PairInv'
<1>1. ASSUME NEW r \in Requests, Symbols!RequestFails(r) PROVE PairInv'
  BY <1>1, PairEnds DEF Symbols!RequestFails, PairInv, Symbols!TypeOK
<1>2. CASE UNCHANGED Symbols!vars
  BY <1>2 DEF Symbols!vars, PairInv, Symbols!TypeOK, ClearsAsked, AloneInv, Symbols!Lone,
     Prepared, Symbols!Defaults
<1>3. QED
  BY <1>1, <1>2, CreateKeeps, UpdateKeeps DEF Symbols!Next

LEMMA SetterWins ==
    ASSUME PairInv, [Symbols!Next]_(Symbols!vars) PROVE Symbols!LoneSetterWinsStep
<1> SUFFICES ASSUME NEW r \in Requests, Symbols!Sets(r), pairRequests[r].alone
             PROVE  \E i \in PairIds : /\ Symbols!Defaults' = {i}
                                       /\ pairRequests[r].pc = "write" => i = pairRequests[r].id
  BY DEF Symbols!LoneSetterWinsStep
<1> DEFINE q == pairRequests[r]
<1>1. q.pc \in {"insert", "write"} /\ q.body.default = "on" /\ pairRequests'[r].pc = "idle"
      /\ pairs' # pairs
  BY DEF Symbols!Sets
<1>2. Symbols!Lone(r) /\ Prepared(r)
  BY <1>1 DEF PairInv, AloneInv
<1>3. Symbols!CreateInsert(r) \/ Symbols!UpdateWrite(r)
  <2>1. \A p \in Requests : p # r => pairRequests[p].pc = "idle"
    BY <1>2 DEF Symbols!Lone
  <2>2. PICK p \in Requests :
          Symbols!CreateClear(p) \/ Symbols!CreateInsert(p) \/ Symbols!UpdateUnset(p)
          \/ Symbols!UpdateWrite(p)
    BY <1>1 DEF Symbols!Next, Symbols!vars, Symbols!CreateFind, Symbols!UpdateRead,
       Symbols!UpdateCheck, Symbols!RemoveRead, Symbols!RequestFails
  <2>3. p = r
    BY <2>1, <2>2 DEF Symbols!CreateClear, Symbols!CreateInsert, Symbols!UpdateUnset,
       Symbols!UpdateWrite
  <2>4. QED
    BY <1>1, <2>2, <2>3 DEF Symbols!CreateClear, Symbols!UpdateUnset
<1>4. CASE Symbols!CreateInsert(r)
  <2>1. PICK i \in PairIds : Symbols!Defaults' = Symbols!Defaults \cup {i}
    BY <1>1, <1>4, InsertedRows
  <2>2. Symbols!Defaults = {} /\ q.pc = "insert"
    BY <1>1, <1>2, <1>4 DEF Prepared, Symbols!CreateInsert
  <2>3. QED
    BY <2>1, <2>2
<1>5. CASE Symbols!UpdateWrite(r)
  <2>1. q.pc = "write" /\ q.id \in PairIds
    <3>1. q.pc = "write"
      BY <1>5 DEF Symbols!UpdateWrite
    <3>2. QED
      BY <3>1, PairVariants DEF PairInv, Symbols!TypeOK
  <2>2. pairs[q.id] = q.read /\ Symbols!Defaults \subseteq {q.id}
    BY <1>1, <1>2, <2>1 DEF Prepared
  <2>3. q.id \in Symbols!Defaults'
    BY <1>1, <1>5, <2>2, WrittenRows
  <2>4. Symbols!Defaults' \subseteq Symbols!Defaults \cup {q.id}
    BY <1>5, WrittenRows DEF Symbols!Defaults
  <2>5. QED
    BY <2>1, <2>2, <2>3, <2>4
<1>6. QED
  BY <1>3, <1>4, <1>5

\* The dictionary's tables and the calls in progress keep their types
\* (services/market/trading-symbol.service.ts).
THEOREM PairsTyped == Symbols!Spec => []Symbols!TypeOK
<1>1. Symbols!Init => PairInv
  BY PairInit
<1>2. PairInv /\ [Symbols!Next]_(Symbols!vars) => PairInv'
  BY PairNext
<1>3. PairInv => Symbols!TypeOK
  BY DEF PairInv
<1>4. QED
  BY <1>1, <1>2, <1>3, PTL DEF Symbols!Spec

\* A request that makes its pair the default with no other beside it leaves exactly one
\* default, whatever overlaps, failures and retirements left behind, for any number of
\* pairs and requests (TradingSymbolService.create, update).
THEOREM LoneSetterWinsAlways == Symbols!Spec => Symbols!LoneSetterWins
<1>1. Symbols!Init => PairInv
  BY PairInit
<1>2. PairInv /\ [Symbols!Next]_(Symbols!vars) => PairInv'
  BY PairNext
<1>3. PairInv /\ [Symbols!Next]_(Symbols!vars) => Symbols!LoneSetterWinsStep
  BY SetterWins
<1>4. QED
  BY <1>1, <1>2, <1>3, PTL DEF Symbols!Spec, Symbols!LoneSetterWins

\* Requests that have cleared the default and are about to set it, and their rows.
Setters == {r \in Requests : pairRequests[r].pc \in {"insert", "write"}
                             /\ pairRequests[r].body.default = "on"}

Targets == {pairRequests[r].id : r \in {p \in Setters : pairRequests[p].pc = "write"}}

\* A default is left of a clearing only where a setter works, and each setter adds one.
DefaultsCounted ==
    /\ IsFiniteSet(Symbols!Defaults)
    /\ Cardinality(Symbols!Defaults \ Targets) + Cardinality(Setters) <= Cardinality(Requests)

\* No setter comes or goes and no default comes.
LEMMA NoSetter ==
    ASSUME IsFiniteSet(Requests), DefaultsCounted, Setters' = Setters,
           \A r \in Setters :
                /\ pairRequests'[r].pc = pairRequests[r].pc
                /\ pairRequests[r].pc = "write" => pairRequests'[r].id = pairRequests[r].id,
           Symbols!Defaults' \subseteq Symbols!Defaults
    PROVE  DefaultsCounted'
<1>1. Targets' = Targets
  BY DEF Targets
<1>2. IsFiniteSet(Symbols!Defaults \ Targets)
  BY FS_Subset DEF DefaultsCounted
<1>3. IsFiniteSet(Symbols!Defaults')
  BY FS_Subset DEF DefaultsCounted
<1>4. Symbols!Defaults' \ Targets' \subseteq Symbols!Defaults \ Targets
  BY <1>1
<1>5. Cardinality(Symbols!Defaults' \ Targets') <= Cardinality(Symbols!Defaults \ Targets)
  BY <1>2, <1>4, FS_Subset
<1>6. /\ Cardinality(Symbols!Defaults' \ Targets') \in Nat
      /\ Cardinality(Symbols!Defaults \ Targets) \in Nat
      /\ Cardinality(Setters) \in Nat /\ Cardinality(Requests) \in Nat
  <2>1. IsFiniteSet(Setters) /\ IsFiniteSet(Symbols!Defaults' \ Targets')
    BY <1>2, <1>4, FS_Subset DEF Setters
  <2>2. QED
    BY <1>2, <2>1, FS_CardinalityType
<1>7. QED
  BY <1>3, <1>5, <1>6 DEF DefaultsCounted

LEMMA OneMore ==
    ASSUME NEW D, IsFiniteSet(D), NEW i
    PROVE  IsFiniteSet(D \cup {i}) /\ Cardinality(D \cup {i}) <= Cardinality(D) + 1
<1>1. Cardinality(D) \in Nat
  BY FS_CardinalityType
<1>2. CASE i \in D
  <2>1. D \cup {i} = D
    BY <1>2
  <2>2. QED
    BY <1>1, <2>1
<1>3. CASE i \notin D
  <2>1. IsFiniteSet(D \cup {i}) /\ Cardinality(D \cup {i}) = Cardinality(D) + 1
    BY <1>3, FS_AddElement
  <2>2. QED
    BY <1>1, <2>1
<1>4. QED
  BY <1>2, <1>3

\* The parts of a finite set have its size between them.
LEMMA SplitCount ==
    ASSUME NEW D, IsFiniteSet(D), NEW T
    PROVE  Cardinality(D) = Cardinality(D \ T) + Cardinality(D \cap T)
<1>1. IsFiniteSet(D \ T) /\ IsFiniteSet(D \cap T)
  BY FS_Subset
<1>2. D = (D \ T) \cup (D \cap T) /\ (D \ T) \cap (D \cap T) = {}
  OBVIOUS
<1>3. Cardinality((D \ T) \cap (D \cap T)) = 0
  BY <1>2, FS_EmptySet
<1>4. Cardinality((D \ T) \cup (D \cap T)) = Cardinality(D \ T) + Cardinality(D \cap T) - 0
  BY <1>1, <1>3, FS_Union
<1>5. Cardinality((D \ T) \cup (D \cap T)) = Cardinality(D)
  BY <1>2
<1>6. Cardinality(D \ T) \in Nat /\ Cardinality(D \cap T) \in Nat
  BY <1>1, FS_CardinalityType
<1>7. QED
  BY <1>4, <1>5, <1>6

\* A setter ends: what it adds, or leaves of what it worked on, is one default.
LEMMA SetterEnds ==
    ASSUME IsFiniteSet(Requests), DefaultsCounted, NEW r \in Setters,
           Setters' = Setters \ {r},
           \A p \in Setters \ {r} : pairRequests'[p] = pairRequests[p],
           NEW i, pairRequests[r].pc = "write" => i = pairRequests[r].id,
           Symbols!Defaults' \subseteq Symbols!Defaults \cup {i}
    PROVE  DefaultsCounted'
<1> DEFINE D == Symbols!Defaults \ Targets
           E == Symbols!Defaults' \ Targets'
<1>1. E \subseteq D \cup {i}
  BY DEF Targets
<1>2. IsFiniteSet(D) /\ IsFiniteSet(Setters) /\ IsFiniteSet(Symbols!Defaults \cup {i})
  BY FS_Subset, FS_AddElement DEF DefaultsCounted, Setters
<1>3. IsFiniteSet(Symbols!Defaults')
  BY <1>2, FS_Subset
<1>4. IsFiniteSet(D \cup {i}) /\ Cardinality(D \cup {i}) <= Cardinality(D) + 1
  BY <1>2, OneMore
<1>5. IsFiniteSet(E) /\ Cardinality(E) <= Cardinality(D \cup {i})
  BY <1>1, <1>4, FS_Subset
<1>6. Cardinality(Setters \ {r}) = Cardinality(Setters) - 1
  BY <1>2, FS_RemoveElement
<1>7. /\ Cardinality(D) \in Nat /\ Cardinality(E) \in Nat /\ Cardinality(D \cup {i}) \in Nat
      /\ Cardinality(Setters) \in Nat /\ Cardinality(Requests) \in Nat
  BY <1>2, <1>4, <1>5, FS_CardinalityType
<1>8. Cardinality(D) + Cardinality(Setters) <= Cardinality(Requests)
  BY DEF DefaultsCounted
<1>9. Cardinality(E) + Cardinality(Setters') <= Cardinality(Requests)
  BY <1>4, <1>5, <1>6, <1>7, <1>8
<1>10. QED
  BY <1>3, <1>9 DEF DefaultsCounted

\* A clearing leaves at most a default whose request is about to set it.
LEMMA SetterClears ==
    ASSUME IsFiniteSet(Requests), Symbols!Defaults' \subseteq Targets',
           IsFiniteSet(Symbols!Defaults')
    PROVE  DefaultsCounted'
<1>1. Symbols!Defaults' \ Targets' = {}
  OBVIOUS
<1>2. Setters' \subseteq Requests
  BY DEF Setters
<1>3. Cardinality(Setters') <= Cardinality(Requests) /\ IsFiniteSet(Setters')
  BY <1>2, FS_Subset
<1>4. Cardinality(Symbols!Defaults' \ Targets') = 0
  BY <1>1, FS_EmptySet
<1>5. Cardinality(Setters') \in Nat /\ Cardinality(Requests) \in Nat
  BY <1>3, FS_CardinalityType
<1>6. QED
  BY <1>3, <1>4, <1>5 DEF DefaultsCounted

\* Who is a setter changes with the request that moves.
LEMMA SetterFrame ==
    ASSUME PairInv, NEW r \in Requests, NEW q, pairRequests' = [pairRequests EXCEPT ![r] = q]
    PROVE  /\ \A p \in Requests \ {r} : pairRequests'[p] = pairRequests[p]
           /\ pairRequests'[r] = q
           /\ \A p \in Requests \ {r} : p \in Setters' <=> p \in Setters
           /\ r \in Setters' <=> q.pc \in {"insert", "write"} /\ q.body.default = "on"
  BY DEF PairInv, Symbols!TypeOK, Setters

\* A request that begins is no setter.
LEMMA BeginCounted ==
    ASSUME PairInv, IsFiniteSet(Requests), DefaultsCounted, NEW r \in Requests, UNCHANGED pairs,
           pairRequests[r].pc = "idle", NEW q, pairRequests' = Symbols!Begun(r, q),
           ~(q.pc \in {"insert", "write"} /\ q.body.default = "on")
    PROVE  DefaultsCounted'
<1>1. /\ pairRequests'[r] = q
      /\ \A p \in Requests : p # r =>
            pairRequests'[p] = IF pairRequests[p].pc = "idle" THEN Symbols!Idle
                               ELSE [pairRequests[p] EXCEPT !.alone = FALSE]
  BY DEF Symbols!Begun
<1>2. ASSUME NEW p \in Requests, p # r
      PROVE  /\ p \in Setters' <=> p \in Setters
             /\ p \in Setters =>
                    /\ pairRequests'[p].pc = pairRequests[p].pc
                    /\ pairRequests[p].pc = "write" => pairRequests'[p].id = pairRequests[p].id
  <2>1. CASE pairRequests[p].pc = "idle"
    <3>1. pairRequests'[p] = Symbols!Idle
      BY <1>1, <1>2, <2>1
    <3>2. pairRequests'[p].pc = "idle"
      BY <3>1 DEF Symbols!Idle
    <3>3. QED
      BY <2>1, <3>2 DEF Setters
  <2>2. CASE pairRequests[p].pc # "idle"
    <3> DEFINE x == pairRequests[p]
               y == [x EXCEPT !.alone = FALSE]
    <3>1. x \in Symbols!Request
      BY DEF PairInv, Symbols!TypeOK
    <3>2. y.pc = x.pc /\ y.body = x.body /\ (x.pc = "write" => y.id = x.id)
      <4>1. CASE x \in [pc : {"clear", "insert"}, body : Symbols!Body, alone : BOOLEAN]
        BY <4>1
      <4>2. CASE x \in [pc : {"check", "unset", "write"}, body : Symbols!Body, id : PairIds,
                        read : Symbols!Row, alone : BOOLEAN]
        BY <4>2
      <4>3. QED
        BY <2>2, <3>1, <4>1, <4>2, PairVariants
    <3>3. pairRequests'[p] = y
      BY <1>1, <1>2, <2>2
    <3> HIDE DEF y
    <3>4. QED
      BY <3>2, <3>3 DEF Setters
  <2>3. QED
    BY <2>1, <2>2
<1>3. r \notin Setters /\ r \notin Setters'
  BY <1>1 DEF Setters
<1>4. Setters' = Setters
  BY <1>2, <1>3 DEF Setters
<1>5. Symbols!Defaults' = Symbols!Defaults
  BY DEF Symbols!Defaults
<1>6. \A p \in Setters :
        /\ pairRequests'[p].pc = pairRequests[p].pc
        /\ pairRequests[p].pc = "write" => pairRequests'[p].id = pairRequests[p].id
  BY <1>2, <1>3 DEF Setters
<1>7. Symbols!Defaults' \subseteq Symbols!Defaults
  BY <1>5
<1>8. QED
  BY <1>4, <1>6, <1>7, NoSetter

\* A request that is no setter, before or after its step, adds no default.
LEMMA OthersCounted ==
    ASSUME PairInv, IsFiniteSet(Requests), DefaultsCounted, NEW r \in Requests, r \notin Setters,
           NEW q, pairRequests' = [pairRequests EXCEPT ![r] = q],
           ~(q.pc \in {"insert", "write"} /\ q.body.default = "on"),
           Symbols!Defaults' \subseteq Symbols!Defaults
    PROVE  DefaultsCounted'
<1>1. Setters' = Setters
  BY SetterFrame DEF Setters
<1>2. \A p \in Setters : pairRequests'[p] = pairRequests[p]
  BY SetterFrame DEF Setters
<1>3. QED
  BY <1>1, <1>2, NoSetter

\* A request ends, having added no default but, of a setter, its own.
LEMMA EndCounted ==
    ASSUME PairInv, IsFiniteSet(Requests), DefaultsCounted, NEW r \in Requests, Symbols!End(r),
           NEW i, pairRequests[r].pc = "write" => i = pairRequests[r].id,
           Symbols!Defaults' \subseteq Symbols!Defaults \cup {i},
           r \notin Setters => Symbols!Defaults' \subseteq Symbols!Defaults
    PROVE  DefaultsCounted'
<1>1. pairRequests' = [pairRequests EXCEPT ![r] = Symbols!Idle] /\ Symbols!Idle.pc = "idle"
  BY DEF Symbols!End, Symbols!Idle
<1>2. CASE r \notin Setters
  BY <1>1, <1>2, OthersCounted
<1>3. CASE r \in Setters
  <2>1. Setters' = Setters \ {r}
    <3>1. Setters \subseteq Requests /\ Setters' \subseteq Requests
      BY DEF Setters
    <3>2. r \notin Setters'
      BY <1>1, SetterFrame
    <3>3. \A p \in Requests \ {r} : p \in Setters' <=> p \in Setters
      BY <1>1, SetterFrame
    <3>4. QED
      BY <3>1, <3>2, <3>3
  <2>2. \A p \in Setters \ {r} : pairRequests'[p] = pairRequests[p]
    BY <1>1, SetterFrame DEF Setters
  <2>3. QED
    BY <1>3, <2>1, <2>2, SetterEnds
<1>4. QED
  BY <1>2, <1>3

LEMMA CountedNext ==
    ASSUME PairInv, IsFiniteSet(Requests), DefaultsCounted, [Symbols!Next]_(Symbols!vars)
    PROVE  DefaultsCounted'
<1>1. ASSUME NEW r \in Requests, Symbols!CreateFind(r) PROVE DefaultsCounted'
  <2>1. PICK b \in PairBodies :
          pairRequests' = Symbols!Begun(r, [pc |-> IF b.default = "on" THEN "clear" ELSE "insert",
                                            body |-> b, alone |-> Symbols!Lone(r)])
    BY <1>1 DEF Symbols!CreateFind
  <2>2. pairRequests[r].pc = "idle" /\ UNCHANGED pairs
    BY <1>1 DEF Symbols!CreateFind
  <2>3. QED
    BY <2>1, <2>2, BeginCounted
<1>2. ASSUME NEW r \in Requests, Symbols!CreateClear(r) PROVE DefaultsCounted'
  <2>1. Symbols!Defaults' = {}
    BY <1>2, ClearedRows DEF Symbols!CreateClear
  <2>2. QED
    BY <2>1, SetterClears, FS_EmptySet
<1>3. ASSUME NEW r \in Requests, Symbols!CreateInsert(r) PROVE DefaultsCounted'
  <2>1. pairRequests[r].pc = "insert" /\ Symbols!End(r)
    BY <1>3 DEF Symbols!CreateInsert
  <2>2. CASE pairs' = pairs
    BY <2>1, <2>2, EndCounted DEF Symbols!Defaults
  <2>3. CASE pairs' # pairs
    <3>1. PICK i \in PairIds :
            IF pairRequests[r].body.default = "on" THEN
                Symbols!Defaults' = Symbols!Defaults \cup {i}
            ELSE Symbols!Defaults' \subseteq Symbols!Defaults
      BY <1>3, <2>3, InsertedRows
    <3>2. QED
      BY <2>1, <3>1, EndCounted DEF Setters
  <2>4. QED
    BY <2>2, <2>3
<1>4. ASSUME NEW r \in Requests, Symbols!UpdateRead(r) PROVE DefaultsCounted'
  <2>1. PICK i \in Symbols!Stored, b \in PairBodies :
          pairRequests' = Symbols!Begun(r,
              [pc |-> IF b.name # NoName THEN "check" ELSE Symbols!AfterCheck(b.default),
               body |-> b, id |-> i, read |-> pairs[i], alone |-> Symbols!Lone(r)])
    BY <1>4 DEF Symbols!UpdateRead
  <2> DEFINE q == [pc |-> IF b.name # NoName THEN "check" ELSE Symbols!AfterCheck(b.default),
                   body |-> b, id |-> i, read |-> pairs[i], alone |-> Symbols!Lone(r)]
  <2>2. ~(q.pc \in {"insert", "write"} /\ q.body.default = "on")
    BY DEF Symbols!AfterCheck
  <2>3. pairRequests[r].pc = "idle" /\ UNCHANGED pairs
    BY <1>4 DEF Symbols!UpdateRead
  <2>4. pairRequests' = Symbols!Begun(r, q)
    BY <2>1
  <2> HIDE DEF q
  <2>5. QED
    BY <2>2, <2>3, <2>4, BeginCounted
<1>5. ASSUME NEW r \in Requests, Symbols!UpdateCheck(r) PROVE DefaultsCounted'
  <2> DEFINE x == pairRequests[r]
             pc == Symbols!AfterCheck(x.body.default)
  <2>1. x.pc = "check" /\ UNCHANGED pairs /\ r \notin Setters
    BY <1>5 DEF Symbols!UpdateCheck, Setters
  <2>2. Symbols!Defaults' = Symbols!Defaults
    BY <2>1 DEF Symbols!Defaults
  <2>3. CASE Symbols!Goto(r, pc)
    <3>1. x \in [pc : {"check", "unset", "write"}, body : Symbols!Body, id : PairIds,
                 read : Symbols!Row, alone : BOOLEAN]
      BY <2>1, PairVariants DEF PairInv, Symbols!TypeOK
    <3> DEFINE q == [x EXCEPT !.pc = pc]
    <3>2. q.pc = pc /\ q.body = x.body
      BY <3>1
    <3>3. pairRequests' = [pairRequests EXCEPT ![r] = q]
      BY <2>3 DEF Symbols!Goto
    <3>4. ~(pc \in {"insert", "write"} /\ x.body.default = "on")
      BY DEF Symbols!AfterCheck
    <3> HIDE DEF q, pc
    <3>5. QED
      BY <2>1, <2>2, <3>2, <3>3, <3>4, OthersCounted
  <2>4. CASE Symbols!End(r)
    BY <2>1, <2>2, <2>4, EndCounted
  <2>5. QED
    BY <1>5, <2>3, <2>4 DEF Symbols!UpdateCheck
<1>6. ASSUME NEW r \in Requests, Symbols!UpdateUnset(r) PROVE DefaultsCounted'
  <2> DEFINE x == pairRequests[r]
  <2>1. x.pc = "unset" /\ Symbols!Goto(r, "write") /\ pairs' = Symbols!Cleared({x.id})
    BY <1>6 DEF Symbols!UpdateUnset, Symbols!Spared
  <2>2. x \in [pc : {"check", "unset", "write"}, body : Symbols!Body, id : PairIds,
               read : Symbols!Row, alone : BOOLEAN]
    BY <2>1, PairVariants DEF PairInv, Symbols!TypeOK
  <2>3. Symbols!Defaults' \subseteq {x.id}
    BY <2>1, <2>2, ClearedRows
  <2>4. /\ pairRequests'[r].pc = "write" /\ pairRequests'[r].body = x.body
        /\ pairRequests'[r].id = x.id
    BY <2>1, <2>2 DEF Symbols!Goto, PairInv, Symbols!TypeOK
  <2>5. x.body.default = "on"
    BY <2>1 DEF PairInv, ClearsAsked
  <2>6. x.id \in Targets'
    BY <2>4, <2>5 DEF Targets, Setters
  <2>7. IsFiniteSet(Symbols!Defaults')
    BY <2>3, FS_Singleton, FS_Subset
  <2>8. QED
    BY <2>3, <2>6, <2>7, SetterClears
<1>7. ASSUME NEW r \in Requests, Symbols!UpdateWrite(r) PROVE DefaultsCounted'
  <2>1. pairRequests[r].pc = "write" /\ Symbols!End(r)
    BY <1>7 DEF Symbols!UpdateWrite
  <2>2. Symbols!Defaults' \subseteq Symbols!Defaults \cup {pairRequests[r].id}
    BY <1>7, WrittenRows DEF Symbols!Defaults
  <2>3. r \notin Setters => Symbols!Defaults' \subseteq Symbols!Defaults
    BY <1>7, <2>1, WrittenRows DEF Setters
  <2>4. QED
    BY <2>1, <2>2, <2>3, EndCounted
<1>8. ASSUME NEW r \in Requests, Symbols!RemoveRead(r) PROVE DefaultsCounted'
  <2>1. PICK i \in Symbols!Stored :
          pairRequests' = Symbols!Begun(r, [pc |-> "write", body |-> Symbols!Retired, id |-> i,
                                            read |-> pairs[i], alone |-> Symbols!Lone(r)])
    BY <1>8 DEF Symbols!RemoveRead
  <2>2. pairRequests[r].pc = "idle" /\ UNCHANGED pairs /\ Symbols!Retired.default # "on"
    BY <1>8 DEF Symbols!RemoveRead, Symbols!Retired
  <2>3. QED
    BY <2>1, <2>2, BeginCounted
<1>9. ASSUME NEW r \in Requests, Symbols!RequestFails(r) PROVE DefaultsCounted'
  <2>1. Symbols!End(r) /\ Symbols!Defaults' = Symbols!Defaults
    BY <1>9 DEF Symbols!RequestFails, Symbols!Defaults
  <2>2. QED
    BY <2>1, EndCounted
<1>10. CASE UNCHANGED Symbols!vars
  BY <1>10 DEF Symbols!vars, DefaultsCounted, Targets, Setters, Symbols!Defaults
<1>11. QED
  BY <1>1, <1>2, <1>3, <1>4, <1>5, <1>6, <1>7, <1>8, <1>9, <1>10 DEF Symbols!Next

LEMMA SameCount == \A S : Symbols!Cardinality(S) = Cardinality(S)
  BY DEF Symbols!Cardinality, Cardinality

LEMMA CountedBounds ==
    ASSUME PairInv, IsFiniteSet(Requests), DefaultsCounted PROVE Symbols!DefaultsPerRequest
<1> DEFINE D == Symbols!Defaults
           W == {r \in Setters : pairRequests[r].pc = "write"}
<1>1. IsFiniteSet(D) /\ IsFiniteSet(Setters) /\ IsFiniteSet(W)
  BY FS_Subset DEF DefaultsCounted, Setters
<1>2. IsFiniteSet(Targets) /\ Cardinality(Targets) <= Cardinality(Setters)
  <2> DEFINE f == [r \in W |-> pairRequests[r].id]
  <2>1. f \in Surjection(W, Targets)
    BY DEF Targets, Surjection
  <2>2. IsFiniteSet(Targets) /\ Cardinality(Targets) <= Cardinality(W)
    BY <1>1, <2>1, FS_Surjection
  <2>3. Cardinality(W) <= Cardinality(Setters)
    BY <1>1, FS_Subset
  <2>4. /\ Cardinality(W) \in Nat /\ Cardinality(Targets) \in Nat
        /\ Cardinality(Setters) \in Nat
    BY <1>1, <2>2, FS_CardinalityType
  <2>5. QED
    BY <2>2, <2>3, <2>4
<1>3. IsFiniteSet(D \ Targets) /\ IsFiniteSet(D \cap Targets)
  BY <1>1, FS_Subset
<1>4. Cardinality(D \cap Targets) <= Cardinality(Targets)
  BY <1>2, FS_Subset
<1>5. Cardinality(D) = Cardinality(D \ Targets) + Cardinality(D \cap Targets)
  BY <1>1, SplitCount
<1>6. /\ Cardinality(D) \in Nat /\ Cardinality(D \ Targets) \in Nat
      /\ Cardinality(D \cap Targets) \in Nat /\ Cardinality(Targets) \in Nat
      /\ Cardinality(Setters) \in Nat /\ Cardinality(Requests) \in Nat
  BY <1>1, <1>2, <1>3, FS_CardinalityType
<1>7. Cardinality(D \ Targets) + Cardinality(Setters) <= Cardinality(Requests)
  BY DEF DefaultsCounted
<1>8. Cardinality(D) <= Cardinality(Requests)
  BY <1>2, <1>4, <1>5, <1>6, <1>7
<1>9. QED
  BY <1>8, SameCount DEF Symbols!DefaultsPerRequest

\* There are never more default pairs than requests that run at once, over any sequence of
\* calls, failures and renames (TradingSymbolService.create, update).
THEOREM DefaultsBounded ==
    Symbols!Spec => []Symbols!DefaultsPerRequest
<1>1. Symbols!Init => PairInv /\ DefaultsCounted
  <2>1. ASSUME Symbols!Init PROVE PairInv /\ DefaultsCounted
    <3>1. Symbols!Defaults = {}
      <4>1. \A i \in PairIds : pairs[i] \in {Symbols!Absent}
                                \cup [name : PairNames, default : {FALSE}, active : {TRUE}]
        BY <2>1 DEF Symbols!Init
      <4>2. \A x \in {Symbols!Absent} \cup [name : PairNames, default : {FALSE}, active : {TRUE}] :
                x.default = FALSE
        <5>1. Symbols!Absent.default = FALSE
          BY DEF Symbols!Absent
        <5>2. \A x \in [name : PairNames, default : {FALSE}, active : {TRUE}] :
              x.default \in {FALSE}
          OBVIOUS
        <5>3. QED
          BY <5>1, <5>2
      <4>3. QED
        BY <4>1, <4>2 DEF Symbols!Defaults
    <3>2. Setters = {}
      BY <2>1 DEF Symbols!Init, Setters, Symbols!Idle
    <3>3. Symbols!Defaults \ Targets = {}
      BY <3>1
    <3>4. Cardinality(Requests) \in Nat
      BY FS_CardinalityType, RequestsAssumption
    <3>5. Cardinality(Symbols!Defaults \ Targets) = 0 /\ Cardinality(Setters) = 0
          /\ IsFiniteSet(Symbols!Defaults)
      BY <3>1, <3>2, <3>3, FS_EmptySet
    <3>6. DefaultsCounted
      BY <3>4, <3>5 DEF DefaultsCounted
    <3>7. QED
      BY <2>1, <3>6, PairInit
  <2>2. QED
    BY <2>1
<1>2. PairInv /\ DefaultsCounted /\ [Symbols!Next]_(Symbols!vars) => (PairInv /\ DefaultsCounted)'
  BY PairNext, CountedNext, RequestsAssumption
<1>3. PairInv /\ DefaultsCounted => Symbols!DefaultsPerRequest
  BY CountedBounds, RequestsAssumption
<1>4. QED
  BY <1>1, <1>2, <1>3, PTL DEF Symbols!Spec

-----------------------------------------------------------------------------
-----------------------------------------------------------------------------
(* Codes and passwords of an address *)

\* A call keeps its type, and what it read of the clock and the table is past.
CallOK(q) ==
    /\ q \in Codes!Request
    /\ q.pc = "recent" => q.since <= accountTime - Cooldown
    /\ q.pc \in {"replace", "store"} => q.expires <= accountTime + CodeTtl
    /\ q.pc \in {"mail", "verify", "consume"} => q.code \in DOMAIN codes

Sending == {r \in Requests : mails[r].pc \in {"recent", "replace", "store"}}

CodesOK ==
    /\ codes \in Seq(Codes!Code)
    /\ \A i \in DOMAIN codes : /\ codes[i].expires <= codes[i].created + CodeTtl
                               /\ codes[i].created <= accountTime

AccountOK ==
    /\ accountTime \in Codes!Time
    /\ account \in Passwords \cup {NoAccount}
    /\ unsure \in BOOLEAN
    /\ history \in Seq([password : Passwords, at : Codes!Time])
    /\ \A i \in DOMAIN history : history[i].at <= accountTime

\* A code that is being sent takes a place.
PlacesTaken == Len(codes) + Cardinality(Sending) <= MaxCodes

CallsInv ==
    /\ AccountOK /\ CodesOK /\ PlacesTaken
    /\ mails = [r \in Requests |-> mails[r]]
    /\ \A r \in Requests : CallOK(mails[r])

\* Nobody sends a code of the purpose of one that lives and was stored by itself, and no
\* other code of it is valid.
LivesInv ==
    \A i \in DOMAIN codes :
        codes[i].alone /\ codes[i].used # "entered" /\ codes[i].expires > accountTime =>
            /\ codes[i].used = "no"
            /\ \A p \in Requests : ~Codes!IsSending(p, codes[i].purpose)
            /\ \A j \in DOMAIN codes : j # i /\ codes[j].purpose = codes[i].purpose =>
                    codes[j].used # "no" \/ codes[j].expires <= accountTime

\* Unless the newest row may not be the current password, it is, but for the one call that
\* is about to record it; a reset that met no other compared with it.
HistoryInv ==
    /\ ~unsure =>
        /\ \A p, q \in Requests : Codes!IsStoring(p) /\ Codes!IsStoring(q) => p = q
        /\ \A p \in Requests : Codes!IsStoring(p) => mails[p].password = account
        /\ account # NoAccount /\ (\A p \in Requests : ~Codes!IsStoring(p)) =>
                {history[i].password : i \in Codes!NewestRows} = {account}
    /\ \A r \in Requests : mails[r].pc = "save" /\ ~mails[r].overlapped =>
        /\ \A p \in Requests : ~Codes!IsStoring(p)
        /\ mails[r].password # account \/ unsure

LEMMA CallVariants ==
    ASSUME NEW x \in Codes!Request
    PROVE  /\ x.pc = "recent" =>
                x \in [pc : {"recent"}, purpose : Codes!Purposes, since :
                    (0 - Cooldown)..CodesMaxTime]
           /\ x.pc \in {"replace", "store"} =>
                x \in [pc : {"replace", "store"}, purpose : Codes!Purposes,
                       expires : CodeTtl..(CodesMaxTime + CodeTtl)]
           /\ x.pc = "mail" => x \in [pc : {"mail"}, code : Codes!CodeIds]
           /\ x.pc = "verify" =>
                x \in [pc : {"verify"}, purpose : Codes!Purposes, code : Codes!CodeIds,
                       password : Passwords, at : Codes!Time]
           /\ x.pc = "consume" =>
                x \in [pc : {"consume"}, purpose : Codes!Purposes, code : Codes!CodeIds,
                       password : Passwords]
           /\ x.pc \in {"find", "insert", "link", "last", "record"} =>
                x \in [pc : {"find", "insert", "link", "last", "record"}, password : Passwords]
           /\ x.pc = "save" =>
                x \in [pc : {"save"}, password : Passwords, overlapped : BOOLEAN]
  BY DEF Codes!Request

LEMMA IdleCall == CallOK(Codes!Idle) /\ Codes!Idle.pc = "idle"
  BY DEF CallOK, Codes!Idle, Codes!Request

LEMMA CallsTyped == ASSUME CallsInv PROVE Codes!TypeOK
<1>1. Len(codes) <= MaxCodes
  <2>1. Cardinality(Sending) \in Nat
    BY FS_Subset, FS_CardinalityType, CodesAssumption, RequestsAssumption DEF Sending
  <2>2. Len(codes) \in Nat
    BY DEF CallsInv, CodesOK
  <2>3. QED
    BY <2>1, <2>2, CodesAssumption DEF CallsInv, PlacesTaken
<1>2. QED
  BY <1>1 DEF CallsInv, AccountOK, CodesOK, CallOK, Codes!TypeOK

LEMMA CallsInit ==
    ASSUME Codes!Init PROVE CallsInv /\ LivesInv /\ HistoryInv
<1>1. /\ accountTime = 0 /\ codes = <<>> /\ account \in Passwords \cup {NoAccount} /\ unsure = FALSE
      /\ history = IF account = NoAccount THEN <<>> ELSE <<[password |-> account, at |-> 0]>>
      /\ mails = [r \in Requests |-> Codes!Idle]
  BY DEF Codes!Init
<1>2. 0 \in Codes!Time
  BY CodesAssumption DEF Codes!Time
<1>3. AccountOK
  <2>1. CASE account = NoAccount
    <3>1. history = <<>>
      BY <1>1, <2>1
    <3>2. history \in Seq([password : Passwords, at : Codes!Time]) /\ DOMAIN history = {}
      BY <3>1
    <3>3. QED
      BY <1>1, <1>2, <3>2 DEF AccountOK
  <2>2. CASE account # NoAccount
    <3>1. history = <<[password |-> account, at |-> 0]>> /\ account \in Passwords
      BY <1>1, <2>2
    <3>2. [password |-> account, at |-> 0] \in [password : Passwords, at : Codes!Time]
      BY <1>2, <3>1
    <3>3. history \in Seq([password : Passwords, at : Codes!Time])
      BY <3>1, <3>2
    <3>4. \A i \in DOMAIN history : history[i].at <= accountTime
      BY <1>1, <3>1
    <3>5. QED
      BY <1>1, <1>2, <3>3, <3>4 DEF AccountOK
  <2>3. QED
    BY <2>1, <2>2
<1>4. CodesOK /\ DOMAIN codes = {} /\ Len(codes) = 0
  BY <1>1 DEF CodesOK
<1>5. Sending = {}
  BY <1>1, IdleCall DEF Sending
<1>6. PlacesTaken
  BY <1>4, <1>5, FS_EmptySet, CodesAssumption, RequestsAssumption DEF PlacesTaken
<1>7. \A r \in Requests : mails[r].pc = "idle" /\ CallOK(mails[r])
  BY <1>1, IdleCall
<1>8. CallsInv
  BY <1>1, <1>3, <1>4, <1>6, <1>7 DEF CallsInv
<1>9. LivesInv
  BY <1>4 DEF LivesInv
<1>10. account # NoAccount => {history[i].password : i \in Codes!NewestRows} = {account}
  <2>1. SUFFICES ASSUME account # NoAccount
                 PROVE  {history[i].password : i \in Codes!NewestRows} = {account}
    OBVIOUS
  <2>2. history = <<[password |-> account, at |-> 0]>>
    BY <1>1, <2>1
  <2>3. DOMAIN history = {1} /\ history[1].password = account /\ history[1].at = 0
    BY <2>2
  <2>4. Codes!NewestRows = {1}
    BY <2>3 DEF Codes!NewestRows
  <2>5. QED
    BY <2>3, <2>4
<1>11. HistoryInv
  BY <1>1, <1>7, <1>10 DEF HistoryInv, Codes!IsStoring
<1>12. QED
  BY <1>8, <1>9, <1>11

\* Of some times one is the latest.
LEMMA LatestExists ==
    ASSUME NEW T \in Nat, NEW D, NEW at \in [D -> 0..T], NEW S \in SUBSET D, S # {}
    PROVE  \E i \in S : \A j \in S : at[j] <= at[i]
<1> DEFINE left == {T - at[i] : i \in S}
           R == {p \in Nat \X Nat : p[1] < p[2]}
<1>1. left \subseteq Nat /\ left # {}
  OBVIOUS
<1>2. IsWellFoundedOn(R, Nat)
  <2>1. OpToRel(<, Nat) = R
    BY DEF OpToRel
  <2>2. QED
    BY <2>1, NatLessThanWellFounded
<1>3. \A x, y \in Nat : y < x => <<y, x>> \in R
  OBVIOUS
<1> HIDE DEF R
<1>4. PICK m \in left : \A n \in left : ~(<<n, m>> \in R)
  BY <1>1, <1>2, WFMin
<1>5. PICK i \in S : m = T - at[i]
  OBVIOUS
<1>6. ASSUME NEW j \in S PROVE at[j] <= at[i]
  <2>1. T - at[j] \in left /\ T - at[j] \in Nat /\ m \in Nat
    BY <1>1
  <2>2. ~(T - at[j] < m)
    BY <1>3, <1>4, <2>1
  <2>3. at[i] \in Nat /\ at[j] \in Nat
    OBVIOUS
  <2>4. QED
    BY <1>5, <2>2, <2>3
<1>7. QED
  BY <1>6

LEMMA SameCodesCount == \A S : Codes!Cardinality(S) = Cardinality(S)
  BY DEF Codes!Cardinality, Cardinality

LEMMA CodeFields ==
    ASSUME CodesOK, NEW i \in DOMAIN codes
    PROVE  /\ codes[i] \in Codes!Code /\ codes[i].purpose \in Codes!Purposes
           /\ codes[i].expires \in Int /\ codes[i].created \in Int
           /\ codes[i].expires <= codes[i].created + CodeTtl /\ codes[i].created <= accountTime
<1>1. codes[i] \in Codes!Code
  BY DEF CodesOK
<1>2. codes[i].expires \in CodeTtl..(CodesMaxTime + CodeTtl) /\ codes[i].created \in 0..CodesMaxTime
  BY <1>1 DEF Codes!Code, Codes!Time
<1>3. CodeTtl \in Int /\ CodesMaxTime \in Int
  BY CodesAssumption
<1>4. QED
  BY <1>1, <1>2, <1>3 DEF CodesOK, Codes!Code

LEMMA HistoryFields ==
    ASSUME AccountOK, NEW i \in DOMAIN history
    PROVE  history[i].at \in Int /\ history[i].at <= accountTime
<1> DEFINE HistoryRow == [password : Passwords, at : Codes!Time]
<1>1. history \in Seq(HistoryRow)
  BY DEF AccountOK
<1>2. history[i] \in HistoryRow
  <2> HIDE DEF HistoryRow
  <2>1. QED
    BY <1>1
<1>3. QED
  BY <1>2, CodesAssumption DEF AccountOK, Codes!Time

\* A call moves on; the table of codes keeps its length.
LEMMA CallMoves ==
    ASSUME CallsInv, NEW r \in Requests, NEW q, mails' = [mails EXCEPT ![r] = q],
           CallOK(q)', AccountOK', CodesOK', Len(codes') = Len(codes), accountTime' = accountTime,
           q.pc \in {"recent", "replace", "store"}
                => mails[r].pc \in {"recent", "replace", "store"}
    PROVE  CallsInv'
<1>1. mails'[r] = q /\ \A p \in Requests : p # r => mails'[p] = mails[p]
  BY DEF CallsInv
<1>2. DOMAIN codes' = DOMAIN codes
  BY DEF CallsInv, CodesOK
<1>3. \A p \in Requests : CallOK(mails[p])'
  <2> TAKE p \in Requests
  <2>1. CASE p = r
    BY <1>1, <2>1
  <2>2. CASE p # r
    <3>1. CallOK(mails[p])
      BY DEF CallsInv
    <3>2. mails'[p] = mails[p]
      BY <1>1, <2>2
    <3>3. QED
      BY <1>2, <3>1, <3>2 DEF CallOK
  <2>3. QED
    BY <2>1, <2>2
<1>4. Sending' \subseteq Sending
  BY <1>1 DEF Sending
<1>5. PlacesTaken'
  <2>1. IsFiniteSet(Sending)
    BY FS_Subset, CodesAssumption, RequestsAssumption DEF Sending
  <2>2. IsFiniteSet(Sending') /\ Cardinality(Sending') <= Cardinality(Sending)
    BY <1>4, <2>1, FS_Subset
  <2>3. Cardinality(Sending') \in Nat /\ Cardinality(Sending) \in Nat
    BY <2>1, <2>2, FS_CardinalityType
  <2>4. Len(codes) \in Nat /\ Len(codes) + Cardinality(Sending) <= MaxCodes
    BY DEF CallsInv, CodesOK, PlacesTaken
  <2>5. QED
    BY <2>2, <2>3, <2>4, CodesAssumption DEF PlacesTaken
<1>6. mails' = [p \in Requests |-> mails'[p]]
  BY DEF CallsInv
<1>7. QED
  BY <1>3, <1>5, <1>6 DEF CallsInv

\* Codes are entered or mailed and nobody begins to send one.
LEMMA LivesKept ==
    ASSUME CallsInv, LivesInv, accountTime' = accountTime \/ accountTime' = accountTime + 1,
           DOMAIN codes' = DOMAIN codes,
           \A i \in DOMAIN codes :
                /\ codes'[i].purpose = codes[i].purpose /\ codes'[i].alone = codes[i].alone
                /\ codes'[i].expires = codes[i].expires
                /\ codes'[i].used \in {codes[i].used, "entered"},
           \A p \in Requests, purpose \in Codes!Purposes :
                Codes!IsSending(p, purpose)' => Codes!IsSending(p, purpose)
    PROVE  LivesInv'
<1>1. accountTime \in Int /\ accountTime <= accountTime' /\ accountTime' \in Int
  BY DEF CallsInv, AccountOK, Codes!Time
<1>2. \A i \in DOMAIN codes : codes[i].expires \in Int /\ codes[i].purpose \in Codes!Purposes
  BY CodeFields DEF CallsInv
<1> SUFFICES ASSUME NEW i \in DOMAIN codes, codes[i].alone, codes'[i].used # "entered",
                    codes[i].expires > accountTime'
             PROVE  /\ codes'[i].used = "no"
                    /\ \A p \in Requests, purpose \in {codes[i].purpose} :
                            ~Codes!IsSending(p, purpose)'
                    /\ \A j \in DOMAIN codes : j # i /\ codes[j].purpose = codes[i].purpose =>
                            codes'[j].used # "no" \/ codes[j].expires <= accountTime'
  BY DEF LivesInv, Codes!IsSending
<1>3. codes[i].alone /\ codes[i].used # "entered" /\ codes[i].expires > accountTime
  BY <1>1, <1>2
<1>4. /\ codes[i].used = "no"
      /\ \A p \in Requests : ~Codes!IsSending(p, codes[i].purpose)
      /\ \A j \in DOMAIN codes : j # i /\ codes[j].purpose = codes[i].purpose =>
                    codes[j].used # "no" \/ codes[j].expires <= accountTime
  BY <1>3 DEF LivesInv
<1>5. \A p \in Requests, purpose \in {codes[i].purpose} : ~Codes!IsSending(p, purpose)'
  BY <1>2, <1>4
<1>6. ASSUME NEW j \in DOMAIN codes, j # i, codes[j].purpose = codes[i].purpose
      PROVE  codes'[j].used # "no" \/ codes[j].expires <= accountTime'
  <2>1. codes[j].used # "no" \/ codes[j].expires <= accountTime
    BY <1>4, <1>6
  <2>2. codes[j].used # "no" => codes'[j].used # "no"
    OBVIOUS
  <2>3. codes[j].expires <= accountTime => codes[j].expires <= accountTime'
    BY <1>1, <1>2
  <2>4. QED
    BY <2>1, <2>2, <2>3
<1>7. QED
  BY <1>4, <1>5, <1>6

\* A call that stores no password moves to a statement that stores none.
LEMMA HistoryAside ==
    ASSUME CallsInv, HistoryInv, NEW r \in Requests, NEW q, mails' = [mails EXCEPT ![r] = q],
           UNCHANGED <<account, history, unsure>>, ~Codes!IsStoring(r),
           q.pc \notin {"link", "record", "save"}
    PROVE  HistoryInv'
<1>1. mails'[r] = q /\ \A p \in Requests : p # r => mails'[p] = mails[p]
  BY DEF CallsInv
<1>2. \A p \in Requests : Codes!IsStoring(p)' <=> Codes!IsStoring(p)
  BY <1>1 DEF Codes!IsStoring
<1>3. Codes!NewestRows' = Codes!NewestRows
  BY DEF Codes!NewestRows
<1>4. \A p \in Requests : Codes!IsStoring(p) => mails'[p] = mails[p]
  BY <1>1
<1>5. \A p \in Requests : mails'[p].pc = "save" => mails'[p] = mails[p]
  BY <1>1
<1>6. {history'[i].password : i \in Codes!NewestRows'}
        = {history[i].password : i \in Codes!NewestRows}
  BY <1>3
<1>7. QED
  BY <1>2, <1>4, <1>5, <1>6 DEF HistoryInv

\* A call moves on and writes nothing.
LEMMA CallReads ==
    ASSUME CallsInv, LivesInv, HistoryInv, NEW r \in Requests, NEW q,
           mails' = [mails EXCEPT ![r] = q], UNCHANGED <<accountTime, codes, account, history,
           unsure>>,
           CallOK(q), ~Codes!IsStoring(r), q.pc \notin {"link", "record", "save"},
           q.pc \notin {"recent", "replace", "store"}
    PROVE  CallsInv' /\ LivesInv' /\ HistoryInv'
<1>1. CallOK(q)'
  BY DEF CallOK
<1>2. AccountOK' /\ CodesOK'
  BY DEF CallsInv, AccountOK, CodesOK
<1>3. CallsInv'
  BY <1>1, <1>2, CallMoves
<1>4. mails'[r] = q /\ \A p \in Requests : p # r => mails'[p] = mails[p]
  BY DEF CallsInv
<1>5. \A p \in Requests, purpose \in Codes!Purposes :
        Codes!IsSending(p, purpose)' => Codes!IsSending(p, purpose)
  BY <1>4 DEF Codes!IsSending
<1>6. LivesInv'
  BY <1>5, LivesKept
<1>7. QED
  BY <1>3, <1>6, HistoryAside

LEMMA CallEnds ==
    ASSUME CallsInv, LivesInv, HistoryInv, NEW r \in Requests, Codes!End(r),
           UNCHANGED <<accountTime, codes, account, history, unsure>>, ~Codes!IsStoring(r)
    PROVE  CallsInv' /\ LivesInv' /\ HistoryInv'
<1>1. mails' = [mails EXCEPT ![r] = Codes!Idle]
  BY DEF Codes!End, Codes!SetRequest
<1>2. QED
  BY <1>1, IdleCall, CallReads

(***************************************************************************)
(* sendCode.                                                               *)
(***************************************************************************)

LEMMA SendBeginKeeps ==
    ASSUME CallsInv, LivesInv, HistoryInv, NEW r \in Requests, Codes!SendBegin(r)
    PROVE  CallsInv' /\ LivesInv' /\ HistoryInv'
<1> DEFINE q == [pc |-> "recent", since |-> accountTime - Cooldown,
                 purpose |-> IF account = NoAccount THEN "register" ELSE "reset"]
<1>1. /\ mails[r].pc = "idle" /\ mails' = [mails EXCEPT ![r] = q]
      /\ UNCHANGED <<accountTime, codes, account, history, unsure>>
  BY DEF Codes!SendBegin, Codes!SetRequest
<1>2. q.pc = "recent" /\ q.since = accountTime - Cooldown /\ q \in Codes!Request
  <2>1. accountTime \in Nat /\ accountTime <= CodesMaxTime /\ Cooldown \in Nat
    BY CodesAssumption DEF CallsInv, AccountOK, Codes!Time
  <2>2. accountTime - Cooldown \in (0 - Cooldown)..CodesMaxTime
    BY <2>1, CodesAssumption
  <2>3. QED
    BY <2>2 DEF Codes!Request, Codes!Purposes
<1> HIDE DEF q
<1>3. mails'[r] = q /\ \A p \in Requests : p # r => mails'[p] = mails[p]
  BY <1>1 DEF CallsInv
<1>4. \A p \in Requests : CallOK(mails[p])'
  <2> TAKE p \in Requests
  <2>1. CASE p = r
    BY <1>1, <1>2, <1>3, <2>1, CodesAssumption DEF CallOK, CallsInv, AccountOK, Codes!Time
  <2>2. CASE p # r
    BY <1>1, <1>3, <2>2 DEF CallsInv, CallOK
  <2>3. QED
    BY <2>1, <2>2
<1>5. PlacesTaken'
  <2>1. Len(codes) + Cardinality(Sending) < MaxCodes
    BY SameCodesCount DEF Codes!SendBegin, Sending
  <2>2. Sending' = Sending \cup {r}
    BY <1>2, <1>3 DEF Sending
  <2>3. IsFiniteSet(Sending) /\ Len(codes) \in Nat
    <3>1. IsFiniteSet(Sending)
      BY FS_Subset, CodesAssumption, RequestsAssumption DEF Sending
    <3>2. QED
      BY <3>1 DEF CallsInv, CodesOK
  <2>4. IsFiniteSet(Sending') /\ Cardinality(Sending') <= Cardinality(Sending) + 1
    BY <2>2, <2>3, OneMore
  <2>5. Cardinality(Sending') \in Nat /\ Cardinality(Sending) \in Nat
    BY <2>3, <2>4, FS_CardinalityType
  <2>6. Len(codes) + Cardinality(Sending') <= MaxCodes
    BY <2>1, <2>3, <2>4, <2>5, CodesAssumption
  <2>7. QED
    BY <1>1, <2>6 DEF PlacesTaken
<1>6. CallsInv'
  BY <1>1, <1>4, <1>5 DEF CallsInv, AccountOK, CodesOK
<1>7. LivesInv'
  <2>1. \A p \in Requests, purpose \in Codes!Purposes :
            Codes!IsSending(p, purpose)' => Codes!IsSending(p, purpose)
    BY <1>2, <1>3 DEF Codes!IsSending
  <2>2. QED
    BY <1>1, <2>1, LivesKept
<1>8. HistoryInv'
  BY <1>1, <1>2, HistoryAside DEF Codes!IsStoring
<1>9. QED
  BY <1>6, <1>7, <1>8

\* No code of a purpose is alive when the search within the cooldown finds none.
LEMMA SendRecentKeeps ==
    ASSUME CallsInv, LivesInv, HistoryInv, NEW r \in Requests, Codes!SendRecent(r)
    PROVE  CallsInv' /\ LivesInv' /\ HistoryInv'
<1> DEFINE x == mails[r]
<1>0. PICK q : q = [pc |-> "replace", purpose |-> x.purpose, expires |-> accountTime + CodeTtl]
  OBVIOUS
<1>1. x.pc = "recent" /\ UNCHANGED <<accountTime, codes, account, history, unsure>>
  BY DEF Codes!SendRecent
<1>2. CASE Codes!End(r)
  BY <1>1, <1>2, CallEnds DEF Codes!IsStoring
<1>3. CASE Codes!Recent(x.purpose, x.since) = {} /\ mails' = [mails EXCEPT ![r] = q]
  <2>1. /\ x \in [pc : {"recent"}, purpose : Codes!Purposes, since : (0 - Cooldown)..CodesMaxTime]
        /\ x.since <= accountTime - Cooldown
    BY <1>1, CallVariants DEF CallsInv, CallOK
  <2>2. /\ accountTime \in Int /\ 0 <= accountTime /\ accountTime <= CodesMaxTime
        /\ Cooldown \in Nat /\ CodeTtl \in Nat
        /\ CodeTtl <= Cooldown /\ CodesMaxTime \in Nat
    BY CodesAssumption DEF CallsInv, AccountOK, Codes!Time
  <2>3. accountTime + CodeTtl \in CodeTtl..(CodesMaxTime + CodeTtl)
    BY <2>2
  <2>4. /\ q \in Codes!Request /\ q.pc = "replace" /\ q.expires = accountTime + CodeTtl
        /\ q.purpose = x.purpose
    BY <1>0, <2>1, <2>3 DEF Codes!Request
  <2>5. CallOK(q)'
    <3>1. q.expires <= accountTime' + CodeTtl /\ q \in Codes!Request /\ q.pc = "replace"
      BY <1>1, <2>2, <2>4
    <3>2. QED
      BY <3>1 DEF CallOK
  <2>6. CallsInv'
    <3>1. AccountOK' /\ CodesOK'
      BY <1>1 DEF CallsInv, AccountOK, CodesOK
    <3>2. QED
      BY <1>1, <1>3, <2>5, <3>1, CallMoves
  <2>7. mails'[r] = q /\ \A p \in Requests : p # r => mails'[p] = mails[p]
    BY <1>3 DEF CallsInv
  <2>8. \A i \in DOMAIN codes : codes[i].purpose = x.purpose => codes[i].expires <= accountTime
    <3> SUFFICES ASSUME NEW i \in DOMAIN codes, codes[i].purpose = x.purpose
                 PROVE  codes[i].expires <= accountTime
      OBVIOUS
    <3>1. ~(codes[i].created >= x.since)
      BY <1>3 DEF Codes!Recent
    <3>2. codes[i].expires <= codes[i].created + CodeTtl
          /\ codes[i].expires \in Int /\ codes[i].created \in Int
      BY CodeFields DEF CallsInv
    <3>3. x.since \in Int
      BY <2>1
    <3>4. QED
      BY <2>1, <2>2, <3>1, <3>2, <3>3
  <2>9. LivesInv'
    <3> SUFFICES ASSUME NEW i \in DOMAIN codes, codes[i].alone, codes[i].used # "entered",
                        codes[i].expires > accountTime
                 PROVE  /\ codes[i].used = "no"
                        /\ \A p \in Requests, purpose \in {codes[i].purpose} :
                                ~Codes!IsSending(p, purpose)'
                        /\ \A j \in DOMAIN codes : j # i /\ codes[j].purpose = codes[i].purpose =>
                                codes[j].used # "no" \/ codes[j].expires <= accountTime
      BY <1>1 DEF LivesInv, Codes!IsSending
    <3>1. /\ codes[i].used = "no"
          /\ \A p \in Requests : ~Codes!IsSending(p, codes[i].purpose)
          /\ \A j \in DOMAIN codes : j # i /\ codes[j].purpose = codes[i].purpose =>
                codes[j].used # "no" \/ codes[j].expires <= accountTime
      BY DEF LivesInv
    <3>2. codes[i].purpose # x.purpose
      <4>1. codes[i].expires \in Int
        BY CodeFields DEF CallsInv
      <4>2. QED
        BY <2>2, <2>8, <4>1
    <3>3. \A p \in Requests, purpose \in {codes[i].purpose} : ~Codes!IsSending(p, purpose)'
      BY <1>1, <2>4, <2>7, <3>1, <3>2 DEF Codes!IsSending
    <3>4. QED
      BY <3>1, <3>3
  <2>10. HistoryInv'
    BY <1>1, <1>3, <2>4, HistoryAside DEF Codes!IsStoring
  <2>11. QED
    BY <2>6, <2>9, <2>10
<1>4. QED
  BY <1>0, <1>2, <1>3 DEF Codes!SendRecent, Codes!SetRequest, Codes!Expiry

\* Nobody sends a code of the purpose of one that lives and was stored by itself.
LEMMA SenderKillsNone ==
    ASSUME LivesInv, NEW r \in Requests, mails[r].pc \in {"replace", "store"},
           NEW i \in DOMAIN codes, codes[i].purpose = mails[r].purpose, codes[i].alone,
           codes[i].used # "entered", codes[i].expires > accountTime
    PROVE  FALSE
<1>1. Codes!IsSending(r, codes[i].purpose)
  BY DEF Codes!IsSending
<1>2. QED
  BY <1>1 DEF LivesInv

LEMMA SendReplaceKeeps ==
    ASSUME CallsInv, LivesInv, HistoryInv, NEW r \in Requests, Codes!SendReplace(r)
    PROVE  CallsInv' /\ LivesInv' /\ HistoryInv'
<1>0. PICK q : q = [mails[r] EXCEPT !.pc = "store"]
  OBVIOUS
<1>1. /\ mails[r].pc = "replace" /\ UNCHANGED <<accountTime, account, history, unsure>>
      /\ mails' = [mails EXCEPT ![r] = q]
      /\ codes' = [i \in DOMAIN codes |->
            IF codes[i].purpose = mails[r].purpose /\ codes[i].used = "no"
            THEN [codes[i] EXCEPT !.used = "replaced"] ELSE codes[i]]
  BY <1>0 DEF Codes!SendReplace
<1>2. /\ mails[r] \in [pc : {"replace", "store"}, purpose : Codes!Purposes,
                        expires : CodeTtl..(CodesMaxTime + CodeTtl)]
      /\ mails[r].expires <= accountTime + CodeTtl
  BY <1>1, CallVariants DEF CallsInv, CallOK
<1>3. /\ q \in [pc : {"replace", "store"}, purpose : Codes!Purposes,
                 expires : CodeTtl..(CodesMaxTime + CodeTtl)]
      /\ q.pc = "store" /\ q.purpose = mails[r].purpose /\ q.expires = mails[r].expires
  BY <1>0, <1>2
<1>4. mails'[r] = q /\ \A p \in Requests : p # r => mails'[p] = mails[p]
  BY <1>1 DEF CallsInv
<1>5. \A i \in DOMAIN codes :
        /\ codes'[i] \in Codes!Code
        /\ codes'[i].purpose = codes[i].purpose /\ codes'[i].alone = codes[i].alone
        /\ codes'[i].expires = codes[i].expires /\ codes'[i].created = codes[i].created
        /\ codes'[i].used = IF codes[i].purpose = mails[r].purpose /\ codes[i].used = "no"
                            THEN "replaced" ELSE codes[i].used
  <2> TAKE i \in DOMAIN codes
  <2>1. codes[i] \in Codes!Code
    BY CodeFields DEF CallsInv
  <2>2. QED
    BY <1>1, <2>1 DEF Codes!Code
<1>6. codes' \in Seq(Codes!Code) /\ Len(codes') = Len(codes) /\ DOMAIN codes' = DOMAIN codes
  <2>1. Len(codes) \in Nat /\ DOMAIN codes = 1..Len(codes)
    BY DEF CallsInv, CodesOK
  <2>2. DOMAIN codes' = 1..Len(codes) /\ codes' \in [1..Len(codes) -> Codes!Code]
    BY <1>1, <1>5, <2>1
  <2>3. codes' \in Seq(Codes!Code)
    BY <2>1, <2>2
  <2>4. QED
    BY <2>1, <2>2, <2>3
<1>7. CallsInv'
  <2>1. CodesOK'
    BY <1>1, <1>5, <1>6, CodeFields DEF CallsInv, CodesOK
  <2>2. AccountOK'
    BY <1>1 DEF CallsInv, AccountOK
  <2>3. CallOK(q)'
    BY <1>1, <1>2, <1>3 DEF CallOK, Codes!Request
  <2>4. QED
    BY <1>1, <1>3, <1>6, <2>1, <2>2, <2>3, CallMoves
<1>8. LivesInv'
  <2> SUFFICES ASSUME NEW i \in DOMAIN codes, codes[i].alone, codes'[i].used # "entered",
                      codes[i].expires > accountTime
               PROVE  /\ codes'[i].used = "no"
                      /\ \A p \in Requests, purpose \in {codes[i].purpose} :
                              ~Codes!IsSending(p, purpose)'
                      /\ \A j \in DOMAIN codes : j # i /\ codes[j].purpose = codes[i].purpose =>
                              codes'[j].used # "no" \/ codes[j].expires <= accountTime
    BY <1>1, <1>5, <1>6 DEF LivesInv, Codes!IsSending
  <2>1. codes[i].used # "entered"
    BY <1>5
  <2>2. codes[i].purpose # mails[r].purpose
    BY <1>1, <2>1, SenderKillsNone
  <2>3. /\ codes[i].used = "no"
        /\ \A p \in Requests : ~Codes!IsSending(p, codes[i].purpose)
        /\ \A j \in DOMAIN codes : j # i /\ codes[j].purpose = codes[i].purpose =>
                codes[j].used # "no" \/ codes[j].expires <= accountTime
    BY <2>1 DEF LivesInv
  <2>4. \A p \in Requests, purpose \in {codes[i].purpose} : ~Codes!IsSending(p, purpose)'
    BY <1>3, <1>4, <2>2, <2>3 DEF Codes!IsSending
  <2>5. \A j \in DOMAIN codes : j # i /\ codes[j].purpose = codes[i].purpose =>
                codes'[j].used # "no" \/ codes[j].expires <= accountTime
    BY <1>5, <2>3
  <2>6. QED
    BY <1>5, <2>2, <2>3, <2>4, <2>5
<1>9. HistoryInv'
  BY <1>1, <1>3, HistoryAside DEF Codes!IsStoring
<1>10. QED
  BY <1>7, <1>8, <1>9

\* When a search for the newest valid code finds none, no code is valid.
LEMMA NoNewestNoneValid ==
    ASSUME CallsInv, NEW purpose, Codes!NewestValid(purpose, accountTime) = {},
           NEW i \in DOMAIN codes, codes[i].purpose = purpose, codes[i].used = "no"
    PROVE  codes[i].expires <= accountTime
<1>1. SUFFICES ASSUME ~(codes[i].expires <= accountTime) PROVE FALSE
  OBVIOUS
<1> DEFINE Valid == {j \in DOMAIN codes : codes[j].purpose = purpose /\ codes[j].used = "no"
                                          /\ codes[j].expires > accountTime}
           created == [j \in DOMAIN codes |-> codes[j].created]
<1>2. codes[i].expires \in Int /\ accountTime \in Int /\ CodesMaxTime \in Nat
  BY CodeFields, CodesAssumption DEF CallsInv, AccountOK, Codes!Time
<1>3. i \in Valid
  BY <1>1, <1>2
<1>4. created \in [DOMAIN codes -> 0..CodesMaxTime]
  <2>1. \A j \in DOMAIN codes : codes[j] \in Codes!Code
    BY CodeFields DEF CallsInv
  <2>2. \A j \in DOMAIN codes : codes[j].created \in 0..CodesMaxTime
    BY <2>1 DEF Codes!Code, Codes!Time
  <2>3. QED
    BY <2>2
<1>5. Valid \in SUBSET DOMAIN codes /\ Valid # {}
  BY <1>3
<1> HIDE DEF Valid
<1>6. PICK k \in Valid : \A j \in Valid : created[j] <= created[k]
  <2> HIDE DEF created
  <2>1. QED
    BY <1>2, <1>4, <1>5, LatestExists
<1>7. \A j \in Valid : codes[j].created <= codes[k].created
  BY <1>5, <1>6
<1>8. k \in Codes!NewestValid(purpose, accountTime)
  BY <1>6, <1>7 DEF Codes!NewestValid, Valid
<1>9. QED
  BY <1>8

LEMMA SendStoreKeeps ==
    ASSUME CallsInv, LivesInv, HistoryInv, NEW r \in Requests, Codes!SendStore(r)
    PROVE  CallsInv' /\ LivesInv' /\ HistoryInv'
<1>0. PICK new : new =
        [purpose |-> mails[r].purpose, created |-> accountTime, expires |-> mails[r].expires,
         used |-> "no", mailed |-> FALSE,
         alone |-> /\ Codes!NewestValid(mails[r].purpose, accountTime) = {}
                   /\ \A p \in Requests \ {r} : ~Codes!IsSending(p, mails[r].purpose)]
  OBVIOUS
<1> DEFINE n == Len(codes) + 1
<1>00. PICK q : q = [pc |-> "mail", code |-> n]
  OBVIOUS
<1>1. /\ mails[r].pc = "store" /\ UNCHANGED <<accountTime, account, history, unsure>>
      /\ codes' = Append(codes, new) /\ mails' = [mails EXCEPT ![r] = q]
  BY <1>0, <1>00 DEF Codes!SendStore, Codes!SetRequest
<1>2. /\ mails[r].purpose \in Codes!Purposes
      /\ mails[r].expires \in CodeTtl..(CodesMaxTime + CodeTtl)
      /\ mails[r].expires <= accountTime + CodeTtl
  BY <1>1, CallVariants DEF CallsInv, CallOK
<1>3. /\ new \in Codes!Code /\ new.purpose = mails[r].purpose /\ new.created = accountTime
      /\ new.expires = mails[r].expires /\ new.used = "no"
  <2>1. accountTime \in Codes!Time
    BY DEF CallsInv, AccountOK
  <2>2. new.alone \in BOOLEAN
    BY <1>0
  <2>3. QED
    BY <1>0, <1>2, <2>1, <2>2 DEF Codes!Code
<1>4. new.alone => /\ Codes!NewestValid(mails[r].purpose, accountTime) = {}
                   /\ \A p \in Requests \ {r} : ~Codes!IsSending(p, mails[r].purpose)
  BY <1>0
<1>5. /\ Len(codes) \in Nat /\ n \in Nat /\ DOMAIN codes = 1..Len(codes) /\ n \notin DOMAIN codes
      /\ codes \in Seq(Codes!Code)
  BY DEF CallsInv, CodesOK
<1>6. /\ codes' \in Seq(Codes!Code) /\ Len(codes') = n /\ DOMAIN codes' = DOMAIN codes \cup {n}
      /\ codes'[n] = new /\ \A i \in DOMAIN codes : codes'[i] = codes[i]
  <2>1. codes' \in Seq(Codes!Code) /\ Len(codes') = n
    BY <1>1, <1>3, <1>5
  <2>2. DOMAIN codes' = 1..n
    BY <2>1
  <2>3. codes'[n] = new /\ \A i \in 1..Len(codes) : codes'[i] = codes[i]
    BY <1>1, <1>3, <1>5
  <2>4. QED
    BY <1>5, <2>1, <2>2, <2>3
<1> HIDE DEF n
<1>7. q.pc = "mail" /\ q.code = n
  BY <1>00
<1>8. mails'[r] = q /\ \A p \in Requests : p # r => mails'[p] = mails[p]
  BY <1>1 DEF CallsInv
<1>9. CodesOK'
  <2>1. codes'[n].expires <= codes'[n].created + CodeTtl /\ codes'[n].created <= accountTime
    BY <1>2, <1>3, <1>6 DEF CallsInv, AccountOK, Codes!Time
  <2>2. \A i \in DOMAIN codes : codes'[i].expires <= codes'[i].created + CodeTtl
                                /\ codes'[i].created <= accountTime
    BY <1>6, CodeFields DEF CallsInv
  <2>3. QED
    BY <1>1, <1>6, <2>1, <2>2 DEF CodesOK
<1>10. PlacesTaken'
  <2>1. Sending' = Sending \ {r} /\ r \in Sending
    BY <1>1, <1>7, <1>8 DEF Sending
  <2>2. IsFiniteSet(Sending)
    BY FS_Subset, CodesAssumption, RequestsAssumption DEF Sending
  <2>3. Cardinality(Sending \ {r}) = Cardinality(Sending) - 1
    BY <2>1, <2>2, FS_RemoveElement
  <2>4. Cardinality(Sending) \in Nat
    BY <2>2, FS_CardinalityType
  <2>5. Cardinality(Sending') = Cardinality(Sending) - 1
    BY <2>1, <2>3
  <2>6. Len(codes) + Cardinality(Sending) <= MaxCodes /\ Len(codes') = Len(codes) + 1
    BY <1>6 DEF CallsInv, PlacesTaken, n
  <2>7. QED
    BY <1>5, <2>4, <2>5, <2>6, CodesAssumption DEF PlacesTaken
<1>11. n \in Codes!CodeIds
  <2>1. Cardinality(Sending') \in Nat
    BY FS_Subset, FS_CardinalityType, CodesAssumption, RequestsAssumption DEF Sending
  <2>2. n + Cardinality(Sending') <= MaxCodes
    BY <1>6, <1>10 DEF PlacesTaken
  <2>3. QED
    BY <1>5, <2>1, <2>2, CodesAssumption DEF Codes!CodeIds, n
<1>12. \A p \in Requests : CallOK(mails[p])'
  <2> TAKE p \in Requests
  <2>1. CASE p = r
    <3>1. q \in Codes!Request
      BY <1>00, <1>11 DEF Codes!Request
    <3>2. QED
      BY <1>6, <1>7, <1>8, <2>1, <3>1 DEF CallOK
  <2>2. CASE p # r
    <3>1. CallOK(mails[p]) /\ mails'[p] = mails[p]
      BY <1>8, <2>2 DEF CallsInv
    <3>2. QED
      BY <1>1, <1>6, <3>1 DEF CallOK
  <2>3. QED
    BY <2>1, <2>2
<1>13. AccountOK' /\ mails' = [p \in Requests |-> mails'[p]]
  BY <1>1 DEF CallsInv, AccountOK
<1>14. CallsInv'
  BY <1>9, <1>10, <1>12, <1>13 DEF CallsInv
<1>15. LivesInv'
  <2> SUFFICES ASSUME NEW i \in DOMAIN codes', codes'[i].alone, codes'[i].used # "entered",
                      codes'[i].expires > accountTime
               PROVE  /\ codes'[i].used = "no"
                      /\ \A p \in Requests, purpose \in {codes'[i].purpose} :
                              ~Codes!IsSending(p, purpose)'
                      /\ \A j \in DOMAIN codes' : j # i /\ codes'[j].purpose = codes'[i].purpose =>
                              codes'[j].used # "no" \/ codes'[j].expires <= accountTime
    BY <1>1 DEF LivesInv, Codes!IsSending
  <2>1. CASE i = n
    <3>1. /\ Codes!NewestValid(mails[r].purpose, accountTime) = {}
          /\ \A p \in Requests \ {r} : ~Codes!IsSending(p, mails[r].purpose)
      BY <1>4, <1>6, <2>1
    <3>2. \A p \in Requests, purpose \in {new.purpose} : ~Codes!IsSending(p, purpose)'
      BY <1>3, <1>7, <1>8, <3>1 DEF Codes!IsSending
    <3>3. \A j \in DOMAIN codes : codes[j].purpose = mails[r].purpose =>
                codes[j].used # "no" \/ codes[j].expires <= accountTime
      BY <3>1, NoNewestNoneValid
    <3>4. QED
      BY <1>3, <1>6, <2>1, <3>2, <3>3
  <2>2. CASE i \in DOMAIN codes
    <3>1. codes'[i] = codes[i]
      BY <1>6, <2>2
    <3>2. /\ codes[i].used = "no"
          /\ \A p \in Requests : ~Codes!IsSending(p, codes[i].purpose)
          /\ \A j \in DOMAIN codes : j # i /\ codes[j].purpose = codes[i].purpose =>
                    codes[j].used # "no" \/ codes[j].expires <= accountTime
      BY <2>2, <3>1 DEF LivesInv
    <3>3. codes[i].purpose # new.purpose
      BY <1>1, <1>3, <2>2, <3>1, SenderKillsNone
    <3>4. \A p \in Requests, purpose \in {codes[i].purpose} : ~Codes!IsSending(p, purpose)'
      BY <1>7, <1>8, <3>2 DEF Codes!IsSending
    <3>5. QED
      BY <1>6, <3>1, <3>2, <3>3, <3>4
  <2>3. QED
    BY <1>6, <2>1, <2>2
<1>16. HistoryInv'
  BY <1>1, <1>7, HistoryAside DEF Codes!IsStoring
<1>17. QED
  BY <1>14, <1>15, <1>16

\* A code is mailed or entered: no time of it changes, nor its purpose.
LEMMA CodeMarked ==
    ASSUME CallsInv, LivesInv, HistoryInv, NEW r \in Requests, NEW q,
           mails' = [mails EXCEPT ![r] = q], UNCHANGED <<accountTime, account, history, unsure>>,
           NEW k \in DOMAIN codes,
           \/ codes' = [codes EXCEPT ![k].mailed = TRUE]
           \/ codes' = [codes EXCEPT ![k].used = "entered"],
           CallOK(q), ~Codes!IsStoring(r), q.pc \notin {"link", "record", "save"},
           q.pc \notin {"recent", "replace", "store"}
    PROVE  CallsInv' /\ LivesInv' /\ HistoryInv'
<1>1. \A i \in DOMAIN codes :
        /\ codes'[i] \in Codes!Code
        /\ codes'[i].purpose = codes[i].purpose /\ codes'[i].alone = codes[i].alone
        /\ codes'[i].expires = codes[i].expires /\ codes'[i].created = codes[i].created
        /\ codes'[i].used \in {codes[i].used, "entered"}
  <2> TAKE i \in DOMAIN codes
  <2>1. codes[i] \in Codes!Code
    BY CodeFields DEF CallsInv
  <2>2. \/ codes'[i] = codes[i]
        \/ codes'[i] = [codes[i] EXCEPT !.mailed = TRUE]
        \/ codes'[i] = [codes[i] EXCEPT !.used = "entered"]
    OBVIOUS
  <2>3. QED
    BY <2>1, <2>2 DEF Codes!Code
<1>2. codes' \in Seq(Codes!Code) /\ Len(codes') = Len(codes) /\ DOMAIN codes' = DOMAIN codes
  <2>1. Len(codes) \in Nat /\ DOMAIN codes = 1..Len(codes)
    BY DEF CallsInv, CodesOK
  <2>2. DOMAIN codes' = 1..Len(codes) /\ codes' = [i \in 1..Len(codes) |-> codes'[i]]
    BY <2>1
  <2>3. codes' \in [1..Len(codes) -> Codes!Code]
    BY <1>1, <2>1, <2>2
  <2>4. codes' \in Seq(Codes!Code)
    BY <2>1, <2>3
  <2>5. QED
    BY <2>1, <2>2, <2>4
<1>3. CodesOK'
  BY <1>1, <1>2, CodeFields DEF CallsInv, CodesOK
<1>4. AccountOK'
  BY DEF CallsInv, AccountOK
<1>5. CallOK(q)'
  BY <1>2 DEF CallOK
<1>6. CallsInv'
  BY <1>2, <1>3, <1>4, <1>5, CallMoves
<1>7. mails'[r] = q /\ \A p \in Requests : p # r => mails'[p] = mails[p]
  BY DEF CallsInv
<1>8. \A p \in Requests, purpose \in Codes!Purposes :
        Codes!IsSending(p, purpose)' => Codes!IsSending(p, purpose)
  BY <1>7 DEF Codes!IsSending
<1>9. LivesInv'
  BY <1>1, <1>2, <1>8, LivesKept
<1>10. QED
  BY <1>6, <1>9, HistoryAside

LEMMA SendMailKeeps ==
    ASSUME CallsInv, LivesInv, HistoryInv, NEW r \in Requests, Codes!SendMail(r)
    PROVE  CallsInv' /\ LivesInv' /\ HistoryInv'
<1>1. /\ mails[r].pc = "mail" /\ codes' = [codes EXCEPT ![mails[r].code].mailed = TRUE]
      /\ mails' = [mails EXCEPT ![r] = Codes!Idle]
      /\ UNCHANGED <<accountTime, account, history, unsure>>
  BY DEF Codes!SendMail, Codes!End, Codes!SetRequest
<1>2. PICK k \in DOMAIN codes : k = mails[r].code
  BY <1>1 DEF CallsInv, CallOK
<1>3. ~Codes!IsStoring(r)
  BY <1>1 DEF Codes!IsStoring
<1>4. QED
  BY <1>1, <1>2, <1>3, IdleCall, CodeMarked

(***************************************************************************)
(* verifyAndConsume.                                                       *)
(***************************************************************************)

LEMMA EnterCodeKeeps ==
    ASSUME CallsInv, LivesInv, HistoryInv, NEW r \in Requests, Codes!EnterCode(r)
    PROVE  CallsInv' /\ LivesInv' /\ HistoryInv'
<1>1. /\ mails[r].pc = "idle" /\ UNCHANGED <<accountTime, codes, account, history, unsure>>
  BY DEF Codes!EnterCode
<1>2. PICK purpose \in Codes!Purposes, i \in DOMAIN codes, password \in Passwords :
        mails' = [mails EXCEPT ![r] = [pc |-> "verify", purpose |-> purpose, code |-> i,
                                       password |-> password, at |-> accountTime]]
  BY DEF Codes!EnterCode, Codes!SetRequest
<1>3. PICK q : q = [pc |-> "verify", purpose |-> purpose, code |-> i, password |-> password,
                    at |-> accountTime]
  OBVIOUS
<1>4. i \in Codes!CodeIds
  <2>1. Len(codes) <= MaxCodes
    BY CallsTyped DEF Codes!TypeOK
  <2>2. i \in 1..Len(codes) /\ Len(codes) \in Nat
    BY DEF CallsInv, CodesOK
  <2>3. QED
    BY <2>1, <2>2, CodesAssumption DEF Codes!CodeIds
<1>5. CallOK(q) /\ q.pc = "verify"
  <2>1. accountTime \in Codes!Time
    BY DEF CallsInv, AccountOK
  <2>2. q \in Codes!Request
    BY <1>3, <1>4, <2>1 DEF Codes!Request
  <2>3. QED
    BY <1>3, <2>2 DEF CallOK
<1>6. QED
  BY <1>1, <1>2, <1>3, <1>5, CallReads DEF Codes!IsStoring

LEMMA VerifyFindKeeps ==
    ASSUME CallsInv, LivesInv, HistoryInv, NEW r \in Requests, Codes!VerifyFind(r)
    PROVE  CallsInv' /\ LivesInv' /\ HistoryInv'
<1>1. mails[r].pc = "verify" /\ UNCHANGED <<accountTime, codes, account, history, unsure>>
  BY DEF Codes!VerifyFind
<1>2. CASE Codes!End(r)
  BY <1>1, <1>2, CallEnds DEF Codes!IsStoring
<1>3. CASE mails' = [mails EXCEPT ![r] = [pc |-> "consume", purpose |-> mails[r].purpose,
                        code |-> mails[r].code, password |-> mails[r].password]]
  <2>1. PICK q : q = [pc |-> "consume", purpose |-> mails[r].purpose, code |-> mails[r].code,
                      password |-> mails[r].password]
    OBVIOUS
  <2>2. CallOK(q) /\ q.pc = "consume"
    <3>1. /\ mails[r] \in [pc : {"verify"}, purpose : Codes!Purposes, code : Codes!CodeIds,
                           password : Passwords, at : Codes!Time]
          /\ mails[r].code \in DOMAIN codes
      BY <1>1, CallVariants DEF CallsInv, CallOK
    <3>2. q \in [pc : {"consume"}, purpose : Codes!Purposes, code : Codes!CodeIds,
                 password : Passwords]
      BY <2>1, <3>1
    <3>3. QED
      BY <2>1, <3>1, <3>2 DEF CallOK, Codes!Request
  <2>3. QED
    BY <1>1, <1>3, <2>1, <2>2, CallReads DEF Codes!IsStoring
<1>4. QED
  BY <1>2, <1>3 DEF Codes!VerifyFind, Codes!SetRequest

LEMMA VerifyConsumeKeeps ==
    ASSUME CallsInv, LivesInv, HistoryInv, NEW r \in Requests,
           Codes!VerifyConsume(r)
    PROVE  CallsInv' /\ LivesInv' /\ HistoryInv'
<1>1. PICK q : q = [pc |-> IF mails[r].purpose = "register" THEN "find" ELSE "last",
                    password |-> mails[r].password]
  OBVIOUS
<1>2. /\ mails[r].pc = "consume" /\ codes' = [codes EXCEPT ![mails[r].code].used = "entered"]
      /\ mails' = [mails EXCEPT ![r] = q] /\ UNCHANGED <<accountTime, account, history, unsure>>
  BY <1>1 DEF Codes!VerifyConsume, Codes!SetRequest
<1>3. mails[r].code \in DOMAIN codes /\ mails[r].password \in Passwords
  BY <1>2, CallVariants DEF CallsInv, CallOK
<1>4. PICK k \in DOMAIN codes : k = mails[r].code
  BY <1>3
<1>5. CallOK(q) /\ q.pc \in {"find", "last"}
  BY <1>1, <1>3 DEF CallOK, Codes!Request
<1>6. ~Codes!IsStoring(r)
  BY <1>2 DEF Codes!IsStoring
<1>7. QED
  BY <1>2, <1>4, <1>5, <1>6, CodeMarked

(***************************************************************************)
(* register and resetPassword.                                             *)
(***************************************************************************)

LEMMA CodesAside ==
    ASSUME CallsInv, LivesInv, UNCHANGED <<accountTime, codes>>,
           \A p \in Requests, purpose \in Codes!Purposes :
                Codes!IsSending(p, purpose)' => Codes!IsSending(p, purpose)
    PROVE  LivesInv' /\ CodesOK'
<1>1. LivesInv'
  BY LivesKept
<1>2. CodesOK'
  BY DEF CallsInv, CodesOK
<1>3. QED
  BY <1>1, <1>2

LEMMA PasswordOf ==
    ASSUME CallsInv, NEW r \in Requests,
           mails[r].pc \in {"find", "insert", "link", "last", "record", "save"}
    PROVE  mails[r].password \in Passwords
<1>1. mails[r] \in Codes!Request
  BY DEF CallsInv, CallOK
<1>2. CASE mails[r].pc = "save"
  <2>1. mails[r] \in [pc : {"save"}, password : Passwords, overlapped : BOOLEAN]
    BY <1>1, <1>2, CallVariants
  <2>2. QED
    BY <2>1
<1>3. CASE mails[r].pc \in {"find", "insert", "link", "last", "record"}
  <2>1. mails[r] \in [pc : {"find", "insert", "link", "last", "record"}, password : Passwords]
    BY <1>1, <1>3, CallVariants
  <2>2. QED
    BY <2>1
<1>4. QED
  BY <1>2, <1>3

\* A password stored while nobody else stores one is the account's, until it is recorded;
\* every reset that compared before is overlapped.
LEMMA StoredKeeps ==
    ASSUME CallsInv, LivesInv, HistoryInv, NEW r \in Requests,
           NEW pc \in {"link", "record"}, Codes!Stored(r, pc),
           mails[r].pc \in {"insert", "save"}, UNCHANGED <<accountTime, codes, history>>
    PROVE  CallsInv' /\ LivesInv' /\ HistoryInv'
<1>1. /\ account' = mails[r].password /\ unsure' = (unsure \/ Codes!Overlaps(r))
      /\ mails' = [p \in Requests |->
            IF p = r THEN [pc |-> pc, password |-> mails[r].password]
            ELSE IF mails[p].pc = "save" THEN [mails[p] EXCEPT !.overlapped = TRUE]
            ELSE mails[p]]
  BY DEF Codes!Stored
<1>2. mails[r].password \in Passwords
  BY PasswordOf
<1>3. /\ mails'[r] = [pc |-> pc, password |-> mails[r].password]
      /\ \A p \in Requests \ {r} :
            mails'[p] = IF mails[p].pc = "save" THEN [mails[p] EXCEPT !.overlapped = TRUE]
                        ELSE mails[p]
  BY <1>1
<1>4. ASSUME NEW p \in Requests \ {r}
      PROVE  /\ mails'[p].pc = mails[p].pc
             /\ mails'[p].pc # "save" => mails'[p] = mails[p]
             /\ mails'[p].pc = "save" => mails'[p].overlapped = TRUE
             /\ CallOK(mails[p])'
  <2>1. CallOK(mails[p])
    BY DEF CallsInv
  <2>2. CASE mails[p].pc = "save"
    <3>1. mails[p] \in [pc : {"save"}, password : Passwords, overlapped : BOOLEAN]
      BY <2>1, <2>2, CallVariants DEF CallOK
    <3>2. /\ mails'[p] \in [pc : {"save"}, password : Passwords, overlapped : BOOLEAN]
          /\ mails'[p].pc = "save" /\ mails'[p].overlapped = TRUE
      BY <1>3, <2>2, <3>1
    <3>3. QED
      BY <2>2, <3>2 DEF CallOK, Codes!Request
  <2>3. CASE mails[p].pc # "save"
    <3>1. mails'[p] = mails[p]
      BY <1>3, <2>3
    <3>2. QED
      BY <2>1, <2>3, <3>1 DEF CallOK
  <2>4. QED
    BY <2>2, <2>3
<1>5. mails'[r].pc = pc /\ mails'[r].password = mails[r].password /\ CallOK(mails[r])'
  <2>1. mails'[r] \in [pc : {"find", "insert", "link", "last", "record"}, password : Passwords]
    BY <1>2, <1>3
  <2>2. QED
    BY <1>3, <2>1 DEF CallOK, Codes!Request
<1>6. CodesOK' /\ LivesInv'
  <2>1. \A p \in Requests, purpose \in Codes!Purposes :
            Codes!IsSending(p, purpose)' => Codes!IsSending(p, purpose)
    BY <1>4, <1>5 DEF Codes!IsSending
  <2>2. QED
    BY <2>1, CodesAside
<1>7. CallsInv'
  <2>1. Sending' = Sending
    BY <1>4, <1>5 DEF Sending
  <2>2. PlacesTaken'
    BY <2>1 DEF CallsInv, PlacesTaken
  <2>3. AccountOK'
    BY <1>1, <1>2 DEF CallsInv, AccountOK
  <2>4. \A p \in Requests : CallOK(mails[p])'
    <3> TAKE p \in Requests
    <3>1. QED
      BY <1>4, <1>5
  <2>5. mails' = [p \in Requests |-> mails'[p]]
    BY <1>1
  <2>6. QED
    BY <1>6, <2>2, <2>3, <2>4, <2>5 DEF CallsInv
<1>8. HistoryInv'
  <2>1. Codes!IsStoring(r)'
    BY <1>5 DEF Codes!IsStoring
  <2>2. ASSUME ~unsure', NEW p \in Requests, Codes!IsStoring(p)' PROVE p = r
    BY <1>1, <1>4, <2>2 DEF Codes!Overlaps, Codes!IsStoring
  <2>3. \A s \in Requests : ~(mails'[s].pc = "save" /\ ~mails'[s].overlapped)
    BY <1>4, <1>5
  <2>4. QED
    BY <1>1, <1>5, <2>1, <2>2, <2>3 DEF HistoryInv
<1>9. QED
  BY <1>6, <1>7, <1>8

LEMMA RegisterFindKeeps ==
    ASSUME CallsInv, LivesInv, HistoryInv, NEW r \in Requests,
           Codes!RegisterFind(r)
    PROVE  CallsInv' /\ LivesInv' /\ HistoryInv'
<1>1. mails[r].pc = "find" /\ UNCHANGED <<accountTime, codes, account, history, unsure>>
  BY DEF Codes!RegisterFind
<1>2. CASE Codes!End(r)
  BY <1>1, <1>2, CallEnds DEF Codes!IsStoring
<1>3. CASE mails' = [mails EXCEPT ![r].pc = "insert"]
  <2>1. PICK q : q = [mails[r] EXCEPT !.pc = "insert"]
    OBVIOUS
  <2>2. mails[r] \in [pc : {"find", "insert", "link", "last", "record"}, password : Passwords]
    BY <1>1, CallVariants DEF CallsInv, CallOK
  <2>3. CallOK(q) /\ q.pc = "insert"
    BY <2>1, <2>2 DEF CallOK, Codes!Request
  <2>4. QED
    BY <1>1, <1>3, <2>1, <2>3, CallReads DEF Codes!IsStoring
<1>4. QED
  BY <1>2, <1>3 DEF Codes!RegisterFind

LEMMA RegisterInsertKeeps ==
    ASSUME CallsInv, LivesInv, HistoryInv, NEW r \in Requests,
           Codes!RegisterInsert(r)
    PROVE  CallsInv' /\ LivesInv' /\ HistoryInv'
<1>1. mails[r].pc = "insert" /\ UNCHANGED <<accountTime, codes, history>>
  BY DEF Codes!RegisterInsert
<1>2. CASE Codes!End(r) /\ UNCHANGED <<account, unsure>>
  BY <1>1, <1>2, CallEnds DEF Codes!IsStoring
<1>3. CASE Codes!Stored(r, "link")
  BY <1>1, <1>3, StoredKeeps
<1>4. QED
  BY <1>2, <1>3 DEF Codes!RegisterInsert

LEMMA RegisterLinkKeeps ==
    ASSUME CallsInv, LivesInv, HistoryInv, NEW r \in Requests,
           Codes!RegisterLink(r)
    PROVE  CallsInv' /\ LivesInv' /\ HistoryInv'
<1>1. PICK q : q = [mails[r] EXCEPT !.pc = "record"]
  OBVIOUS
<1>2. /\ mails[r].pc = "link" /\ UNCHANGED <<accountTime, codes, account, history, unsure>>
      /\ mails' = [mails EXCEPT ![r] = q]
  BY <1>1 DEF Codes!RegisterLink
<1>3. mails[r] \in [pc : {"find", "insert", "link", "last", "record"}, password : Passwords]
  BY <1>2, CallVariants DEF CallsInv, CallOK
<1>4. CallOK(q) /\ q.pc = "record" /\ q.password = mails[r].password
  BY <1>1, <1>3 DEF CallOK, Codes!Request
<1>5. mails'[r] = q /\ \A p \in Requests : p # r => mails'[p] = mails[p]
  BY <1>2 DEF CallsInv
<1>6. LivesInv' /\ CodesOK'
  <2>1. \A p \in Requests, purpose \in Codes!Purposes :
            Codes!IsSending(p, purpose)' => Codes!IsSending(p, purpose)
    BY <1>4, <1>5 DEF Codes!IsSending
  <2>2. QED
    BY <1>2, <2>1, CodesAside
<1>7. CallsInv'
  <2>1. AccountOK'
    BY <1>2 DEF CallsInv, AccountOK
  <2>2. CallOK(q)'
    BY <1>4 DEF CallOK
  <2>3. QED
    BY <1>2, <1>4, <1>6, <2>1, <2>2, CallMoves
<1>8. HistoryInv'
  <2>1. \A p \in Requests : /\ Codes!IsStoring(p)' <=> Codes!IsStoring(p)
                            /\ Codes!IsStoring(p) => mails'[p].password = mails[p].password
                            /\ mails'[p].pc = "save" => mails'[p] = mails[p]
    BY <1>2, <1>4, <1>5 DEF Codes!IsStoring
  <2>2. {history'[i].password : i \in Codes!NewestRows'}
            = {history[i].password : i \in Codes!NewestRows}
    BY <1>2 DEF Codes!NewestRows
  <2>3. QED
    BY <1>2, <2>1, <2>2 DEF HistoryInv
<1>9. QED
  BY <1>6, <1>7, <1>8

LEMMA ResetLastKeeps ==
    ASSUME CallsInv, LivesInv, HistoryInv, NEW r \in Requests, Codes!ResetLast(r)
    PROVE  CallsInv' /\ LivesInv' /\ HistoryInv'
<1> DEFINE password == mails[r].password
           Seen == {history[i].password : i \in Codes!NewestRows}
<1>1. mails[r].pc = "last" /\ UNCHANGED <<accountTime, codes, account, history, unsure>>
  BY DEF Codes!ResetLast
<1>2. CASE Codes!End(r)
  BY <1>1, <1>2, CallEnds DEF Codes!IsStoring
<1>3. PICK q : q = [pc |-> "save", password |-> password, overlapped |-> Codes!Overlaps(r)]
  OBVIOUS
<1>4. CASE Seen # {password} /\ mails' = [mails EXCEPT ![r] = q]
  <2>1. password \in Passwords
    BY <1>1, PasswordOf
  <2>2. CallOK(q) /\ q.pc = "save" /\ q.password = password
        /\ (q.overlapped <=> Codes!Overlaps(r))
    <3>1. Codes!Overlaps(r) \in BOOLEAN
      BY DEF Codes!Overlaps
    <3>2. q \in [pc : {"save"}, password : Passwords, overlapped : BOOLEAN]
      BY <1>3, <2>1, <3>1
    <3>3. QED
      BY <1>3, <3>1, <3>2 DEF CallOK, Codes!Request
  <2>3. mails'[r] = q /\ \A p \in Requests : p # r => mails'[p] = mails[p]
    BY <1>4 DEF CallsInv
  <2>4. LivesInv' /\ CodesOK'
    <3>1. \A p \in Requests, purpose \in Codes!Purposes :
              Codes!IsSending(p, purpose)' => Codes!IsSending(p, purpose)
      BY <2>2, <2>3 DEF Codes!IsSending
    <3>2. QED
      BY <1>1, <3>1, CodesAside
  <2>5. CallsInv'
    <3>1. AccountOK'
      BY <1>1 DEF CallsInv, AccountOK
    <3>2. CallOK(q)'
      BY <2>2 DEF CallOK
    <3>3. QED
      BY <1>1, <1>4, <2>2, <2>4, <3>1, <3>2, CallMoves
  <2>6. HistoryInv'
    <3>1. \A p \in Requests : /\ Codes!IsStoring(p)' <=> Codes!IsStoring(p)
                              /\ Codes!IsStoring(p) => mails'[p] = mails[p]
      BY <1>1, <2>2, <2>3 DEF Codes!IsStoring
    <3>2. {history'[i].password : i \in Codes!NewestRows'} = Seen
      BY <1>1 DEF Codes!NewestRows
    <3>3. ASSUME ~Codes!Overlaps(r)
          PROVE  /\ \A p \in Requests : ~Codes!IsStoring(p)
                 /\ password # account \/ unsure
      <4>1. \A p \in Requests : ~Codes!IsStoring(p)
        BY <1>1, <3>3 DEF Codes!Overlaps, Codes!IsStoring
      <4>2. ASSUME ~unsure, password = account PROVE FALSE
        <5>1. account # NoAccount
          BY <2>1, <4>2, CodesAssumption
        <5>2. Seen = {account}
          BY <4>1, <4>2, <5>1 DEF HistoryInv
        <5>3. QED
          BY <1>4, <4>2, <5>2
      <4>3. QED
        BY <4>1, <4>2
    <3>4. ASSUME NEW s \in Requests, mails'[s].pc = "save", ~mails'[s].overlapped
          PROVE  /\ \A p \in Requests : ~Codes!IsStoring(p)
                 /\ mails'[s].password # account \/ unsure
      <4>1. CASE s = r
        BY <2>2, <2>3, <3>3, <3>4, <4>1
      <4>2. CASE s # r
        BY <2>3, <3>4, <4>2 DEF HistoryInv
      <4>3. QED
        BY <4>1, <4>2
    <3> HIDE DEF Seen, password
    <3>5. ~unsure' =>
            /\ \A p, s \in Requests : Codes!IsStoring(p)' /\ Codes!IsStoring(s)' => p = s
            /\ \A p \in Requests : Codes!IsStoring(p)' => mails'[p].password = account'
            /\ account' # NoAccount /\ (\A p \in Requests : ~Codes!IsStoring(p)') =>
                    {history'[i].password : i \in Codes!NewestRows'} = {account'}
      BY <1>1, <3>1, <3>2 DEF HistoryInv, Seen
    <3>6. QED
      BY <1>1, <3>1, <3>4, <3>5 DEF HistoryInv
  <2>7. QED
    BY <2>4, <2>5, <2>6
<1>5. QED
  BY <1>2, <1>3, <1>4 DEF Codes!ResetLast, Codes!SetRequest

LEMMA ResetSaveKeeps ==
    ASSUME CallsInv, LivesInv, HistoryInv, NEW r \in Requests, Codes!ResetSave(r)
    PROVE  CallsInv' /\ LivesInv' /\ HistoryInv'
  BY StoredKeeps DEF Codes!ResetSave

\* The row is the newest when none is of this second, and it holds the password of the
\* account when nobody stores another meanwhile.
LEMMA RecordKeeps ==
    ASSUME CallsInv, LivesInv, HistoryInv, NEW r \in Requests, Codes!Record(r)
    PROVE  CallsInv' /\ LivesInv' /\ HistoryInv'
<1> DEFINE new == [password |-> mails[r].password, at |-> accountTime]
           n == Len(history) + 1
<1>1. /\ mails[r].pc = "record" /\ UNCHANGED <<accountTime, codes, account>>
      /\ history' = Append(history, new) /\ mails' = [mails EXCEPT ![r] = Codes!Idle]
      /\ unsure' = \/ \E i \in DOMAIN history : history[i].at = accountTime
                   \/ unsure /\ (Codes!Overlaps(r) \/ account # mails[r].password)
  BY DEF Codes!Record, Codes!End, Codes!SetRequest
<1>2. /\ history \in Seq([password : Passwords, at : Codes!Time])
      /\ \A i \in DOMAIN history : history[i].at <= accountTime
      /\ accountTime \in Codes!Time
  BY DEF CallsInv, AccountOK
<1>3. new \in [password : Passwords, at : Codes!Time]
  BY <1>1, <1>2, PasswordOf
<1>4. new.at = accountTime /\ new.password = mails[r].password
  OBVIOUS
<1> HIDE DEF new
<1>5. /\ history' \in Seq([password : Passwords, at : Codes!Time])
      /\ n \notin DOMAIN history /\ DOMAIN history' = DOMAIN history \cup {n}
      /\ history'[n] = new /\ \A i \in DOMAIN history : history'[i] = history[i]
  <2>1. Len(history) \in Nat /\ DOMAIN history = 1..Len(history)
    BY <1>2
  <2>2. history' \in Seq([password : Passwords, at : Codes!Time]) /\ Len(history') = n
    BY <1>1, <1>2, <1>3
  <2>3. DOMAIN history' = 1..n
    BY <2>2
  <2>4. history'[n] = new /\ \A i \in 1..Len(history) : history'[i] = history[i]
    BY <1>1, <1>2, <1>3
  <2>5. QED
    BY <2>1, <2>2, <2>3, <2>4
<1> HIDE DEF n
<1>6. mails'[r] = Codes!Idle /\ \A p \in Requests : p # r => mails'[p] = mails[p]
  BY <1>1 DEF CallsInv
<1>7. accountTime \in Int
  BY <1>2 DEF Codes!Time
<1>8. AccountOK'
  <2>1. \A i \in DOMAIN history' : history'[i].at <= accountTime
    BY <1>2, <1>4, <1>5, <1>7
  <2>2. unsure' \in BOOLEAN
    BY <1>1
  <2>3. account \in Passwords \cup {NoAccount}
    BY DEF CallsInv, AccountOK
  <2>4. QED
    BY <1>1, <1>2, <1>5, <2>1, <2>2, <2>3 DEF AccountOK
<1>9. LivesInv' /\ CodesOK'
  <2>1. \A p \in Requests, purpose \in Codes!Purposes :
            Codes!IsSending(p, purpose)' => Codes!IsSending(p, purpose)
    BY <1>6, IdleCall DEF Codes!IsSending
  <2>2. QED
    BY <1>1, <2>1, CodesAside
<1>10. CallsInv'
  <2>1. CallOK(Codes!Idle)'
    BY IdleCall DEF CallOK
  <2>2. PICK q : q = Codes!Idle
    OBVIOUS
  <2>3. CallOK(q)' /\ q.pc = "idle"
    BY <2>1, <2>2, IdleCall
  <2>4. QED
    BY <1>1, <1>8, <1>9, <2>2, <2>3, CallMoves
<1>11. Codes!IsStoring(r) /\ ~Codes!IsStoring(r)'
  BY <1>1, <1>6, IdleCall DEF Codes!IsStoring
<1>12. ASSUME ~unsure'
       PROVE  /\ \A p \in Requests : ~Codes!IsStoring(p)'
              /\ {history'[i].password : i \in Codes!NewestRows'} = {account'}
  <2>1. /\ \A i \in DOMAIN history : history[i].at # accountTime
        /\ ~unsure \/ (~Codes!Overlaps(r) /\ account = mails[r].password)
    BY <1>1, <1>12
  <2>2. ~Codes!Overlaps(r) /\ account = mails[r].password
    BY <1>11, <2>1 DEF HistoryInv, Codes!Overlaps
  <2>3. \A p \in Requests : ~Codes!IsStoring(p)'
    BY <1>6, <1>11, <2>2 DEF Codes!Overlaps, Codes!IsStoring
  <2>4. Codes!NewestRows' = {n}
    <3>1. \A i \in DOMAIN history : history[i].at \in Int /\ history[i].at < accountTime
      <4> TAKE i \in DOMAIN history
      <4>1. history[i].at \in Int /\ history[i].at <= accountTime /\ history[i].at # accountTime
        BY <2>1, HistoryFields DEF CallsInv
      <4>2. QED
        BY <1>7, <4>1
    <3>2. \A i \in DOMAIN history' : history'[i].at <= history'[n].at
      BY <1>4, <1>5, <1>7, <3>1
    <3>3. \A i \in DOMAIN history : ~(history'[n].at <= history'[i].at)
      BY <1>4, <1>5, <1>7, <3>1
    <3>4. QED
      BY <1>5, <3>2, <3>3 DEF Codes!NewestRows
  <2>5. QED
    BY <1>1, <1>4, <1>5, <2>2, <2>3, <2>4
<1>13. \A s \in Requests : ~(mails'[s].pc = "save" /\ ~mails'[s].overlapped)
  BY <1>6, <1>11, IdleCall DEF HistoryInv
<1>14. HistoryInv'
  BY <1>12, <1>13 DEF HistoryInv
<1>15. QED
  BY <1>9, <1>10, <1>14

(***************************************************************************)
(* Failures, and the clock.                                                *)
(***************************************************************************)

LEMMA RequestFailsKeeps ==
    ASSUME CallsInv, LivesInv, HistoryInv, NEW r \in Requests,
           Codes!RequestFails(r)
    PROVE  CallsInv' /\ LivesInv' /\ HistoryInv'
<1>1. /\ UNCHANGED <<accountTime, codes, account, history>>
      /\ unsure' = (unsure \/ Codes!IsStoring(r)) /\ Codes!End(r)
      /\ mails' = [mails EXCEPT ![r] = Codes!Idle]
  BY DEF Codes!RequestFails, Codes!End, Codes!SetRequest
<1>2. CASE ~Codes!IsStoring(r)
  <2>1. unsure' = unsure
    BY <1>1, <1>2 DEF CallsInv, AccountOK
  <2>2. QED
    BY <1>1, <1>2, <2>1, CallEnds
<1>3. CASE Codes!IsStoring(r)
  <2>1. mails'[r] = Codes!Idle /\ \A p \in Requests : p # r => mails'[p] = mails[p]
    BY <1>1 DEF CallsInv
  <2>2. LivesInv' /\ CodesOK'
    <3>1. \A p \in Requests, purpose \in Codes!Purposes :
              Codes!IsSending(p, purpose)' => Codes!IsSending(p, purpose)
      BY <2>1, IdleCall DEF Codes!IsSending
    <3>2. QED
      BY <1>1, <3>1, CodesAside
  <2>3. CallsInv'
    <3>1. AccountOK'
      BY <1>1 DEF CallsInv, AccountOK
    <3>2. PICK q : q = Codes!Idle
      OBVIOUS
    <3>3. CallOK(q)' /\ q.pc = "idle"
      BY <3>2, IdleCall DEF CallOK
    <3>4. QED
      BY <1>1, <2>2, <3>1, <3>2, <3>3, CallMoves
  <2>4. HistoryInv'
    <3>1. \A s \in Requests : ~(mails'[s].pc = "save" /\ ~mails'[s].overlapped)
      BY <1>3, <2>1, IdleCall DEF HistoryInv
    <3>2. unsure'
      BY <1>1, <1>3
    <3>3. QED
      BY <3>1, <3>2 DEF HistoryInv
  <2>5. QED
    BY <2>2, <2>3, <2>4
<1>4. QED
  BY <1>2, <1>3

LEMMA CodesTickKeeps ==
    ASSUME CallsInv, LivesInv, HistoryInv, Codes!Tick
    PROVE  CallsInv' /\ LivesInv' /\ HistoryInv'
<1>1. /\ accountTime < CodesMaxTime /\ accountTime' = accountTime + 1
      /\ UNCHANGED <<codes, account, history, unsure, mails>>
  BY DEF Codes!Tick
<1>2. accountTime \in Nat /\ accountTime' \in Codes!Time /\ accountTime < accountTime'
  BY <1>1, CodesAssumption DEF CallsInv, AccountOK, Codes!Time
<1>3. LivesInv'
  <2>1. \A p \in Requests, purpose \in Codes!Purposes :
            Codes!IsSending(p, purpose)' => Codes!IsSending(p, purpose)
    BY <1>1 DEF Codes!IsSending
  <2>2. QED
    BY <1>1, <2>1, LivesKept
<1>4. AccountOK'
  <2>1. \A i \in DOMAIN history : history[i].at \in Int /\ history[i].at <= accountTime
    BY HistoryFields DEF CallsInv
  <2>2. \A i \in DOMAIN history : history[i].at <= accountTime'
    <3>1. accountTime \in Int /\ accountTime' \in Int
      BY <1>2 DEF Codes!Time
    <3>2. QED
      BY <1>2, <2>1, <3>1
  <2>3. QED
    BY <1>1, <1>2, <2>2 DEF CallsInv, AccountOK
<1>5. CodesOK'
  <2>1. \A i \in DOMAIN codes : codes[i].created <= accountTime'
    <3>1. \A i \in DOMAIN codes : codes[i].created \in Int /\ codes[i].created <= accountTime
      BY CodeFields DEF CallsInv
    <3>2. accountTime \in Int /\ accountTime' \in Int
      BY <1>2 DEF Codes!Time
    <3>3. QED
      BY <1>2, <3>1, <3>2
  <2>2. QED
    BY <1>1, <2>1 DEF CallsInv, CodesOK
<1>6. ASSUME NEW p \in Requests PROVE CallOK(mails[p])'
  <2>1. CallOK(mails[p])
    BY DEF CallsInv
  <2>2. mails[p].pc = "recent" => mails[p].since <= accountTime' - Cooldown
    <3>1. SUFFICES ASSUME mails[p].pc = "recent" PROVE mails[p].since <= accountTime' - Cooldown
      OBVIOUS
    <3>2. mails[p].since \in (0 - Cooldown)..CodesMaxTime
          /\ mails[p].since <= accountTime - Cooldown
      BY <2>1, <3>1, CallVariants DEF CallOK
    <3>3. QED
      BY <1>2, <3>2, CodesAssumption DEF Codes!Time
  <2>3. mails[p].pc \in {"replace", "store"} => mails[p].expires <= accountTime' + CodeTtl
    <3>1. SUFFICES ASSUME mails[p].pc \in {"replace", "store"}
                   PROVE  mails[p].expires <= accountTime' + CodeTtl
      OBVIOUS
    <3>2. /\ mails[p].expires \in CodeTtl..(CodesMaxTime + CodeTtl)
          /\ mails[p].expires <= accountTime + CodeTtl
      BY <2>1, <3>1, CallVariants DEF CallOK
    <3>3. QED
      BY <1>2, <3>2, CodesAssumption DEF Codes!Time
  <2>4. QED
    BY <1>1, <2>1, <2>2, <2>3 DEF CallOK
<1>7. CallsInv'
  BY <1>1, <1>4, <1>5, <1>6 DEF CallsInv, PlacesTaken, Sending
<1>8. HistoryInv'
  BY <1>1 DEF HistoryInv, Codes!IsStoring, Codes!NewestRows
<1>9. QED
  BY <1>3, <1>7, <1>8

LEMMA CodesNextKeeps ==
    ASSUME CallsInv, LivesInv, HistoryInv, [Codes!Next]_(Codes!vars)
    PROVE  CallsInv' /\ LivesInv' /\ HistoryInv'
<1>1. CASE UNCHANGED Codes!vars
  <2>1. UNCHANGED <<accountTime, codes, account, history, unsure, mails>>
    BY <1>1 DEF Codes!vars
  <2>2. CallsInv'
    BY <2>1 DEF CallsInv, AccountOK, CodesOK, PlacesTaken, Sending, CallOK
  <2>3. LivesInv'
    BY <2>1 DEF LivesInv, Codes!IsSending
  <2>4. HistoryInv'
    BY <2>1 DEF HistoryInv, Codes!IsStoring, Codes!NewestRows
  <2>5. QED
    BY <2>2, <2>3, <2>4
<1>2. ASSUME NEW r \in Requests, Codes!SendStep(r) PROVE CallsInv' /\ LivesInv' /\ HistoryInv'
  BY <1>2, SendBeginKeeps, SendRecentKeeps, SendReplaceKeeps, SendStoreKeeps, SendMailKeeps
     DEF Codes!SendStep
<1>3. ASSUME NEW r \in Requests, Codes!SpendStep(r) PROVE CallsInv' /\ LivesInv' /\ HistoryInv'
  BY <1>3, EnterCodeKeeps, VerifyFindKeeps, VerifyConsumeKeeps, RegisterFindKeeps,
     RegisterInsertKeeps, RegisterLinkKeeps, ResetLastKeeps, ResetSaveKeeps, RecordKeeps
     DEF Codes!SpendStep
<1>4. QED
  BY <1>1, <1>2, <1>3, RequestFailsKeeps, CodesTickKeeps DEF Codes!Next

\* What the calls hold of the clock and the table stays true, through every action.
LEMMA CodesInvariant ==
    Codes!Spec => [](CallsInv /\ LivesInv /\ HistoryInv)
<1>1. Codes!Init => CallsInv /\ LivesInv /\ HistoryInv
  BY CallsInit
<1>2. CallsInv /\ LivesInv /\ HistoryInv /\ [Codes!Next]_(Codes!vars)
        => (CallsInv /\ LivesInv /\ HistoryInv)'
  BY CodesNextKeeps
<1>3. QED
  BY <1>1, <1>2, PTL DEF Codes!Spec

\* Codes, passwords and the calls of an address keep their types, and a code never lives
\* longer than its time.
THEOREM CodesTyped == Codes!Spec => []Codes!TypeOK
<1>1. CallsInv => Codes!TypeOK
  BY CallsTyped
<1>2. QED
  BY <1>1, CodesInvariant, PTL

\* A code stored while no other of its purpose was valid or being sent is the one a search
\* finds, until it expires or is entered, whatever calls are in progress.
THEOREM LoneCodeLivesOn == Codes!Spec => []Codes!LoneCodeLives
<1>1. ASSUME CallsInv, LivesInv PROVE Codes!LoneCodeLives
  <2> SUFFICES ASSUME NEW i \in DOMAIN codes, codes[i].alone, codes[i].used # "entered",
                      codes[i].expires > accountTime
               PROVE  Codes!NewestValid(codes[i].purpose, accountTime) = {i}
    BY DEF Codes!LoneCodeLives
  <2>1. /\ codes[i].used = "no"
        /\ \A j \in DOMAIN codes : j # i /\ codes[j].purpose = codes[i].purpose =>
                codes[j].used # "no" \/ codes[j].expires <= accountTime
    BY <1>1 DEF LivesInv
  <2>2. \A j \in DOMAIN codes : codes[j].created <= codes[j].created
                                /\ ~(codes[j].expires <= accountTime
                                       /\ codes[j].expires > accountTime)
    <3> TAKE j \in DOMAIN codes
    <3>1. codes[j].created \in Int /\ codes[j].expires \in Int /\ accountTime \in Int
      BY <1>1, CodeFields DEF CallsInv, AccountOK, Codes!Time
    <3>2. QED
      BY <3>1
  <2>3. QED
    BY <2>1, <2>2 DEF Codes!NewestValid
<1>2. QED
  BY <1>1, CodesInvariant, PTL

\* A reset to the current password passes only beside another one, or after the record of
\* the current password was lost, overtaken, or made in one second with another.
THEOREM ReuseIsExplained == Codes!Spec => Codes!ReuseExplained
<1>1. ASSUME HistoryInv, [Codes!Next]_(Codes!vars)
      PROVE  [Codes!ReuseExplainedStep]_(Codes!vars)
  BY <1>1 DEF HistoryInv, Codes!ReuseExplainedStep
<1>2. QED
  BY <1>1, CodesInvariant, PTL DEF Codes!Spec, Codes!ReuseExplained

-----------------------------------------------------------------------------
(* The services beside the orders: a step of one is a step of its            *)
(* specification, and leaves the others as they are.                         *)

LEMMA AdministrationIsServed == ServicesSpec => Admins!Spec
<1>1. ServicesInit => Admins!Init
  BY DEF ServicesInit
<1>2. [ServicesNext]_servicesVars => [Admins!Next]_(Admins!vars)
  BY DEF ServicesNext, OrdersStep, AdminStep, AccountStep, PairStep, servicesVars, adminVars,
         Admins!vars
<1>3. QED
  BY <1>1, <1>2, PTL DEF ServicesSpec, Admins!Spec

LEMMA AccountsAreServed == ServicesSpec => Codes!Spec
<1>1. ServicesInit => Codes!Init
  BY DEF ServicesInit
<1>2. [ServicesNext]_servicesVars => [Codes!Next]_(Codes!vars)
  BY DEF ServicesNext, OrdersStep, AdminStep, AccountStep, PairStep, servicesVars, accountVars,
         Codes!vars
<1>3. QED
  BY <1>1, <1>2, PTL DEF ServicesSpec, Codes!Spec

LEMMA PairsAreServed == ServicesSpec => Symbols!Spec
<1>1. ServicesInit => Symbols!Init
  BY DEF ServicesInit
<1>2. [ServicesNext]_servicesVars => [Symbols!Next]_(Symbols!vars)
  BY DEF ServicesNext, OrdersStep, AdminStep, AccountStep, PairStep, servicesVars, pairVars,
         Symbols!vars
<1>3. QED
  BY <1>1, <1>2, PTL DEF ServicesSpec, Symbols!Spec

\* The variables of users, of codes and passwords and of pairs keep their types
\* (t_user, t_user_role; t_email_verification, t_user_password_history; t_trading_symbol).
THEOREM ServicesTyped == ServicesSpec => []ServicesTypeOK
<1>1. Admins!Spec => []Admins!TypeOK
  <2>1. AdminInv => Admins!TypeOK
    BY DEF AdminInv
  <2>2. QED
    BY <2>1, AdminAlways, PTL
<1>2. Admins!TypeOK /\ Codes!TypeOK /\ Symbols!TypeOK => ServicesTypeOK
  BY DEF ServicesTypeOK
<1>3. QED
  BY <1>1, <1>2, AdministrationIsServed, AccountsAreServed, PairsAreServed, CodesTyped, PairsTyped,
     PTL

\* The last active administrator is lost only to a membership or to an actor who is no
\* active administrator any more (updateRole, updateStatus).
THEOREM LastAdminServed == ServicesSpec => LastAdminExplained
  BY AdministrationIsServed, LastAdminLost DEF LastAdminExplained

\* A role change with no other of the user beside it leaves one primary role, his own
\* (syncPrimaryUserRole).
THEOREM LoneChangeServed == ServicesSpec => LoneChangeHeals
  BY AdministrationIsServed, LoneChangeHealsRoles DEF LoneChangeHeals

\* A code stored by itself is accepted until it expires or is entered (sendCode,
\* verifyAndConsume).
THEOREM LoneCodeServed == ServicesSpec => []LoneCodeLives
<1>1. Codes!LoneCodeLives => LoneCodeLives
  BY DEF LoneCodeLives
<1>2. QED
  BY <1>1, AccountsAreServed, LoneCodeLivesOn, PTL

\* A reset to the current password passes only beside another one, or after its record was
\* lost or overtaken (resetPassword).
THEOREM ReuseServed == ServicesSpec => ReuseExplained
  BY AccountsAreServed, ReuseIsExplained DEF ReuseExplained

\* No more default pairs than requests that run at once, over any sequence of calls
\* (TradingSymbolService.create, update).
THEOREM DefaultsServed == ServicesSpec => []DefaultsPerRequest
<1>1. Symbols!DefaultsPerRequest => DefaultsPerRequest
  BY DEF DefaultsPerRequest
<1>2. QED
  BY <1>1, PairsAreServed, DefaultsBounded, PTL

\* A request that makes its pair the default with no other beside it leaves exactly that
\* one, whatever was left behind (TradingSymbolService.create, update).
THEOREM LoneSetterServed == ServicesSpec => LoneSetterWins
  BY PairsAreServed, LoneSetterWinsAlways DEF LoneSetterWins
=============================================================================

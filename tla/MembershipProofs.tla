--------------------------- MODULE MembershipProofs ---------------------------
(***************************************************************************)
(* Proofs about Membership, for every number of members, users, workers    *)
(* and requests.                                                           *)
(***************************************************************************)
EXTENDS Membership, FiniteSetTheorems, TLAPS

USE DEF Roles

(* What a request remembers names memberships and roles.                   *)
RequestOK ==
    \A r \in Requests :
        /\ req[r].pc # "idle" => req[r].actor \in rows /\ req[r].actor_role \in Roles
        /\ req[r].pc \in {"loaded", "patched"} =>
              req[r].target \in rows /\ req[r].old_role \in Roles

(* Audit rows name memberships of the table.                               *)
LogOK ==
    \A i \in 1..Len(log) : log[i].actor \in rows /\ log[i].target \in rows

TypeInv == TypeOK /\ RequestOK /\ LogOK /\ Founder \in rows

(* m has been given a role, by what its invitation and the log say.        *)
Was(m, role) ==
    \/ invited[m] = role
    \/ \E j \in 1..Len(log) : log[j].target = m /\ log[j].new_role = role

(* The role in a request's copy of its actor is one that lets him change   *)
(* members, and one he was given.                                          *)
ActorsWere ==
    \A r \in Requests : req[r].pc # "idle" =>
        req[r].actor_role \in {"owner", "admin"} /\ Was(req[r].actor, req[r].actor_role)

(* So is the role in its copy of the target.                               *)
TargetsWere ==
    \A r \in Requests : req[r].pc = "loaded" => Was(req[r].target, req[r].old_role)

OldRolesHeld == \A i \in 1..Len(log) : HadRole(log[i].target, i, log[i].old_role)

RoleInv == /\ TypeInv /\ OneActiveMembership /\ LogAccountsForRole
           /\ ActorsHadTheRole /\ ActorsWere /\ TargetsWere /\ OldRolesHeld

-------------------------------------------------------------------------------
LEMMA IdleType == Idle \in Request
BY DEF Idle, Request

LEMMA NewMemberType ==
    ASSUME NEW u \in Users, NEW role \in Roles
    PROVE  NewMember(u, role) \in Row
BY DEF NewMember, Row

LEMMA InitTypeInv == Init => TypeInv
<1> SUFFICES ASSUME Init PROVE TypeInv
  OBVIOUS
<1>1. overlapped \in BOOLEAN
  BY DEF Init
<1>2. /\ rows \subseteq Memberships /\ Founder \in rows
      /\ member \in [Memberships -> Row] /\ invited \in [Memberships -> Roles]
      /\ log \in Seq(Entry) /\ begun \in Nat
  BY FounderAssumption, NewMemberType DEF Init
<1>3. req \in [Requests -> Request]
  BY IdleType DEF Init
<1>4. RequestOK /\ LogOK
  BY DEF Init, RequestOK, LogOK, Idle
<1>5. QED BY <1>1, <1>2, <1>3, <1>4 DEF TypeInv, TypeOK

(* The requests a step leaves, given what it makes of request r.           *)
LEMMA RequestStep ==
    ASSUME TypeInv, NEW r \in Requests, NEW q \in Request,
           req' = [req EXCEPT ![r] = q], rows \subseteq rows',
           /\ q.pc # "idle" => q.actor \in rows' /\ q.actor_role \in Roles
           /\ q.pc \in {"loaded", "patched"} => q.target \in rows' /\ q.old_role \in Roles
    PROVE  req' \in [Requests -> Request] /\ RequestOK'
BY DEF TypeInv, TypeOK, RequestOK

LEMMA Finished ==
    ASSUME TypeInv, NEW r \in Requests, Finish(r), rows \subseteq rows'
    PROVE  req' \in [Requests -> Request] /\ RequestOK'
BY RequestStep, IdleType DEF Finish, Idle

(* The audit rows of a role change.                                        *)
LEMMA RoleLog ==
    ASSUME TypeInv, NEW r \in Requests, ChangeRole(r)
    PROVE  /\ log' \in Seq(Entry)
           /\ Len(log') = Len(log) + (IF IsTransfer(r) THEN 2 ELSE 1)
           /\ \A i \in 1..Len(log) : log'[i] = log[i]
           /\ log'[Len(log) + 1] =
                RoleEntry(r, IF IsTransfer(r) THEN "ownership_transferred" ELSE "role_changed",
                          req[r].target, req[r].old_role, req[r].new_role)
           /\ IsTransfer(r) =>
                log'[Len(log) + 2] =
                   RoleEntry(r, "role_changed", req[r].actor, req[r].actor_role, "admin")
<1> DEFINE type == IF IsTransfer(r) THEN "ownership_transferred" ELSE "role_changed"
           e == RoleEntry(r, type, req[r].target, req[r].old_role, req[r].new_role)
           d == RoleEntry(r, "role_changed", req[r].actor, req[r].actor_role, "admin")
<1>1. req[r].pc = "loaded" /\ req[r] \in Request /\ req[r].new_role \in Roles
  BY DEF ChangeRole, TypeInv, TypeOK, Request
<1>2. /\ req[r].actor \in Memberships /\ req[r].target \in Memberships
      /\ req[r].actor_role \in Roles /\ req[r].old_role \in Roles
  BY <1>1 DEF TypeInv, TypeOK, RequestOK
<1>3. e \in Entry /\ d \in Entry
  BY <1>1, <1>2 DEF RoleEntry, Entry
<1>4. log' = log \o (IF IsTransfer(r) THEN <<e, d>> ELSE <<e>>)
  BY DEF ChangeRole, RoleEntries, IsTransfer
<1>5. log \in Seq(Entry)
  BY DEF TypeInv, TypeOK
<1> HIDE DEF e, d
<1>6. CASE IsTransfer(r)
  <2>1. log' = log \o <<e, d>>
    BY <1>4, <1>6
  <2>2. log' \in Seq(Entry) /\ Len(log') = Len(log) + 2
    BY <2>1, <1>3, <1>5
  <2>3. \A i \in 1..Len(log) : log'[i] = log[i]
    BY <2>1, <1>3, <1>5
  <2>4. log'[Len(log) + 1] = e /\ log'[Len(log) + 2] = d
    BY <2>1, <1>3, <1>5
  <2>5. QED BY <2>2, <2>3, <2>4, <1>6 DEF e, d
<1>7. CASE ~IsTransfer(r)
  <2>1. log' = log \o <<e>>
    BY <1>4, <1>7
  <2>2. /\ log' \in Seq(Entry) /\ Len(log') = Len(log) + 1
        /\ \A i \in 1..Len(log) : log'[i] = log[i]
        /\ log'[Len(log) + 1] = e
    BY <2>1, <1>3, <1>5
  <2>3. QED BY <2>2, <1>7 DEF e
<1>8. QED BY <1>6, <1>7

LEMMA RemovalLog ==
    ASSUME TypeInv, NEW r \in Requests, Remove(r)
    PROVE  /\ log' \in Seq(Entry)
           /\ Len(log') = Len(log) + 1
           /\ \A i \in 1..Len(log) : log'[i] = log[i]
           /\ log'[Len(log) + 1] = RoleEntry(r, "member_removed", req[r].target, req[r].old_role, Null)
<1> DEFINE e == RoleEntry(r, "member_removed", req[r].target, req[r].old_role, Null)
<1>1. e \in Entry
  BY DEF Remove, TypeInv, TypeOK, RequestOK, RoleEntry, Entry
<1>2. log' = Append(log, e) /\ log \in Seq(Entry)
  BY DEF Remove, TypeInv, TypeOK
<1> HIDE DEF e
<1>3. QED BY <1>1, <1>2 DEF e

(* Audit rows added by a member of the table about one keep LogOK.         *)
LEMMA LogGrows ==
    ASSUME LogOK, Len(log) \in Nat, rows \subseteq rows', NEW n \in Nat,
           Len(log') = Len(log) + n,
           \A i \in 1..Len(log) : log'[i] = log[i],
           \A k \in 1..n : /\ log'[Len(log) + k].actor \in rows
                           /\ log'[Len(log) + k].target \in rows
    PROVE  LogOK'
<1> SUFFICES ASSUME NEW i \in 1..Len(log')
             PROVE  log'[i].actor \in rows' /\ log'[i].target \in rows'
  BY DEF LogOK
<1>1. CASE i \in 1..Len(log)
  BY <1>1 DEF LogOK
<1>2. CASE i \notin 1..Len(log)
  <2>1. i - Len(log) \in 1..n /\ Len(log) + (i - Len(log)) = i
    BY <1>2
  <2>2. QED BY <2>1
<1>3. QED BY <1>1, <1>2

(* The rows a role change leaves.                                          *)
LEMMA RoleRows ==
    ASSUME TypeInv, NEW r \in Requests, ChangeRole(r)
    PROVE  /\ member' \in [Memberships -> Row]
           /\ \A m \in Memberships : /\ member'[m].user = member[m].user
                                     /\ member'[m].deleted = member[m].deleted
           /\ member'[req[r].target].role = req[r].new_role
           /\ IsTransfer(r) => member'[req[r].actor].role = "admin"
           /\ \A m \in Memberships :
                m # req[r].target /\ (m = req[r].actor => ~IsTransfer(r))
                  => member'[m] = member[m]
<1>1. /\ req[r] \in Request /\ req[r].new_role \in Roles
      /\ req[r].target \in Memberships /\ req[r].actor \in Memberships
      /\ req[r].target # req[r].actor
  BY DEF ChangeRole, MayChangeRole, TypeInv, TypeOK, RequestOK, Request
<1>2. member' = NewRoles(r) /\ member \in [Memberships -> Row]
  BY DEF ChangeRole, TypeInv, TypeOK
<1>3. QED BY <1>1, <1>2 DEF NewRoles, Row, IsTransfer

-------------------------------------------------------------------------------
(* A member of the table stays one, and keeps the role it was invited with. *)
LEMMA RowsGrow ==
    ASSUME TypeInv, [Next]_vars
    PROVE  /\ rows \subseteq rows'
           /\ \A m \in rows : invited'[m] = invited[m]
<1>1. ASSUME NEW m \in Memberships, NEW u \in Users, NEW role \in Roles, Join(m, u, role)
      PROVE  rows \subseteq rows' /\ \A n \in rows : invited'[n] = invited[n]
  BY <1>1 DEF Join, TypeInv, TypeOK
<1>2. ASSUME NEW r \in Requests, Serve(r) PROVE rows' = rows /\ invited' = invited
  BY <1>2 DEF Serve, Authorize, LoadPatch, LoadRemoval, Load, Restore, ChangeRole,
              ChangeReportsTo, Remove, Abort
<1>3. QED BY <1>1, <1>2 DEF Next, vars

LEMMA TypeStep ==
    ASSUME TypeInv, [Next]_vars
    PROVE  TypeInv'
<1> USE DEF TypeInv, TypeOK
<1>0. overlapped' \in BOOLEAN
  BY DEF Next, vars, Beside
<1> USE <1>0
<1>1. rows \subseteq rows'
  BY RowsGrow
<1>2. ASSUME log' = log PROVE LogOK'
  BY <1>1, <1>2 DEF LogOK
<1>3. ASSUME NEW m \in Memberships, NEW u \in Users, NEW role \in Roles, Join(m, u, role)
      PROVE  TypeInv'
  <2>1. member' \in [Memberships -> Row] /\ invited' \in [Memberships -> Roles]
    BY <1>3, NewMemberType DEF Join
  <2>2. RequestOK'
    BY <1>1, <1>3 DEF Join, RequestOK
  <2>3. QED BY <1>2, <1>3, <2>1, <2>2 DEF Join
<1>4. ASSUME NEW r \in Requests, NEW a \in Memberships, Authorize(r, a)
      PROVE  TypeInv'
  <2> DEFINE q == [Idle EXCEPT !.pc = "authorized", !.actor = a, !.actor_role = member[a].role]
  <2>1. member[a].role \in Roles /\ a \in rows
    BY <1>4 DEF Authorize, MayManage, Active, Row
  <2>2. /\ q \in Request /\ q.pc = "authorized" /\ q.actor = a
        /\ q.actor_role = member[a].role
    BY <2>1 DEF Idle, Request
  <2>3. req' = [req EXCEPT ![r] = q]
    BY <1>4 DEF Authorize
  <2> HIDE DEF q
  <2>4. req' \in [Requests -> Request] /\ RequestOK'
    BY <1>1, <2>1, <2>2, <2>3, RequestStep
  <2>5. QED BY <1>2, <1>4, <2>4 DEF Authorize
<1>5. ASSUME NEW r \in Requests, NEW t \in Memberships, LoadPatch(r, t) \/ LoadRemoval(r, t)
      PROVE  TypeInv'
  <2>1. PICK op \in {"patch", "remove"}, role \in Roles \cup {Null}, sets \in BOOLEAN,
             m \in Memberships \cup {Null} : Load(r, t, op, role, sets, m)
    BY <1>5, BoundAssumption DEF LoadPatch, LoadRemoval
  <2> DEFINE q == Loaded(r, t, op, role, sets, m)
  <2>2. member[t].role \in Roles /\ t \in rows /\ req[r].pc = "authorized"
    BY <2>1 DEF Load, Active, Row
  <2>3. /\ q \in Request /\ q.pc = "loaded" /\ q.actor = req[r].actor /\ q.target = t
        /\ q.actor_role = req[r].actor_role /\ q.old_role = member[t].role
    BY <2>2 DEF Request, RequestOK, Loaded
  <2>4. req[r].actor \in rows /\ req[r].actor_role \in Roles
    BY <2>2 DEF RequestOK
  <2>5. req' = [req EXCEPT ![r] = q]
    BY <2>1 DEF Load
  <2> HIDE DEF q
  <2>6. req' \in [Requests -> Request] /\ RequestOK'
    BY <1>1, <2>2, <2>3, <2>4, <2>5, RequestStep
  <2>7. QED BY <1>2, <2>1, <2>6 DEF Load
<1>6. ASSUME NEW r \in Requests, NEW t \in Memberships, Restore(r, t)
      PROVE  TypeInv'
  <2>1. member' \in [Memberships -> Row]
    BY <1>6 DEF Restore, Row
  <2>2. req' \in [Requests -> Request] /\ RequestOK'
    BY <1>1, <1>6, Finished DEF Restore
  <2>3. QED BY <1>2, <1>6, <2>1, <2>2 DEF Restore
<1>7. ASSUME NEW r \in Requests, ChangeRole(r)
      PROVE  TypeInv'
  <2>1. log' \in Seq(Entry) /\ member' \in [Memberships -> Row]
    BY <1>7, RoleLog, RoleRows
  <2>2. /\ req[r] \in Request /\ req[r].pc = "loaded"
        /\ req[r].actor \in rows /\ req[r].target \in rows
    BY <1>7 DEF ChangeRole, RequestOK
  <2>3. LogOK'
    <3> DEFINE n == IF IsTransfer(r) THEN 2 ELSE 1
    <3>1. /\ Len(log') = Len(log) + n /\ Len(log) \in Nat
          /\ \A i \in 1..Len(log) : log'[i] = log[i]
      BY <1>7, RoleLog
    <3>2. ASSUME NEW k \in 1..n
          PROVE  /\ log'[Len(log) + k].actor \in rows
                 /\ log'[Len(log) + k].target \in rows
      <4> DEFINE type == IF IsTransfer(r) THEN "ownership_transferred" ELSE "role_changed"
      <4>1. /\ log'[Len(log) + 1] =
                 RoleEntry(r, type, req[r].target, req[r].old_role, req[r].new_role)
            /\ IsTransfer(r) =>
                 log'[Len(log) + 2] =
                    RoleEntry(r, "role_changed", req[r].actor, req[r].actor_role, "admin")
        BY <1>7, RoleLog
      <4>2. k = 1 \/ (k = 2 /\ IsTransfer(r))
        OBVIOUS
      <4>3. CASE k = 1
        BY <2>2, <4>1, <4>3 DEF RoleEntry
      <4>4. CASE k = 2 /\ IsTransfer(r)
        BY <2>2, <4>1, <4>4 DEF RoleEntry
      <4>5. QED BY <4>2, <4>3, <4>4
    <3>3. QED BY <1>1, <3>1, <3>2, LogGrows
  <2>4. req' \in [Requests -> Request] /\ RequestOK'
    <3>1. CASE req[r].sets_reports_to
      <4> DEFINE q == [req[r] EXCEPT !.pc = "patched"]
      <4>1. /\ q \in Request /\ q.actor = req[r].actor /\ q.target = req[r].target
            /\ q.actor_role = req[r].actor_role /\ q.old_role = req[r].old_role
        BY <2>2 DEF Request
      <4>2. req' = [req EXCEPT ![r] = q]
        BY <1>7, <3>1 DEF ChangeRole
      <4>3. req[r].actor_role \in Roles /\ req[r].old_role \in Roles
        BY <2>2 DEF RequestOK
      <4> HIDE DEF q
      <4>4. QED BY <1>1, <2>2, <4>1, <4>2, <4>3, RequestStep
    <3>2. CASE ~req[r].sets_reports_to
      BY <1>1, <1>7, <3>2, Finished DEF ChangeRole
    <3>3. QED BY <3>1, <3>2
  <2>5. QED BY <1>7, <2>1, <2>3, <2>4 DEF ChangeRole
<1>8. ASSUME NEW r \in Requests, ChangeReportsTo(r)
      PROVE  TypeInv'
  <2>1. req[r] \in Request
    BY <1>8
  <2>2. member' \in [Memberships -> Row]
    <3> DEFINE t == req[r].target
               m == req[r].reports_to
    <3>1. m \in Memberships \cup {Null}
      BY <2>1 DEF Request
    <3>2. t \in Memberships
      BY <1>8 DEF ChangeReportsTo, RequestOK
    <3>3. [member[t] EXCEPT !.reports_to = m] \in Row
      BY <3>1, <3>2 DEF Row
    <3>4. member' = [member EXCEPT ![t] = [member[t] EXCEPT !.reports_to = m]]
      BY <1>8 DEF ChangeReportsTo
    <3>5. QED BY <3>3, <3>4
  <2>3. req' \in [Requests -> Request] /\ RequestOK'
    BY <1>1, <1>8, Finished DEF ChangeReportsTo
  <2>4. QED BY <1>2, <1>8, <2>2, <2>3 DEF ChangeReportsTo
<1>9. ASSUME NEW r \in Requests, Remove(r)
      PROVE  TypeInv'
  <2>1. log' \in Seq(Entry)
    BY <1>9, RemovalLog
  <2>2. req[r].actor \in rows /\ req[r].target \in rows
    BY <1>9 DEF Remove, RequestOK
  <2>3. LogOK'
    <3>1. /\ Len(log') = Len(log) + 1 /\ Len(log) \in Nat
          /\ \A i \in 1..Len(log) : log'[i] = log[i]
      BY <1>9, RemovalLog
    <3>2. log'[Len(log) + 1] = RoleEntry(r, "member_removed", req[r].target, req[r].old_role, Null)
      BY <1>9, RemovalLog
    <3>3. \A k \in 1..1 : /\ log'[Len(log) + k].actor \in rows
                          /\ log'[Len(log) + k].target \in rows
      BY <2>2, <3>2 DEF RoleEntry
    <3>4. QED BY <1>1, <3>1, <3>3, LogGrows
  <2>4. member' \in [Memberships -> Row]
    BY <1>9 DEF Remove, Row
  <2>5. req' \in [Requests -> Request] /\ RequestOK'
    BY <1>1, <1>9, Finished DEF Remove
  <2>6. QED BY <1>9, <2>1, <2>3, <2>4, <2>5 DEF Remove
<1>10. ASSUME NEW r \in Requests, Abort(r)
       PROVE  TypeInv'
  <2>1. req' \in [Requests -> Request] /\ RequestOK'
    BY <1>1, <1>10, Finished DEF Abort
  <2>2. QED BY <1>2, <1>10, <2>1 DEF Abort
<1>11. CASE UNCHANGED vars
  BY <1>11 DEF vars, RequestOK, LogOK
<1>12. QED
  BY <1>3, <1>4, <1>5, <1>6, <1>7, <1>8, <1>9, <1>10, <1>11 DEF Next, Serve

(* Every row, column, log entry and request copy is well-typed, always.    *)
THEOREM TypeCorrect == Spec => []TypeOK
<1>1. TypeInv /\ [Next]_vars => TypeInv'
  BY TypeStep
<1>2. TypeInv => TypeOK
  BY DEF TypeInv
<1>3. QED BY <1>1, <1>2, InitTypeInv, PTL DEF Spec

-------------------------------------------------------------------------------
(* The log only grows.                                                     *)
LEMMA LogIsAppended ==
    ASSUME TypeInv, [Next]_vars
    PROVE  /\ Len(log) \in Nat /\ Len(log') \in Nat /\ Len(log) <= Len(log')
           /\ \A i \in 1..Len(log) : log'[i] = log[i]
<1>1. Len(log) \in Nat
  BY DEF TypeInv, TypeOK
<1>2. ASSUME NEW r \in Requests, ChangeRole(r)
      PROVE  /\ Len(log') \in Nat /\ Len(log) <= Len(log')
             /\ \A i \in 1..Len(log) : log'[i] = log[i]
  BY <1>1, <1>2, RoleLog
<1>3. ASSUME NEW r \in Requests, Remove(r)
      PROVE  /\ Len(log') \in Nat /\ Len(log) <= Len(log')
             /\ \A i \in 1..Len(log) : log'[i] = log[i]
  BY <1>1, <1>3, RemovalLog
<1>4. CASE \A r \in Requests : ~ChangeRole(r) /\ ~Remove(r)
  <2>1. log' = log
    BY <1>4 DEF Next, Serve, vars, Join, Authorize, LoadPatch, LoadRemoval, Load,
                Restore, ChangeReportsTo, Abort
  <2>2. QED BY <1>1, <2>1
<1>5. QED BY <1>1, <1>2, <1>3, <1>4

LEMMA OneActiveStep ==
    ASSUME TypeInv, OneActiveMembership, [Next]_vars
    PROVE  OneActiveMembership'
<1> USE DEF OneActiveMembership, Active
<1>1. ASSUME rows' = rows,
             \A m \in Memberships : /\ member'[m].user = member[m].user
                                    /\ ~member'[m].deleted => ~member[m].deleted
      PROVE  OneActiveMembership'
  <2>1. rows \subseteq Memberships
    BY DEF TypeInv, TypeOK
  <2>2. \A m \in Active' : m \in Active /\ m \in Memberships
    BY <1>1, <2>1
  <2> SUFFICES ASSUME NEW m \in Active', NEW n \in Active', member'[m].user = member'[n].user
               PROVE  m = n
    OBVIOUS
  <2>3. member[m].user = member[n].user
    BY <1>1, <2>2
  <2>4. QED BY <2>2, <2>3
<1>2. ASSUME NEW m \in Memberships, NEW u \in Users, NEW role \in Roles, Join(m, u, role)
      PROVE  OneActiveMembership'
  BY <1>2 DEF Join, NoneActive, NewMember, TypeInv, TypeOK
<1>3. ASSUME NEW r \in Requests, NEW t \in Memberships, Restore(r, t)
      PROVE  OneActiveMembership'
  <2>1. /\ \A m \in Memberships : member'[m].user = member[m].user
        /\ \A m \in Memberships \ {t} : member'[m] = member[m]
        /\ rows' = rows
    BY <1>3 DEF Restore, TypeInv, TypeOK, Row
  <2>2. \A m \in Active : member[m].user # member[t].user
    BY <1>3 DEF Restore, NoneActive
  <2>3. QED BY <2>1, <2>2 DEF TypeInv, TypeOK
<1>4. ASSUME NEW r \in Requests, ChangeRole(r)
      PROVE  OneActiveMembership'
  <2>1. rows' = rows
    BY <1>4 DEF ChangeRole
  <2>2. QED BY <1>1, <1>4, <2>1, RoleRows
<1>5. ASSUME NEW r \in Requests, ChangeReportsTo(r)
      PROVE  OneActiveMembership'
  <2>1. /\ rows' = rows
        /\ \A m \in Memberships : /\ member'[m].user = member[m].user
                                  /\ member'[m].deleted = member[m].deleted
    BY <1>5 DEF ChangeReportsTo, TypeInv, TypeOK, Row
  <2>2. QED BY <1>1, <2>1
<1>6. ASSUME NEW r \in Requests, Remove(r)
      PROVE  OneActiveMembership'
  <2>1. /\ rows' = rows
        /\ \A m \in Memberships : /\ member'[m].user = member[m].user
                                  /\ ~member'[m].deleted => ~member[m].deleted
    BY <1>6 DEF Remove, TypeInv, TypeOK, Row
  <2>2. QED BY <1>1, <2>1
<1>7. CASE UNCHANGED <<rows, member>>
  BY <1>7
<1>8. QED
  BY <1>2, <1>3, <1>4, <1>5, <1>6, <1>7
     DEF Next, Serve, vars, Authorize, LoadPatch, LoadRemoval, Load, Abort

(* Row i of the log after a step gives m a role.                           *)
GivenNext(m, i) == log'[i].target = m /\ log'[i].new_role # Null

AccountedNext(m) ==
    \/ /\ \A i \in 1..Len(log') : ~GivenNext(m, i)
       /\ member'[m].role = invited'[m]
    \/ \E i \in 1..Len(log') :
          /\ GivenNext(m, i) /\ log'[i].new_role = member'[m].role
          /\ \A j \in (i + 1)..Len(log') : ~GivenNext(m, j)

(* Roles and the log change together, or not at all.                       *)
LEMMA AccountsKept ==
    ASSUME TypeInv, LogAccountsForRole, NEW m \in rows,
           invited'[m] = invited[m], member'[m].role = member[m].role,
           Len(log) \in Nat, Len(log') \in Nat, Len(log) <= Len(log'),
           \A i \in 1..Len(log) : log'[i] = log[i],
           \A i \in (Len(log) + 1)..Len(log') : log'[i].target = m => log'[i].new_role = Null
    PROVE  AccountedNext(m)
<1>1. \A i \in 1..Len(log') : i \in 1..Len(log) \/ i \in (Len(log) + 1)..Len(log')
  OBVIOUS
<1>2. \A i \in 1..Len(log) : GivenNext(m, i) <=> Given(m, i)
  BY DEF Given, GivenNext
<1>3. \A i \in (Len(log) + 1)..Len(log') : ~GivenNext(m, i)
  BY DEF GivenNext
<1>4. CASE /\ \A i \in 1..Len(log) : ~Given(m, i)
           /\ member[m].role = invited[m]
  BY <1>1, <1>2, <1>3, <1>4 DEF AccountedNext
<1>5. CASE \E i \in 1..Len(log) : /\ Given(m, i) /\ log[i].new_role = member[m].role
                                  /\ \A j \in (i + 1)..Len(log) : ~Given(m, j)
  <2>1. PICK i \in 1..Len(log) : /\ Given(m, i) /\ log[i].new_role = member[m].role
                                 /\ \A j \in (i + 1)..Len(log) : ~Given(m, j)
    BY <1>5
  <2>2. i \in 1..Len(log') /\ GivenNext(m, i) /\ log'[i].new_role = member'[m].role
    BY <1>2, <2>1
  <2>3. ASSUME NEW j \in (i + 1)..Len(log') PROVE ~GivenNext(m, j)
    BY <1>2, <1>3, <2>1
  <2>4. QED BY <2>2, <2>3 DEF AccountedNext
<1>6. QED BY <1>4, <1>5 DEF LogAccountsForRole

LEMMA LogAccountsStep ==
    ASSUME TypeInv, LogAccountsForRole, [Next]_vars
    PROVE  LogAccountsForRole'
<1>1. (\A m \in rows' : AccountedNext(m)) => LogAccountsForRole'
  BY DEF LogAccountsForRole, AccountedNext, GivenNext, Given
<1>2. /\ Len(log) \in Nat /\ Len(log') \in Nat /\ Len(log) <= Len(log')
      /\ \A i \in 1..Len(log) : log'[i] = log[i]
  BY LogIsAppended
<1>3. \A m \in rows : invited'[m] = invited[m] /\ m \in Memberships
  BY RowsGrow DEF TypeInv, TypeOK
<1>4. ASSUME log' = log, NEW m \in rows, member'[m].role = member[m].role
      PROVE  AccountedNext(m)
  <2>1. \A i \in (Len(log) + 1)..Len(log') : log'[i].target = m => log'[i].new_role = Null
    BY <1>2, <1>4
  <2>2. QED BY <1>2, <1>3, <1>4, <2>1, AccountsKept
<1>5. ASSUME NEW m \in Memberships, NEW u \in Users, NEW role \in Roles, Join(m, u, role)
      PROVE  LogAccountsForRole'
  <2>1. AccountedNext(m)
    <3>1. log' = log /\ member'[m].role = role /\ invited'[m] = role /\ m \notin rows
      BY <1>5 DEF Join, NewMember, TypeInv, TypeOK
    <3>2. \A i \in 1..Len(log') : ~GivenNext(m, i)
      BY <3>1 DEF GivenNext, TypeInv, LogOK
    <3>3. QED BY <3>1, <3>2 DEF AccountedNext
  <2>2. ASSUME NEW n \in rows PROVE AccountedNext(n)
    <3>1. log' = log /\ member'[n] = member[n]
      BY <1>5 DEF Join, TypeInv, TypeOK
    <3>2. QED BY <1>4, <3>1
  <2>3. rows' = rows \cup {m}
    BY <1>5 DEF Join
  <2>4. QED BY <1>1, <2>1, <2>2, <2>3
<1>6. ASSUME NEW r \in Requests, ChangeRole(r)
      PROVE  LogAccountsForRole'
  <2> DEFINE t == req[r].target
             a == req[r].actor
             type == IF IsTransfer(r) THEN "ownership_transferred" ELSE "role_changed"
             e == RoleEntry(r, type, t, req[r].old_role, req[r].new_role)
             d == RoleEntry(r, "role_changed", a, req[r].actor_role, "admin")
  <2>1. /\ Len(log') = Len(log) + (IF IsTransfer(r) THEN 2 ELSE 1)
        /\ log'[Len(log) + 1] = e
        /\ IsTransfer(r) => log'[Len(log) + 2] = d
    BY <1>6, RoleLog
  <2>2. /\ e.target = t /\ e.new_role = req[r].new_role
        /\ d.target = a /\ d.new_role = "admin"
    BY DEF RoleEntry
  <2>3. /\ member'[t].role = req[r].new_role
        /\ IsTransfer(r) => member'[a].role = "admin"
        /\ \A m \in Memberships : m # t /\ (m = a => ~IsTransfer(r)) => member'[m] = member[m]
    BY <1>6, RoleRows
  <2>4. t # a /\ req[r].new_role # Null /\ rows' = rows
    BY <1>6 DEF ChangeRole, MayChangeRole
  <2> HIDE DEF e, d, t, a, type
  <2>5. AccountedNext(t)
    <3> DEFINE i == Len(log) + 1
    <3>1. i \in 1..Len(log') /\ GivenNext(t, i) /\ log'[i].new_role = member'[t].role
      BY <1>2, <2>1, <2>2, <2>3, <2>4 DEF GivenNext
    <3>2. ASSUME NEW j \in (i + 1)..Len(log') PROVE ~GivenNext(t, j)
      <4>1. IsTransfer(r) /\ j = Len(log) + 2
        BY <1>2, <2>1
      <4>2. QED BY <2>1, <2>2, <2>4, <4>1 DEF GivenNext
    <3> HIDE DEF i
    <3>3. QED BY <3>1, <3>2 DEF AccountedNext
  <2>6. ASSUME IsTransfer(r) PROVE AccountedNext(a)
    <3> DEFINE i == Len(log) + 2
    <3>1. i \in 1..Len(log') /\ GivenNext(a, i) /\ log'[i].new_role = member'[a].role
      BY <1>2, <2>1, <2>2, <2>3, <2>6, NullAssumption DEF GivenNext
    <3>2. \A j \in (i + 1)..Len(log') : ~GivenNext(a, j)
      BY <1>2, <2>1, <2>6
    <3> HIDE DEF i
    <3>3. QED BY <3>1, <3>2 DEF AccountedNext
  <2>7. ASSUME NEW m \in rows, m # t, m = a => ~IsTransfer(r) PROVE AccountedNext(m)
    <3>1. member'[m] = member[m]
      BY <1>3, <2>3, <2>7
    <3>2. ASSUME NEW i \in (Len(log) + 1)..Len(log') PROVE log'[i].target # m
      <4>1. i = Len(log) + 1 \/ (i = Len(log) + 2 /\ IsTransfer(r))
        BY <1>2, <2>1
      <4>2. QED BY <2>1, <2>2, <2>7, <4>1
    <3>3. QED BY <1>2, <1>3, <3>1, <3>2, AccountsKept
  <2>8. QED BY <1>1, <2>4, <2>5, <2>6, <2>7
<1>7. ASSUME NEW r \in Requests, Remove(r)
      PROVE  LogAccountsForRole'
  <2>1. /\ rows' = rows
        /\ \A m \in rows : member'[m].role = member[m].role
    BY <1>3, <1>7 DEF Remove, TypeInv, TypeOK, Row
  <2>2. /\ Len(log') = Len(log) + 1
        /\ log'[Len(log) + 1].new_role = Null
    <3>1. /\ Len(log') = Len(log) + 1
          /\ log'[Len(log) + 1] =
               RoleEntry(r, "member_removed", req[r].target, req[r].old_role, Null)
      BY <1>7, RemovalLog
    <3>2. QED BY <3>1 DEF RoleEntry
  <2>3. ASSUME NEW m \in rows PROVE AccountedNext(m)
    <3>1. \A i \in (Len(log) + 1)..Len(log') : log'[i].target = m => log'[i].new_role = Null
      BY <1>2, <2>2
    <3>2. QED BY <1>2, <1>3, <2>1, <3>1, AccountsKept
  <2>4. QED BY <1>1, <2>1, <2>3
<1>8. ASSUME NEW r \in Requests, NEW t \in Memberships, Restore(r, t)
      PROVE  LogAccountsForRole'
  <2>1. /\ rows' = rows /\ log' = log
        /\ \A m \in rows : member'[m].role = member[m].role
    BY <1>3, <1>8 DEF Restore, TypeInv, TypeOK, Row
  <2>2. QED BY <1>1, <1>4, <2>1
<1>9. ASSUME NEW r \in Requests, ChangeReportsTo(r)
      PROVE  LogAccountsForRole'
  <2>1. /\ rows' = rows /\ log' = log
        /\ \A m \in rows : member'[m].role = member[m].role
    BY <1>3, <1>9 DEF ChangeReportsTo, TypeInv, TypeOK, Row
  <2>2. QED BY <1>1, <1>4, <2>1
<1>10. CASE UNCHANGED <<rows, member, log>>
  <2>1. QED BY <1>1, <1>4, <1>10
<1>11. QED
  BY <1>5, <1>6, <1>7, <1>8, <1>9, <1>10
     DEF Next, Serve, vars, Authorize, LoadPatch, LoadRemoval, Load, Abort

LEMMA ActorsStep ==
    ASSUME TypeInv, LogAccountsForRole, ActorsWere, [Next]_vars
    PROVE  ActorsWere'
<1> DEFINE W(m, role) ==
             \/ invited'[m] = role
             \/ \E j \in 1..Len(log') : log'[j].target = m /\ log'[j].new_role = role
<1>a. (\A r \in Requests : req'[r].pc # "idle" =>
          req'[r].actor_role \in {"owner", "admin"} /\ W(req'[r].actor, req'[r].actor_role))
      => ActorsWere'
  BY DEF ActorsWere, Was
<1>b. ASSUME NEW m \in rows, NEW role, Was(m, role) PROVE W(m, role)
  BY <1>b, RowsGrow, LogIsAppended DEF Was
<1> HIDE DEF W
<1>1. ASSUME NEW r \in Requests, req[r].pc # "idle"
      PROVE  req[r].actor_role \in {"owner", "admin"} /\ W(req[r].actor, req[r].actor_role)
  BY <1>1, <1>b DEF ActorsWere, TypeInv, RequestOK
<1>2. ASSUME NEW r \in Requests, NEW q \in Requests,
             \/ req'[q] = Idle
             \/ (/\ req[q].pc # "idle" /\ req'[q].actor = req[q].actor
                 /\ req'[q].actor_role = req[q].actor_role),
             \A p \in Requests \ {q} : req'[p] = req[p]
      PROVE  ActorsWere'
  BY <1>a, <1>1, <1>2 DEF Idle
<1>3. ASSUME NEW r \in Requests, NEW a \in Memberships, Authorize(r, a)
      PROVE  ActorsWere'
  <2>1. member[a].role \in {"owner", "admin"} /\ W(a, member[a].role)
    <3>1. a \in rows /\ member[a].role \in {"owner", "admin"}
      BY <1>3 DEF Authorize, MayManage, Active
    <3>2. Was(a, member[a].role)
      BY <3>1 DEF LogAccountsForRole, Given, Was
    <3>3. QED BY <3>1, <3>2, <1>b
  <2>2. /\ req'[r].actor = a /\ req'[r].actor_role = member[a].role
        /\ \A p \in Requests \ {r} : req'[p] = req[p]
    BY <1>3 DEF Authorize, Idle, TypeInv, TypeOK
  <2>3. QED BY <1>a, <1>1, <2>1, <2>2
<1>4. ASSUME NEW r \in Requests, Finish(r)
      PROVE  ActorsWere'
  BY <1>2, <1>4 DEF Finish, TypeInv, TypeOK
<1>5. ASSUME NEW r \in Requests, NEW t \in Memberships, LoadPatch(r, t) \/ LoadRemoval(r, t)
      PROVE  ActorsWere'
  <2>1. PICK op \in {"patch", "remove"}, role \in Roles \cup {Null}, sets \in BOOLEAN,
             m \in Memberships \cup {Null} : Load(r, t, op, role, sets, m)
    BY <1>5, BoundAssumption DEF LoadPatch, LoadRemoval
  <2>2. QED BY <1>2, <2>1 DEF Load, Loaded, TypeInv, TypeOK
<1>6. ASSUME NEW r \in Requests, ChangeRole(r)
      PROVE  ActorsWere'
  <2>1. CASE req[r].sets_reports_to
    <3>1. req[r] \in Request /\ req[r].pc = "loaded"
      BY <1>6 DEF ChangeRole, TypeInv, TypeOK
    <3>2. /\ req'[r] = [req[r] EXCEPT !.pc = "patched"]
          /\ \A p \in Requests \ {r} : req'[p] = req[p]
      BY <1>6, <2>1 DEF ChangeRole, TypeInv, TypeOK
    <3>3. req'[r].actor = req[r].actor /\ req'[r].actor_role = req[r].actor_role
      BY <3>1, <3>2 DEF Request
    <3>4. QED BY <1>2, <3>1, <3>2, <3>3
  <2>2. QED BY <1>4, <1>6, <2>1 DEF ChangeRole
<1>7. CASE UNCHANGED req
  BY <1>a, <1>1, <1>7
<1>8. QED
  BY <1>3, <1>4, <1>5, <1>6, <1>7
     DEF Next, Serve, vars, Join, Restore, ChangeReportsTo, Remove, Abort

(* The entries a step appends name an actor who had the role for them.     *)
LEMMA EntriesStep ==
    ASSUME TypeInv, ActorsHadTheRole, ActorsWere, [Next]_vars
    PROVE  ActorsHadTheRole'
<1> DEFINE Had(m, i, role) ==
             \/ invited'[m] = role
             \/ \E j \in 1..(i - 1) : log'[j].target = m /\ log'[j].new_role = role
           Needs(type) == IF type = "ownership_transferred" THEN {"owner"} ELSE {"owner", "admin"}
<1>a. (\A i \in 1..Len(log') : \E role \in Needs(log'[i].action_type) : Had(log'[i].actor, i, role))
      => ActorsHadTheRole'
  BY DEF ActorsHadTheRole, HadRole
<1>1. /\ Len(log) \in Nat /\ Len(log') \in Nat /\ Len(log) <= Len(log')
      /\ \A i \in 1..Len(log) : log'[i] = log[i]
  BY LogIsAppended
<1>2. ASSUME NEW i \in 1..Len(log)
      PROVE  \E role \in Needs(log'[i].action_type) : Had(log'[i].actor, i, role)
  <2>1. log'[i] = log[i] /\ invited'[log[i].actor] = invited[log[i].actor]
    BY <1>1, RowsGrow DEF TypeInv, LogOK
  <2>2. \A j \in 1..(i - 1) : log'[j] = log[j]
    BY <1>1
  <2>3. QED BY <2>1, <2>2 DEF ActorsHadTheRole, HadRole
(* r appends entries under its actor's name.                               *)
<1>3. ASSUME NEW r \in Requests, req[r].pc # "idle",
             NEW i \in 1..Len(log'), i \notin 1..Len(log), log'[i].actor = req[r].actor,
             log'[i].action_type = "ownership_transferred" => req[r].actor_role = "owner"
      PROVE  \E role \in Needs(log'[i].action_type) : Had(log'[i].actor, i, role)
  <2>1. req[r].actor_role \in Needs(log'[i].action_type)
    BY <1>3 DEF ActorsWere
  <2>2. req[r].actor \in rows /\ Was(req[r].actor, req[r].actor_role)
    BY <1>3 DEF ActorsWere, TypeInv, RequestOK
  <2>3. \A j \in 1..Len(log) : j \in 1..(i - 1) /\ log'[j] = log[j]
    BY <1>1, <1>3
  <2>4. Had(req[r].actor, i, req[r].actor_role)
    BY <2>2, <2>3, RowsGrow DEF Was
  <2> HIDE DEF Had, Needs
  <2>5. QED BY <1>3, <2>1, <2>4
<1> HIDE DEF Had, Needs
<1>4. ASSUME NEW r \in Requests, ChangeRole(r)
      PROVE  ActorsHadTheRole'
  <2>1. /\ Len(log') = Len(log) + (IF IsTransfer(r) THEN 2 ELSE 1)
        /\ log'[Len(log) + 1].actor = req[r].actor
        /\ ~IsTransfer(r) => log'[Len(log) + 1].action_type = "role_changed"
        /\ IsTransfer(r) => /\ log'[Len(log) + 2].action_type = "role_changed"
                            /\ log'[Len(log) + 2].actor = req[r].actor
    <3> DEFINE type == IF IsTransfer(r) THEN "ownership_transferred" ELSE "role_changed"
    <3>1. /\ Len(log') = Len(log) + (IF IsTransfer(r) THEN 2 ELSE 1)
          /\ log'[Len(log) + 1] =
               RoleEntry(r, type, req[r].target, req[r].old_role, req[r].new_role)
          /\ IsTransfer(r) =>
               log'[Len(log) + 2] =
                  RoleEntry(r, "role_changed", req[r].actor, req[r].actor_role, "admin")
      BY <1>4, RoleLog
    <3>2. QED BY <3>1 DEF RoleEntry
  <2>2. req[r].pc # "idle" /\ (IsTransfer(r) => req[r].actor_role = "owner")
    BY <1>4 DEF ChangeRole, MayChangeRole, IsTransfer
  <2>3. ASSUME NEW i \in 1..Len(log'), i \notin 1..Len(log)
        PROVE  \E role \in Needs(log'[i].action_type) : Had(log'[i].actor, i, role)
    <3>1. i = Len(log) + 1 \/ (i = Len(log) + 2 /\ IsTransfer(r))
      BY <1>1, <2>1, <2>3
    <3>2. /\ log'[i].actor = req[r].actor
          /\ log'[i].action_type = "ownership_transferred" => req[r].actor_role = "owner"
      BY <2>1, <2>2, <3>1
    <3>3. QED BY <1>3, <2>2, <2>3, <3>2
  <2>4. QED BY <1>a, <1>2, <2>3
<1>5. ASSUME NEW r \in Requests, Remove(r)
      PROVE  ActorsHadTheRole'
  <2>1. /\ Len(log') = Len(log) + 1
        /\ log'[Len(log) + 1].action_type = "member_removed"
        /\ log'[Len(log) + 1].actor = req[r].actor
    <3>1. /\ Len(log') = Len(log) + 1
          /\ log'[Len(log) + 1] =
               RoleEntry(r, "member_removed", req[r].target, req[r].old_role, Null)
      BY <1>5, RemovalLog
    <3>2. QED BY <3>1 DEF RoleEntry
  <2>2. req[r].pc # "idle"
    BY <1>5 DEF Remove
  <2>3. \A i \in 1..Len(log') : i \in 1..Len(log) \/ i = Len(log) + 1
    BY <1>1, <2>1
  <2>4. \A i \in 1..Len(log') : \E role \in Needs(log'[i].action_type) : Had(log'[i].actor, i, role)
    BY <1>2, <1>3, <2>1, <2>2, <2>3
  <2>5. QED BY <1>a, <2>4
<1>6. CASE log' = log
  BY <1>a, <1>2, <1>6
<1>7. QED
  BY <1>4, <1>5, <1>6
     DEF Next, Serve, vars, Join, Authorize, LoadPatch, LoadRemoval, Load, Restore,
         ChangeReportsTo, Abort

LEMMA TargetsStep ==
    ASSUME TypeInv, LogAccountsForRole, TargetsWere, [Next]_vars
    PROVE  TargetsWere'
<1> DEFINE W(m, role) ==
             \/ invited'[m] = role
             \/ \E j \in 1..Len(log') : log'[j].target = m /\ log'[j].new_role = role
<1>a. (\A r \in Requests : req'[r].pc = "loaded" => W(req'[r].target, req'[r].old_role))
      => TargetsWere'
  BY DEF TargetsWere, Was
<1>b. ASSUME NEW m \in rows, NEW role, Was(m, role) PROVE W(m, role)
  BY <1>b, RowsGrow, LogIsAppended DEF Was
<1> HIDE DEF W
<1>1. ASSUME NEW r \in Requests, req[r].pc = "loaded"
      PROVE  W(req[r].target, req[r].old_role)
  BY <1>1, <1>b DEF TargetsWere, TypeInv, RequestOK
<1>2. ASSUME NEW r \in Requests, req'[r].pc # "loaded", \A p \in Requests \ {r} : req'[p] = req[p]
      PROVE  TargetsWere'
  BY <1>a, <1>1, <1>2
<1>3. ASSUME NEW r \in Requests, NEW t \in Memberships, LoadPatch(r, t) \/ LoadRemoval(r, t)
      PROVE  TargetsWere'
  <2>1. PICK op \in {"patch", "remove"}, role \in Roles \cup {Null}, sets \in BOOLEAN,
             m \in Memberships \cup {Null} : Load(r, t, op, role, sets, m)
    BY <1>3, BoundAssumption DEF LoadPatch, LoadRemoval
  <2>2. /\ t \in rows /\ req'[r].target = t /\ req'[r].old_role = member[t].role
        /\ \A p \in Requests \ {r} : req'[p] = req[p]
    BY <2>1 DEF Load, Loaded, Active, TypeInv, TypeOK
  <2>3. W(t, member[t].role)
    BY <1>b, <2>2 DEF LogAccountsForRole, Given, Was
  <2>4. QED BY <1>a, <1>1, <2>2, <2>3
<1>4. ASSUME NEW r \in Requests,
             \/ \E a \in Memberships : Authorize(r, a)
             \/ \E t \in Memberships : Restore(r, t)
             \/ ChangeRole(r) \/ ChangeReportsTo(r) \/ Remove(r) \/ Abort(r)
      PROVE  TargetsWere'
  <2>1. PICK q : /\ req' = [req EXCEPT ![r] = q]
                 /\ \/ q = Idle \/ q = [req[r] EXCEPT !.pc = "patched"]
                    \/ \E a \in Memberships :
                         q = [Idle EXCEPT !.pc = "authorized", !.actor = a,
                                          !.actor_role = member[a].role]
    <3>1. CASE \E a \in Memberships : Authorize(r, a)
      BY <3>1 DEF Authorize
    <3>2. CASE ChangeRole(r) /\ req[r].sets_reports_to
      <4>1. req' = [req EXCEPT ![r] = [req[r] EXCEPT !.pc = "patched"]]
        BY <3>2 DEF ChangeRole, TypeInv, TypeOK
      <4>2. QED BY <4>1
    <3>3. CASE Finish(r)
      BY <3>3 DEF Finish
    <3>4. QED BY <1>4, <3>1, <3>2, <3>3
               DEF Restore, ChangeRole, ChangeReportsTo, Remove, Abort
  <2>2. q.pc # "loaded"
    <3>1. req[r] \in Request
      BY DEF TypeInv, TypeOK
    <3>2. CASE q = Idle
      BY <3>2 DEF Idle
    <3>3. CASE q = [req[r] EXCEPT !.pc = "patched"]
      BY <3>1, <3>3 DEF Request
    <3>4. ASSUME NEW a \in Memberships,
                 q = [Idle EXCEPT !.pc = "authorized", !.actor = a, !.actor_role = member[a].role]
          PROVE  q.pc # "loaded"
      BY <3>4 DEF Idle
    <3>5. QED BY <2>1, <3>2, <3>3, <3>4
  <2>3. req'[r] = q /\ \A p \in Requests \ {r} : req'[p] = req[p]
    BY <2>1 DEF TypeInv, TypeOK
  <2>4. QED BY <1>2, <2>2, <2>3
<1>5. CASE UNCHANGED req
  BY <1>a, <1>1, <1>5
<1>6. QED
  BY <1>3, <1>4, <1>5 DEF Next, Serve, vars, Join

(* The entries a step appends state as old role what their member had: a   *)
(* transfer's second entry what its actor had.                             *)
LEMMA OldRolesStep ==
    ASSUME TypeInv, OldRolesHeld, ActorsWere, TargetsWere, [Next]_vars
    PROVE  OldRolesHeld'
<1> DEFINE Had(m, i, role) ==
             \/ invited'[m] = role
             \/ \E j \in 1..(i - 1) : log'[j].target = m /\ log'[j].new_role = role
<1>a. (\A i \in 1..Len(log') : Had(log'[i].target, i, log'[i].old_role)) => OldRolesHeld'
  BY DEF OldRolesHeld, HadRole
<1>1. /\ Len(log) \in Nat /\ Len(log') \in Nat /\ Len(log) <= Len(log')
      /\ \A i \in 1..Len(log) : log'[i] = log[i]
  BY LogIsAppended
<1>2. ASSUME NEW i \in 1..Len(log)
      PROVE  Had(log'[i].target, i, log'[i].old_role)
  <2>1. log'[i] = log[i] /\ invited'[log[i].target] = invited[log[i].target]
    BY <1>1, RowsGrow DEF TypeInv, LogOK
  <2>2. \A j \in 1..(i - 1) : log'[j] = log[j]
    BY <1>1
  <2>3. QED BY <2>1, <2>2 DEF OldRolesHeld, HadRole
<1>3. ASSUME NEW i \in 1..Len(log'), i \notin 1..Len(log), NEW m \in rows, NEW role, Was(m, role)
      PROVE  Had(m, i, role)
  <2>1. \A j \in 1..Len(log) : j \in 1..(i - 1) /\ log'[j] = log[j]
    BY <1>1, <1>3
  <2>2. QED BY <1>3, <2>1, RowsGrow DEF Was
<1> HIDE DEF Had
<1>4. ASSUME NEW r \in Requests, ChangeRole(r)
      PROVE  OldRolesHeld'
  <2> DEFINE type == IF IsTransfer(r) THEN "ownership_transferred" ELSE "role_changed"
  <2>1. /\ Len(log') = Len(log) + (IF IsTransfer(r) THEN 2 ELSE 1)
        /\ log'[Len(log) + 1].target = req[r].target
        /\ log'[Len(log) + 1].old_role = req[r].old_role
        /\ IsTransfer(r) => /\ log'[Len(log) + 2].target = req[r].actor
                            /\ log'[Len(log) + 2].old_role = req[r].actor_role
    <3>1. /\ Len(log') = Len(log) + (IF IsTransfer(r) THEN 2 ELSE 1)
          /\ log'[Len(log) + 1] =
               RoleEntry(r, type, req[r].target, req[r].old_role, req[r].new_role)
          /\ IsTransfer(r) =>
               log'[Len(log) + 2] =
                  RoleEntry(r, "role_changed", req[r].actor, req[r].actor_role, "admin")
      BY <1>4, RoleLog
    <3>2. QED BY <3>1 DEF RoleEntry
  <2>2. /\ req[r].target \in rows /\ Was(req[r].target, req[r].old_role)
        /\ req[r].actor \in rows /\ Was(req[r].actor, req[r].actor_role)
    BY <1>4 DEF ChangeRole, ActorsWere, TargetsWere, TypeInv, RequestOK
  <2>3. ASSUME NEW i \in 1..Len(log'), i \notin 1..Len(log)
        PROVE  Had(log'[i].target, i, log'[i].old_role)
    <3>1. i = Len(log) + 1 \/ (i = Len(log) + 2 /\ IsTransfer(r))
      BY <1>1, <2>1, <2>3
    <3>2. QED BY <1>3, <2>1, <2>2, <2>3, <3>1
  <2>4. QED BY <1>a, <1>2, <2>3
<1>5. ASSUME NEW r \in Requests, Remove(r)
      PROVE  OldRolesHeld'
  <2>1. /\ Len(log') = Len(log) + 1
        /\ log'[Len(log) + 1].target = req[r].target
        /\ log'[Len(log) + 1].old_role = req[r].old_role
    <3>1. /\ Len(log') = Len(log) + 1
          /\ log'[Len(log) + 1] =
               RoleEntry(r, "member_removed", req[r].target, req[r].old_role, Null)
      BY <1>5, RemovalLog
    <3>2. QED BY <3>1 DEF RoleEntry
  <2>2. req[r].target \in rows /\ Was(req[r].target, req[r].old_role)
    BY <1>5 DEF Remove, TargetsWere, TypeInv, RequestOK
  <2>3. ASSUME NEW i \in 1..Len(log'), i \notin 1..Len(log)
        PROVE  Had(log'[i].target, i, log'[i].old_role)
    <3>1. i = Len(log) + 1
      BY <1>1, <2>1, <2>3
    <3>2. QED BY <1>3, <2>1, <2>2, <2>3, <3>1
  <2>4. QED BY <1>a, <1>2, <2>3
<1>6. CASE log' = log
  BY <1>a, <1>2, <1>6
<1>7. QED
  BY <1>4, <1>5, <1>6
     DEF Next, Serve, vars, Join, Authorize, LoadPatch, LoadRemoval, Load, Restore,
         ChangeReportsTo, Abort

-------------------------------------------------------------------------------
(* The inductive invariant: types, one active membership per user, and the *)
(* agreement of roles, log and the copies requests work on.                *)
THEOREM RoleInvariant == Spec => []RoleInv
<1>1. Init => RoleInv
  <2> SUFFICES ASSUME Init PROVE RoleInv
    OBVIOUS
  <2>1. TypeInv
    BY InitTypeInv
  <2>2. OneActiveMembership
    BY DEF Init, OneActiveMembership, Active
  <2>3. LogAccountsForRole
    BY FounderAssumption DEF Init, LogAccountsForRole, NewMember
  <2>4. ActorsHadTheRole /\ ActorsWere /\ TargetsWere /\ OldRolesHeld
    BY DEF Init, ActorsHadTheRole, ActorsWere, TargetsWere, OldRolesHeld, Idle
  <2>5. QED BY <2>1, <2>2, <2>3, <2>4 DEF RoleInv
<1>2. RoleInv /\ [Next]_vars => RoleInv'
  BY TypeStep, OneActiveStep, LogAccountsStep, ActorsStep, EntriesStep, TargetsStep, OldRolesStep
     DEF RoleInv
<1>3. QED BY <1>1, <1>2, PTL DEF Spec

(* No interleaving of joining, removing and restoring gives a user two     *)
(* active memberships.                                                     *)
THEOREM OneActive == Spec => []OneActiveMembership
<1>1. RoleInv => OneActiveMembership
  BY DEF RoleInv
<1>2. QED BY <1>1, RoleInvariant, PTL

(* The audit log accounts for the role of every member.                    *)
THEOREM RolesAudited == Spec => []LogAccountsForRole
<1>1. RoleInv => LogAccountsForRole
  BY DEF RoleInv
<1>2. QED BY <1>1, RoleInvariant, PTL

(* Roles are given and taken, and ownership is handed on, only by members  *)
(* who were given the role for it.                                         *)
THEOREM RolesComeFromRoles == Spec => []ActorsHadTheRole
<1>1. RoleInv => ActorsHadTheRole
  BY DEF RoleInv
<1>2. QED BY <1>1, RoleInvariant, PTL

-------------------------------------------------------------------------------
(* One request at a time.  As long as requests have not overlapped, the    *)
(* copies of the one being served agree with the table.                    *)
CopiesFresh ==
    ~overlapped => \A r \in Requests :
        /\ req[r].pc # "idle" => \A s \in Requests \ {r} : req[s].pc = "idle"
        /\ req[r].pc \in {"authorized", "loaded"} =>
              /\ req[r].actor \in Active
              /\ req[r].actor_role = member[req[r].actor].role
        /\ req[r].pc = "loaded" => req[r].old_role = member[req[r].target].role

(* A step of r that leaves no overlap behind had no other request beside.  *)
LEMMA Alone ==
    ASSUME NEW r \in Requests, Beside(Requests \ {r}), ~overlapped'
    PROVE  ~overlapped /\ \A s \in Requests \ {r} : req[s].pc = "idle"
BY DEF Beside

LEMMA CopiesFreshStep ==
    ASSUME TypeInv, CopiesFresh, [Next]_vars
    PROVE  CopiesFresh'
<1> SUFFICES ASSUME ~overlapped'
             PROVE  \A r \in Requests :
        /\ req'[r].pc # "idle" => \A s \in Requests \ {r} : req'[s].pc = "idle"
        /\ req'[r].pc \in {"authorized", "loaded"} =>
              /\ req'[r].actor \in Active'
              /\ req'[r].actor_role = member'[req'[r].actor].role
        /\ req'[r].pc = "loaded" => req'[r].old_role = member'[req'[r].target].role
  BY DEF CopiesFresh
<1>1. CASE UNCHANGED vars
  BY <1>1 DEF CopiesFresh, vars, Active
<1>2. ASSUME NEW m \in Memberships, NEW u \in Users, NEW role \in Roles,
             Join(m, u, role), Beside(Requests)
      PROVE  \A r \in Requests : req'[r].pc = "idle"
  BY <1>2 DEF Beside, Join
<1>3. ASSUME NEW r \in Requests, Serve(r), Beside(Requests \ {r})
      PROVE  /\ \A s \in Requests \ {r} : req'[s].pc = "idle"
             /\ req'[r].pc \in {"authorized", "loaded"} =>
                   /\ req'[r].actor \in Active'
                   /\ req'[r].actor_role = member'[req'[r].actor].role
             /\ req'[r].pc = "loaded" => req'[r].old_role = member'[req'[r].target].role
  <2>1. ~overlapped /\ \A s \in Requests \ {r} : req[s].pc = "idle"
    BY <1>3, Alone
  <2>2. \A s \in Requests \ {r} : req'[s] = req[s]
    BY <1>3 DEF Serve, Authorize, LoadPatch, LoadRemoval, Load, Restore, ChangeRole,
                ChangeReportsTo, Remove, Abort, Finish, TypeInv, TypeOK
  <2>3. ASSUME NEW a \in Memberships, Authorize(r, a)
        PROVE  /\ req'[r].pc = "authorized" /\ req'[r].actor = a /\ a \in Active
               /\ req'[r].actor_role = member[a].role /\ UNCHANGED <<rows, member>>
    BY <2>3 DEF Authorize, Idle, MayManage, TypeInv, TypeOK
  <2>4. ASSUME NEW t \in Memberships, LoadPatch(r, t) \/ LoadRemoval(r, t)
        PROVE  /\ req[r].pc = "authorized"
               /\ req'[r].actor = req[r].actor /\ req'[r].actor_role = req[r].actor_role
               /\ req'[r].old_role = member[t].role /\ req'[r].target = t
               /\ UNCHANGED <<rows, member>>
    <3>1. PICK op \in {"patch", "remove"}, role \in Roles \cup {Null}, sets \in BOOLEAN,
               m \in Memberships \cup {Null} : Load(r, t, op, role, sets, m)
      BY <2>4, BoundAssumption DEF LoadPatch, LoadRemoval
    <3>2. QED BY <3>1 DEF Load, Loaded, TypeInv, TypeOK
  <2>5. ASSUME \/ \E t \in Memberships : Restore(r, t)
               \/ ChangeRole(r) \/ ChangeReportsTo(r) \/ Remove(r) \/ Abort(r)
        PROVE  req'[r].pc \in {"idle", "patched"}
    <3>1. req'[r] = Idle \/ req'[r] = [req[r] EXCEPT !.pc = "patched"]
      BY <2>5 DEF Restore, ChangeRole, ChangeReportsTo, Remove, Abort, Finish, TypeInv, TypeOK
    <3>2. req[r] \in Request
      BY DEF TypeInv, TypeOK
    <3>3. QED BY <3>1, <3>2 DEF Idle, Request
  <2>6. CASE \E a \in Memberships : Authorize(r, a)
    BY <2>1, <2>2, <2>3, <2>6 DEF Active
  <2>7. CASE \E t \in Memberships : LoadPatch(r, t) \/ LoadRemoval(r, t)
    BY <2>1, <2>2, <2>4, <2>7 DEF Active, CopiesFresh
  <2>8. CASE \/ \E t \in Memberships : Restore(r, t)
             \/ ChangeRole(r) \/ ChangeReportsTo(r) \/ Remove(r) \/ Abort(r)
    BY <2>1, <2>2, <2>5, <2>8
  <2>9. QED BY <1>3, <2>6, <2>7, <2>8 DEF Serve
<1>4. QED BY <1>1, <1>2, <1>3 DEF Next

(* n entries that state the role of their targets extend a chain.          *)
LEMMA ChainGrows ==
    ASSUME LogAccountsForRole, Chain, Len(log) \in Nat, NEW n \in {1, 2},
           Len(log') = Len(log) + n,
           \A i \in 1..Len(log) : log'[i] = log[i],
           \A k \in 1..n : /\ log'[Len(log) + k].target \in rows
                           /\ log'[Len(log) + k].old_role = member[log'[Len(log) + k].target].role,
           n = 2 => log'[Len(log) + 1].target # log'[Len(log) + 2].target
    PROVE  Chain'
<1> SUFFICES ASSUME NEW i \in 1..Len(log'), NEW j \in 1..Len(log'),
                    i < j, log'[i].target = log'[j].target, log'[i].new_role # Null,
                    \A k \in (i + 1)..(j - 1) : ~GivenNext(log'[i].target, k)
             PROVE  log'[j].old_role = log'[i].new_role
  BY DEF Chain, Given, GivenNext
<1>1. CASE j \in 1..Len(log)
  <2>1. /\ i \in 1..Len(log) /\ log'[i] = log[i] /\ log'[j] = log[j]
    BY <1>1
  <2>2. \A k \in (i + 1)..(j - 1) : ~Given(log[i].target, k)
    BY <1>1, <2>1 DEF Given, GivenNext
  <2>3. QED BY <1>1, <2>1, <2>2 DEF Chain
<1>2. CASE j \notin 1..Len(log)
  <2>1. PICK k \in 1..n : j = Len(log) + k
    <3>1. j \in 1..(Len(log) + n) /\ ~(j >= 1 /\ j <= Len(log))
      BY <1>2
    <3>2. n = 1 \/ n = 2
      OBVIOUS
    <3>3. j = Len(log) + 1 \/ (n = 2 /\ j = Len(log) + 2)
      BY <3>1, <3>2
    <3>4. CASE j = Len(log) + 1
      <4>1. 1 \in 1..n
        BY <3>2
      <4>2. QED BY <3>4, <4>1
    <3>5. CASE n = 2 /\ j = Len(log) + 2
      <4>1. 2 \in 1..n
        BY <3>5
      <4>2. QED BY <3>5, <4>1
    <3>6. QED BY <3>3, <3>4, <3>5
  <2>2. i \in 1..Len(log)
    <3>1. i \in 1..(Len(log) + n) /\ i < Len(log) + k /\ (k = 1 \/ (k = 2 /\ n = 2))
      BY <2>1
    <3>2. i = Len(log) + 1 /\ n = 2 /\ k = 2 => FALSE
      BY <2>1
    <3>3. QED BY <3>1, <3>2
  <2> DEFINE t == log'[j].target
  <2>3. /\ t \in rows /\ log'[j].old_role = member[t].role
        /\ log[i].target = t /\ log[i].new_role # Null /\ log'[i] = log[i]
    BY <2>1, <2>2
  <2>4. Given(t, i) /\ \A p \in (i + 1)..Len(log) : ~Given(t, p)
    BY <2>1, <2>2, <2>3 DEF Given, GivenNext
  <2>5. PICK p \in 1..Len(log) :
             /\ Given(t, p) /\ log[p].new_role = member[t].role
             /\ \A q \in (p + 1)..Len(log) : ~Given(t, q)
    BY <2>2, <2>3, <2>4 DEF LogAccountsForRole
  <2>6. p = i
    BY <2>2, <2>4, <2>5
  <2>7. QED BY <2>3, <2>5, <2>6
<1>3. QED BY <1>1, <1>2

LEMMA ChainStep ==
    ASSUME TypeInv, LogAccountsForRole, CopiesFresh, ~overlapped => Chain, [Next]_vars,
           ~overlapped'
    PROVE  Chain'
<1>1. ~overlapped
  BY DEF Next, Beside, vars
<1>2. Chain /\ Len(log) \in Nat
  BY <1>1 DEF TypeInv, TypeOK
<1>3. ASSUME NEW r \in Requests, ChangeRole(r)
      PROVE  Chain'
  <2> DEFINE n == IF IsTransfer(r) THEN 2 ELSE 1
             type == IF IsTransfer(r) THEN "ownership_transferred" ELSE "role_changed"
  <2>1. /\ Len(log') = Len(log) + n
        /\ \A i \in 1..Len(log) : log'[i] = log[i]
        /\ log'[Len(log) + 1] =
              RoleEntry(r, type, req[r].target, req[r].old_role, req[r].new_role)
        /\ IsTransfer(r) =>
              log'[Len(log) + 2] =
                 RoleEntry(r, "role_changed", req[r].actor, req[r].actor_role, "admin")
    BY <1>3, RoleLog
  <2>2. /\ req[r].pc = "loaded" /\ req[r].target # req[r].actor
        /\ req[r].target \in rows /\ req[r].actor \in rows
    BY <1>3 DEF ChangeRole, MayChangeRole, TypeInv, RequestOK
  <2>3. /\ req[r].actor_role = member[req[r].actor].role
        /\ req[r].old_role = member[req[r].target].role
    BY <1>1, <2>2 DEF CopiesFresh
  <2>4. /\ log'[Len(log) + 1].target = req[r].target
        /\ log'[Len(log) + 1].old_role = req[r].old_role
        /\ IsTransfer(r) => /\ log'[Len(log) + 2].target = req[r].actor
                            /\ log'[Len(log) + 2].old_role = req[r].actor_role
    BY <2>1 DEF RoleEntry
  <2>5. \A k \in 1..n : /\ log'[Len(log) + k].target \in rows
                        /\ log'[Len(log) + k].old_role = member[log'[Len(log) + k].target].role
    <3> TAKE k \in 1..n
    <3>1. k = 1 \/ (k = 2 /\ IsTransfer(r))
      OBVIOUS
    <3>2. QED BY <2>2, <2>3, <2>4, <3>1
  <2>6. n \in {1, 2} /\ (n = 2 => log'[Len(log) + 1].target # log'[Len(log) + 2].target)
    BY <2>2, <2>4
  <2> HIDE DEF n
  <2>7. QED BY <1>2, <2>1, <2>5, <2>6, ChainGrows
<1>4. ASSUME NEW r \in Requests, Remove(r)
      PROVE  Chain'
  <2>1. /\ Len(log') = Len(log) + 1
        /\ \A i \in 1..Len(log) : log'[i] = log[i]
        /\ log'[Len(log) + 1] =
              RoleEntry(r, "member_removed", req[r].target, req[r].old_role, Null)
    BY <1>4, RemovalLog
  <2>2. /\ log'[Len(log) + 1].target = req[r].target
        /\ log'[Len(log) + 1].old_role = req[r].old_role
    BY <2>1 DEF RoleEntry
  <2>3. req[r].target \in rows /\ req[r].old_role = member[req[r].target].role
    BY <1>1, <1>4 DEF Remove, TypeInv, RequestOK, CopiesFresh
  <2>4. \A k \in 1..1 : /\ log'[Len(log) + k].target \in rows
                        /\ log'[Len(log) + k].old_role = member[log'[Len(log) + k].target].role
    BY <2>2, <2>3
  <2>5. QED BY <1>2, <2>1, <2>4, ChainGrows
<1>5. CASE log' = log
  BY <1>2, <1>5 DEF Chain, Given
<1>6. QED
  BY <1>3, <1>4, <1>5
     DEF Next, Serve, vars, Join, Authorize, LoadPatch, LoadRemoval, Load, Restore,
         ChangeReportsTo, Abort

-------------------------------------------------------------------------------
(* A transfer of a request that is alone: the actor is an active Owner, it *)
(* is not the target, and it becomes an Admin.                             *)
LEMMA AloneTransfer ==
    ASSUME TypeInv, CopiesFresh, NEW r \in Requests, ChangeRole(r), IsTransfer(r),
           Beside(Requests \ {r}), ~overlapped'
    PROVE  LET a == req[r].actor
               t == req[r].target IN
           /\ a \in Owners /\ t \in rows /\ a # t
           /\ member' = [m \in Memberships |->
                            IF m = t THEN [member[m] EXCEPT !.role = "owner"]
                            ELSE IF m = a THEN [member[m] EXCEPT !.role = "admin"]
                            ELSE member[m]]
<1>1. /\ req[r].pc = "loaded" /\ req[r].target # req[r].actor
      /\ req[r].actor_role = "owner" /\ req[r].target \in rows
      /\ req[r].new_role = "owner"
  BY DEF ChangeRole, MayChangeRole, IsTransfer, TypeInv, RequestOK
<1>2. req[r].actor \in Active /\ member[req[r].actor].role = "owner"
  BY <1>1, Alone DEF CopiesFresh
<1>3. QED BY <1>1, <1>2 DEF ChangeRole, NewRoles, IsTransfer, Owners

(* A transfer, whatever has become of its actor since the check.           *)
LEMMA TransferFacts ==
    ASSUME TypeInv, NEW r \in Requests, ChangeRole(r), IsTransfer(r)
    PROVE  LET a == req[r].actor
               t == req[r].target IN
           /\ a \in rows /\ t \in rows /\ a # t /\ req'[r] # req[r]
           /\ req[r].pc = "loaded" /\ req[r].actor_role = "owner" /\ req[r].new_role = "owner"
           /\ member'[a] = [member[a] EXCEPT !.role = "admin"]
           /\ \A m \in Memberships \ {a, t} : member'[m] = member[m]
<1>1. /\ req[r].pc = "loaded" /\ req[r].target # req[r].actor
      /\ req[r].actor_role = "owner" /\ req[r].new_role = "owner"
      /\ req[r].target \in rows /\ req[r].actor \in rows
  BY DEF ChangeRole, MayChangeRole, IsTransfer, TypeInv, RequestOK
<1>2. req[r] \in Request /\ rows \subseteq Memberships
  BY DEF TypeInv, TypeOK
<1>3. req'[r].pc # "loaded"
  <2>1. req'[r] = Idle \/ req'[r] = [req[r] EXCEPT !.pc = "patched"]
    BY DEF ChangeRole, Finish, TypeInv, TypeOK
  <2>2. QED BY <1>2, <2>1 DEF Idle, Request
<1>4. /\ member'[req[r].actor] = [member[req[r].actor] EXCEPT !.role = "admin"]
      /\ \A m \in Memberships \ {req[r].actor, req[r].target} : member'[m] = member[m]
  BY <1>1, <1>2 DEF ChangeRole, NewRoles, IsTransfer
<1>5. QED BY <1>1, <1>3, <1>4

LEMMA OwnersStep ==
    ASSUME TypeInv, IsFiniteSet(rows), [Next]_vars, Active' \subseteq Active,
           \A r \in Requests : req'[r] # req[r] => ~Overtaken(r)
    PROVE  Cardinality(Owners') <= Cardinality(Owners)
<1>1. IsFiniteSet(Owners) /\ Cardinality(Owners) \in Nat
  BY FS_Subset, FS_CardinalityType DEF Owners, Active
<1>2. ASSUME Owners' \subseteq Owners
      PROVE  Cardinality(Owners') <= Cardinality(Owners)
  BY <1>1, <1>2, FS_Subset
<1>3. ASSUME NEW r \in Requests, ChangeRole(r), IsTransfer(r)
      PROVE  Cardinality(Owners') <= Cardinality(Owners)
  <2> DEFINE a == req[r].actor
             t == req[r].target
             S == Owners \ {a}
  <2>1. a \in Owners /\ IsFiniteSet(S) /\ Cardinality(S) = Cardinality(Owners) - 1
    BY <1>1, <1>3, TransferFacts, FS_RemoveElement DEF Overtaken
  <2> HIDE DEF S
  <2>2. IsFiniteSet(S \cup {t}) /\ Cardinality(S \cup {t}) <= Cardinality(Owners)
    <3>1. /\ IsFiniteSet(S \cup {t})
          /\ \/ Cardinality(S \cup {t}) = Cardinality(S)
             \/ Cardinality(S \cup {t}) = Cardinality(S) + 1
      BY <2>1, FS_AddElement
    <3>2. Cardinality(S) = Cardinality(Owners) - 1 /\ Cardinality(Owners) \in Nat
      BY <1>1, <2>1
    <3>3. QED BY <3>1, <3>2
  <2>3. Owners' \subseteq S \cup {t}
    <3>1. rows' = rows
      BY <1>3 DEF ChangeRole
    <3>2. /\ a # t /\ a \in rows /\ a \in Memberships
          /\ \A m \in Memberships \ {a, t} : member'[m] = member[m]
          /\ member'[a] = [member[a] EXCEPT !.role = "admin"]
      BY <1>3, TransferFacts DEF TypeInv, TypeOK
    <3>3. a \notin Owners'
      BY <3>2 DEF Owners, TypeInv, TypeOK, Row
    <3>4. QED BY <3>1, <3>2, <3>3 DEF S, Owners, Active, TypeInv, TypeOK
  <2>4. Cardinality(Owners') <= Cardinality(S \cup {t}) /\ IsFiniteSet(Owners')
    BY <2>2, <2>3, FS_Subset
  <2>5. /\ Cardinality(Owners') \in Nat /\ Cardinality(S \cup {t}) \in Nat
        /\ Cardinality(Owners) \in Nat
    BY <1>1, <2>2, <2>4, FS_CardinalityType
  <2>6. QED BY <2>2, <2>4, <2>5
<1>4. ASSUME NEW r \in Requests, ChangeRole(r), ~IsTransfer(r)
      PROVE  Owners' \subseteq Owners
  <2>1. /\ rows' = rows /\ req[r].target \in Memberships /\ req[r].new_role # "owner"
        /\ member' = [m \in Memberships |->
                         IF m = req[r].target
                         THEN [member[m] EXCEPT !.role = req[r].new_role] ELSE member[m]]
    BY <1>4 DEF ChangeRole, NewRoles, IsTransfer, TypeInv, RequestOK, TypeOK
  <2>2. /\ \A m \in Memberships \ {req[r].target} : member'[m] = member[m]
        /\ member'[req[r].target].role # "owner"
    BY <2>1 DEF TypeInv, TypeOK, Row
  <2>3. QED BY <2>1, <2>2 DEF Owners, Active, TypeInv, TypeOK
<1>5. ASSUME NEW r \in Requests, Remove(r) \/ ChangeReportsTo(r)
      PROVE  Owners' \subseteq Owners
  <2>1. rows' = rows /\ req[r].target \in Memberships
    BY <1>5 DEF Remove, ChangeReportsTo, TypeInv, RequestOK, TypeOK
  <2>2. /\ \A m \in Memberships \ {req[r].target} : member'[m] = member[m]
        /\ member'[req[r].target].role = member[req[r].target].role
        /\ ~member'[req[r].target].deleted => ~member[req[r].target].deleted
    BY <1>5, <2>1 DEF Remove, ChangeReportsTo, TypeInv, TypeOK, Row
  <2>3. QED BY <2>1, <2>2 DEF Owners, Active, TypeInv, TypeOK
<1>6. ASSUME NEW r \in Requests, NEW t \in Memberships, Restore(r, t)
      PROVE  FALSE
  BY <1>6 DEF Restore, Active, TypeInv, TypeOK, Row
<1>7. ASSUME NEW m \in Memberships, NEW u \in Users, NEW role \in Roles, Join(m, u, role)
      PROVE  FALSE
  BY <1>7 DEF Join, NewMember, Active, TypeInv, TypeOK
<1>8. CASE UNCHANGED <<rows, member>>
  BY <1>2, <1>8 DEF Owners, Active
<1>9. QED
  BY <1>2, <1>3, <1>4, <1>5, <1>6, <1>7, <1>8
     DEF Next, Serve, vars, Authorize, LoadPatch, LoadRemoval, Load, Abort

LEMMA RankStep ==
    ASSUME TypeInv, [Next]_vars, NEW r \in Requests, req[r].pc = "loaded", req'[r] # req[r]
    PROVE  \/ Rank(member'[req[r].actor].role) <= Rank(member[req[r].actor].role)
           \/ Rank(member'[req[r].actor].role) < Rank(req[r].actor_role)
<1> DEFINE a == req[r].actor
<1>1. a \in Memberships /\ req[r].target \in Memberships
  BY DEF TypeInv, TypeOK, RequestOK
<1>2. Serve(r)
  <2>1. ASSUME NEW s \in Requests \ {r}, Serve(s) PROVE FALSE
    BY <2>1 DEF Serve, Authorize, LoadPatch, LoadRemoval, Load, Restore, ChangeRole,
                ChangeReportsTo, Remove, Abort, Finish, TypeInv, TypeOK
  <2>2. QED BY <2>1 DEF Next, Join, vars
<1>3. ASSUME member'[a].role = member[a].role
      PROVE  Rank(member'[a].role) <= Rank(member[a].role)
  BY <1>3 DEF Rank
<1>4. CASE ChangeRole(r) /\ IsTransfer(r)
  <2>1. req[r].actor_role = "owner" /\ member'[a].role = "admin"
    <3>1. req[r].actor_role = "owner" /\ member'[a] = [member[a] EXCEPT !.role = "admin"]
      BY <1>4, TransferFacts
    <3>2. QED BY <1>1, <3>1 DEF TypeInv, TypeOK, Row
  <2>2. QED BY <2>1 DEF Rank
<1>5. CASE ChangeRole(r) /\ ~IsTransfer(r)
  <2>1. member'[a] = member[a]
    BY <1>1, <1>5 DEF ChangeRole, MayChangeRole, NewRoles, TypeInv, TypeOK
  <2>2. QED BY <1>3, <2>1
<1>6. CASE ChangeReportsTo(r) \/ Remove(r)
  BY <1>1, <1>3, <1>6 DEF ChangeReportsTo, Remove, TypeInv, TypeOK, Row
<1>7. CASE member' = member
  BY <1>3, <1>7
<1>8. QED
  BY <1>2, <1>4, <1>5, <1>6, <1>7
     DEF Serve, Authorize, LoadPatch, LoadRemoval, Load, Restore, Abort

(* However members come, go and come back, there are no more Owners than   *)
(* were invited as Owner, as long as requests come one by one.             *)
OwnerRows     == {m \in rows : member[m].role = "owner"}
InvitedOwners == {m \in rows : invited[m] = "owner"}

OwnersAccountedFor == ~overlapped => Cardinality(OwnerRows) <= Cardinality(InvitedOwners)

(* What a step does to the two sets.                                       *)
LEMMA OwnerRowsStep ==
    ASSUME TypeInv, CopiesFresh, [Next]_vars, ~overlapped'
    PROVE  \/ OwnerRows' \subseteq OwnerRows /\ InvitedOwners' = InvitedOwners
           \/ /\ InvitedOwners' = InvitedOwners
              /\ \E a \in OwnerRows, t \in rows : OwnerRows' \subseteq (OwnerRows \ {a}) \cup {t}
           \/ \E m : /\ m \notin rows
                     /\ OwnerRows' = OwnerRows \cup {m}
                     /\ InvitedOwners' = InvitedOwners \cup {m}
<1> DEFINE Good == \/ OwnerRows' \subseteq OwnerRows /\ InvitedOwners' = InvitedOwners
                   \/ /\ InvitedOwners' = InvitedOwners
                      /\ \E a \in OwnerRows, t \in rows :
                            OwnerRows' \subseteq (OwnerRows \ {a}) \cup {t}
                   \/ \E m : /\ m \notin rows
                             /\ OwnerRows' = OwnerRows \cup {m}
                             /\ InvitedOwners' = InvitedOwners \cup {m}
<1>1. ASSUME NEW r \in Requests, ChangeRole(r), IsTransfer(r), Beside(Requests \ {r}) PROVE Good
  <2> DEFINE a == req[r].actor
             t == req[r].target
  <2>1. /\ a # t /\ a \in OwnerRows /\ t \in rows /\ a \in Memberships
        /\ \A m \in Memberships \ {a, t} : member'[m] = member[m]
        /\ member'[a] = [member[a] EXCEPT !.role = "admin"]
    BY <1>1, AloneTransfer DEF Owners, Active, OwnerRows, TypeInv, TypeOK
  <2>2. rows' = rows /\ invited' = invited
    BY <1>1 DEF ChangeRole
  <2>3. a \notin OwnerRows'
    BY <2>1 DEF OwnerRows, TypeInv, TypeOK, Row
  <2>4. OwnerRows' \subseteq (OwnerRows \ {a}) \cup {t}
    BY <2>1, <2>2, <2>3 DEF OwnerRows, TypeInv, TypeOK
  <2>5. QED BY <2>1, <2>2, <2>4 DEF InvitedOwners
<1>2. ASSUME NEW r \in Requests, ChangeRole(r), ~IsTransfer(r) PROVE Good
  <2>1. /\ rows' = rows /\ invited' = invited
        /\ req[r].target \in Memberships /\ req[r].new_role # "owner"
        /\ member' = [m \in Memberships |->
                         IF m = req[r].target
                         THEN [member[m] EXCEPT !.role = req[r].new_role] ELSE member[m]]
    BY <1>2 DEF ChangeRole, NewRoles, IsTransfer, TypeInv, RequestOK, TypeOK
  <2>2. /\ \A m \in Memberships \ {req[r].target} : member'[m] = member[m]
        /\ member'[req[r].target].role # "owner"
    BY <2>1 DEF TypeInv, TypeOK, Row
  <2>3. QED BY <2>1, <2>2 DEF OwnerRows, InvitedOwners, TypeInv, TypeOK
<1>3. ASSUME NEW r \in Requests,
             Remove(r) \/ ChangeReportsTo(r) \/ \E t \in Memberships : Restore(r, t)
      PROVE  Good
  <2>1. rows' = rows /\ invited' = invited
    BY <1>3 DEF Remove, ChangeReportsTo, Restore
  <2>2. \A m \in rows : member'[m].role = member[m].role
    BY <1>3 DEF Remove, ChangeReportsTo, Restore, TypeInv, RequestOK, TypeOK, Row
  <2>3. QED BY <2>1, <2>2 DEF OwnerRows, InvitedOwners
<1>4. ASSUME NEW m \in Memberships, NEW u \in Users, NEW role \in Roles, Join(m, u, role)
      PROVE  Good
  <2>1. /\ m \notin rows /\ rows' = rows \cup {m}
        /\ member'[m].role = role /\ invited'[m] = role
        /\ \A n \in rows : member'[n] = member[n] /\ invited'[n] = invited[n]
    BY <1>4 DEF Join, NewMember, TypeInv, TypeOK
  <2>2. CASE role = "owner"
    BY <2>1, <2>2 DEF OwnerRows, InvitedOwners
  <2>3. CASE role # "owner"
    BY <2>1, <2>3 DEF OwnerRows, InvitedOwners
  <2>4. QED BY <2>2, <2>3
<1>5. ASSUME UNCHANGED <<rows, member, invited>> PROVE Good
  BY <1>5 DEF OwnerRows, InvitedOwners
<1> HIDE DEF Good
<1>6. ASSUME NEW r \in Requests, Serve(r), Beside(Requests \ {r}) PROVE Good
  <2>1. CASE ChangeRole(r) \/ Remove(r) \/ ChangeReportsTo(r) \/ \E t \in Memberships : Restore(r, t)
    BY <1>1, <1>2, <1>3, <1>6, <2>1
  <2>2. CASE \/ \E a \in Memberships : Authorize(r, a)
             \/ \E t \in Memberships : LoadPatch(r, t) \/ LoadRemoval(r, t)
             \/ Abort(r)
    <3>1. UNCHANGED <<rows, member, invited>>
      BY <2>2 DEF Authorize, LoadPatch, LoadRemoval, Load, Abort
    <3>2. QED BY <1>5, <3>1
  <2>3. QED BY <1>6, <2>1, <2>2 DEF Serve
<1>7. ASSUME UNCHANGED vars PROVE Good
  BY <1>5, <1>7 DEF vars
<1>8. Good
  BY <1>4, <1>6, <1>7 DEF Next
<1>9. QED BY <1>8 DEF Good

LEMMA OwnersAccountedStep ==
    ASSUME TypeInv, IsFiniteSet(rows), CopiesFresh, OwnersAccountedFor, [Next]_vars
    PROVE  OwnersAccountedFor'
<1> SUFFICES ASSUME ~overlapped' PROVE Cardinality(OwnerRows') <= Cardinality(InvitedOwners')
  BY DEF OwnersAccountedFor
<1>1. ~overlapped
  BY DEF Next, Beside, vars
<1>2. /\ IsFiniteSet(OwnerRows) /\ Cardinality(OwnerRows) \in Nat
      /\ IsFiniteSet(InvitedOwners) /\ Cardinality(InvitedOwners) \in Nat
      /\ Cardinality(OwnerRows) <= Cardinality(InvitedOwners)
  BY <1>1, FS_Subset, FS_CardinalityType DEF OwnerRows, InvitedOwners, OwnersAccountedFor
<1>3. ASSUME NEW S, IsFiniteSet(S), Cardinality(S) <= Cardinality(OwnerRows),
             OwnerRows' \subseteq S, InvitedOwners' = InvitedOwners
      PROVE  Cardinality(OwnerRows') <= Cardinality(InvitedOwners')
  <2>1. IsFiniteSet(OwnerRows') /\ Cardinality(OwnerRows') <= Cardinality(S)
    BY <1>3, FS_Subset
  <2>2. Cardinality(OwnerRows') \in Nat /\ Cardinality(S) \in Nat
    BY <1>3, <2>1, FS_CardinalityType
  <2>3. QED BY <1>2, <1>3, <2>1, <2>2
<1>4. CASE OwnerRows' \subseteq OwnerRows /\ InvitedOwners' = InvitedOwners
  BY <1>2, <1>3, <1>4
<1>5. ASSUME InvitedOwners' = InvitedOwners, NEW a \in OwnerRows, NEW t \in rows,
             OwnerRows' \subseteq (OwnerRows \ {a}) \cup {t}
      PROVE  Cardinality(OwnerRows') <= Cardinality(InvitedOwners')
  <2> DEFINE S == OwnerRows \ {a}
  <2>1. IsFiniteSet(S) /\ Cardinality(S) = Cardinality(OwnerRows) - 1
    BY <1>2, FS_RemoveElement
  <2> HIDE DEF S
  <2>2. /\ IsFiniteSet(S \cup {t})
        /\ \/ Cardinality(S \cup {t}) = Cardinality(S)
           \/ Cardinality(S \cup {t}) = Cardinality(S) + 1
    BY <2>1, FS_AddElement
  <2>3. Cardinality(S \cup {t}) <= Cardinality(OwnerRows)
    BY <1>2, <2>1, <2>2
  <2>4. QED BY <1>3, <1>5, <2>2, <2>3 DEF S
<1>6. ASSUME NEW m, m \notin rows, OwnerRows' = OwnerRows \cup {m},
             InvitedOwners' = InvitedOwners \cup {m}
      PROVE  Cardinality(OwnerRows') <= Cardinality(InvitedOwners')
  <2>1. m \notin OwnerRows /\ m \notin InvitedOwners
    BY <1>6 DEF OwnerRows, InvitedOwners
  <2>2. /\ Cardinality(OwnerRows') = Cardinality(OwnerRows) + 1
        /\ Cardinality(InvitedOwners') = Cardinality(InvitedOwners) + 1
    BY <1>2, <1>6, <2>1, FS_AddElement
  <2>3. QED BY <1>2, <2>2
<1>7. QED BY <1>4, <1>5, <1>6, OwnerRowsStep

(* The invariants about requests that come one by one.                     *)
SerialInv == RoleInv /\ CopiesFresh /\ LogIsAChain /\ IsFiniteSet(rows)

THEOREM SerialInvariant == Spec => []SerialInv
<1>1. Init => CopiesFresh /\ LogIsAChain /\ IsFiniteSet(rows)
  <2>1. Init => CopiesFresh
    BY DEF Init, CopiesFresh, Idle
  <2>2. Init => LogIsAChain
    BY DEF Init, LogIsAChain, Chain
  <2>3. Init => IsFiniteSet(rows)
    BY FS_Singleton DEF Init
  <2>4. QED BY <2>1, <2>2, <2>3
<1>2. RoleInv /\ RoleInv' /\ CopiesFresh /\ LogIsAChain /\ IsFiniteSet(rows) /\ [Next]_vars
         => (CopiesFresh /\ LogIsAChain /\ IsFiniteSet(rows))'
  <2> SUFFICES ASSUME RoleInv, RoleInv', CopiesFresh, LogIsAChain, IsFiniteSet(rows), [Next]_vars
               PROVE  (CopiesFresh /\ LogIsAChain /\ IsFiniteSet(rows))'
    OBVIOUS
  <2>1. CopiesFresh' /\ LogIsAChain'
    BY CopiesFreshStep, ChainStep DEF RoleInv, OldRolesHeld, LogIsAChain
  <2>2. rows' = rows \/ \E m \in Memberships : rows' = rows \cup {m}
    BY DEF Next, Serve, vars, Join, Authorize, LoadPatch, LoadRemoval, Load, Restore,
           ChangeRole, ChangeReportsTo, Remove, Abort
  <2>3. IsFiniteSet(rows')
    BY <2>2, FS_AddElement
  <2>4. QED BY <2>1, <2>3
<1>3. QED BY <1>1, <1>2, RoleInvariant, PTL DEF Spec, SerialInv

(* Every old role in the log is one its member had been given; and one     *)
(* request at a time, the audit trail of every member is a chain.          *)
THEOREM AuditTrailIsAChain == Spec => []LogIsAChain
<1>1. SerialInv => LogIsAChain
  BY DEF SerialInv
<1>2. QED BY <1>1, SerialInvariant, PTL

(* A transfer adds an Owner only if its actor was demoted or removed while *)
(* it ran; nothing else adds one, but joining and restoring.               *)
THEOREM TransferIsAHandoff == Spec => OwnersNeverMultiply
<1>1. SerialInv /\ [Next]_vars
        => [Active' \subseteq Active =>
               \/ Cardinality(Owners') <= Cardinality(Owners)
               \/ \E r \in Requests : req'[r] # req[r] /\ Overtaken(r)]_vars
  BY OwnersStep DEF SerialInv, RoleInv
<1>2. QED BY <1>1, SerialInvariant, PTL DEF Spec, OwnersNeverMultiply

(* One request at a time, there are never more Owners than were invited as *)
(* Owner: transfers, removals and restores make none.                      *)
THEOREM OwnersAreInvited == Spec => []OwnersAccountedFor
<1>1. Init => OwnersAccountedFor
  <2>1. Init => OwnerRows = {Founder} /\ InvitedOwners = {Founder}
    BY FounderAssumption DEF Init, OwnerRows, InvitedOwners, NewMember
  <2>2. Cardinality({Founder}) <= Cardinality({Founder})
    BY FS_Singleton
  <2>3. QED BY <2>1, <2>2 DEF OwnersAccountedFor
<1>2. SerialInv /\ OwnersAccountedFor /\ [Next]_vars => OwnersAccountedFor'
  BY OwnersAccountedStep DEF SerialInv, RoleInv
<1>3. QED BY <1>1, <1>2, SerialInvariant, PTL DEF Spec

(* Nobody's own request raises its actor, unless others have demoted him   *)
(* since the check, and then to less than what he was checked with.        *)
THEOREM NobodyElevatesSelf == Spec => NeverElevatesSelf
<1>1. RoleInv /\ [Next]_vars
        => [\A r \in Requests :
               req[r].pc = "loaded" /\ req'[r] # req[r] =>
                  \/ Rank(member'[req[r].actor].role) <= Rank(member[req[r].actor].role)
                  \/ Rank(member'[req[r].actor].role) < Rank(req[r].actor_role)]_vars
  BY RankStep DEF RoleInv
<1>2. QED BY <1>1, RoleInvariant, PTL DEF Spec, NeverElevatesSelf
===============================================================================

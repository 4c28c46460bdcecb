------------------------------ MODULE Membership ------------------------------
(***************************************************************************)
(* The members of one organisation, their roles and the audit log.         *)
(*                                                                         *)
(* Source: apps/organizations/services.py (MembershipService),             *)
(* apps/organizations/views.py, apps/core/permissions.py,                  *)
(* apps/audit/services.py and the models.                                  *)
(*                                                                         *)
(* A request reads the actor's membership (the permission class), then the *)
(* target's, and applies its rules to those two copies.  What it writes    *)
(* depends on the copies alone, so each transaction is one step, and other *)
(* requests run between the reads and the transaction.                     *)
(***************************************************************************)
EXTENDS Naturals, Sequences, FiniteSets

CONSTANTS
    Memberships, Users,
    Founder,            \* the membership signup creates
    Staff,              \* the roles beside owner and admin
    Requests,           \* web workers serving a request at a time
    Null,
    Managers,           \* bound: the values PATCH may give reports_to
    MaxRequests         \* bound: requests begun

Roles == {"owner", "admin"} \cup Staff

ASSUME StaffAssumption == {"owner", "admin"} \cap Staff = {}
ASSUME FounderAssumption == Founder \in Memberships
ASSUME NullAssumption == Null \notin Memberships \cup Users \cup Roles
ASSUME BoundAssumption ==
    MaxRequests \in Nat /\ Managers \subseteq Memberships \cup {Null}

VARIABLES
    rows,       \* table memberships: the ids in use
    member,     \* and its columns
    invited,    \* the role each member was invited with
    log,        \* table audit_logs, oldest first
    req,        \* the request each worker is serving
    begun,      \* requests begun so far
    overlapped  \* has anything happened while a request was being served

vars == <<rows, member, invited, log, req, begun, overlapped>>

-------------------------------------------------------------------------------
Row == [user : Users, role : Roles, reports_to : Memberships \cup {Null},
        deleted : BOOLEAN]

NewMember_NoRole(u, role) == \* mutant: the invited role is not taken over
    [user |-> u, role |-> Null, reports_to |-> Null, deleted |-> FALSE]

NewMember(u, role) ==
    [user |-> u, role |-> role, reports_to |-> Null, deleted |-> FALSE]

Active    == {m \in rows : ~member[m].deleted}
Owners    == {m \in Active : member[m].role = "owner"}
MayManage == {m \in Active : member[m].role \in {"owner", "admin"}}

(* uniq_active_membership_user_organization, for one more row of user u.   *)
NoneActive(u) == \A m \in Active : member[m].user # u

Entry == [action_type : {"role_changed", "ownership_transferred", "member_removed"},
          actor : Memberships, target : Memberships,
          old_role : Roles, new_role : Roles \cup {Null}]

Request == [pc : {"idle", "authorized", "loaded", "patched"},
            op : {"none", "patch", "remove"},
            actor : Memberships \cup {Null}, actor_role : Roles \cup {Null},
            target : Memberships \cup {Null}, old_role : Roles \cup {Null},
            new_role : Roles \cup {Null},             \* Null: not in the body
            sets_reports_to : BOOLEAN, reports_to : Memberships \cup {Null}]

Idle == [pc |-> "idle", op |-> "none", actor |-> Null, actor_role |-> Null,
         target |-> Null, old_role |-> Null, new_role |-> Null,
         sets_reports_to |-> FALSE, reports_to |-> Null]

Finish(r) == req' = [req EXCEPT ![r] = Idle]

-------------------------------------------------------------------------------
(* An invitation is accepted: get_or_create finds no active row of the     *)
(* user.  Any role can be invited, and nothing is audited.                 *)
Join(m, u, role) ==
    /\ m \notin rows
    /\ NoneActive(u)
    /\ rows' = rows \cup {m}
    /\ member' = [member EXCEPT ![m] = NewMember(u, role)]
    /\ invited' = [invited EXCEPT ![m] = role]
    /\ UNCHANGED <<log, req, begun>>

(* IsOwnerOrAdmin: request.membership is the copy read here.               *)
Authorize(r, a) ==
    /\ req[r].pc = "idle"
    /\ begun < MaxRequests
    /\ begun' = begun + 1
    /\ a \in MayManage
    /\ req' = [req EXCEPT ![r] = [Idle EXCEPT !.pc = "authorized", !.actor = a,
                                              !.actor_role = member[a].role]]
    /\ UNCHANGED <<rows, member, invited, log>>

(* _get_target of MembershipDetailView, with the body of the request.      *)
Loaded(r, t, op, role, sets, m) ==
    [pc |-> "loaded", op |-> op, actor |-> req[r].actor,
     actor_role |-> req[r].actor_role, target |-> t, old_role |-> member[t].role,
     new_role |-> role, sets_reports_to |-> sets, reports_to |-> m]

Load(r, t, op, role, sets, m) ==
    /\ req[r].pc = "authorized"
    /\ t \in Active
    /\ req' = [req EXCEPT ![r] = Loaded(r, t, op, role, sets, m)]
    /\ UNCHANGED <<rows, member, invited, log, begun>>

LoadPatch(r, t) ==
    \E role \in Roles \cup {Null} :
       \/ role # Null /\ Load(r, t, "patch", role, FALSE, Null)
       \/ \E m \in Managers : Load(r, t, "patch", role, TRUE, m)

LoadRemoval(r, t) == Load(r, t, "remove", Null, FALSE, Null)

(* The rules of change_role, on the two copies.                            *)
MayChangeRole_AnyAdmin(r) == \* mutant: an Admin may transfer ownership
    req[r].target # req[r].actor
MayChangeRole_Unchecked(r) == req[r].target \in Memberships \* mutant: no rule
MayChangeRole(r) ==
    /\ req[r].target # req[r].actor
    /\ req[r].new_role = "owner" => req[r].actor_role = "owner"

IsTransfer(r) == req[r].new_role = "owner"

RoleEntry(r, type, target, old, new) ==
    [action_type |-> type, actor |-> req[r].actor, target |-> target,
     old_role |-> old, new_role |-> new]

(* What change_role adds to the log.                                       *)
RoleEntries_NoDemotion(r) == \* mutant: the auto-demotion is not recorded
    <<RoleEntry(r, IF IsTransfer(r) THEN "ownership_transferred" ELSE "role_changed",
                req[r].target, req[r].old_role, req[r].new_role)>>
RoleEntries_OldNew(r) == \* mutant: old_role read after the assignment
    <<RoleEntry(r, "role_changed", req[r].target, req[r].new_role, req[r].new_role)>>
RoleEntries(r) ==
    IF IsTransfer(r)
    THEN <<RoleEntry(r, "ownership_transferred", req[r].target, req[r].old_role, "owner"),
           RoleEntry(r, "role_changed", req[r].actor, req[r].actor_role, "admin")>>
    ELSE <<RoleEntry(r, "role_changed", req[r].target, req[r].old_role, req[r].new_role)>>

(* The roles it leaves: a transfer demotes the actor to Admin.             *)
NewRoles_NoDemotion(r) == \* mutant: the previous Owner stays an Owner
    [member EXCEPT ![req[r].target].role = req[r].new_role]
NewRoles(r) ==
    [m \in Memberships |->
        IF m = req[r].target THEN [member[m] EXCEPT !.role = req[r].new_role]
        ELSE IF m = req[r].actor /\ IsTransfer(r) THEN [member[m] EXCEPT !.role = "admin"]
        ELSE member[m]]

(* PATCH, first part: MembershipService.change_role, a transaction.        *)
ChangeRole(r) ==
    /\ req[r].pc = "loaded" /\ req[r].op = "patch" /\ req[r].new_role # Null
    /\ MayChangeRole(r)
    /\ member' = NewRoles(r)
    /\ log' = log \o RoleEntries(r)
    /\ IF req[r].sets_reports_to THEN req' = [req EXCEPT ![r].pc = "patched"]
                                 ELSE Finish(r)
    /\ UNCHANGED <<rows, invited, begun>>

(* PATCH, second part: the manager is looked up and change_reports_to      *)
(* writes the column, in a transaction of its own.                         *)
ChangeReportsTo(r) ==
    LET t == req[r].target
        m == req[r].reports_to IN
    /\ \/ req[r].pc = "patched"
       \/ req[r].pc = "loaded" /\ req[r].op = "patch" /\ req[r].new_role = Null
    /\ m # Null => m \in Active /\ m # t
    /\ member' = [member EXCEPT ![t].reports_to = m]
    /\ Finish(r)
    /\ UNCHANGED <<rows, invited, log, begun>>

(* DELETE: MembershipService.remove, a soft delete and its audit row.      *)
Remove(r) ==
    LET t == req[r].target IN
    /\ req[r].pc = "loaded" /\ req[r].op = "remove"
    /\ t # req[r].actor
    /\ member' = [member EXCEPT ![t].deleted = TRUE]
    /\ log' = Append(log, RoleEntry(r, "member_removed", t, req[r].old_role, Null))
    /\ Finish(r)
    /\ UNCHANGED <<rows, invited, begun>>

(* POST .../restore/: refused by the constraint when the user is a member  *)
(* again; its read and its UPDATE are one step since a row that is no      *)
(* longer deleted by then is left as it is.                                *)
Restore_Unchecked(r, t) == \* mutant: without the partial UNIQUE index
    /\ req[r].pc = "authorized"
    /\ t \in rows \ Active
    /\ member' = [member EXCEPT ![t].deleted = FALSE]
    /\ Finish(r)
    /\ UNCHANGED <<rows, invited, log, begun>>
Restore(r, t) ==
    /\ req[r].pc = "authorized"
    /\ t \in rows \ Active
    /\ NoneActive(member[t].user)
    /\ member' = [member EXCEPT ![t].deleted = FALSE]
    /\ Finish(r)
    /\ UNCHANGED <<rows, invited, log, begun>>

(* Any refusal (404, ValueError, IntegrityError) or a crash: what earlier  *)
(* transactions of the request wrote stays.                                *)
Abort(r) ==
    /\ req[r].pc # "idle"
    /\ Finish(r)
    /\ UNCHANGED <<rows, member, invited, log, begun>>

-------------------------------------------------------------------------------
(* SignupService: an organisation starts with its Owner.                   *)
Init ==
    /\ rows = {Founder}
    /\ \E u \in Users : member = [m \in Memberships |-> NewMember(u, "owner")]
    /\ invited = [m \in Memberships |-> "owner"]
    /\ log = <<>>
    /\ req = [r \in Requests |-> Idle]
    /\ begun = 0
    /\ overlapped = FALSE

(* overlapped records whether requests have come one by one so far.        *)
Beside(workers) ==
    overlapped' = (overlapped \/ \E r \in workers : req[r].pc # "idle")

Serve(r) ==
    \/ \E a \in Memberships : Authorize(r, a)
    \/ \E t \in Memberships : LoadPatch(r, t) \/ LoadRemoval(r, t) \/ Restore(r, t)
    \/ ChangeRole(r) \/ ChangeReportsTo(r) \/ Remove(r) \/ Abort(r)

Next ==
    \/ \E r \in Requests : Serve(r) /\ Beside(Requests \ {r})
    \/ \E m \in Memberships, u \in Users, role \in Roles :
          Join(m, u, role) /\ Beside(Requests)

Spec == Init /\ [][Next]_vars

-------------------------------------------------------------------------------
(* Properties                                                              *)

(* Columns, audit rows and requests stay within their types.               *)
TypeOK ==
    /\ rows \subseteq Memberships
    /\ member \in [Memberships -> Row]
    /\ invited \in [Memberships -> Roles]
    /\ log \in Seq(Entry)
    /\ req \in [Requests -> Request]
    /\ begun \in Nat
    /\ overlapped \in BOOLEAN

(* A user has at most one active membership: accepting an invitation and   *)
(* restoring an old row never both succeed, in any order.                  *)
OneActiveMembership ==
    \A m, n \in Active : member[m].user = member[n].user => m = n

(* Business Rules 3.3: the log accounts for every role.  The newest entry  *)
(* that gives a member a role states the role the row has, or else it has  *)
(* the role it was invited with, although roles are written from copies.   *)
Given(m, i) == i \in 1..Len(log) /\ log[i].target = m /\ log[i].new_role # Null

LogAccountsForRole ==
    \A m \in rows :
        \/ /\ \A i \in 1..Len(log) : ~Given(m, i)
           /\ member[m].role = invited[m]
        \/ \E i \in 1..Len(log) :
              /\ Given(m, i) /\ log[i].new_role = member[m].role
              /\ \A j \in (i + 1)..Len(log) : ~Given(m, j)

(* Business Rules 3.4: whoever changes a role or removes a member was made *)
(* Owner or Admin before, and who hands ownership on was made Owner, by    *)
(* invitation or by an earlier entry: no role comes out of nothing, even   *)
(* by requests of members who are demoted or removed while they run.       *)
HadRole(m, i, role) ==
    \/ invited[m] = role
    \/ \E j \in 1..(i - 1) : log[j].target = m /\ log[j].new_role = role

ActorsHadTheRole ==
    \A i \in 1..Len(log) :
        \E role \in IF log[i].action_type = "ownership_transferred" THEN {"owner"}
                    ELSE {"owner", "admin"} :
           HadRole(log[i].actor, i, role)

(* Every entry of the log states the role its predecessor left.            *)
Chain ==
    \A i, j \in 1..Len(log) :
        /\ i < j /\ log[i].target = log[j].target /\ log[i].new_role # Null
        /\ \A k \in (i + 1)..(j - 1) : ~Given(log[i].target, k)
        => log[j].old_role = log[i].new_role

(* Every entry states as old role one that its member had been given, even *)
(* if another request has changed it since it was read; and as long as     *)
(* requests have come one by one, the audit trail has no gap.              *)
LogIsAChain ==
    /\ \A i \in 1..Len(log) : HadRole(log[i].target, i, log[i].old_role)
    /\ ~overlapped => Chain

(* services.py:164: ownership transfer is a handoff, never an addition.    *)
(* Unless somebody joins or is restored, only one thing adds to the number *)
(* of Owners: a transfer whose actor was Owner when it was checked, and    *)
(* was demoted or removed by another request before it was written.        *)
Overtaken(r) == /\ req[r].actor_role = "owner" /\ req[r].new_role = "owner"
                /\ req[r].actor \notin Owners

OwnersNeverMultiply ==
    [][Active' \subseteq Active =>
          \/ Cardinality(Owners') <= Cardinality(Owners)
          \/ \E r \in Requests : req'[r] # req[r] /\ Overtaken(r)]_vars

(* Business Rules 3.4: a user can never elevate their own role.  A request *)
(* may raise its actor only if others have demoted him since the check,    *)
(* and then to less than what he was checked with.                         *)
Rank(role) == IF role = "owner" THEN 2 ELSE IF role = "admin" THEN 1 ELSE 0

NeverElevatesSelf ==
    [][\A r \in Requests :
          req[r].pc = "loaded" /\ req'[r] # req[r] =>
             \/ Rank(member'[req[r].actor].role) <= Rank(member[req[r].actor].role)
             \/ Rank(member'[req[r].actor].role) < Rank(req[r].actor_role)]_vars
===============================================================================

-------------------------------- MODULE Access --------------------------------
(***************************************************************************)
(* What a role may see and write: the permission matrix.                   *)
(*                                                                         *)
(* Source: apps/core/permissions.py, apps/core/viewsets.py, the *_ROLE_-   *)
(* SCOPE_MAP of the views, TeamService, and the two other translations of  *)
(* a scope, apps/search/services.py and apps/collaboration/permissions.py. *)
(*                                                                         *)
(* The matrix is per role; a member's role and team are read when a        *)
(* request asks, so the modules that use these operators pass them in.     *)
(***************************************************************************)

MatrixRoles == {"owner", "admin", "sales_manager", "sales_agent",
                "support_agent", "viewer"}
Scopes == {"full", "team", "own", "readonly_org", "none"}

LeadScope ==
    [owner |-> "full", admin |-> "full", sales_manager |-> "team",
     sales_agent |-> "own", support_agent |-> "none", viewer |-> "readonly_org"]

TicketScope ==
    [owner |-> "full", admin |-> "full", sales_manager |-> "readonly_org",
     sales_agent |-> "none", support_agent |-> "team", viewer |-> "readonly_org"]

ActivityScope ==
    [owner |-> "full", admin |-> "full", sales_manager |-> "team",
     sales_agent |-> "own", support_agent |-> "own", viewer |-> "readonly_org"]

(* RoleMatrixPermission, for a method that writes.                         *)
MayWrite(scope) == scope \notin {"none", "readonly_org"}

(* RoleScopedQuerysetMixin: is a row held by `holder` (its owner or its    *)
(* assignee, or nobody) in the queryset of member m, whose reports are     *)
(* `team`?                                                                 *)
InScope(scope, m, team, holder) ==
    \/ scope \in {"full", "readonly_org"}
    \/ scope = "own" /\ holder = m
    \/ scope = "team" /\ holder \in team \cup {m}

(* assert_can_assign_owner and _assert_can_assign: to whom a member may    *)
(* give a row.                                                             *)
MayAssign(scope, m, team, holder) ==
    \/ scope = "full"
    \/ scope = "own" /\ holder = m
    \/ scope = "team" /\ holder \in team \cup {m}
===============================================================================

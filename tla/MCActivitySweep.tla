---------------------------- MODULE MCActivitySweep ---------------------------
(***************************************************************************)
(* ActivitySweep for TLC: an organisation with an activity, an Admin and a *)
(* Sales Agent.  What a sweep does in other organisations before shows as  *)
(* delay, or as a failure.                                                 *)
(***************************************************************************)
EXTENDS ActivitySweep, TLC

CONSTANTS g1, a1, m1, m2

Places    == (a1 :> g1) @@ (m1 :> g1) @@ (m2 :> g1)
Roles     == (m1 :> "admin") @@ (m2 :> "sales_agent")
Reporting == (m1 :> Null) @@ (m2 :> m1)
===============================================================================

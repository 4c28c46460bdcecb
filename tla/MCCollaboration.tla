---------------------------- MODULE MCCollaboration ---------------------------
(***************************************************************************)
(* Collaboration for TLC: an Owner, the Sales Agent a whose lead it is,    *)
(* and another, b, who may not see it until it is given to him.            *)
(***************************************************************************)
EXTENDS Collaboration, TLC

CONSTANTS o, a, b

Roles     == (o :> "owner") @@ (a :> "sales_agent") @@ (b :> "sales_agent")
Reporting == (o :> Stranger) @@ (a :> o) @@ (b :> o)
Texts     == {{a, Stranger}, {b}, {a, b}}

(* Workers are interchangeable.                                            *)
Workers == Permutations(Requests)
===============================================================================

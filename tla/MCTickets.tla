------------------------------- MODULE MCTickets ------------------------------
(***************************************************************************)
(* Tickets for TLC: an Owner, and a Support Agent who reports to him.      *)
(***************************************************************************)
EXTENDS Tickets, TLC

CONSTANTS o, s

Roles     == (o :> "owner") @@ (s :> "support_agent")
Reporting == (o :> Null) @@ (s :> o)

(* Workers are interchangeable.                                            *)
Workers == Permutations(Requests)
===============================================================================

--------------------------- MODULE CustomerAssignment --------------------------
(***************************************************************************)
(* What the Won pathway promises about customers, without requests, stages *)
(* or searches (Business Rules 5.3, 6.2 and 6.4): a lead gets a customer   *)
(* at most once and keeps it for ever, and every customer there is was the *)
(* customer of some lead from its first moment.                            *)
(***************************************************************************)
CONSTANTS Leads, Customers, Null

VARIABLES
    assigned, \* the customer of each lead, or Null
    known     \* the customers that exist

vars == <<assigned, known>>

Init ==
    /\ assigned \in [Leads -> Customers \cup {Null}]
    /\ known = {assigned[l] : l \in Leads} \ {Null}

(* A lead without a customer gets one, new or known.                       *)
Assign(l, c) ==
    /\ assigned[l] = Null
    /\ assigned' = [assigned EXCEPT ![l] = c]
    /\ known' = known \cup {c}

Next == \E l \in Leads, c \in Customers : Assign(l, c)

Spec == Init /\ [][Next]_vars
===============================================================================

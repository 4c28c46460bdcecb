--------------------------- MODULE TicketLifecycle ----------------------------
(***************************************************************************)
(* The promise of Business Rules 7.3 on the status of tickets: Open, In    *)
(* Progress, Resolved, Closed, in that order, and Reopened from Resolved   *)
(* or Closed.                                                              *)
(*                                                                         *)
(* As long as requests come one by one a ticket moves from the status it   *)
(* has.  Requests that overlap may move it from a status it had once: that *)
(* still rules out closing what was never resolved, or reopening it.       *)
(***************************************************************************)
CONSTANTS Tickets, Null

VARIABLES
    status,     \* the status of each ticket, Null before it is created
    past,       \* every status it has had so far
    shared      \* have requests overlapped?

vars == <<status, past, shared>>

Successors ==
    [open |-> {"in_progress"}, in_progress |-> {"resolved"},
     resolved |-> {"closed", "reopened"}, closed |-> {"reopened"},
     reopened |-> {"in_progress", "resolved"}]

Enter(t, s) == /\ status' = [status EXCEPT ![t] = s]
               /\ past' = [past EXCEPT ![t] = @ \cup {s}]

Open(t) == status[t] = Null /\ Enter(t, "open")

Move(t) == \E from \in IF shared' THEN past[t] ELSE {status[t]} :
              /\ from \in DOMAIN Successors
              /\ \E to \in Successors[from] : Enter(t, to)

Share == UNCHANGED <<status, past>>

Init == /\ status \in [Tickets -> DOMAIN Successors \cup {Null}]
        /\ past \in [Tickets -> SUBSET DOMAIN Successors]
        /\ \A t \in Tickets : IF status[t] = Null THEN past[t] = {} ELSE status[t] \in past[t]
        /\ shared = FALSE

Next == /\ shared => shared'
        /\ Share \/ \E t \in Tickets : Open(t) \/ Move(t)

Spec == Init /\ [][Next]_vars
===============================================================================

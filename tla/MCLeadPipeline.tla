---------------------------- MODULE MCLeadPipeline ----------------------------
(* Instances of LeadPipeline for TLC.                                      *)
EXTENDS LeadPipeline, TLC

CONSTANTS l1, l2, l3, c1, c2, c3, e1, p1

(* Two leads won earlier, for a customer with e1 and one with p1.          *)
TwoPast == [l \in Leads |-> IF l = l1 THEN c1 ELSE IF l = l2 THEN c2 ELSE Null]
TwoPastCustomers ==
    [c \in Customers |-> NewCustomer(IF c = c1 THEN e1 ELSE Null,
                                     IF c = c2 THEN p1 ELSE Null)]

(* Workers are interchangeable.                                            *)
Workers == Permutations(Requests)
===============================================================================

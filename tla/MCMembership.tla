----------------------------- MODULE MCMembership -----------------------------
(* Instances of Membership for TLC.                                        *)
EXTENDS Membership, TLC

CONSTANT m1 \* the founder

(* Workers and users are interchangeable, and so are the memberships beside *)
(* the founder's.                                                          *)
Symmetry == Permutations(Requests) \cup Permutations(Users) \cup Permutations(Memberships \ {m1})
===============================================================================

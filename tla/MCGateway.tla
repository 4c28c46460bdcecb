------------------------------ MODULE MCGateway -------------------------------
(***************************************************************************)
(* Gateway for TLC.  Workers and organisations are interchangeable.        *)
(***************************************************************************)
EXTENDS Gateway, TLC

Alike == Permutations(Workers) \cup Permutations(Orgs)
===============================================================================

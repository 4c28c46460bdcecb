--------------------------- MODULE MCRefreshTokens ----------------------------
(***************************************************************************)
(* RefreshTokens for TLC: workers are interchangeable.                     *)
(***************************************************************************)
EXTENDS RefreshTokens, TLC

Symmetry == Permutations(Requests)
===============================================================================

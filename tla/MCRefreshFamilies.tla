-------------------------- MODULE MCRefreshFamilies --------------------------
(* Instances of RefreshFamilies for TLC. *)
EXTENDS RefreshFamilies, TLC

Symmetry == Permutations(Token) \cup Permutations(Family) \cup Permutations(Request)
==============================================================================

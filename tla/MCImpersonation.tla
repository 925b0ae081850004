--------------------------- MODULE MCImpersonation ---------------------------
(* Instances of Impersonation for TLC: one administrator, one member. *)
EXTENDS Impersonation, TLC

CONSTANTS b1, admin

OneAdmin == b1 :> admin
Symmetry == Permutations(SessionId) \cup Permutations(Task) \cup Permutations(Mode)
==============================================================================

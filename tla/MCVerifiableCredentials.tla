------------------------ MODULE MCVerifiableCredentials ------------------------
(* Instances of VerifiableCredentials for TLC. *)
EXTENDS VerifiableCredentials, TLC

Symmetry == Permutations(Request)
================================================================================

----------------------------- MODULE MCCodeGrant -----------------------------
(* Instances of CodeGrant for TLC: one user's flows at two clients, and another  *)
(* user's flow at the first of them.                                         *)
EXTENDS CodeGrant, TLC

CONSTANTS f1, f2, f3, c1, c2, u1, u2

TwoClients == f1 :> c1 @@ f2 :> c2
OneUser == f1 :> u1 @@ f2 :> u1

ThreeClients == f1 :> c1 @@ f2 :> c2 @@ f3 :> c2
TwoUsers == f1 :> u1 @@ f2 :> u1 @@ f3 :> u2
==============================================================================

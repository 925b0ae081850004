------------------------------ MODULE MCSessions ------------------------------
(* Instances of Sessions for TLC. *)
EXTENDS Sessions, TLC

Symmetry == Permutations(SessionId) \cup Permutations(User) \cup Permutations(Task)

\* One application signs in with passwords and never rewrites a stored row, another
\* with passkeys and OAuth providers, pushing changes of its user records, and a third
\* links further providers to a signed-in user.
PasswordsOrPasskeys ==
    {{"login", "signout", "revoke", "revoke one", "status", "cleanup", "sweep"},
     {"passkey", "renew", "refresh"},
     {"login", "signout", "status", "link"}}

OAuthOnly == {{"login", "signout", "renew"}}
===============================================================================

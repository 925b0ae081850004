----------------------------- MODULE GrantLineage -----------------------------
(***************************************************************************)
(* What a refresh-token family promises to the application it was granted  *)
(* to: a grant is born once, is represented at any time by exactly one     *)
(* current token, replaces that token only by one never used before, and,  *)
(* once ended, never represents anyone again.                              *)
(***************************************************************************)
CONSTANTS Family, Token, None

VARIABLES
    phase,      \* family -> "unborn", "live" or "ended"
    head,       \* family -> the one token that represents a live family
    spent       \* every token that has ever represented a family

lineageVars == <<phase, head, spent>>

LineageInit ==
    /\ phase = [f \in Family |-> "unborn"]
    /\ head = [f \in Family |-> None]
    /\ spent = {}

Born(f, t) ==
    /\ phase[f] = "unborn"
    /\ t \notin spent
    /\ phase' = [phase EXCEPT ![f] = "live"]
    /\ head' = [head EXCEPT ![f] = t]
    /\ spent' = spent \cup {t}

Advance(f, t) ==
    /\ phase[f] = "live"
    /\ t \notin spent
    /\ head' = [head EXCEPT ![f] = t]
    /\ spent' = spent \cup {t}
    /\ UNCHANGED phase

\* One call may end several grants: every family of a user, or of a client.
End(fs) ==
    /\ \A f \in fs : phase[f] = "live"
    /\ phase' = [f \in Family |-> IF f \in fs THEN "ended" ELSE phase[f]]
    /\ head' = [f \in Family |-> IF f \in fs THEN None ELSE head[f]]
    /\ UNCHANGED spent

LineageNext ==
    \/ \E f \in Family, t \in Token : Born(f, t) \/ Advance(f, t)
    \/ \E fs \in SUBSET Family : End(fs)

LineageSpec == LineageInit /\ [][LineageNext]_lineageVars
===============================================================================
